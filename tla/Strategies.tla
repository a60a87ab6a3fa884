----------------------------- MODULE Strategies -----------------------------
(***************************************************************************)
(* The strategies of the Python runtime (strategies.py): runs of one       *)
(* coordinator, each in a thread of its own, that share its agents and its *)
(* memory (memory.py).  A call of an agent, or of all agents at once, is   *)
(* one step here that brings an answer or an error, or aborts the run      *)
(* (AgentCalls has its insides); what is remembered of it is added to the  *)
(* memory message by message, between those of other runs.  The execution  *)
(* of a plan is one step as well (TaskScheduler has its insides).          *)
(*                                                                         *)
(* A job is [kind, rounds, order, judge, lead, workers, window, hide,      *)
(* limited]: options of the run with NoName or <<>> for "not given", and   *)
(* the context policy, where limited says that it has a max_chars, which   *)
(* may then cut any text it applies to, or none.  A text is [of, cut]:     *)
(* what it is made of, one after the other, and whether something of it is *)
(* cut off.  The agents stay registered.                                   *)
(***************************************************************************)
EXTENDS PlanPipeline, Integers

CONSTANTS
    Runs,
    Names,         (* of the agents, in the order of their registration     *)
    Answers,       (* what an agent may answer                              *)
    PlanAnswers,   (* what the lead may answer when asked for a plan        *)
    Votes,         (* [exact, named]: the names a vote has behind "vote:"   *)
    StartOf,       (* pairs: a name, and a longer one that begins with it   *)
    Jobs,          (* which jobs the runs may have: functions of the run    *)
    Capacity       (* of the memory                                         *)

Prompt == "prompt"
Error == "error"
NoError == "none"  (* in place of the error a run is refused or ends with    *)
NoPolicy == -1     (* as the window: no context policy at all               *)
Unlimited == -2    (* as the window: a policy without one                   *)

isSeq(s) == s \in Seq(ToSet(s))
firstStage ==
    [broadcast |-> "round", debate |-> "round", sequential |-> "turn", relay |-> "turn",
     consensus |-> "propose", supervisor |-> "plan"]

ASSUME StrategiesAssumption ==
    /\ Capacity \in Nat \ {0}
    /\ isSeq(Names) /\ Len(Names) > 0 /\ NoName \notin ToSet(Names)
    /\ \A i, j \in DOMAIN Names : Names[i] = Names[j] => i = j

(* Only a context policy hides or limits anything.                          *)
ASSUME JobsAssumption ==
    \A j \in Jobs : \A p \in Runs :
       /\ j[p].kind \in DOMAIN firstStage /\ j[p].rounds \in Int
       /\ isSeq(j[p].order) /\ isSeq(j[p].workers)
       /\ j[p].window \in Nat \cup {NoPolicy, Unlimited}
       /\ j[p].hide \in BOOLEAN /\ j[p].limited \in BOOLEAN
       /\ j[p].window = NoPolicy => ~j[p].hide /\ ~j[p].limited

ASSUME AnswersAssumption ==
    /\ Error \notin Answers
    /\ \A v \in Votes : v.exact \in BOOLEAN /\ IsFiniteSet(v.named)
    /\ \A a \in PlanAnswers :
          /\ a.lines \in Nat /\ isSeq(a.entries)
          /\ \A e \in ToSet(a.entries) : isSeq(e.id) /\ e.blank \in BOOLEAN

VARIABLES
    job,
    stage, round, turn,
    waiting,       (* the next call is still to be made                     *)
    log,           (* the calls' answers: sequences of <<name, answer>>     *)
    queue,         (* messages to remember before going on                  *)
    memory,        (* messages [run, by, text]; by is NoName for a prompt   *)
    text,          (* what is handed on: last, transcript or draft          *)
    ballot,        (* what came of the vote, and what was meant by it       *)
    plan,          (* the lead's answer and the tasks made of it            *)
    final          (* the result, or the error that was raised              *)

progress == <<stage, round, turn>>
strategiesVars ==
    <<job, progress, waiting, log, queue, memory, text, ballot, plan, final>>

registered(n) == n \in ToSet(Names)
message(p, by, t) == [run |-> p, by |-> by, text |-> t]
whole(parts) == [of |-> parts, cut |-> FALSE]
Nobody == [winner |-> NoName, meant |-> NoName, clear |-> TRUE]
NoPlan == [answer |-> [entries |-> <<>>, lines |-> 1], tasks |-> <<>>]
Unfinished == [raised |-> NoError, text |-> whole(<<>>)]

StrategiesInit ==
    /\ job \in Jobs
    /\ stage = [p \in Runs |-> "new"] /\ round = [p \in Runs |-> 1]
    /\ turn = [p \in Runs |-> 1] /\ waiting = [p \in Runs |-> TRUE]
    /\ log = [p \in Runs |-> <<>>] /\ queue = [p \in Runs |-> <<>>] /\ memory = <<>>
    /\ text = [p \in Runs |-> whole(<<Prompt>>)]
    /\ ballot = [p \in Runs |-> Nobody] /\ plan = [p \in Runs |-> NoPlan]
    /\ final = [p \in Runs |-> Unfinished]

-----------------------------------------------------------------------------
default(option, name) ==
    IF option # NoName THEN option
    ELSE IF registered(name) THEN name ELSE Names[1]
judge(p) == default(job[p].judge, "judge")
lead(p) == default(job[p].lead, "supervisor")
order(p) == IF job[p].order = <<>> THEN Names ELSE job[p].order
workers(p) ==
    IF job[p].workers # <<>> THEN job[p].workers
    ELSE keep(Names, ToSet(Names) \ {lead(p)})
rounds(p) == IF job[p].rounds < 1 THEN 1 ELSE job[p].rounds

(* What is raised before anything is asked or remembered.                   *)
refusal(p) ==
    LET kind == job[p].kind IN
    CASE kind \in {"debate", "consensus"} /\ Len(Names) < 2 -> "StrategyError"
      [] kind = "relay" /\ Len(order(p)) < 2 -> "StrategyError"
      [] kind \in {"sequential", "relay"} /\ \E n \in ToSet(order(p)) : ~registered(n)
            -> "AgentNotFound"
      [] kind = "supervisor" /\ ~registered(lead(p)) -> "AgentNotFound"
      [] kind = "supervisor" /\ workers(p) = <<>> -> "StrategyError"
      [] kind = "supervisor" /\ \E n \in ToSet(workers(p)) : ~registered(n)
            -> "AgentNotFound"
      [] OTHER -> NoError

raise(p, error) ==
    /\ stage' = [stage EXCEPT ![p] = "done"]
    /\ final' = [final EXCEPT ![p].raised = error]

enter(p, s) == stage' = [stage EXCEPT ![p] = s]

return(p, t) ==
    /\ enter(p, "done") /\ final' = [final EXCEPT ![p].text = t]

Start(p) ==
    /\ stage[p] = "new"
    /\ IF refusal(p) # NoError
          THEN raise(p, refusal(p)) /\ UNCHANGED queue
          ELSE /\ enter(p, firstStage[job[p].kind])
               /\ queue' = [queue EXCEPT ![p] = <<message(p, NoName, Prompt)>>]
               /\ UNCHANGED final
    /\ UNCHANGED <<job, round, turn, waiting, log, memory, text, ballot, plan>>

(* mutant: a full memory takes nothing more *)
Remember_refuses(p) ==
    /\ queue[p] # <<>>
    /\ memory' = IF Len(memory) = Capacity THEN memory ELSE Append(memory, Head(queue[p]))
    /\ queue' = [queue EXCEPT ![p] = Tail(@)]
    /\ UNCHANGED <<job, progress, waiting, log, text, ballot, plan, final>>

(* MessageStore.add: beyond the capacity the oldest are dropped.            *)
Remember(p) ==
    /\ queue[p] # <<>>
    /\ LET longer == Append(memory, Head(queue[p])) IN
       memory' = IF Len(longer) > Capacity
                 THEN SubSeq(longer, Len(longer) - Capacity + 1, Len(longer)) ELSE longer
    /\ queue' = [queue EXCEPT ![p] = Tail(@)]
    /\ UNCHANGED <<job, progress, waiting, log, text, ballot, plan, final>>

-----------------------------------------------------------------------------
good(entry) == keep(entry, {a \in ToSet(entry) : a[2] # Error})
messages(p, entry) ==
    LET g == good(entry) IN [i \in DOMAIN g |-> message(p, g[i][1], g[i][2])]

ready(p) == stage[p] \notin {"new", "done"} /\ queue[p] = <<>>

noted(p, entry) ==
    /\ log' = [log EXCEPT ![p] = Append(@, entry)]
    /\ queue' = [queue EXCEPT ![p] = messages(p, entry)]
    /\ waiting' = [waiting EXCEPT ![p] = FALSE]

(* A parallel call of all agents, answered in the order of registration.    *)
AskAll(p) ==
    /\ ready(p) /\ waiting[p] /\ stage[p] \in {"round", "propose"}
    /\ \E f \in [ToSet(Names) -> Answers \cup {Error}] :
          noted(p, [i \in DOMAIN Names |-> <<Names[i], f[Names[i]]>>])
    /\ UNCHANGED <<job, progress, memory, text, ballot, plan, final>>

(* Whom a call of one agent is for.  A judge who is not registered is an    *)
(* error of the call in a consensus; a debate raises instead.               *)
asked(p) ==
    CASE stage[p] = "turn" -> order(p)[turn[p]]
      [] stage[p] = "judge" -> judge(p)
      [] stage[p] \in {"plan", "report"} -> lead(p)

AskOne(p) ==
    /\ ready(p) /\ waiting[p] /\ stage[p] \in {"turn", "judge", "report"}
    /\ IF ~registered(asked(p)) /\ job[p].kind = "debate"
          THEN raise(p, "AgentNotFound") /\ UNCHANGED <<log, queue, waiting>>
          ELSE /\ \E a \in (IF registered(asked(p)) THEN Answers ELSE {}) \cup {Error} :
                     noted(p, <<<<asked(p), a>>>>)
               /\ UNCHANGED <<stage, final>>
    /\ UNCHANGED <<job, round, turn, memory, text, ballot, plan>>

(* A spent budget or deadline ends the run in a call, or the scheduler does *)
(* when it finds tasks that cannot be resolved.                             *)
Abort(p) ==
    /\ ready(p) /\ waiting[p]
    /\ ~(stage[p] = "judge" /\ job[p].kind = "debate" /\ ~registered(judge(p)))
    /\ \E e \in {"BudgetExceeded", "RunTimeout"} \cup
             (IF stage[p] = "work" THEN {"TaskError"} ELSE {}) : raise(p, e)
    /\ UNCHANGED <<job, round, turn, waiting, log, queue, memory, text, ballot, plan>>

-----------------------------------------------------------------------------
lastOf(p) == log[p][Len(log[p])]
textsOf(entry) == LET g == good(entry) IN [i \in DOMAIN g |-> g[i][2]]

(* Once what was answered is remembered, the strategy goes on: to the same  *)
(* stage for the next call, to another one, or to its result.               *)
proceeds(p) == ready(p) /\ ~waiting[p]
askAgain(p) == waiting' = [waiting EXCEPT ![p] = TRUE]

(* mutant: without answers, the next round gets nothing *)
joined_noFallback(p) == whole(textsOf(lastOf(p)))

(* _join, with what was handed on before as the fallback                    *)
joined(p) ==
    LET parts == textsOf(lastOf(p)) IN IF parts = <<>> THEN text[p] ELSE whole(parts)

(* What is fed back of it: under a max_chars it goes behind the prompt,     *)
(* whether it is then cut or not.                                           *)
fedBack(p) ==
    IF job[p].limited
    THEN {[of |-> <<Prompt>> \o joined(p).of, cut |-> c] : c \in {joined(p).cut, TRUE}}
    ELSE {joined(p)}

(* A round of a broadcast: its answers are the next one's input, the last   *)
(* one's the result.                                                        *)
BroadcastRound(p) ==
    /\ proceeds(p) /\ stage[p] = "round" /\ job[p].kind = "broadcast"
    /\ IF round[p] < rounds(p)
          THEN /\ round' = [round EXCEPT ![p] = @ + 1] /\ askAgain(p)
               /\ \E t \in fedBack(p) : text' = [text EXCEPT ![p] = t]
               /\ UNCHANGED <<stage, final>>
          ELSE return(p, joined(p)) /\ UNCHANGED <<round, waiting, text>>
    /\ UNCHANGED <<job, turn, log, queue, memory, ballot, plan>>

DebateRound(p) ==
    /\ proceeds(p) /\ stage[p] = "round" /\ job[p].kind = "debate" /\ askAgain(p)
    /\ IF round[p] < rounds(p)
          THEN round' = [round EXCEPT ![p] = @ + 1] /\ UNCHANGED stage
          ELSE enter(p, "judge") /\ UNCHANGED round
    /\ UNCHANGED <<job, turn, log, queue, memory, text, ballot, plan, final>>

(* A judge's or the lead's last word is the result, also when it is none.   *)
LastWord(p) ==
    /\ proceeds(p) /\ stage[p] \in {"judge", "report"}
    /\ return(p, whole(<<lastOf(p)[1][2]>>))
    /\ UNCHANGED <<job, round, turn, waiting, log, queue, memory, text, ballot, plan>>

SequentialTurn(p) ==
    /\ proceeds(p) /\ stage[p] = "turn" /\ job[p].kind = "sequential"
    /\ IF turn[p] < Len(order(p))
          THEN turn' = [turn EXCEPT ![p] = @ + 1] /\ askAgain(p)
               /\ UNCHANGED <<stage, final>>
          ELSE return(p, whole(<<lastOf(p)[1][2]>>)) /\ UNCHANGED <<turn, waiting>>
    /\ UNCHANGED <<job, round, log, queue, memory, text, ballot, plan>>

(* The draft with which the round began: what was answered before it.       *)
latest(p, n) ==
    LET drafted == {i \in 1 .. n : log[p][i][1][2] # Error} IN
    IF drafted = {} THEN Prompt
    ELSE log[p][CHOOSE i \in drafted : \A j \in drafted : j <= i][1][2]

(* A turn of a relay; a round that leaves the draft as it was is the last.  *)
RelayTurn(p) ==
    /\ proceeds(p) /\ stage[p] = "turn" /\ job[p].kind = "relay"
    /\ LET a == lastOf(p)[1][2]
           draft == IF a = Error THEN text[p] ELSE whole(<<a>>)
           begun == whole(<<latest(p, (round[p] - 1) * Len(order(p)))>>)
       IN  /\ text' = [text EXCEPT ![p] = draft]
           /\ IF turn[p] < Len(order(p))
                 THEN turn' = [turn EXCEPT ![p] = @ + 1] /\ askAgain(p)
                      /\ UNCHANGED <<stage, round, final>>
                 ELSE IF round[p] < rounds(p) /\ draft # begun
                 THEN /\ turn' = [turn EXCEPT ![p] = 1] /\ askAgain(p)
                      /\ round' = [round EXCEPT ![p] = @ + 1] /\ UNCHANGED <<stage, final>>
                 ELSE return(p, draft) /\ UNCHANGED <<round, turn, waiting>>
    /\ UNCHANGED <<job, log, queue, memory, ballot, plan>>

-----------------------------------------------------------------------------
ToVote(p) ==
    /\ proceeds(p) /\ stage[p] = "propose" /\ enter(p, "vote") /\ askAgain(p)
    /\ UNCHANGED <<job, round, turn, log, queue, memory, text, ballot, plan, final>>

(* _parse_vote: the first candidate whose name begins a name behind a       *)
(* "vote:", unless the vote is one name and nothing else.                   *)
parsedVote(v) ==
    LET found(c) == \E m \in v.named : m = c \/ (~v.exact /\ <<c, m>> \in StartOf)
        places == {i \in DOMAIN Names : found(Names[i])}
    IN  IF places = {} THEN NoName
        ELSE Names[CHOOSE i \in places : \A j \in places : i <= j]

(* The one with more votes than any other, if there is one                  *)
leader(choice) ==
    LET count(c) == Cardinality({n \in DOMAIN choice : choice[n] = c})
        ahead == {c \in ToSet(Names) : count(c) > 0 /\
                     \A d \in ToSet(Names) \ {c} : count(c) > count(d)}
    IN  IF ahead = {} THEN NoName ELSE CHOOSE c \in ahead : TRUE

(* Counter.most_common: the first of the two best, if it has more.          *)
counted(choice) == leader(choice)

meant(v) == IF Cardinality(v.named) = 1 THEN CHOOSE n \in v.named : TRUE ELSE NoName
clearVote(v) ==
    /\ Cardinality(v.named) <= 1
    /\ v.exact \/ \A c \in ToSet(Names), m \in v.named : <<c, m>> \notin StartOf

(* Everyone votes; the votes are not remembered.  A proposal with the most  *)
(* votes is the result, if it is one; else the judge is asked.              *)
Vote(p) ==
    /\ ready(p) /\ waiting[p] /\ stage[p] = "vote"
    /\ \E f \in [ToSet(Names) -> Votes] :
          LET winner == counted([n \in DOMAIN f |-> parsedVote(f[n])])
              proposal == CHOOSE a \in ToSet(log[p][1]) \cup {<<NoName, Error>>} :
                             a[1] = winner
          IN  /\ ballot' = [ballot EXCEPT ![p] =
                    [winner |-> winner, meant |-> leader([n \in DOMAIN f |-> meant(f[n])]),
                     clear |-> \A n \in DOMAIN f : clearVote(f[n])]]
              /\ IF proposal[2] # Error THEN return(p, whole(<<proposal[2]>>))
                 ELSE enter(p, "judge") /\ UNCHANGED final
    /\ UNCHANGED <<job, round, turn, waiting, log, queue, memory, text, plan>>

-----------------------------------------------------------------------------
(* The lead is asked for a plan; its answer is remembered, then parsed.  An *)
(* error is parsed as well, as the one line of its text.                    *)
AskPlan(p) ==
    /\ ready(p) /\ waiting[p] /\ stage[p] = "plan"
    /\ \/ noted(p, <<<<lead(p), Error>>>>) /\ UNCHANGED plan
       \/ \E a \in PlanAnswers :
             noted(p, <<<<lead(p), "plan">>>>) /\ plan' = [plan EXCEPT ![p].answer = a]
    /\ UNCHANGED <<job, progress, memory, text, ballot, final>>

Plan(p) ==
    /\ proceeds(p) /\ stage[p] = "plan"
    /\ LET tasks == pipeline(parsed(plan[p].answer), workers(p)) IN
       IF tasks = <<>> THEN raise(p, "PlanValidationError") /\ UNCHANGED <<waiting, plan>>
       ELSE /\ plan' = [plan EXCEPT ![p].tasks = tasks]
            /\ enter(p, "work") /\ askAgain(p) /\ UNCHANGED final
    /\ UNCHANGED <<job, round, turn, log, queue, memory, text, ballot>>

(* The scheduler ends with a task done only after those it depends on, and  *)
(* the outputs are remembered in the order of the plan.                     *)
Work(p) ==
    /\ ready(p) /\ waiting[p] /\ stage[p] = "work"
    /\ LET tasks == plan[p].tasks IN
       \E S \in SUBSET (DOMAIN tasks) :
          /\ \A i \in S, j \in DOMAIN tasks : tasks[j].id \in tasks[i].deps => j \in S
          /\ noted(p, [i \in DOMAIN tasks |->
                          <<tasks[i].agent, IF i \in S THEN "output" ELSE Error>>])
    /\ UNCHANGED <<job, progress, memory, text, ballot, plan, final>>

ToReport(p) ==
    /\ proceeds(p) /\ stage[p] = "work" /\ enter(p, "report") /\ askAgain(p)
    /\ UNCHANGED <<job, round, turn, log, queue, memory, text, ballot, plan, final>>

-----------------------------------------------------------------------------
Step(p) ==
    \/ Start(p) \/ Remember(p) \/ AskAll(p) \/ AskOne(p) \/ Abort(p)
    \/ BroadcastRound(p) \/ DebateRound(p) \/ LastWord(p)
    \/ SequentialTurn(p) \/ RelayTurn(p) \/ ToVote(p) \/ Vote(p)
    \/ AskPlan(p) \/ Plan(p) \/ Work(p) \/ ToReport(p)

AllOver == (\A p \in Runs : stage[p] = "done") /\ UNCHANGED strategiesVars

StrategiesNext == (\E p \in Runs : Step(p)) \/ AllOver

StrategiesSpec == StrategiesInit /\ [][StrategiesNext]_strategiesVars
-----------------------------------------------------------------------------
(* mutant: a debater sees only what he said himself *)
contextFor_ownOnly(p, d) ==
    LET h == memory IN
    IF job[p].window = NoPolicy THEN h
    ELSE keep(h, {m \in ToSet(h) : job[p].hide => m.by = d})

(* What a debater is shown: the memory, or by build_context the prompt and  *)
(* the last of what is remembered besides, without his own statements.      *)
contextFor(p, d) ==
    LET prompt == message(p, NoName, Prompt)
        h == IF memory # <<>> /\ memory[1] = prompt THEN Tail(memory) ELSE memory
        recent == IF job[p].window = Unlimited \/ Len(h) <= job[p].window THEN h
                  ELSE SubSeq(h, Len(h) - job[p].window + 1, Len(h))
    IN  IF job[p].window = NoPolicy THEN memory
        ELSE <<prompt>> \o
             keep(recent, {m \in ToSet(recent) : ~(job[p].hide /\ m.by = d)})

-----------------------------------------------------------------------------
(* What a run has said so far, and what the memory has of it                *)
transcript(p, entries) ==
    LET spoken[n \in 0 .. Len(entries)] ==
            IF n = 0 THEN <<message(p, NoName, Prompt)>>
            ELSE spoken[n - 1] \o messages(p, entries[n])
    IN  spoken[Len(entries)]
said(p) ==
    LET all == transcript(p, log[p])
    IN  IF stage[p] = "new" \/ refusal(p) # NoError THEN <<>>
        ELSE SubSeq(all, 1, Len(all) - Len(queue[p]))
remembered(p) == keep(memory, {m \in ToSet(memory) : m.run = p})

StrategiesTypeOK ==
    /\ job \in Jobs
    /\ stage \in [Runs -> {"new", "round", "turn", "judge", "propose", "vote", "plan",
                           "work", "report", "done"}]
    /\ round \in [Runs -> Nat] /\ turn \in [Runs -> Nat] /\ waiting \in [Runs -> BOOLEAN]

(* However the runs of a coordinator are interleaved, its memory is never   *)
(* over its capacity and loses the oldest messages only: of each run it has *)
(* the last things said, each once and in order (memory.py:14-22, :36-52).  *)
MemoryRight ==
    /\ StrategiesTypeOK /\ Len(memory) <= Capacity
    /\ \A p \in Runs :
          /\ IsSuffix(remembered(p), said(p))
          /\ Len(memory) < Capacity => remembered(p) = said(p)

(* What a debater hears before a round is the end of what the others said   *)
(* in this run, and all of it as long as nothing was dropped and there is   *)
(* no window; what he said himself he hears unless it is to be hidden       *)
(* (context.py:94-103, strategies.py:354-377).                              *)
DebateHeard ==
    \A p \in Runs, d \in ToSet(Names) :
       (stage[p] = "round" /\ job[p].kind = "debate" /\ ready(p) /\ waiting[p]) =>
          LET heard == contextFor(p, d)
              others(s) == keep(s, {m \in ToSet(s) : m.run = p /\ m.by \notin {NoName, d}})
              own(s) == keep(s, {m \in ToSet(s) : m.run = p /\ m.by = d})
              all == /\ remembered(p) = said(p)
                     /\ job[p].window \in {NoPolicy, Unlimited}
          IN  /\ IsSuffix(others(heard), others(said(p)))
              /\ all => others(heard) = others(said(p))
              /\ all => own(heard) = IF job[p].hide THEN <<>> ELSE own(said(p))
              /\ all => message(p, NoName, Prompt) \in ToSet(heard)

(* The vote is decided as it was meant, for the one candidate with the most *)
(* votes and for none in a tie, unless a vote names several candidates or   *)
(* one whose name begins with another's (strategies.py:605-607, :587-596,   *)
(* docs/strategies.md:216).                                                 *)
VoteRight == \A p \in Runs : ballot[p].clear => ballot[p].winner = ballot[p].meant

(* A plan is carried out if and only if its dependencies can be resolved,   *)
(* and then with every entry that has a description as a task of its own,   *)
(* all dependencies kept, on the right workers, repaired or not             *)
(* (supervisor.py:10-20, :56-79, :164-181, :276-290).                       *)
PlanRight ==
    \A p \in Runs :
       (plan[p].tasks # <<>> \/ final[p].raised = "PlanValidationError") =>
          LET asTold == parsed(plan[p].answer)
              entries == plan[p].answer.entries
              described == keep(entries, {e \in ToSet(entries) : ~e.blank})
          IN  /\ PlanCarriedOut(asTold, plan[p].tasks, workers(p))
              /\ Cardinality(idsOf(asTold)) = Len(asTold)
              /\ described # <<>> =>
                    [i \in DOMAIN asTold |-> asTold[i].deps] =
                       [i \in DOMAIN described |-> described[i].deps]

repeated(x, n) == [i \in 1 .. n |-> x]

(* The result, told from what was answered: a broadcast's is what the last  *)
(* round with answers said, or the prompt; under a max_chars the prompt     *)
(* stands before it once for every round that was fed back since, and it    *)
(* may be cut if there was such a round; a relay's is the last draft, and  *)
(* only a round that left the draft as it was comes before the last one; a  *)
(* consensus' is the winner's proposal; the others' is the last answer,     *)
(* also when that is an error (strategies.py:277-303, :334-339, :394-403,   *)
(* :538-581, :641-661).                                                     *)
FinalRight ==
    \A p \in Runs :
       (stage[p] = "done" /\ final[p].raised = NoError) =>
          LET result == final[p].text
              n == Len(log[p])
              answeredRounds == {i \in 1 .. n : good(log[p][i]) # <<>>}
              k == IF answeredRounds = {} THEN 1
                   ELSE CHOOSE i \in answeredRounds : \A j \in answeredRounds : j <= i
              drafts(i) == latest(p, i * Len(order(p)))
          IN  CASE job[p].kind = "broadcast" ->
                     /\ n = rounds(p)
                     /\ result.of = repeated(Prompt, IF job[p].limited THEN n - k ELSE 0) \o
                           (IF answeredRounds = {} THEN <<Prompt>> ELSE textsOf(log[p][k]))
                     /\ result.cut => job[p].limited /\ n > 1 /\ n \notin answeredRounds
                [] job[p].kind = "relay" ->
                     /\ n = round[p] * Len(order(p)) /\ round[p] \in 1 .. rounds(p)
                     /\ result = whole(<<drafts(round[p])>>)
                     /\ \A i \in 1 .. round[p] - 1 : drafts(i) # drafts(i - 1)
                     /\ round[p] < rounds(p) => drafts(round[p]) = drafts(round[p] - 1)
                [] job[p].kind = "consensus" /\ n = 1 ->
                     \E i \in DOMAIN Names : /\ Names[i] = ballot[p].winner
                                              /\ log[p][1][i][2] # Error
                                              /\ result = whole(<<log[p][1][i][2]>>)
                [] OTHER -> result = whole(<<log[p][n][1][2]>>)

(* So what a run hands out is what its agents answered and voted for.       *)
ResultRight == FinalRight /\ VoteRight
=============================================================================
