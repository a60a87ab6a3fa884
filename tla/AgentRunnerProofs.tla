------------------------- MODULE AgentRunnerProofs -------------------------
(***************************************************************************)
(* What AgentRunner.tla tells of a call, for any number of calls and runs,  *)
(* any harness and any order of timers, aborts and turn ends: the events it *)
(* judges by, the outcome it tells and what it leaves behind.               *)
(***************************************************************************)
EXTENDS AgentRunner, SequenceTheorems, WellFoundedInduction, TLAPS

(* The runs follow one another, and a run makes one call at a time.         *)
OrderInv ==
    /\ \A b, c \in Calls : RunOf[b] < RunOf[c] /\ pc[c] # "new" =>
          pc[b] = "settled" \/ RunOf[b] \in aborted
    /\ \A b, c \in Calls : b # c /\ InFlight(b) /\ InFlight(c) => RunOf[b] # RunOf[c]

(* What is left of a call in the agent: a message only while it waits, a    *)
(* turn after that only if it is being aborted, and none in the end if the  *)
(* harness converges.                                                       *)
LiveInv ==
    /\ aborting => active # None
    /\ \A c \in Calls :
          /\ pc[c] # "waiting" => /\ \A i \in DOMAIN queue : queue[i] # c
                                  /\ active = c => aborting
          /\ pc[c] = "new" => active # c /\ \A i \in DOMAIN log : log[i].of # c
          /\ converges /\ pc[c] \in {"reading", "settled"} => active # c
          /\ timer[c] => InFlight(c)

(* No end of c's turn is in the log; none that completed it is.             *)
notEnded(c) == \A i \in DOMAIN log : log[i].of = c => log[i].kind \notin Ends
notCompleted(c) == \A i \in DOMAIN log : log[i] # [of |-> c, kind |-> "completed"]

(* The end of c's turn is the last event, and lies in c's slice.            *)
endedLast(c) ==
    /\ Len(log) > baseline[c] /\ log[Len(log)].of = c
    /\ log[Len(log)].kind \in {"completed", "error"}
    /\ \A i \in DOMAIN log : log[i].of = c /\ log[i].kind \in Ends => i = Len(log)

(* The turn of a call that no other run disturbs: it is the last one to be  *)
(* had until it ends or is cancelled.                                       *)
TurnInv ==
    \A c \in Calls : disturbed(c) \/
        /\ pc[c] = "waiting" =>
              /\ notEnded(c)
              /\ \/ /\ queue # <<>> /\ queue[Len(queue)] = c /\ active # c
                    /\ \A i \in DOMAIN queue : queue[i] = c => i = Len(queue)
                 \/ queue = <<>> /\ active = c /\ ~aborting
        /\ pc[c] = "grace" => notCompleted(c)
        /\ pc[c] = "reading" => IF converged[c] THEN endedLast(c) ELSE notCompleted(c)

(* The events since a call began.                                           *)
SliceInv ==
    \A c \in Calls : InFlight(c) =>
        /\ baseline[c] <= Len(log)
        /\ \A i \in DOMAIN log : i > baseline[c] =>
              /\ converges => log[i].of = c \/ apart(log[i].of, c)
              /\ log[i].kind = "completed" => log[i].of = c \/ disturbed(c)

(* What has been told and done.                                             *)
ToldInv ==
    /\ result \in [Calls -> Outcomes \cup {Undefined}]
    /\ \A c \in Calls : converged[c] => pc[c] \in {"reading", "settled"}
    /\ converges => \A p \in cancels : p[1] = p[2] \/ apart(p[1], p[2])

IInv ==
    /\ OrderInv /\ LiveInv /\ TurnInv /\ SliceInv /\ ToldInv
    /\ SliceIsOwn /\ OutcomeTruthful

-----------------------------------------------------------------------------
(* A non-empty set of the indices of a sequence has a last one.             *)
LEMMA LastOne ==
    ASSUME NEW n \in Nat, NEW S \in SUBSET (1 .. n), S # {}
    PROVE  \E i \in S : \A j \in S : j <= i
<1> DEFINE D == {n - i : i \in S}
<1>0. \A i \in S : i \in 1 .. n /\ n - i \in Nat /\ n - i \in D
  OBVIOUS
<1>1. D \subseteq Nat /\ D # {}
  BY <1>0
<1>2. PICK m \in D : \A k \in D : <<k, m>> \notin OpToRel(<, Nat)
  BY <1>1, WFMin, NatLessThanWellFounded, Zenon
<1>3. \A k \in D : ~(k < m)
  BY <1>1, <1>2, Zenon DEF OpToRel
<1>4. PICK i \in S : m = n - i
  OBVIOUS
<1>5. ASSUME NEW j \in S PROVE j <= i
  <2>1. n - j \in D /\ i \in Nat /\ j \in Nat
    OBVIOUS
  <2>2. ~(n - j < n - i)
    BY <1>3, <1>4, <2>1
  <2>3. QED BY <2>1, <2>2
<1>6. QED BY <1>5

(* Appending an event, or a message.                                        *)
LEMMA AppendOne ==
    ASSUME NEW S, NEW s \in Seq(S), NEW x \in S, NEW r, r = Append(s, x)
    PROVE  /\ r \in Seq(S) /\ Len(r) = Len(s) + 1 /\ r[Len(s) + 1] = x
           /\ \A i \in 1 .. Len(s) : r[i] = s[i]
           /\ DOMAIN r = 1 .. Len(s) + 1 /\ DOMAIN s = 1 .. Len(s) /\ Len(s) \in Nat
<1>1. r \in Seq(S) /\ Len(r) = Len(s) + 1 /\ r[Len(s) + 1] = x
  <2>1. Append(s, x) \in Seq(S) /\ Len(Append(s, x)) = Len(s) + 1
    OBVIOUS
  <2>2. Append(s, x)[Len(s) + 1] = x
    OBVIOUS
  <2>3. QED BY <2>1, <2>2
<1>2. \A i \in 1 .. Len(s) : r[i] = s[i]
  OBVIOUS
<1>3. DOMAIN r = 1 .. Len(r) /\ DOMAIN s = 1 .. Len(s) /\ Len(s) \in Nat
  BY <1>1
<1>4. QED BY <1>1, <1>2, <1>3

(* What the agent's events are appended to.                                 *)
LEMMA TypeFacts ==
    ASSUME TypeOK
    PROVE  /\ log \in Seq(Event) /\ queue \in Seq(Calls)
           /\ Len(log) \in Nat /\ DOMAIN log = 1 .. Len(log)
           /\ Len(queue) \in Nat /\ DOMAIN queue = 1 .. Len(queue)
           /\ \A i \in DOMAIN log : log[i].of \in Calls
           /\ \A i \in DOMAIN queue : queue[i] \in Calls
           /\ active \in Calls \cup {None} /\ None \notin Calls
           /\ aborting \in BOOLEAN /\ pc \in [Calls -> Phases]
           /\ baseline \in [Calls -> Nat]
           /\ \A c \in Calls : RunOf[c] \in Nat
<1>1. log \in Seq(Event) /\ queue \in Seq(Calls)
  BY DEF TypeOK, AgentTypeOK
<1>2. \A i \in DOMAIN log : log[i] \in Event
  BY <1>1
<1>3. \A e \in Event : e.of \in Calls
  BY DEF Event
<1>4. active \in Calls \cup {None} /\ aborting \in BOOLEAN
  BY Zenon DEF TypeOK, AgentTypeOK
<1>5. pc \in [Calls -> Phases] /\ baseline \in [Calls -> Nat]
  BY Zenon DEF TypeOK
<1>6. None \notin Calls
  BY CallsAssumption
<1>7. QED BY <1>1, <1>2, <1>3, <1>4, <1>5, <1>6, RunOfAssumption

-----------------------------------------------------------------------------
(* Two calls in flight: the earlier one's run was aborted.                  *)
LEMMA FlightsApart ==
    ASSUME TypeOK, OrderInv, NEW b \in Calls, NEW c \in Calls, b # c,
           InFlight(b), InFlight(c)
    PROVE  apart(b, c) /\ apart(c, b) /\ disturbed(c)
<1>1. RunOf[b] \in Nat /\ RunOf[c] \in Nat /\ RunOf[b] # RunOf[c]
  BY TypeFacts DEF OrderInv
<1>2. pc[b] \notin {"new", "settled"} /\ pc[c] \notin {"new", "settled"}
  BY DEF InFlight
<1>3. RunOf[b] < RunOf[c] => RunOf[b] \in aborted
  BY <1>2 DEF OrderInv
<1>4. RunOf[c] < RunOf[b] => RunOf[c] \in aborted
  BY <1>2 DEF OrderInv
<1>5. apart(b, c) /\ apart(c, b)
  BY <1>1, <1>3, <1>4 DEF apart
<1>6. QED BY <1>2, <1>5 DEF disturbed

(* A call that begins while another is in flight: that one's run was        *)
(* aborted, so the two are apart.                                           *)
LEMMA BeginsApart ==
    ASSUME TypeOK, OrderInv, NEW b \in Calls, NEW c \in Calls,
           mayBegin(b), RunOf[b] \notin aborted, InFlight(c)
    PROVE  apart(b, c) /\ apart(c, b) /\ b # c
<1>1. RunOf[b] \in Nat /\ RunOf[c] \in Nat
  BY TypeFacts
<1>2. pc[b] = "new" /\ pc[c] \notin {"new", "settled"}
  BY DEF InFlight, mayBegin
<1>3. RunOf[b] # RunOf[c]
  BY DEF mayBegin
<1>4. RunOf[c] < RunOf[b] => RunOf[c] \in aborted
  BY <1>2 DEF mayBegin
<1>5. ~(RunOf[b] < RunOf[c])
  BY <1>2 DEF OrderInv
<1>6. QED BY <1>1, <1>2, <1>3, <1>4, <1>5 DEF apart

(* A turn that is not being aborted, and a message in the queue, are those  *)
(* of a call in flight; with a harness that converges, every turn is.       *)
LEMMA LiveInFlight ==
    ASSUME TypeOK, LiveInv
    PROVE  /\ \A i \in DOMAIN queue : InFlight(queue[i])
           /\ active # None /\ (~aborting \/ converges) => InFlight(active)
<1>1. ASSUME NEW i \in DOMAIN queue PROVE InFlight(queue[i])
  <2>1. queue[i] \in Calls
    BY TypeFacts
  <2>2. pc[queue[i]] = "waiting"
    BY <2>1 DEF LiveInv
  <2>3. QED BY <2>2 DEF InFlight
<1>2. ASSUME active # None, ~aborting PROVE InFlight(active)
  <2>1. active \in Calls
    BY <1>2, TypeFacts
  <2>2. pc[active] = "waiting"
    BY <1>2, <2>1 DEF LiveInv
  <2>3. QED BY <2>2 DEF InFlight
<1>3. ASSUME active # None, converges PROVE InFlight(active)
  <2>1. active \in Calls /\ pc[active] \in Phases
    BY <1>3, TypeFacts
  <2>2. pc[active] \notin {"new", "reading", "settled"}
    BY <1>3, <2>1 DEF LiveInv
  <2>3. QED BY <2>1, <2>2 DEF InFlight, Phases
<1>4. QED BY <1>1, <1>2, <1>3

-----------------------------------------------------------------------------
(* What whenIdle makes of the calls.                                        *)
LEMMA WhenIdle ==
    ASSUME NEW phase \in [Calls -> Phases], whenIdle(phase),
           converged \in [Calls -> BOOLEAN]
    PROVE  /\ pc' \in [Calls -> Phases] /\ converged' \in [Calls -> BOOLEAN]
           /\ \A c \in Calls :
                 /\ pc'[c] = IF idle' /\ phase[c] \in {"waiting", "grace"}
                             THEN "reading" ELSE phase[c]
                 /\ converged'[c] <=> converged[c] \/ (idle' /\ phase[c] = "waiting")
<1>1. ASSUME NEW c \in Calls
      PROVE  pc'[c] = IF idle' /\ phase[c] \in {"waiting", "grace"}
                      THEN "reading" ELSE phase[c]
  BY DEF whenIdle
<1>2. \A c \in Calls : pc'[c] \in Phases
  BY <1>1 DEF Phases
<1>3. pc' \in [Calls -> Phases]
  <2>1. CASE idle'
    <3>1. pc' = [c \in Calls |-> IF phase[c] \in {"waiting", "grace"}
                                 THEN "reading" ELSE phase[c]]
      BY <2>1 DEF whenIdle
    <3>2. QED BY <3>1 DEF Phases
  <2>2. CASE ~idle'
    BY <2>2 DEF whenIdle
  <2>3. QED BY <2>1, <2>2
<1>4. converged' = [c \in Calls |-> converged[c] \/ (idle' /\ phase[c] = "waiting")]
  BY DEF whenIdle
<1>5. \A c \in Calls : (converged[c] \/ (idle' /\ phase[c] = "waiting")) \in BOOLEAN
  OBVIOUS
<1>6. converged' \in [Calls -> BOOLEAN]
  BY <1>4, <1>5, Zenon
<1>7. \A c \in Calls : converged'[c] <=> converged[c] \/ (idle' /\ phase[c] = "waiting")
  BY <1>4, Zenon
<1>8. QED BY <1>1, <1>3, <1>6, <1>7

(* The phases of the calls after c gave up waiting.                         *)
LEMMA GivenUp ==
    ASSUME TypeOK, NEW c \in Calls
    PROVE  /\ giveUpWaiting(pc, c) \in [Calls -> Phases]
           /\ \A d \in Calls : giveUpWaiting(pc, c)[d] =
                 IF d = c /\ pc[c] = "waiting" THEN "grace" ELSE pc[d]
BY TypeFacts DEF giveUpWaiting, Phases

(* A call c cancels what the agent has: by its timer, or as its run aborts. *)
Cancels(c) ==
    /\ InFlight(c) /\ log' = log /\ active' = active /\ queue' = <<>>
    /\ aborting' = (active # None)
    /\ cancels' = IF active = None THEN cancels ELSE cancels \cup {<<c, active>>}
    /\ whenIdle(giveUpWaiting(pc, c))
    /\ aborted' \in {aborted, aborted \cup {RunOf[c]}}
    /\ \A d \in Calls : timer'[d] => timer[d]
    /\ UNCHANGED <<converges, baseline, result, slice>>

LEMMA CancelsCalls ==
    ASSUME TypeOK, LiveInv, NEW c \in Calls, TimerFires(c) \/ Abort(c)
    PROVE  Cancels(c) /\ timer' \in [Calls -> BOOLEAN]
<1>1. timer \in [Calls -> BOOLEAN]
  BY DEF TypeOK
<1>2. CASE TimerFires(c)
  <2>1. InFlight(c)
    BY <1>2 DEF TimerFires, LiveInv
  <2>2. timer' = [timer EXCEPT ![c] = FALSE]
    BY <1>2 DEF TimerFires
  <2>3. timer' \in [Calls -> BOOLEAN] /\ \A d \in Calls : timer'[d] => timer[d]
    BY <1>1, <2>2
  <2>4. QED BY <1>2, <2>1, <2>3 DEF TimerFires, Cancels, cancelBy, cancel
<1>3. CASE Abort(c)
  BY <1>1, <1>3 DEF Abort, Cancels, cancelBy, cancel
<1>4. QED BY <1>2, <1>3

-----------------------------------------------------------------------------
(* The log grows by events of the turn that is live, and by no ends but     *)
(* "aborted" if that turn is being aborted.                                 *)
Grows ==
    /\ log' \in Seq(Event) /\ Len(log) <= Len(log')
    /\ \A i \in DOMAIN log : i \in DOMAIN log' /\ log'[i] = log[i]
    /\ \A i \in DOMAIN log' : i > Len(log) =>
          /\ active # None /\ log'[i].of = active
          /\ aborting => log'[i].kind \in {"prefix", "aborted"}

LEMMA SameLogGrows == ASSUME TypeOK, log' = log PROVE Grows
BY TypeFacts DEF Grows

LEMMA EmitGrows ==
    ASSUME TypeOK, active # None, ~aborting, NEW k \in {"message"} \cup Ends, log' = emit(k)
    PROVE  /\ Grows /\ Len(log') = Len(log) + 1
           /\ log'[Len(log')] = [of |-> active, kind |-> k]
<1> DEFINE e == [of |-> active, kind |-> k]
<1>1. e \in Event /\ e.of = active
  BY TypeFacts DEF Event
<1> HIDE DEF e
<1>2. log' = Append(log, e)
  BY DEF emit, e
<1>3. /\ log' \in Seq(Event) /\ Len(log') = Len(log) + 1 /\ log'[Len(log) + 1] = e
      /\ \A i \in 1 .. Len(log) : log'[i] = log[i]
      /\ DOMAIN log' = 1 .. Len(log) + 1 /\ DOMAIN log = 1 .. Len(log) /\ Len(log) \in Nat
  BY <1>1, <1>2, TypeFacts, AppendOne
<1>4. \A i \in DOMAIN log' : i > Len(log) => i = Len(log) + 1
  BY <1>3
<1>5. Grows
  BY <1>1, <1>3, <1>4 DEF Grows
<1>6. QED BY <1>3, <1>5 DEF e

LEMMA AbortedGrows ==
    ASSUME TypeOK, EndAborted PROVE Grows
<1> DEFINE p == [of |-> active, kind |-> "prefix"]
           a == [of |-> active, kind |-> "aborted"]
           m == Len(log)
<1>1. p \in Event /\ a \in Event /\ p.of = active /\ a.of = active
      /\ p.kind = "prefix" /\ a.kind = "aborted"
  BY TypeFacts DEF Event, Ends, EndAborted
<1>2. log' = log \o <<p, a>>
  BY DEF EndAborted
<1>3. log \in Seq(Event) /\ m \in Nat /\ DOMAIN log = 1 .. m
  BY TypeFacts
<1> HIDE DEF p, a
<1>4. <<p, a>> \in Seq(Event) /\ Len(<<p, a>>) = 2
  BY <1>1
<1>5. log' \in Seq(Event) /\ Len(log') = m + 2
  BY <1>2, <1>3, <1>4
<1>6. \A i \in 1 .. m : log'[i] = log[i]
  BY <1>2, <1>3, <1>4
<1>7. log'[m + 1] = p /\ log'[m + 2] = a
  BY <1>2, <1>3, <1>4
<1>8. DOMAIN log' = 1 .. m + 2
  BY <1>5
<1> HIDE DEF m
<1>9. ASSUME NEW i \in DOMAIN log', i > m
      PROVE  log'[i].of = active /\ log'[i].kind \in {"prefix", "aborted"}
  <2>1. i = m + 1 \/ i = m + 2
    BY <1>3, <1>8, <1>9
  <2>2. QED BY <2>1, <1>1, <1>7
<1>10. active # None
  BY DEF EndAborted
<1>11. m <= m + 2 /\ \A i \in 1 .. m : i \in 1 .. m + 2
  BY <1>3
<1>12. QED BY <1>3, <1>5, <1>6, <1>8, <1>9, <1>10, <1>11 DEF Grows, m

(* The head and the rest of the queue.                                      *)
LEMMA HeadTail ==
    ASSUME NEW S, NEW q \in Seq(S), q # <<>>
    PROVE  /\ Head(q) = q[1] /\ 1 \in DOMAIN q /\ Tail(q) \in Seq(S)
           /\ Len(Tail(q)) = Len(q) - 1 /\ Len(q) \in Nat \ {0}
           /\ \A i \in DOMAIN Tail(q) : i + 1 \in DOMAIN q /\ Tail(q)[i] = q[i + 1]
<1>1. Len(q) \in Nat \ {0} /\ DOMAIN q = 1 .. Len(q)
  OBVIOUS
<1>2. Tail(q) \in Seq(S) /\ Len(Tail(q)) = Len(q) - 1
  OBVIOUS
<1>3. DOMAIN Tail(q) = 1 .. Len(q) - 1
  BY <1>2
<1>4. \A i \in 1 .. Len(q) - 1 : Tail(q)[i] = q[i + 1]
  OBVIOUS
<1>5. QED BY <1>1, <1>2, <1>3, <1>4

(* What the agent may do by itself.                                         *)
Moves ==
    /\ Grows /\ queue' \in Seq(Calls) /\ noneReading /\ whenIdle(pc)
    /\ \A i \in DOMAIN queue' : \E j \in DOMAIN queue : queue'[i] = queue[j]
    /\ active' # None =>
          \/ active' = active
          \/ active = None /\ \E j \in DOMAIN queue : active' = queue[j]
    /\ aborting' => aborting /\ active' = active
    /\ active' # None /\ active' = active => aborting' = aborting
    /\ active' \in Calls \cup {None} /\ aborting' \in BOOLEAN
    /\ UNCHANGED <<converges, aborted, baseline, timer, result, slice, cancels>>

LEMMA AgentMoves ==
    ASSUME TypeOK, LiveInv, AgentStep \/ AgentAborts PROVE Moves
<1>0. /\ queue \in Seq(Calls) /\ aborting \in BOOLEAN /\ active \in Calls \cup {None}
      /\ (aborting => active # None)
  BY TypeFacts DEF LiveInv
<1>1. /\ noneReading /\ whenIdle(pc)
      /\ UNCHANGED <<converges, aborted, baseline, timer, result, slice, cancels>>
  BY DEF AgentStep, AgentAborts
<1>2. CASE StartTurn
  <2>1. /\ active = None /\ queue # <<>> /\ active' = Head(queue) /\ queue' = Tail(queue)
        /\ log' = log /\ aborting' = aborting
    BY <1>2 DEF StartTurn
  <2>2. /\ active' = queue[1] /\ 1 \in DOMAIN queue /\ queue' \in Seq(Calls)
        /\ \A i \in DOMAIN queue' : \E j \in DOMAIN queue : queue'[i] = queue[j]
    BY <2>1, <1>0, HeadTail
  <2>3. queue[1] \in Calls
    BY <2>2, TypeFacts
  <2>4. Grows
    BY <2>1, SameLogGrows
  <2>5. ~aborting /\ ~aborting'
    BY <1>0, <2>1
  <2>6. active' # active
    BY <2>1, <2>2, <2>3, TypeFacts
  <2>7. active' # None => active = None /\ \E j \in DOMAIN queue : active' = queue[j]
    BY <2>1, <2>2
  <2>8. active' \in Calls \cup {None} /\ aborting' \in BOOLEAN
    BY <1>0, <2>1, <2>2, <2>3
  <2>9. QED BY <1>1, <2>2, <2>4, <2>5, <2>6, <2>7, <2>8, Zenon DEF Moves
<1>3. CASE Message
  <2>1. Grows
    BY <1>3, EmitGrows DEF Message
  <2>2. QED BY <1>0, <1>1, <1>3, <2>1 DEF Moves, Message
<1>4. CASE EndTurn
  <2>1. PICK k \in {"completed", "error"} : log' = emit(k)
    BY <1>4 DEF EndTurn
  <2>2. Grows
    BY <1>4, <2>1, EmitGrows DEF EndTurn, Ends
  <2>3. QED BY <1>0, <1>1, <1>4, <2>2 DEF Moves, EndTurn
<1>5. CASE EndAborted
  <2>1. Grows
    BY <1>5, AbortedGrows
  <2>2. QED BY <1>0, <1>1, <1>5, <2>1 DEF Moves, EndAborted
<1>6. QED BY <1>2, <1>3, <1>4, <1>5 DEF AgentStep, AgentAborts

-----------------------------------------------------------------------------
(* What every step leaves: nothing is undone.                               *)
Onwards ==
    /\ aborted \subseteq aborted' /\ converges' = converges
    /\ \A c \in Calls : /\ pc[c] # "new" => pc'[c] # "new"
                        /\ pc[c] = "settled" => pc'[c] = "settled"

(* A call c alone moves, to phase p.                                        *)
LEMMA Alone ==
    ASSUME TypeOK, NEW c \in Calls, NEW p, pc' = [pc EXCEPT ![c] = p]
    PROVE  \A d \in Calls : pc'[d] = IF d = c THEN p ELSE pc[d]
BY TypeFacts

(* What whenIdle makes of phases that were given up or not.                 *)
LEMMA IdleOnwards ==
    ASSUME TypeOK, NEW phase \in [Calls -> Phases], whenIdle(phase),
           \A d \in Calls : phase[d] = pc[d] \/ (pc[d] = "waiting" /\ phase[d] = "grace")
    PROVE  \A d \in Calls : /\ pc[d] # "new" => pc'[d] # "new"
                            /\ pc[d] = "settled" => pc'[d] = "settled"
<1>1. converged \in [Calls -> BOOLEAN]
  BY DEF TypeOK
<1>2. \A d \in Calls : pc'[d] = IF idle' /\ phase[d] \in {"waiting", "grace"}
                                THEN "reading" ELSE phase[d]
  BY <1>1, WhenIdle
<1>3. QED BY <1>2

LEMMA StepsOnward ==
    ASSUME TypeOK, LiveInv, [Next]_vars PROVE Onwards
<1>1. ASSUME NEW c \in Calls, ReturnEarly(c) PROVE Onwards
  BY <1>1, Alone DEF ReturnEarly, settleWith, mayBegin, Onwards
<1>2. ASSUME NEW c \in Calls, Begin(c) PROVE Onwards
  BY <1>2, Alone DEF Begin, mayBegin, Onwards
<1>3. ASSUME NEW c \in Calls, TimerFires(c) \/ Abort(c) PROVE Onwards
  <2>1. Cancels(c)
    BY <1>3, CancelsCalls
  <2>2. \A d \in Calls : /\ pc[d] # "new" => pc'[d] # "new"
                         /\ pc[d] = "settled" => pc'[d] = "settled"
    BY <2>1, GivenUp, IdleOnwards DEF Cancels
  <2>3. aborted \subseteq aborted' /\ converges' = converges
    BY <2>1 DEF Cancels
  <2>4. QED BY <2>2, <2>3 DEF Onwards
<1>4. ASSUME NEW c \in Calls, GraceExpires(c) PROVE Onwards
  BY <1>4, Alone DEF GraceExpires, Onwards
<1>5. ASSUME NEW c \in Calls, Read(c) PROVE Onwards
  BY <1>5, Alone DEF Read, settleWith, Onwards
<1>6. ASSUME NEW r \in Runs, AbortBetween(r) PROVE Onwards
  BY <1>6 DEF AbortBetween, Onwards
<1>7. CASE AgentStep \/ AgentAborts
  <2>1. Moves
    BY <1>7, AgentMoves
  <2>2. \A d \in Calls : /\ pc[d] # "new" => pc'[d] # "new"
                         /\ pc[d] = "settled" => pc'[d] = "settled"
    BY <2>1, TypeFacts, IdleOnwards DEF Moves
  <2>3. QED BY <2>1, <2>2 DEF Onwards, Moves
<1>8. CASE Over \/ UNCHANGED vars
  BY <1>8 DEF Over, vars, runnerVars, Onwards
<1>9. QED BY <1>1, <1>2, <1>3, <1>4, <1>5, <1>6, <1>7, <1>8 DEF Next

LEMMA ApartForGood ==
    ASSUME Onwards, NEW b, NEW c \in Calls
    PROVE  /\ apart(b, c) => apart(b, c)'
           /\ disturbed(c) => disturbed(c)'
<1>1. \A a : apart(a, c) => apart(a, c)'
  BY DEF Onwards, apart
<1>2. QED BY <1>1 DEF Onwards, disturbed

-----------------------------------------------------------------------------
(* outcomeFromEvents tells an outcome.                                      *)
LEMMA OutcomeTold ==
    ASSUME NEW c, NEW events PROVE outcomeFromEvents(c, events) \in Outcomes
BY DEF outcomeFromEvents, Outcomes

(* The types, and the result being told when the call returns.              *)
ResultType == result \in [Calls -> Outcomes \cup {Undefined}]

(* A slice of the log.                                                      *)
LEMMA SliceOfLog ==
    ASSUME TypeOK, NEW c \in Calls, NEW s, s = SubSeq(log, baseline[c] + 1, Len(log))
    PROVE  /\ s \in Seq(Event) /\ DOMAIN s = 1 .. Len(s) /\ Len(s) \in Nat
           /\ Len(log) > baseline[c] => Len(s) = Len(log) - baseline[c]
           /\ \A i \in DOMAIN s : /\ baseline[c] + i \in DOMAIN log
                                  /\ baseline[c] + i > baseline[c]
                                  /\ s[i] = log[baseline[c] + i]
<1> DEFINE m == baseline[c] + 1
           n == Len(log)
<1>1. m \in Nat \ {0} /\ n \in Nat /\ log \in Seq(Event) /\ DOMAIN log = 1 .. n
      /\ baseline[c] \in Nat /\ m = baseline[c] + 1
  BY TypeFacts
<1> HIDE DEF m, n
<1>2. s = SubSeq(log, m, n)
  BY DEF m, n
<1>a. \A i \in m .. n : log[i] \in Event
  BY <1>1 DEF n
<1>b. /\ s \in Seq(Event) /\ Len(s) = IF m <= n THEN n - m + 1 ELSE 0
      /\ \A i \in 1 .. n - m + 1 : s[i] = log[m + i - 1]
  <2>1. m \in Int /\ n \in Int
    BY <1>1
  <2> DEFINE q == SubSeq(log, m, n)
  <2>2. q \in Seq(Event)
    BY <1>a, <2>1, SubSeqProperties
  <2>3. Len(q) = IF m <= n THEN n - m + 1 ELSE 0
    BY <1>a, <2>1, SubSeqProperties
  <2>4. \A i \in 1 .. n - m + 1 : q[i] = log[m + i - 1]
    BY <1>a, <2>1, SubSeqProperties
  <2> HIDE DEF q
  <2>5. s = q
    BY <1>2 DEF q
  <2>6. QED BY <2>2, <2>3, <2>4, <2>5
<1>3. CASE m <= n
  <2>1. s \in Seq(Event) /\ Len(s) = n - m + 1
    BY <1>b, <1>3
  <2>2. \A i \in 1 .. n - m + 1 : s[i] = log[m + i - 1]
    BY <1>b
  <2>3. DOMAIN s = 1 .. n - m + 1
    BY <2>1
  <2>4. ASSUME NEW i \in 1 .. n - m + 1
        PROVE  /\ m + i - 1 = baseline[c] + i /\ baseline[c] + i \in 1 .. n
               /\ baseline[c] + i > baseline[c]
    <3>1. i \in Nat \ {0} /\ i <= n - m + 1
      BY <1>1
    <3> DEFINE b == baseline[c]
    <3>2. b \in Nat /\ m = b + 1 /\ n \in Nat
      BY <1>1
    <3> HIDE DEF b
    <3>3. m + i - 1 = b + i /\ b + i \in 1 .. n /\ b + i > b
      BY <3>1, <3>2, <1>3
    <3>4. QED BY <3>3 DEF b
  <2>5. n - m + 1 = n - baseline[c] /\ n - m + 1 \in Nat
    BY <1>1, <1>3
  <2>6. QED BY <1>1, <2>1, <2>2, <2>3, <2>4, <2>5 DEF n
<1>4. CASE ~(m <= n)
  <2>1. s \in Seq(Event) /\ Len(s) = 0 /\ DOMAIN s = 1 .. 0
    BY <1>b, <1>4
  <2>2. ~(n > baseline[c])
    BY <1>1, <1>4
  <2>3. \A i \in DOMAIN s : FALSE
    BY <2>1
  <2>4. QED BY <2>1, <2>2, <2>3 DEF n
<1>5. QED BY <1>3, <1>4

(* A call returns with an outcome.                                          *)
LEMMA Settles ==
    ASSUME TypeOK, ResultType, NEW c \in Calls, NEW o \in Outcomes, settleWith(c, o)
    PROVE  /\ ResultType' /\ pc' \in [Calls -> Phases]
           /\ \A d \in Calls : pc'[d] = "settled" <=> result'[d] # Undefined
           /\ \A d \in Calls : /\ pc'[d] = IF d = c THEN "settled" ELSE pc[d]
                               /\ result'[d] = IF d = c THEN o ELSE result[d]
<1>1. pc' = [pc EXCEPT ![c] = "settled"] /\ result' = [result EXCEPT ![c] = o]
  BY DEF settleWith
<1>2. pc' \in [Calls -> Phases] /\ \A d \in Calls : pc'[d] = IF d = c THEN "settled" ELSE pc[d]
  BY <1>1, TypeFacts DEF Phases
<1>3. ResultType' /\ \A d \in Calls : result'[d] = IF d = c THEN o ELSE result[d]
  BY <1>1 DEF ResultType
<1>4. \A d \in Calls : pc[d] = "settled" <=> result[d] # Undefined
  BY DEF TypeOK
<1>5. o # Undefined
  BY UndefinedAssumption
<1>6. QED BY <1>2, <1>3, <1>4, <1>5

LEMMA TypeStep ==
    ASSUME TypeOK, ResultType, LiveInv, [Next]_vars PROVE TypeOK' /\ ResultType'
<1>0. /\ pc \in [Calls -> Phases] /\ \A d \in Calls : pc[d] = "settled" <=> result[d] # Undefined
      /\ timer \in [Calls -> BOOLEAN] /\ converged \in [Calls -> BOOLEAN]
      /\ baseline \in [Calls -> Nat] /\ slice \in [Calls -> Seq(Event)]
      /\ cancels \subseteq Calls \X Calls /\ aborted \subseteq Runs /\ converges \in BOOLEAN
      /\ log \in Seq(Event) /\ queue \in Seq(Calls)
      /\ active \in Calls \cup {None} /\ aborting \in BOOLEAN
  BY DEF TypeOK, AgentTypeOK
<1>1. ASSUME NEW c \in Calls, ReturnEarly(c) PROVE TypeOK' /\ ResultType'
  <2>1. \E o \in Outcomes : settleWith(c, o)
    BY <1>1 DEF ReturnEarly, Outcomes
  <2>2. /\ ResultType' /\ pc' \in [Calls -> Phases]
        /\ \A d \in Calls : pc'[d] = "settled" <=> result'[d] # Undefined
    BY <2>1, Settles
  <2>3. UNCHANGED <<agentVars, converges, aborted, baseline, timer, converged, slice, cancels>>
    BY <1>1 DEF ReturnEarly
  <2>4. QED BY <1>0, <2>2, <2>3 DEF TypeOK, AgentTypeOK, agentVars
<1>2. ASSUME NEW c \in Calls, Begin(c) PROVE TypeOK' /\ ResultType'
  <2>1. /\ pc' = [pc EXCEPT ![c] = "waiting"] /\ baseline' = [baseline EXCEPT ![c] = Len(log)]
        /\ timer' = [timer EXCEPT ![c] = TRUE] /\ queue' = Append(queue, c)
        /\ UNCHANGED <<log, active, aborting, converges, aborted, converged, result, slice,
                       cancels>>
    BY <1>2 DEF Begin, followup
  <2>2. pc[c] = "new"
    BY <1>2 DEF Begin, mayBegin
  <2>3. /\ pc' \in [Calls -> Phases]
        /\ \A d \in Calls : pc'[d] = "settled" <=> result'[d] # Undefined
    BY <1>0, <2>1, <2>2 DEF Phases
  <2>4. baseline' \in [Calls -> Nat] /\ queue' \in Seq(Calls)
    BY <1>0, <2>1
  <2>5. timer' \in [Calls -> BOOLEAN]
    BY <1>0, <2>1
  <2>6. log' \in Seq(Event) /\ ResultType'
    BY <1>0, <2>1 DEF ResultType
  <2>7. QED BY <1>0, <2>1, <2>3, <2>4, <2>5, <2>6 DEF TypeOK, AgentTypeOK
<1>3. ASSUME NEW c \in Calls, TimerFires(c) \/ Abort(c) PROVE TypeOK' /\ ResultType'
  <2>1. Cancels(c) /\ timer' \in [Calls -> BOOLEAN]
    BY <1>3, CancelsCalls
  <2> DEFINE phase == giveUpWaiting(pc, c)
  <2>2. /\ phase \in [Calls -> Phases]
        /\ \A d \in Calls : phase[d] = IF d = c /\ pc[c] = "waiting" THEN "grace" ELSE pc[d]
    BY GivenUp
  <2>3. whenIdle(phase)
    BY <2>1 DEF Cancels
  <2> HIDE DEF phase
  <2>4. /\ pc' \in [Calls -> Phases] /\ converged' \in [Calls -> BOOLEAN]
        /\ \A d \in Calls : pc'[d] = IF idle' /\ phase[d] \in {"waiting", "grace"}
                                     THEN "reading" ELSE phase[d]
    BY <1>0, <2>2, <2>3, WhenIdle
  <2>5. \A d \in Calls : pc'[d] = "settled" <=> pc[d] = "settled"
    BY <2>2, <2>4
  <2>6. UNCHANGED <<log, active, converges, baseline, result, slice>> /\ queue' = <<>>
        /\ aborting' = (active # None)
    BY <2>1 DEF Cancels
  <2>7. \A d \in Calls : pc'[d] = "settled" <=> result'[d] # Undefined
    BY <1>0, <2>5, <2>6
  <2>8. cancels' \subseteq Calls \X Calls
    BY <1>0, <2>1 DEF Cancels
  <2>9. aborted' \subseteq Runs
    BY <1>0, <2>1 DEF Cancels, Runs
  <2>10. log' \in Seq(Event) /\ queue' \in Seq(Calls) /\ ResultType'
    BY <1>0, <2>6 DEF ResultType
  <2>11. aborting' \in BOOLEAN
    BY <2>6
  <2>12. QED BY <1>0, <2>1, <2>4, <2>6, <2>7, <2>8, <2>9, <2>10, <2>11, Zenon
         DEF TypeOK, AgentTypeOK
<1>4. ASSUME NEW c \in Calls, GraceExpires(c) PROVE TypeOK' /\ ResultType'
  <2>1. /\ pc' = [pc EXCEPT ![c] = "reading"] /\ pc[c] = "grace"
        /\ UNCHANGED <<agentVars, converges, aborted, baseline, timer, converged, result,
                       slice, cancels>>
    BY <1>4 DEF GraceExpires
  <2>2. /\ pc' \in [Calls -> Phases]
        /\ \A d \in Calls : pc'[d] = "settled" <=> result'[d] # Undefined
    BY <1>0, <2>1 DEF Phases
  <2>3. QED BY <1>0, <2>1, <2>2 DEF TypeOK, AgentTypeOK, agentVars, ResultType
<1>5. ASSUME NEW c \in Calls, Read(c) PROVE TypeOK' /\ ResultType'
  <2> DEFINE s == SubSeq(log, baseline[c] + 1, Len(log))
  <2>1. /\ settleWith(c, outcomeFromEvents(c, s)) /\ slice' = [slice EXCEPT ![c] = s]
        /\ timer' = [timer EXCEPT ![c] = FALSE]
        /\ UNCHANGED <<agentVars, converges, aborted, baseline, converged, cancels>>
    BY <1>5 DEF Read
  <2>2. s \in Seq(Event)
    BY SliceOfLog
  <2> HIDE DEF s
  <2>3. /\ ResultType' /\ pc' \in [Calls -> Phases]
        /\ \A d \in Calls : pc'[d] = "settled" <=> result'[d] # Undefined
    BY <2>1, OutcomeTold, Settles
  <2>4. slice' \in [Calls -> Seq(Event)]
    BY <1>0, <2>1, <2>2
  <2>5. timer' \in [Calls -> BOOLEAN]
    BY <1>0, <2>1
  <2>6. QED BY <1>0, <2>1, <2>3, <2>4, <2>5 DEF TypeOK, AgentTypeOK, agentVars
<1>6. ASSUME NEW r \in Runs, AbortBetween(r) PROVE TypeOK' /\ ResultType'
  BY <1>0, <1>6 DEF AbortBetween, TypeOK, AgentTypeOK, agentVars, ResultType
<1>7. CASE AgentStep \/ AgentAborts
  <2>1. Moves
    BY <1>7, AgentMoves
  <2>2. /\ pc' \in [Calls -> Phases] /\ converged' \in [Calls -> BOOLEAN]
        /\ \A d \in Calls : pc'[d] = IF idle' /\ pc[d] \in {"waiting", "grace"}
                                     THEN "reading" ELSE pc[d]
    BY <1>0, <2>1, WhenIdle DEF Moves
  <2>3. \A d \in Calls : pc'[d] = "settled" <=> pc[d] = "settled"
    BY <2>2
  <2>4. \A d \in Calls : pc'[d] = "settled" <=> result'[d] # Undefined
    BY <1>0, <2>1, <2>3 DEF Moves
  <2>5. log' \in Seq(Event) /\ queue' \in Seq(Calls)
        /\ active' \in Calls \cup {None} /\ aborting' \in BOOLEAN
    BY <2>1, Zenon DEF Moves, Grows
  <2>6. ResultType'
    BY <2>1 DEF Moves, ResultType
  <2>7. UNCHANGED <<converges, aborted, baseline, timer, slice, cancels>>
    BY <2>1 DEF Moves
  <2>8. QED BY <1>0, <2>2, <2>4, <2>5, <2>6, <2>7 DEF TypeOK, AgentTypeOK
<1>8. CASE Over \/ UNCHANGED vars
  BY <1>0, <1>8 DEF Over, vars, runnerVars, TypeOK, AgentTypeOK, agentVars, ResultType
<1>9. QED BY <1>1, <1>2, <1>3, <1>4, <1>5, <1>6, <1>7, <1>8 DEF Next

-----------------------------------------------------------------------------
(* Only Begin takes a call into flight, and it moves that call alone.       *)
LEMMA Departures ==
    ASSUME TypeOK, LiveInv, [Next]_vars, NEW d \in Calls
    PROVE  /\ InFlight(d)' => \/ InFlight(d)
                              \/ Begin(d) /\ \A e \in Calls : e # d => pc'[e] = pc[e]
           /\ pc[d] = "new" /\ pc'[d] # "new" => mayBegin(d)
<1>0. pc \in [Calls -> Phases] /\ converged \in [Calls -> BOOLEAN]
  BY DEF TypeOK
<1>1. ASSUME NEW c \in Calls, ReturnEarly(c) PROVE (InFlight(d)' => InFlight(d))
         /\ (pc[d] = "new" /\ pc'[d] # "new" => mayBegin(d))
  BY <1>1, Alone DEF ReturnEarly, settleWith, InFlight
<1>2. ASSUME NEW c \in Calls, Begin(c) PROVE
         /\ InFlight(d)' => \/ InFlight(d)
                            \/ Begin(d) /\ \A e \in Calls : e # d => pc'[e] = pc[e]
         /\ pc[d] = "new" /\ pc'[d] # "new" => mayBegin(d)
  <2>1. \A e \in Calls : pc'[e] = IF e = c THEN "waiting" ELSE pc[e]
    BY <1>2, Alone DEF Begin
  <2>2. mayBegin(c)
    BY <1>2 DEF Begin
  <2>3. CASE d = c
    BY <1>2, <2>1, <2>2, <2>3
  <2>4. CASE d # c
    BY <2>1, <2>4 DEF InFlight
  <2>5. QED BY <2>3, <2>4
<1>3. ASSUME NEW phase \in [Calls -> Phases], whenIdle(phase),
             phase[d] = pc[d] \/ (pc[d] = "waiting" /\ phase[d] = "grace")
      PROVE  (InFlight(d)' => InFlight(d)) /\ ~(pc[d] = "new" /\ pc'[d] # "new")
  <2>1. pc'[d] = IF idle' /\ phase[d] \in {"waiting", "grace"} THEN "reading" ELSE phase[d]
    BY <1>0, <1>3, WhenIdle
  <2>2. QED BY <1>3, <2>1 DEF InFlight
<1>4. ASSUME NEW c \in Calls, TimerFires(c) \/ Abort(c)
      PROVE  (InFlight(d)' => InFlight(d)) /\ ~(pc[d] = "new" /\ pc'[d] # "new")
  <2>1. Cancels(c)
    BY <1>4, CancelsCalls
  <2>2. QED BY <2>1, <1>3, GivenUp DEF Cancels
<1>5. CASE AgentStep \/ AgentAborts
  <2>1. Moves
    BY <1>5, AgentMoves
  <2>2. QED BY <2>1, <1>0, <1>3 DEF Moves
<1>6. ASSUME NEW c \in Calls, GraceExpires(c) \/ Read(c)
      PROVE  (InFlight(d)' => InFlight(d)) /\ ~(pc[d] = "new" /\ pc'[d] # "new")
  BY <1>6, Alone DEF GraceExpires, Read, settleWith, InFlight
<1>7. CASE (\E r \in Runs : AbortBetween(r)) \/ Over \/ UNCHANGED vars
  BY <1>7 DEF AbortBetween, Over, vars, runnerVars, InFlight
<1>8. QED BY <1>1, <1>2, <1>4, <1>5, <1>6, <1>7 DEF Next

LEMMA OrderStep ==
    ASSUME TypeOK, LiveInv, OrderInv, [Next]_vars PROVE OrderInv'
<1>1. Onwards
  BY StepsOnward
<1>2. ASSUME NEW b \in Calls, NEW c \in Calls, RunOf[b] < RunOf[c], pc'[c] # "new"
      PROVE  pc'[b] = "settled" \/ RunOf[b] \in aborted'
  <2>1. pc[b] = "settled" \/ RunOf[b] \in aborted
    <3>1. CASE pc[c] # "new"
      BY <1>2, <3>1 DEF OrderInv
    <3>2. CASE pc[c] = "new"
      BY <1>2, <3>2, Departures DEF mayBegin
    <3>3. QED BY <3>1, <3>2
  <2>2. QED BY <1>1, <2>1 DEF Onwards
<1>3. ASSUME NEW b \in Calls, NEW c \in Calls, b # c, InFlight(b)', InFlight(c)'
      PROVE  RunOf[b] # RunOf[c]
  <2>1. CASE InFlight(b) /\ InFlight(c)
    BY <1>3, <2>1 DEF OrderInv
  <2>2. CASE ~InFlight(b)
    <3>1. Begin(b) /\ pc'[c] = pc[c]
      BY <1>3, <2>2, Departures
    <3>2. InFlight(c)
      BY <1>3, <3>1 DEF InFlight
    <3>3. QED BY <3>1, <3>2 DEF Begin, mayBegin
  <2>3. CASE ~InFlight(c)
    <3>1. Begin(c) /\ pc'[b] = pc[b]
      BY <1>3, <2>3, Departures
    <3>2. InFlight(b)
      BY <1>3, <3>1 DEF InFlight
    <3>3. QED BY <3>1, <3>2 DEF Begin, mayBegin
  <2>4. QED BY <2>1, <2>2, <2>3
<1>4. QED BY <1>2, <1>3 DEF OrderInv, InFlight

(* What is left of a call in the agent.                                     *)
LiveOf(c) ==
    /\ pc[c] # "waiting" => /\ \A i \in DOMAIN queue : queue[i] # c
                            /\ active = c => aborting
    /\ pc[c] = "new" => active # c /\ \A i \in DOMAIN log : log[i].of # c
    /\ converges /\ pc[c] \in {"reading", "settled"} => active # c
    /\ timer[c] => InFlight(c)

LEMMA LiveStep ==
    ASSUME TypeOK, LiveInv, [Next]_vars PROVE LiveInv'
<1>0. /\ pc \in [Calls -> Phases] /\ converged \in [Calls -> BOOLEAN]
      /\ timer \in [Calls -> BOOLEAN]
      /\ (aborting => active # None) /\ \A d \in Calls : LiveOf(d)
  BY DEF TypeOK, LiveInv, LiveOf
<1>1. SUFFICES (aborting' => active' # None) /\ \A d \in Calls : LiveOf(d)'
  BY DEF LiveInv, LiveOf, InFlight
<1>2. ASSUME NEW c \in Calls, ReturnEarly(c)
      PROVE  (aborting' => active' # None) /\ \A d \in Calls : LiveOf(d)'
  <2>1. \A e \in Calls : pc'[e] = IF e = c THEN "settled" ELSE pc[e]
    BY <1>2, Alone DEF ReturnEarly, settleWith
  <2>2. UNCHANGED <<log, queue, active, aborting, converges, timer>> /\ pc[c] = "new"
    BY <1>2 DEF ReturnEarly, agentVars, mayBegin
  <2>3. QED BY <1>0, <2>1, <2>2 DEF LiveOf, InFlight
<1>3. ASSUME NEW c \in Calls, Begin(c)
      PROVE  (aborting' => active' # None) /\ \A d \in Calls : LiveOf(d)'
  <2>1. \A e \in Calls : pc'[e] = IF e = c THEN "waiting" ELSE pc[e]
    BY <1>3, Alone DEF Begin
  <2>2. UNCHANGED <<log, active, aborting, converges>>
    BY <1>3 DEF Begin, followup
  <2>3. \A i \in DOMAIN queue' : queue'[i] = c \/ (i \in DOMAIN queue /\ queue'[i] = queue[i])
    <3>1. queue' = Append(queue, c) /\ queue \in Seq(Calls)
      BY <1>3, TypeFacts DEF Begin, followup
    <3>2. /\ \A i \in 1 .. Len(queue) : queue'[i] = queue[i]
          /\ queue'[Len(queue) + 1] = c
          /\ DOMAIN queue' = 1 .. Len(queue) + 1
          /\ DOMAIN queue = 1 .. Len(queue) /\ Len(queue) \in Nat
      BY <3>1, AppendOne
    <3>3. QED BY <3>2
  <2>4. \A e \in Calls : e # c => timer'[e] = timer[e]
    BY <1>0, <1>3 DEF Begin
  <2>5. QED BY <1>0, <2>1, <2>2, <2>3, <2>4 DEF LiveOf, InFlight
<1>4. ASSUME NEW c \in Calls, TimerFires(c) \/ Abort(c)
      PROVE  (aborting' => active' # None) /\ \A d \in Calls : LiveOf(d)'
  <2>1. Cancels(c)
    BY <1>4, CancelsCalls
  <2> DEFINE phase == giveUpWaiting(pc, c)
  <2>2. \A d \in Calls : phase[d] = IF d = c /\ pc[c] = "waiting" THEN "grace" ELSE pc[d]
    BY GivenUp
  <2>3. \A d \in Calls : pc'[d] = IF idle' /\ phase[d] \in {"waiting", "grace"}
                                  THEN "reading" ELSE phase[d]
    BY <1>0, <2>1, GivenUp, WhenIdle DEF Cancels
  <2> HIDE DEF phase
  <2>4. /\ log' = log /\ active' = active /\ queue' = <<>> /\ converges' = converges
        /\ aborting' = (active # None) /\ \A d \in Calls : timer'[d] => timer[d]
    BY <2>1 DEF Cancels
  <2>5. idle' => active' = None
    BY DEF idle
  <2>6. ASSUME NEW d \in Calls PROVE LiveOf(d)'
    <3>1. \A i \in DOMAIN queue' : queue'[i] # d
      BY <2>4
    <3>2. active' = d => aborting'
      BY <2>4, TypeFacts
    <3>3. pc'[d] = "new" => pc[d] = "new"
      BY <2>2, <2>3
    <3>4. converges' /\ pc'[d] \in {"reading", "settled"} => active' # d
      <4>1. pc'[d] \in {"reading", "settled"} =>
               pc[d] \in {"reading", "settled"} \/ active' = None
        BY <2>2, <2>3, <2>5
      <4>2. QED BY <1>0, <2>4, <4>1, TypeFacts DEF LiveOf
    <3>5. InFlight(d) => InFlight(d)'
      BY <2>2, <2>3 DEF InFlight
    <3>6. timer'[d] => InFlight(d)'
      BY <1>0, <2>4, <3>5 DEF LiveOf
    <3>7. pc'[d] = "new" => active' # d /\ \A i \in DOMAIN log' : log'[i].of # d
      BY <1>0, <2>4, <3>3 DEF LiveOf
    <3>8. QED BY <3>1, <3>2, <3>4, <3>6, <3>7 DEF LiveOf
  <2>7. QED BY <2>4, <2>6
<1>5. CASE AgentStep \/ AgentAborts
  <2>1. Moves
    BY <1>5, AgentMoves
  <2>2. \A d \in Calls : pc'[d] = IF idle' /\ pc[d] \in {"waiting", "grace"}
                                  THEN "reading" ELSE pc[d]
    BY <1>0, <2>1, WhenIdle DEF Moves
  <2>3. idle' => active' = None /\ queue' = <<>>
    BY DEF idle
  <2>4. aborting' => active' # None
    BY <1>0, <2>1 DEF Moves
  <2>5. ASSUME NEW d \in Calls PROVE LiveOf(d)'
    <3>1. ASSUME pc'[d] # "waiting" PROVE (\A i \in DOMAIN queue' : queue'[i] # d)
                                          /\ (active' = d => aborting')
      <4>1. CASE idle'
        BY <4>1, <2>3, TypeFacts
      <4>2. CASE ~idle'
        <5>1. pc[d] # "waiting"
          BY <3>1, <2>2, <4>2
        <5>2. (\A i \in DOMAIN queue : queue[i] # d) /\ (active = d => aborting)
          BY <1>0, <5>1 DEF LiveOf
        <5>3. \A i \in DOMAIN queue' : \E j \in DOMAIN queue : queue'[i] = queue[j]
          BY <2>1 DEF Moves
        <5>4. active' = d => active = d /\ aborting' = aborting
          BY <2>1, <5>2, TypeFacts DEF Moves
        <5>5. QED BY <5>2, <5>3, <5>4
      <4>3. QED BY <4>1, <4>2
    <3>2. ASSUME pc'[d] = "new" PROVE active' # d /\ \A i \in DOMAIN log' : log'[i].of # d
      <4>1. pc[d] = "new"
        BY <3>2, <2>2
      <4>2. /\ active # d /\ (\A i \in DOMAIN log : log[i].of # d)
            /\ (\A i \in DOMAIN queue : queue[i] # d)
        BY <1>0, <4>1 DEF LiveOf
      <4>3. active' # d
        BY <2>1, <4>2, TypeFacts DEF Moves
      <4>4. Grows
        BY <2>1 DEF Moves
      <4>5. ASSUME NEW i \in DOMAIN log' PROVE log'[i].of # d
        <5>1. CASE i > Len(log)
          BY <5>1, <4>2, <4>4 DEF Grows
        <5>2. CASE ~(i > Len(log))
          <6>1. i \in DOMAIN log
            BY <4>4, <5>2, TypeFacts DEF Grows
          <6>2. QED BY <6>1, <4>2, <4>4 DEF Grows
        <5>3. QED BY <5>1, <5>2
      <4>6. QED BY <4>3, <4>5
    <3>3. ASSUME converges', pc'[d] \in {"reading", "settled"} PROVE active' # d
      <4>1. CASE idle'
        BY <4>1, <2>3, TypeFacts
      <4>2. CASE ~idle'
        <5>1. pc[d] \in {"reading", "settled"} /\ converges
          BY <3>3, <4>2, <2>1, <2>2 DEF Moves
        <5>2. active # d /\ (\A i \in DOMAIN queue : queue[i] # d)
          BY <1>0, <5>1 DEF LiveOf
        <5>3. QED BY <2>1, <5>2, TypeFacts DEF Moves
      <4>3. QED BY <4>1, <4>2
    <3>4. timer'[d] => InFlight(d)'
      <4>1. InFlight(d) => InFlight(d)'
        BY <2>2 DEF InFlight
      <4>2. QED BY <1>0, <2>1, <4>1 DEF LiveOf, Moves
    <3>5. QED BY <3>1, <3>2, <3>3, <3>4 DEF LiveOf
  <2>6. QED BY <2>4, <2>5
<1>6. ASSUME NEW c \in Calls, GraceExpires(c)
      PROVE  (aborting' => active' # None) /\ \A d \in Calls : LiveOf(d)'
  <2>1. \A e \in Calls : pc'[e] = IF e = c THEN "reading" ELSE pc[e]
    BY <1>6, Alone DEF GraceExpires
  <2>2. UNCHANGED <<log, queue, active, aborting, converges, timer>>
        /\ pc[c] = "grace" /\ (converges => active # c)
    BY <1>6 DEF GraceExpires, agentVars
  <2>3. QED BY <1>0, <2>1, <2>2 DEF LiveOf, InFlight
<1>7. ASSUME NEW c \in Calls, Read(c)
      PROVE  (aborting' => active' # None) /\ \A d \in Calls : LiveOf(d)'
  <2>1. \A e \in Calls : pc'[e] = IF e = c THEN "settled" ELSE pc[e]
    BY <1>7, Alone DEF Read, settleWith
  <2>2. UNCHANGED <<log, queue, active, aborting, converges>> /\ pc[c] = "reading"
    BY <1>7 DEF Read, agentVars
  <2>3. \A e \in Calls : timer'[e] => timer[e] /\ e # c
    BY <1>0, <1>7 DEF Read
  <2>4. QED BY <1>0, <2>1, <2>2, <2>3 DEF LiveOf, InFlight
<1>8. CASE (\E r \in Runs : AbortBetween(r)) \/ Over \/ UNCHANGED vars
  BY <1>0, <1>8 DEF AbortBetween, Over, vars, runnerVars, agentVars, LiveOf, InFlight
<1>9. QED BY <1>2, <1>3, <1>4, <1>5, <1>6, <1>7, <1>8 DEF Next

-----------------------------------------------------------------------------
(* The log grows only by what the agent does, and a baseline is taken by    *)
(* the call that begins.                                                    *)
LEMMA LogMoves ==
    ASSUME TypeOK, LiveInv, [Next]_vars
    PROVE  /\ Moves \/ log' = log
           /\ \A c \in Calls : \/ baseline'[c] = baseline[c]
                               \/ Begin(c) /\ baseline'[c] = Len(log) /\ log' = log
<1>0. baseline \in [Calls -> Nat]
  BY TypeFacts
<1>1. CASE \E c \in Calls : ReturnEarly(c) \/ TimerFires(c) \/ Abort(c) \/ GraceExpires(c)
                            \/ Read(c)
  BY <1>1 DEF ReturnEarly, TimerFires, Abort, GraceExpires, Read, cancelBy, cancel, agentVars
<1>2. ASSUME NEW b \in Calls, Begin(b)
      PROVE  /\ log' = log
             /\ \A c \in Calls : \/ baseline'[c] = baseline[c]
                                 \/ Begin(c) /\ baseline'[c] = Len(log) /\ log' = log
  <2>1. baseline' = [baseline EXCEPT ![b] = Len(log)] /\ log' = log
    BY <1>2 DEF Begin, followup
  <2>2. ASSUME NEW c \in Calls
        PROVE  \/ baseline'[c] = baseline[c]
               \/ Begin(c) /\ baseline'[c] = Len(log) /\ log' = log
    <3>1. CASE c = b
      BY <1>0, <1>2, <2>1, <3>1
    <3>2. CASE c # b
      BY <1>0, <2>1, <3>2
    <3>3. QED BY <3>1, <3>2
  <2>3. QED BY <2>1, <2>2
<1>3. CASE AgentStep \/ AgentAborts
  BY <1>3, AgentMoves DEF Moves
<1>4. CASE (\E r \in Runs : AbortBetween(r)) \/ Over \/ UNCHANGED vars
  BY <1>4 DEF AbortBetween, Over, vars, runnerVars, agentVars
<1>5. QED BY <1>1, <1>2, <1>3, <1>4 DEF Next

(* The events since a call began.                                           *)
SliceOf(c) ==
    InFlight(c) => \A i \in DOMAIN log : i > baseline[c] =>
        /\ converges => log[i].of = c \/ apart(log[i].of, c)
        /\ log[i].kind = "completed" => log[i].of = c \/ disturbed(c)

LEMMA SliceStep ==
    ASSUME TypeOK, LiveInv, OrderInv, SliceInv, [Next]_vars PROVE SliceInv'
<1>0. Onwards /\ converges' = converges
  BY StepsOnward DEF Onwards
<1>1. \A c \in Calls : SliceOf(c)
  BY DEF SliceInv, SliceOf
<1>2. ASSUME NEW c \in Calls PROVE SliceOf(c)'
  <2>1. SUFFICES ASSUME InFlight(c)', NEW i \in DOMAIN log', i > baseline'[c],
                        NEW b, b = log'[i].of
                 PROVE  /\ converges => b = c \/ apart(b, c)'
                        /\ log'[i].kind = "completed" => b = c \/ disturbed(c)'
    BY <1>0 DEF SliceOf, apart
  <2>2. (apart(b, c) => apart(b, c)') /\ (disturbed(c) => disturbed(c)')
    BY <1>0, ApartForGood
  <2>3. InFlight(c) /\ baseline'[c] = baseline[c]
    <3>1. CASE Begin(c) /\ baseline'[c] = Len(log) /\ log' = log
      BY <2>1, <3>1, TypeFacts
    <3>2. CASE ~(Begin(c) /\ baseline'[c] = Len(log) /\ log' = log)
      <4>1. baseline'[c] = baseline[c]
        BY <3>2, LogMoves
      <4>2. CASE Begin(c)
        <5>1. baseline' = [baseline EXCEPT ![c] = Len(log)] /\ log' = log
          BY <4>2 DEF Begin, followup
        <5>2. baseline'[c] = Len(log)
          BY <5>1, TypeFacts
        <5>3. QED BY <5>1, <5>2, <2>1, TypeFacts
      <4>3. QED BY <4>1, <4>2, <2>1, Departures
    <3>3. QED BY <3>1, <3>2
  <2>4. CASE i \in DOMAIN log /\ log'[i] = log[i]
    <3>1. /\ converges => b = c \/ apart(b, c)
          /\ log'[i].kind = "completed" => b = c \/ disturbed(c)
      BY <1>1, <2>1, <2>3, <2>4 DEF SliceOf
    <3>2. QED BY <2>2, <3>1
  <2>5. CASE ~(i \in DOMAIN log /\ log'[i] = log[i])
    <3>1. Moves /\ Grows
      BY <2>1, <2>5, LogMoves DEF Moves
    <3>2. i > Len(log)
      <4>1. i \in Nat \ {0}
        BY <2>1, <3>1 DEF Grows
      <4>2. QED BY <2>5, <3>1, <4>1, TypeFacts DEF Grows
    <3>3. active # None /\ b = active
          /\ (aborting => log'[i].kind \in {"prefix", "aborted"})
      BY <2>1, <3>1, <3>2 DEF Grows
    <3>4. active \in Calls
      BY <3>3, TypeFacts
    <3>5. InFlight(active) => active = c \/ (apart(active, c) /\ disturbed(c))
      BY <2>3, <3>4, FlightsApart
    <3>6. ~aborting \/ converges => InFlight(active)
      BY <3>3, LiveInFlight
    <3>7. log'[i].kind = "completed" => ~aborting
      BY <3>3
    <3>8. QED BY <2>2, <3>3, <3>5, <3>6, <3>7
  <2>6. QED BY <2>4, <2>5
<1>3. ASSUME NEW c \in Calls, InFlight(c)' PROVE baseline'[c] <= Len(log')
  <2>1. Len(log) <= Len(log') /\ Len(log) \in Nat /\ Len(log') \in Nat
    <3>1. Grows
      BY LogMoves, SameLogGrows DEF Moves
    <3>2. QED BY <3>1, TypeFacts DEF Grows
  <2>2. baseline[c] \in Nat
    BY TypeFacts
  <2>3. CASE Begin(c)
    <3>1. baseline' = [baseline EXCEPT ![c] = Len(log)]
      BY <2>3 DEF Begin
    <3>2. QED BY <2>1, <3>1, TypeFacts
  <2>4. CASE ~Begin(c)
    <3>1. InFlight(c) /\ baseline'[c] = baseline[c]
      BY <1>3, <2>4, Departures, LogMoves
    <3>2. QED BY <2>1, <2>2, <3>1 DEF SliceInv
  <2>5. QED BY <2>3, <2>4
<1>4. QED BY <1>2, <1>3 DEF SliceInv, SliceOf, InFlight

(* What has been cancelled and whose race whenIdle won.                     *)
LEMMA ToldStep ==
    ASSUME TypeOK, LiveInv, OrderInv, ToldInv, [Next]_vars PROVE ToldInv'
<1>0. /\ ResultType /\ pc \in [Calls -> Phases] /\ converged \in [Calls -> BOOLEAN]
      /\ \A c \in Calls : converged[c] => pc[c] \in {"reading", "settled"}
      /\ cancels \subseteq Calls \X Calls
  BY DEF ToldInv, ResultType, TypeOK
<1>1. ResultType'
  BY <1>0, TypeStep
<1>2. \A c \in Calls : converged'[c] => pc'[c] \in {"reading", "settled"}
  <2>1. ASSUME NEW phase \in [Calls -> Phases], whenIdle(phase),
               \A d \in Calls : phase[d] = pc[d] \/ (pc[d] = "waiting" /\ phase[d] = "grace"),
               NEW c \in Calls, converged'[c]
        PROVE  pc'[c] \in {"reading", "settled"}
    <3>1. /\ pc'[c] = IF idle' /\ phase[c] \in {"waiting", "grace"} THEN "reading" ELSE phase[c]
          /\ converged'[c] <=> converged[c] \/ (idle' /\ phase[c] = "waiting")
      BY <1>0, <2>1, WhenIdle
    <3>2. QED BY <1>0, <2>1, <3>1
  <2>2. ASSUME NEW c \in Calls, TimerFires(c) \/ Abort(c)
        PROVE \A d \in Calls : converged'[d] => pc'[d] \in {"reading", "settled"}
    BY <2>1, <2>2, CancelsCalls, GivenUp DEF Cancels
  <2>3. CASE AgentStep \/ AgentAborts
    BY <1>0, <2>1, <2>3, AgentMoves DEF Moves
  <2>4. ASSUME NEW c \in Calls,
               ReturnEarly(c) \/ Begin(c) \/ GraceExpires(c) \/ Read(c)
        PROVE \A d \in Calls : converged'[d] => pc'[d] \in {"reading", "settled"}
    <3>1. /\ converged' = converged /\ pc[c] \in {"new", "grace", "reading"}
          /\ \E p \in {"settled", "waiting", "reading"} :
                pc' = [pc EXCEPT ![c] = p] /\ (pc[c] = "reading" => p = "settled")
      BY <2>4 DEF ReturnEarly, Begin, GraceExpires, Read, settleWith, mayBegin
    <3>2. QED BY <1>0, <3>1
  <2>5. CASE (\E r \in Runs : AbortBetween(r)) \/ Over \/ UNCHANGED vars
    BY <1>0, <2>5 DEF AbortBetween, Over, vars, runnerVars
  <2>6. QED BY <2>2, <2>3, <2>4, <2>5 DEF Next
<1>3. ASSUME converges', NEW p \in cancels' PROVE p[1] = p[2] \/ apart(p[1], p[2])'
  <2>1. Onwards /\ converges
    BY <1>3, StepsOnward DEF Onwards
  <2>2. CASE p \in cancels
    <3>1. p[1] = p[2] \/ apart(p[1], p[2])
      BY <2>1, <2>2 DEF ToldInv
    <3>2. p[2] \in Calls
      BY <1>0, <2>2
    <3>3. QED BY <2>1, <3>1, <3>2, ApartForGood
  <2>3. CASE p \notin cancels
    <3>1. PICK c \in Calls : TimerFires(c) \/ Abort(c)
      BY <2>3, <1>3 DEF Next, ReturnEarly, Begin, GraceExpires, Read, AbortBetween, AgentStep,
                        AgentAborts, Over, vars, runnerVars
    <3>2. Cancels(c)
      BY <3>1, CancelsCalls
    <3>3. active # None /\ p = <<c, active>>
      BY <2>3, <1>3, <3>2 DEF Cancels
    <3>4. InFlight(active) /\ InFlight(c) /\ active \in Calls
      BY <2>1, <3>2, <3>3, LiveInFlight, TypeFacts DEF Cancels
    <3>5. c = active \/ apart(c, active)
      BY <3>4, FlightsApart
    <3>6. QED BY <2>1, <3>3, <3>4, <3>5, ApartForGood
  <2>4. QED BY <2>2, <2>3
<1>4. QED BY <1>1, <1>2, <1>3 DEF ToldInv, ResultType

-----------------------------------------------------------------------------
(* The turn of an undisturbed call.                                         *)
TurnOf(c) ==
    /\ pc[c] = "waiting" =>
          /\ notEnded(c)
          /\ \/ /\ queue # <<>> /\ queue[Len(queue)] = c /\ active # c
                /\ \A i \in DOMAIN queue : queue[i] = c => i = Len(queue)
             \/ queue = <<>> /\ active = c /\ ~aborting
    /\ pc[c] = "grace" => notCompleted(c)
    /\ pc[c] = "reading" => IF converged[c] THEN endedLast(c) ELSE notCompleted(c)

LEMMA TurnEach == TurnInv <=> \A c \in Calls : disturbed(c) \/ TurnOf(c)
BY DEF TurnInv, TurnOf

LEMMA SameTurn ==
    ASSUME NEW c \in Calls, TurnOf(c),
           UNCHANGED <<log, queue, active, aborting, pc[c], converged[c], baseline[c]>>
    PROVE  TurnOf(c)'
BY DEF TurnOf, notEnded, notCompleted, endedLast

(* A call that waited for nothing can be told nothing: it is not affected.  *)
LEMMA NoTurn ==
    ASSUME NEW c \in Calls, pc'[c] \in {"new", "settled"} PROVE TurnOf(c)'
BY DEF TurnOf

(* c begins: its message is the last in the queue.                          *)
LEMMA TurnBegins ==
    ASSUME TypeOK, LiveInv, NEW c \in Calls, Begin(c) PROVE TurnOf(c)'
<1>1. pc'[c] = "waiting" /\ pc[c] = "new" /\ log' = log /\ active' = active
      /\ queue' = Append(queue, c)
  <2>1. pc' = [pc EXCEPT ![c] = "waiting"]
    BY DEF Begin
  <2>2. pc'[c] = "waiting"
    BY <2>1, TypeFacts
  <2>3. QED BY <2>2 DEF Begin, mayBegin, followup
<1>2. /\ \A i \in 1 .. Len(queue) : queue'[i] = queue[i]
      /\ queue'[Len(queue) + 1] = c /\ Len(queue') = Len(queue) + 1
      /\ DOMAIN queue' = 1 .. Len(queue) + 1
      /\ DOMAIN queue = 1 .. Len(queue) /\ Len(queue) \in Nat
  BY <1>1, TypeFacts, AppendOne
<1>3. /\ \A i \in DOMAIN queue : queue[i] # c
      /\ active # c /\ \A i \in DOMAIN log : log[i].of # c
  BY <1>1 DEF LiveInv
<1>4. notEnded(c)'
  BY <1>1, <1>3 DEF notEnded
<1>5. \A i \in DOMAIN queue' : queue'[i] = c => i = Len(queue')
  BY <1>2, <1>3
<1>6. queue' # <<>>
  BY <1>2
<1>7. QED BY <1>1, <1>2, <1>3, <1>4, <1>5, <1>6 DEF TurnOf

(* c cancels: nothing of it completes any more.                             *)
LEMMA TurnCancelled ==
    ASSUME TypeOK, ToldInv, NEW c \in Calls, TurnOf(c), Cancels(c) PROVE TurnOf(c)'
<1> DEFINE phase == giveUpWaiting(pc, c)
<1>0. converged \in [Calls -> BOOLEAN]
  BY DEF TypeOK
<1>1. phase \in [Calls -> Phases] /\ phase[c] = IF pc[c] = "waiting" THEN "grace" ELSE pc[c]
  BY GivenUp
<1>2. whenIdle(phase)
  BY DEF Cancels
<1> HIDE DEF phase
<1>3. /\ pc'[c] = IF idle' /\ phase[c] \in {"waiting", "grace"} THEN "reading" ELSE phase[c]
      /\ converged'[c] <=> converged[c] \/ (idle' /\ phase[c] = "waiting")
  BY <1>0, <1>1, <1>2, WhenIdle
<1>4. log' = log /\ baseline' = baseline /\ InFlight(c)
  BY DEF Cancels
<1>5. converged'[c] <=> converged[c]
  BY <1>1, <1>3
<1>6. CASE pc[c] \in {"waiting", "grace"}
  <2>1. ~converged'[c]
    BY <1>5, <1>6 DEF ToldInv
  <2>2. notCompleted(c)
    BY <1>6 DEF TurnOf, notEnded, notCompleted, Ends
  <2>3. notCompleted(c)'
    BY <2>2, <1>4 DEF notCompleted
  <2>4. pc'[c] \in {"grace", "reading"}
    BY <1>1, <1>3, <1>6
  <2>5. QED BY <2>1, <2>3, <2>4 DEF TurnOf
<1>7. CASE pc[c] = "reading"
  <2>1. pc'[c] = "reading"
    BY <1>1, <1>3, <1>7
  <2>2. IF converged'[c] THEN endedLast(c)' ELSE notCompleted(c)'
    BY <1>4, <1>5, <1>7 DEF TurnOf, endedLast, notCompleted
  <2>3. QED BY <2>1, <2>2 DEF TurnOf
<1>8. QED BY <1>4, <1>6, <1>7 DEF InFlight

(* The log grows by events of another turn, or by none that end c's.        *)
LEMMA GrowsUnended ==
    ASSUME TypeOK, Grows, NEW c \in Calls,
           \A i \in DOMAIN log' : i > Len(log) /\ log'[i].of = c => log'[i].kind \notin Ends
    PROVE  /\ notEnded(c) => notEnded(c)'
<1>1. SUFFICES ASSUME notEnded(c), NEW i \in DOMAIN log', log'[i].of = c
               PROVE  log'[i].kind \notin Ends
  BY DEF notEnded
<1>2. CASE i > Len(log)
  BY <1>1, <1>2
<1>3. CASE ~(i > Len(log))
  <2>1. i \in DOMAIN log
    BY <1>3, TypeFacts DEF Grows
  <2>2. QED BY <2>1, <1>1 DEF Grows, notEnded
<1>4. QED BY <1>2, <1>3

LEMMA GrowsUncompleted ==
    ASSUME TypeOK, Grows, NEW c \in Calls, active = c => aborting
    PROVE  notCompleted(c) => notCompleted(c)'
<1>1. SUFFICES ASSUME notCompleted(c), NEW i \in DOMAIN log',
                      log'[i] = [of |-> c, kind |-> "completed"]
               PROVE  FALSE
  BY DEF notCompleted
<1>2. log'[i].of = c /\ log'[i].kind = "completed"
  BY <1>1
<1>3. CASE i > Len(log)
  BY <1>2, <1>3 DEF Grows
<1>4. CASE ~(i > Len(log))
  <2>1. i \in DOMAIN log
    BY <1>4, TypeFacts DEF Grows
  <2>2. QED BY <2>1, <1>1 DEF Grows, notCompleted
<1>5. QED BY <1>3, <1>4

(* The agent moves: the waiting call's turn comes, goes on or ends.         *)
LEMMA TurnMoves ==
    ASSUME TypeOK, LiveInv, ToldInv, SliceInv, NEW c \in Calls, TurnOf(c),
           AgentStep \/ AgentAborts
    PROVE  TurnOf(c)'
<1>0. Moves /\ Grows /\ pc[c] # "reading"
  BY AgentMoves DEF Moves, noneReading
<1>1. /\ pc \in [Calls -> Phases] /\ converged \in [Calls -> BOOLEAN]
  BY DEF TypeOK
<1>2. /\ pc'[c] = IF idle' /\ pc[c] \in {"waiting", "grace"} THEN "reading" ELSE pc[c]
      /\ converged'[c] <=> converged[c] \/ (idle' /\ pc[c] = "waiting")
  BY <1>0, <1>1, WhenIdle DEF Moves
<1>3. CASE pc[c] \in {"new", "settled"}
  BY <1>2, <1>3, NoTurn
<1>4. CASE pc[c] = "grace"
  <2>1. active = c => aborting
    BY <1>4 DEF LiveInv
  <2>2. notCompleted(c)'
    BY <1>0, <1>4, <2>1, GrowsUncompleted DEF TurnOf
  <2>3. ~converged'[c]
    BY <1>2, <1>4 DEF ToldInv
  <2>4. QED BY <1>2, <1>4, <2>2, <2>3 DEF TurnOf
<1>5. CASE pc[c] = "waiting"
  <2>1. notEnded(c)
    BY <1>5 DEF TurnOf
  <2>2. CASE /\ queue # <<>> /\ queue[Len(queue)] = c /\ active # c
             /\ \A i \in DOMAIN queue : queue[i] = c => i = Len(queue)
    <3>1. notEnded(c)'
      BY <1>0, <2>1, <2>2, GrowsUnended DEF Grows
    <3>2. CASE StartTurn
      <4>1. /\ active = None /\ active' = Head(queue) /\ queue' = Tail(queue)
            /\ aborting' = aborting
        BY <3>2 DEF StartTurn
      <4>2. /\ Head(queue) = queue[1] /\ 1 \in DOMAIN queue /\ queue' \in Seq(Calls)
            /\ Len(queue') = Len(queue) - 1 /\ Len(queue) \in Nat \ {0}
            /\ \A i \in DOMAIN queue' : i + 1 \in DOMAIN queue /\ queue'[i] = queue[i + 1]
        BY <2>2, <4>1, TypeFacts, HeadTail
      <4>3. active' # None
        BY <4>1, <4>2, TypeFacts
      <4>4. pc'[c] = "waiting"
        BY <1>2, <1>5, <4>3 DEF idle
      <4>5. CASE Len(queue) = 1
        <5>1. active' = c /\ queue' = <<>>
          BY <2>2, <4>1, <4>2, <4>5
        <5>2. ~aborting'
          BY <4>1 DEF LiveInv
        <5>3. QED BY <3>1, <4>4, <5>1, <5>2 DEF TurnOf
      <4>6. CASE Len(queue) # 1
        <5>1. Len(queue') \in Nat \ {0} /\ DOMAIN queue' = 1 .. Len(queue')
          BY <4>2, <4>6
        <5>2. queue' # <<>>
          BY <5>1
        <5>3. queue'[Len(queue')] = c
          BY <2>2, <4>2, <5>1
        <5>4. active' # c
          BY <2>2, <4>1, <4>2, <4>6
        <5>5. \A i \in DOMAIN queue' : queue'[i] = c => i = Len(queue')
          BY <2>2, <4>2, <5>1
        <5>6. QED BY <3>1, <4>4, <5>2, <5>3, <5>4, <5>5 DEF TurnOf
      <4>7. QED BY <4>5, <4>6
    <3>3. CASE Message \/ EndTurn \/ EndAborted
      <4>1. queue' = queue /\ active' \in {active, None}
        BY <3>3 DEF Message, EndTurn, EndAborted
      <4>2. active' # c
        BY <2>2, <4>1, TypeFacts
      <4>3. pc'[c] = "waiting"
        BY <1>2, <1>5, <2>2, <4>1 DEF idle
      <4>4. QED BY <2>2, <3>1, <4>1, <4>2, <4>3 DEF TurnOf
    <3>4. QED BY <3>2, <3>3 DEF AgentStep, AgentAborts
  <2>3. CASE queue = <<>> /\ active = c /\ ~aborting
    <3>1. c # None
      BY TypeFacts
    <3>2. CASE Message
      <4>1. /\ Len(log') = Len(log) + 1 /\ log'[Len(log')] = [of |-> active, kind |-> "message"]
        BY <3>2, EmitGrows DEF Message
      <4>2. \A i \in DOMAIN log' : i > Len(log) => i = Len(log')
        BY <1>0, <4>1, TypeFacts DEF Grows
      <4>3. notEnded(c)'
        BY <1>0, <2>1, <4>1, <4>2, GrowsUnended DEF Ends
      <4>4. queue' = queue /\ active' = active /\ aborting' = aborting
        BY <3>2 DEF Message
      <4>5. pc'[c] = "waiting"
        BY <1>2, <1>5, <2>3, <3>1, <4>4 DEF idle
      <4>6. QED BY <2>3, <4>3, <4>4, <4>5 DEF TurnOf
    <3>3. CASE EndTurn
      <4>1. PICK k \in {"completed", "error"} : log' = emit(k)
        BY <3>3 DEF EndTurn
      <4>2. /\ Len(log') = Len(log) + 1 /\ log'[Len(log')] = [of |-> active, kind |-> k]
        BY <3>3, <4>1, EmitGrows DEF EndTurn, Ends
      <4>3. queue' = queue /\ active' = None
        BY <3>3 DEF EndTurn
      <4>4. pc'[c] = "reading" /\ converged'[c]
        BY <1>2, <1>5, <2>3, <4>3 DEF idle
      <4>5. log'[Len(log')].of = c /\ log'[Len(log')].kind \in {"completed", "error"}
        BY <2>3, <4>2
      <4>6. Len(log') > baseline'[c]
        <5>1. baseline[c] <= Len(log) /\ baseline' = baseline
          BY <1>0, <1>5 DEF SliceInv, InFlight, Moves
        <5>2. QED BY <4>2, <5>1, TypeFacts
      <4>7. ASSUME NEW i \in DOMAIN log', log'[i].of = c, log'[i].kind \in Ends
            PROVE  i = Len(log')
        <5>1. DOMAIN log' = 1 .. Len(log) + 1
          BY <1>0, <4>2 DEF Grows
        <5>2. CASE i \in DOMAIN log
          BY <1>0, <2>1, <4>7, <5>2 DEF Grows, notEnded
        <5>3. CASE i \notin DOMAIN log
          BY <4>2, <5>1, <5>3, TypeFacts
        <5>4. QED BY <5>2, <5>3
      <4>8. endedLast(c)'
        BY <4>5, <4>6, <4>7 DEF endedLast
      <4>9. QED BY <4>4, <4>8 DEF TurnOf
    <3>4. CASE StartTurn \/ EndAborted
      BY <2>3, <3>4 DEF StartTurn, EndAborted
    <3>5. QED BY <3>2, <3>3, <3>4 DEF AgentStep, AgentAborts
  <2>4. QED BY <1>5, <2>2, <2>3 DEF TurnOf
<1>6. QED BY <1>0, <1>1, <1>3, <1>4, <1>5 DEF Phases

LEMMA TurnStep ==
    ASSUME TypeOK, OrderInv, LiveInv, ToldInv, SliceInv, TurnInv, [Next]_vars PROVE TurnInv'
<1>0. Onwards
  BY StepsOnward
<1>1. SUFFICES ASSUME NEW c \in Calls, ~disturbed(c)' PROVE TurnOf(c)'
  <2>1. (\A c \in Calls : disturbed(c)' \/ TurnOf(c)') => TurnInv'
    BY DEF TurnInv, TurnOf
  <2>2. QED BY <2>1
<1>2. ~disturbed(c) /\ TurnOf(c)
  BY <1>0, <1>1, ApartForGood, TurnEach
<1>3. pc \in [Calls -> Phases] /\ converged \in [Calls -> BOOLEAN]
  BY DEF TypeOK
<1>4. ASSUME NEW b \in Calls, ReturnEarly(b) \/ Read(b) PROVE TurnOf(c)'
  <2>1. \A e \in Calls : pc'[e] = IF e = b THEN "settled" ELSE pc[e]
    BY <1>4, Alone DEF ReturnEarly, Read, settleWith
  <2>2. UNCHANGED <<log, queue, active, aborting, converged, baseline>>
    BY <1>4 DEF ReturnEarly, Read, agentVars
  <2>3. QED BY <1>2, <2>1, <2>2, NoTurn, SameTurn
<1>5. ASSUME NEW b \in Calls, Begin(b) PROVE TurnOf(c)'
  <2>1. CASE b = c
    BY <1>5, <2>1, TurnBegins
  <2>2. CASE b # c
    <3>1. \A e \in Calls : pc'[e] = IF e = b THEN "waiting" ELSE pc[e]
      BY <1>5, Alone DEF Begin
    <3>2. ~InFlight(c)
      <4>1. SUFFICES ASSUME InFlight(c) PROVE FALSE
        OBVIOUS
      <4>2. apart(b, c)
        BY <1>5, <4>1, BeginsApart DEF Begin
      <4>3. apart(b, c)'
        BY <1>0, <4>2, ApartForGood
      <4>4. pc'[b] # "new"
        BY <3>1
      <4>5. QED BY <1>1, <4>3, <4>4 DEF disturbed
    <3>3. pc'[c] \in {"new", "settled"}
      BY <1>3, <2>2, <3>1, <3>2 DEF InFlight, Phases
    <3>4. QED BY <3>3, NoTurn
  <2>3. QED BY <2>1, <2>2
<1>6. ASSUME NEW b \in Calls, TimerFires(b) \/ Abort(b) PROVE TurnOf(c)'
  <2>1. Cancels(b)
    BY <1>6, CancelsCalls
  <2>2. CASE b = c
    BY <1>2, <2>1, <2>2, TurnCancelled
  <2>3. CASE b # c
    <3>1. ~InFlight(c)
      BY <1>2, <2>1, <2>3, FlightsApart DEF Cancels
    <3>2. pc[c] \in {"new", "settled"}
      BY <1>3, <3>1 DEF InFlight, Phases
    <3>3. pc'[c] = pc[c]
      <4>1. /\ giveUpWaiting(pc, b) \in [Calls -> Phases] /\ whenIdle(giveUpWaiting(pc, b))
            /\ giveUpWaiting(pc, b)[c] = pc[c]
        BY <2>1, <2>3, GivenUp DEF Cancels
      <4>2. QED BY <1>3, <3>2, <4>1, WhenIdle
    <3>4. QED BY <3>2, <3>3, NoTurn
  <2>4. QED BY <2>2, <2>3
<1>7. ASSUME NEW b \in Calls, GraceExpires(b) PROVE TurnOf(c)'
  <2>1. /\ \A e \in Calls : pc'[e] = IF e = b THEN "reading" ELSE pc[e]
        /\ UNCHANGED <<log, queue, active, aborting, converged, baseline>>
        /\ pc[b] = "grace"
    BY <1>7, Alone DEF GraceExpires, agentVars
  <2>2. CASE b = c
    <3>1. notCompleted(c) /\ ~converged[c]
      BY <1>2, <2>1, <2>2 DEF TurnOf, ToldInv
    <3>2. notCompleted(c)' /\ ~converged'[c]
      BY <2>1, <3>1 DEF notCompleted
    <3>3. QED BY <2>1, <2>2, <3>2 DEF TurnOf
  <2>3. CASE b # c
    BY <1>2, <2>1, <2>3, SameTurn
  <2>4. QED BY <2>2, <2>3
<1>8. CASE AgentStep \/ AgentAborts
  BY <1>2, <1>8, TurnMoves
<1>9. CASE (\E r \in Runs : AbortBetween(r)) \/ Over \/ UNCHANGED vars
  <2>1. UNCHANGED <<log, queue, active, aborting, pc, converged, baseline>>
    BY <1>9 DEF AbortBetween, Over, vars, runnerVars, agentVars
  <2>2. QED BY <1>2, <2>1, SameTurn
<1>10. QED BY <1>4, <1>5, <1>6, <1>7, <1>8, <1>9 DEF Next

-----------------------------------------------------------------------------
(* A call's turn ended so.                                                  *)
TurnEnds(c, k) == \E i \in DOMAIN log : log[i] = [of |-> c, kind |-> k]

LEMMA NoneCompleted == ASSUME NEW c PROVE notCompleted(c) <=> ~TurnEnds(c, "completed")
BY DEF notCompleted, TurnEnds

(* What OutcomeTruthful says of one call.                                   *)
TruthOf(c) ==
    /\ Settled(c) /\ ~disturbed(c) =>
          (result[c] = "completed" <=> TurnEnds(c, "completed"))
    /\ result[c] = "cancelled" => RunOf[c] \in aborted \/ disturbed(c)
    /\ result[c] = "failed" /\ converged[c] => TurnEnds(c, "error") \/ disturbed(c)

LEMMA TruthEach == OutcomeTruthful <=> \A c \in Calls : TruthOf(c)
BY DEF OutcomeTruthful, TruthOf, TurnEnds

(* A call returns by itself, once, and then nothing of it changes.          *)
LEMMA Settling ==
    ASSUME TypeOK, ResultType, LiveInv, [Next]_vars, NEW c \in Calls, pc'[c] = "settled"
    PROVE  \/ ReturnEarly(c) \/ Read(c)
           \/ pc[c] = "settled" /\ result'[c] = result[c] /\ (converged'[c] <=> converged[c])
<1>0. /\ pc \in [Calls -> Phases] /\ converged \in [Calls -> BOOLEAN]
      /\ result \in [Calls -> Outcomes \cup {Undefined}]
  BY DEF TypeOK, ResultType
<1> DEFINE Stays == pc[c] = "settled" /\ result'[c] = result[c]
                    /\ (converged'[c] <=> converged[c])
<1>1. ASSUME NEW b \in Calls, ReturnEarly(b) \/ Read(b), b # c PROVE Stays
  <2>1. /\ pc' = [pc EXCEPT ![b] = "settled"] /\ converged' = converged
        /\ \E o : result' = [result EXCEPT ![b] = o]
    BY <1>1 DEF ReturnEarly, Read, settleWith
  <2>2. QED BY <1>0, <1>1, <2>1
<1>2. ASSUME NEW b \in Calls, Begin(b) \/ GraceExpires(b) PROVE Stays
  <2>1. /\ \E p \in {"waiting", "reading"} : pc' = [pc EXCEPT ![b] = p]
        /\ converged' = converged /\ result' = result
    BY <1>2 DEF Begin, GraceExpires
  <2>2. QED BY <1>0, <2>1
<1>3. ASSUME NEW phase \in [Calls -> Phases], whenIdle(phase), result' = result,
             phase[c] = pc[c] \/ (pc[c] = "waiting" /\ phase[c] = "grace")
      PROVE  Stays
  <2>1. /\ pc'[c] = IF idle' /\ phase[c] \in {"waiting", "grace"} THEN "reading" ELSE phase[c]
        /\ converged'[c] <=> converged[c] \/ (idle' /\ phase[c] = "waiting")
    BY <1>0, <1>3, WhenIdle
  <2>2. QED BY <1>3, <2>1
<1>4. ASSUME NEW b \in Calls, TimerFires(b) \/ Abort(b) PROVE Stays
  BY <1>3, <1>4, CancelsCalls, GivenUp DEF Cancels
<1>5. CASE AgentStep \/ AgentAborts
  BY <1>0, <1>3, <1>5, AgentMoves DEF Moves
<1>6. CASE (\E r \in Runs : AbortBetween(r)) \/ Over \/ UNCHANGED vars
  BY <1>6 DEF AbortBetween, Over, vars, runnerVars
<1>7. QED BY <1>1, <1>2, <1>4, <1>5, <1>6 DEF Next

(* The last end in the slice of a call, and the outcome it makes.           *)
LEMMA ReadTells ==
    ASSUME TypeOK, SliceInv, TurnInv, NEW c \in Calls, pc[c] = "reading", ~disturbed(c),
           NEW o, o = outcomeFromEvents(c, SubSeq(log, baseline[c] + 1, Len(log)))
    PROVE  /\ o = "completed" <=> TurnEnds(c, "completed")
           /\ o = "cancelled" => RunOf[c] \in aborted
           /\ o = "failed" /\ converged[c] => TurnEnds(c, "error")
<1> DEFINE s == SubSeq(log, baseline[c] + 1, Len(log))
           ends == {i \in DOMAIN s : s[i].kind \in Ends}
           last == CHOOSE i \in ends : \A j \in ends : j <= i
           turnEnd == IF ends = {} THEN Undefined ELSE s[last].kind
<1>1. /\ s \in Seq(Event) /\ DOMAIN s = 1 .. Len(s) /\ Len(s) \in Nat
      /\ Len(log) > baseline[c] => Len(s) = Len(log) - baseline[c]
      /\ \A i \in DOMAIN s : /\ baseline[c] + i \in DOMAIN log
                             /\ baseline[c] + i > baseline[c]
                             /\ s[i] = log[baseline[c] + i]
  BY SliceOfLog
<1>2. o = IF turnEnd = "completed" THEN "completed"
          ELSE IF ~converged[c] /\ RunOf[c] \notin aborted THEN "timeout"
          ELSE IF RunOf[c] \in aborted \/ turnEnd = "aborted" THEN "cancelled"
          ELSE "failed"
  BY DEF outcomeFromEvents
<1> HIDE DEF s
<1>3. ends # {} => last \in ends /\ \A j \in ends : j <= last
  <2>1. ends \in SUBSET (1 .. Len(s))
    BY <1>1
  <2>2. ends # {} => \E i \in ends : \A j \in ends : j <= i
    <3> HIDE DEF ends
    <3>1. QED BY <1>1, <2>1, LastOne
  <2> HIDE DEF ends
  <2>3. QED BY <2>2
<1> HIDE DEF last
<1>4. turnEnd = "completed" => TurnEnds(c, "completed")
  <2>1. SUFFICES ASSUME turnEnd = "completed" PROVE TurnEnds(c, "completed")
    OBVIOUS
  <2>2. last \in ends /\ s[last].kind = "completed"
    BY <1>3, <2>1, UndefinedAssumption DEF Outcomes
  <2> DEFINE j == baseline[c] + last
  <2>3. j \in DOMAIN log /\ j > baseline[c] /\ log[j].kind = "completed"
    BY <1>1, <2>2
  <2> HIDE DEF j
  <2>4. log[j].of = c
    BY <2>3 DEF SliceInv, InFlight
  <2>5. log[j] \in Event
    BY <2>3, TypeFacts
  <2>6. log[j] = [of |-> c, kind |-> "completed"]
    BY <2>3, <2>4, <2>5 DEF Event
  <2>7. QED BY <2>3, <2>6 DEF TurnEnds
<1>5. TurnOf(c)
  BY TurnEach
<1>6. CASE ~converged[c]
  <2>1. ~TurnEnds(c, "completed")
    BY <1>5, <1>6, NoneCompleted DEF TurnOf
  <2>2. turnEnd # "completed"
    BY <1>4, <2>1
  <2> HIDE DEF turnEnd
  <2>3. QED BY <1>2, <1>6, <2>1, <2>2
<1>7. CASE converged[c]
  <2> DEFINE n == Len(log)
  <2>1. endedLast(c)
    BY <1>5, <1>7 DEF TurnOf
  <2>2. /\ n > baseline[c] /\ log[n].of = c /\ log[n].kind \in {"completed", "error"}
        /\ \A i \in DOMAIN log : log[i].of = c /\ log[i].kind \in Ends => i = n
        /\ n \in Nat /\ DOMAIN log = 1 .. n /\ baseline[c] \in Nat
    BY <2>1, TypeFacts DEF endedLast
  <2> HIDE DEF n
  <2>3. Len(s) = n - baseline[c]
    BY <1>1, <2>2 DEF n
  <2>4. Len(s) \in DOMAIN s /\ baseline[c] + Len(s) = n
    BY <1>1, <2>2, <2>3
  <2>5. Len(s) \in ends
    BY <1>1, <2>2, <2>4 DEF Ends
  <2>6. last = Len(s)
    <3>1. last \in ends /\ Len(s) <= last
      BY <1>3, <2>5
    <3>2. last \in 1 .. Len(s)
      BY <1>1, <3>1
    <3>3. QED BY <1>1, <3>1, <3>2
  <2>7. turnEnd = log[n].kind
    BY <1>1, <2>4, <2>5, <2>6
  <2>8. n \in DOMAIN log /\ log[n] \in Event
    BY <2>2, TypeFacts
  <2>9. TurnEnds(c, "completed") => log[n].kind = "completed"
    <3>1. SUFFICES ASSUME NEW i \in DOMAIN log, log[i] = [of |-> c, kind |-> "completed"]
                   PROVE  log[n].kind = "completed"
      BY DEF TurnEnds
    <3>2. i = n
      BY <2>2, <3>1 DEF Ends
    <3>3. QED BY <3>1, <3>2
  <2>10. log[n].kind = "error" => TurnEnds(c, "error")
    <3>1. SUFFICES ASSUME log[n].kind = "error" PROVE TurnEnds(c, "error")
      OBVIOUS
    <3>2. log[n] = [of |-> c, kind |-> "error"]
      BY <2>2, <2>8, <3>1 DEF Event
    <3>3. QED BY <2>8, <3>2 DEF TurnEnds
  <2> HIDE DEF turnEnd
  <2>11. QED BY <1>2, <1>4, <1>7, <2>2, <2>7, <2>9, <2>10
<1>8. QED BY <1>6, <1>7

LEMMA TruthStep ==
    ASSUME TypeOK, ToldInv, LiveInv, SliceInv, TurnInv, OutcomeTruthful, [Next]_vars
    PROVE  OutcomeTruthful'
<1>0. Onwards /\ ResultType /\ TypeOK' /\ ResultType'
  BY StepsOnward, TypeStep DEF ToldInv, ResultType
<1>1. Grows
  BY LogMoves, SameLogGrows DEF Moves
<1>2. ASSUME NEW c \in Calls PROVE TruthOf(c)'
  <2>0. /\ TruthOf(c) /\ (disturbed(c) => disturbed(c)') /\ aborted \subseteq aborted'
        /\ (TurnEnds(c, "error") => TurnEnds(c, "error")')
    <3>1. TurnEnds(c, "error") => TurnEnds(c, "error")'
      BY <1>1 DEF TurnEnds, Grows
    <3>2. QED BY <1>0, <3>1, TruthEach, ApartForGood DEF Onwards
  <2>1. CASE pc'[c] # "settled"
    <3>1. result'[c] = Undefined
      BY <1>0, <2>1 DEF TypeOK
    <3>2. QED BY <2>1, <3>1, UndefinedAssumption DEF TruthOf, Settled, Outcomes
  <2>2. CASE /\ pc[c] = "settled" /\ pc'[c] = "settled" /\ result'[c] = result[c]
             /\ converged'[c] <=> converged[c]
    <3>1. TurnEnds(c, "completed")' <=> TurnEnds(c, "completed")
      <4>1. TurnEnds(c, "completed") => TurnEnds(c, "completed")'
        BY <1>1 DEF TurnEnds, Grows
      <4>2. active = c => aborting
        BY <2>2 DEF LiveInv
      <4>3. notCompleted(c) => notCompleted(c)'
        BY <1>1, <4>2, GrowsUncompleted
      <4>4. notCompleted(c)' => ~TurnEnds(c, "completed")'
        BY DEF notCompleted, TurnEnds
      <4>5. QED BY <4>1, <4>3, <4>4, NoneCompleted
    <3>2. QED BY <2>0, <2>2, <3>1 DEF TruthOf, Settled
  <2>3. CASE ReturnEarly(c)
    <3>1. /\ pc[c] = "new" /\ aborted' = aborted /\ log' = log /\ converged' = converged
          /\ settleWith(c, IF RunOf[c] \in aborted THEN "cancelled" ELSE "failed")
      BY <2>3 DEF ReturnEarly, mayBegin, agentVars
    <3>2. result'[c] = IF RunOf[c] \in aborted THEN "cancelled" ELSE "failed"
      BY <1>0, <3>1, Settles DEF Outcomes
    <3>3. ~converged'[c]
      BY <3>1 DEF ToldInv
    <3>4. ~TurnEnds(c, "completed")'
      BY <3>1 DEF LiveInv, TurnEnds
    <3>5. QED BY <3>1, <3>2, <3>3, <3>4 DEF TruthOf
  <2>4. CASE Read(c)
    <3> DEFINE o == outcomeFromEvents(c, SubSeq(log, baseline[c] + 1, Len(log)))
    <3>1. /\ pc[c] = "reading" /\ aborted' = aborted /\ log' = log /\ converged' = converged
          /\ settleWith(c, o)
      BY <2>4 DEF Read, agentVars
    <3>2. o \in Outcomes
      BY OutcomeTold
    <3>3. ~disturbed(c) => /\ o = "completed" <=> TurnEnds(c, "completed")
                           /\ o = "cancelled" => RunOf[c] \in aborted
                           /\ o = "failed" /\ converged[c] => TurnEnds(c, "error")
      BY <3>1, ReadTells
    <3> HIDE DEF o
    <3>4. result'[c] = o
      BY <1>0, <3>1, <3>2, Settles
    <3>5. TurnEnds(c, "completed")' <=> TurnEnds(c, "completed")
      BY <3>1 DEF TurnEnds
    <3>6. QED BY <2>0, <3>1, <3>3, <3>4, <3>5 DEF TruthOf
  <2>5. QED BY <1>0, <2>1, <2>2, <2>3, <2>4, Settling
<1>3. QED BY <1>2 DEF OutcomeTruthful, TruthOf, TurnEnds, Settled

LEMMA OwnStep ==
    ASSUME TypeOK, ToldInv, LiveInv, SliceInv, SliceIsOwn, [Next]_vars PROVE SliceIsOwn'
<1>0. Onwards /\ TypeOK'
  BY StepsOnward, TypeStep DEF ToldInv, ResultType
<1>1. ASSUME NEW c \in Calls, NEW i \in DOMAIN slice'[c], converges',
             NEW b, b = slice'[c][i].of
      PROVE  b = c \/ apart(b, c)'
  <2>1. converges /\ (apart(b, c) => apart(b, c)')
    BY <1>0, <1>1, ApartForGood DEF Onwards
  <2>2. CASE slice'[c] = slice[c]
    BY <1>1, <2>1, <2>2 DEF SliceIsOwn
  <2>3. CASE Read(c)
    <3> DEFINE s == SubSeq(log, baseline[c] + 1, Len(log))
    <3>1. slice'[c] = s /\ pc[c] = "reading"
      <4>1. slice' = [slice EXCEPT ![c] = s] /\ pc[c] = "reading"
        BY <2>3 DEF Read
      <4>2. slice \in [Calls -> Seq(Event)]
        BY DEF TypeOK
      <4> HIDE DEF s
      <4>3. QED BY <4>1, <4>2
    <3>2. /\ baseline[c] + i \in DOMAIN log /\ baseline[c] + i > baseline[c]
          /\ slice'[c][i] = log[baseline[c] + i]
      BY <1>1, <3>1, SliceOfLog
    <3>3. b = c \/ apart(b, c)
      BY <1>1, <2>1, <3>1, <3>2 DEF SliceInv, InFlight
    <3>4. QED BY <2>1, <3>3
  <2>4. slice'[c] = slice[c] \/ Read(c)
    <3>1. ASSUME NEW d \in Calls, Read(d), d # c PROVE slice'[c] = slice[c]
      BY <3>1 DEF Read, TypeOK
    <3>2. ASSUME slice' # slice PROVE \E d \in Calls : Read(d)
      BY <3>2 DEF Next, ReturnEarly, Begin, TimerFires, Abort, GraceExpires, AbortBetween,
                  AgentStep, AgentAborts, Over, vars, runnerVars
    <3>3. QED BY <3>1, <3>2
  <2>5. QED BY <2>2, <2>3, <2>4
<1>2. QED BY <1>0, <1>1 DEF SliceIsOwn, apart

-----------------------------------------------------------------------------
LEMMA InitInv == Init => IInv
<1>1. SUFFICES ASSUME Init PROVE IInv
  OBVIOUS
<1>2. TypeOK
  <2>1. log \in Seq(Event) /\ queue \in Seq(Calls)
    BY <1>1 DEF Init, AgentInit
  <2>2. slice \in [Calls -> Seq(Event)] /\ pc \in [Calls -> Phases]
        /\ baseline \in [Calls -> Nat] /\ cancels \subseteq Calls \X Calls
    BY <1>1 DEF Init, Phases
  <2>3. timer \in [Calls -> BOOLEAN] /\ converged \in [Calls -> BOOLEAN]
    BY <1>1 DEF Init
  <2>4. \A c \in Calls : pc[c] = "settled" <=> result[c] # Undefined
    BY <1>1 DEF Init
  <2>5. active \in Calls \cup {None} /\ aborting \in BOOLEAN
        /\ converges \in BOOLEAN /\ aborted \subseteq Runs
    BY <1>1 DEF Init, AgentInit
  <2>6. QED BY <2>1, <2>2, <2>3, <2>4, <2>5 DEF TypeOK, AgentTypeOK
<1>3. OrderInv
  BY <1>1 DEF Init, OrderInv, InFlight
<1>4. LiveInv
  <2>1. \A c \in Calls : c # None
    BY CallsAssumption
  <2>2. QED BY <1>1, <2>1 DEF Init, AgentInit, LiveInv
<1>5. TurnInv
  BY <1>1 DEF Init, TurnInv
<1>6. SliceInv
  BY <1>1 DEF Init, SliceInv, InFlight
<1>7. ToldInv
  BY <1>1 DEF Init, ToldInv
<1>8. SliceIsOwn
  BY <1>1, <1>2 DEF Init, SliceIsOwn
<1>9. OutcomeTruthful
  BY <1>1, UndefinedAssumption DEF Init, OutcomeTruthful, Settled, Outcomes
<1>10. QED BY <1>3, <1>4, <1>5, <1>6, <1>7, <1>8, <1>9 DEF IInv

(* The inductive invariant of the runner and its agent.                     *)
THEOREM Invariance == Spec => []IInv
<1>1. IInv /\ [Next]_vars => IInv'
  <2>1. SUFFICES ASSUME IInv, [Next]_vars PROVE IInv'
    OBVIOUS
  <2>2. TypeOK
    BY <2>1 DEF IInv, SliceIsOwn
  <2>3. OrderInv' /\ LiveInv' /\ TurnInv' /\ SliceInv' /\ ToldInv'
    BY <2>1, <2>2, OrderStep, LiveStep, TurnStep, SliceStep, ToldStep DEF IInv
  <2>4. SliceIsOwn' /\ OutcomeTruthful'
    BY <2>1, <2>2, OwnStep, TruthStep DEF IInv
  <2>5. QED BY <2>3, <2>4 DEF IInv
<1>2. QED BY <1>1, InitInv, PTL DEF Spec

-----------------------------------------------------------------------------
(* A call derives its outcome from the events of its own turn, or of one    *)
(* that an aborted run left unwinding, if the harness ends cancelled turns  *)
(* in time (runner.ts:10, dsh.ts:14-16).                                    *)
THEOREM SlicesAreOwn == Spec => []SliceIsOwn
<1>1. IInv => SliceIsOwn
  BY DEF IInv
<1>2. QED BY <1>1, Invariance, PTL

(* "completed" is told exactly of the calls whose own turn completed,       *)
(* "cancelled" only in a run that was aborted, a turn's failure only of a   *)
(* call whose own turn failed: however timers, aborts and the turn's end    *)
(* race, and whether or not the harness converges (runner.ts:155-160,       *)
(* :248-285).                                                               *)
THEOREM OutcomesTruthful == Spec => []OutcomeTruthful
<1>1. IInv => OutcomeTruthful
  BY DEF IInv
<1>2. QED BY <1>1, Invariance, PTL

(* A call leaves nothing behind when the harness converges: it cancels no   *)
(* other call's turn but across the abort of a run, and once the calls have *)
(* returned the agent is idle (runner.ts:21-23, :170-173).                  *)
THEOREM NothingIsLeft == Spec => []NothingLeft
<1>1. IInv => NothingLeft
  <2>1. SUFFICES ASSUME IInv, converges, \A c \in Calls : ~InFlight(c) PROVE idle
    BY DEF IInv, ToldInv, NothingLeft
  <2>2. TypeOK /\ LiveInv
    BY <2>1 DEF IInv, SliceIsOwn
  <2>3. active = None
    BY <2>1, <2>2, LiveInFlight, TypeFacts
  <2>4. queue = <<>>
    <3>1. \A i \in DOMAIN queue : FALSE
      BY <2>1, <2>2, LiveInFlight, TypeFacts
    <3>2. queue # <<>> => 1 \in DOMAIN queue
      BY <2>2, TypeFacts
    <3>3. QED BY <3>1, <3>2
  <2>5. QED BY <2>3, <2>4 DEF idle
<1>2. QED BY <1>1, Invariance, PTL
=============================================================================
