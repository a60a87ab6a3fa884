---------------------------- MODULE MCStrategies ----------------------------
(***************************************************************************)
(* Instance of Strategies: three agents, the name of one beginning with    *)
(* another's; a run of each kind, and a short one beside it.               *)
(***************************************************************************)
EXTENDS Strategies

Team == <<"a", "ab", "b">>
Skills == [n \in ToSet(Team) |->
              IF n = "a" THEN {} ELSE IF n = "ab" THEN {"code"} ELSE {"code", "text"}]

OneBeginsAnother == {<<"a", "ab">>}
Ballots ==
    {[exact |-> e, named |-> {n}] : e \in BOOLEAN, n \in ToSet(Team)} \cup
    {[exact |-> FALSE, named |-> {}], [exact |-> FALSE, named |-> {"ab", "b"}]}

Task(id, blank, deps, agent, caps) ==
    [id |-> id, blank |-> blank, deps |-> deps, agent |-> agent, caps |-> caps]
Deps == {{}, {<<"p">>}, {numbered(2)}, {<<"x">>}}
Pairs ==
    {<<Task(<<"p">>, FALSE, d, a, c), Task(i, b, e, f, g)>> :
        d \in Deps, a \in {NoName, "b", "ghost"},
        c \in {{}, {"text"}, {"text", "bogus"}},
        i \in {<<"p">>, <<>>}, b \in BOOLEAN, e \in Deps, f \in {NoName, "ghost"},
        g \in {{}, {"text"}}}
Triples ==
    LET ids == {<<"p">>, <<"q">>, <<"r">>}
        task(id, d) == Task(id, FALSE, d, NoName, {})
    IN  {<<task(<<"p">>, d), task(<<"q">>, e), task(<<"r">>, f)>> :
            d \in SUBSET ids, e \in SUBSET ids, f \in SUBSET ids}
Plans == {[entries |-> p, lines |-> 1] : p \in Pairs \cup Triples} \cup
         {[entries |-> <<>>, lines |-> n] : n \in {0, 2}}

Plain == [kind |-> "sequential", rounds |-> 1, order |-> <<>>, judge |-> NoName,
          lead |-> NoName, workers |-> <<>>, window |-> NoPolicy, hide |-> FALSE,
          limited |-> FALSE]
Beside == [Plain EXCEPT !.order = <<"b">>]
Refused == [Plain EXCEPT !.order = <<"ghost">>]
Debate == [Plain EXCEPT !.kind = "debate", !.rounds = 2]
Talks ==
    {[Plain EXCEPT !.kind = "broadcast", !.rounds = 0],
     [Plain EXCEPT !.kind = "broadcast", !.rounds = 2, !.window = Unlimited,
             !.limited = TRUE],
     Debate, [Debate EXCEPT !.window = Unlimited, !.hide = TRUE],
     Plain, [Plain EXCEPT !.kind = "relay", !.rounds = 2, !.order = <<"b", "a">>]}
Decisions ==
    {[Plain EXCEPT !.kind = "broadcast", !.rounds = 2],
     [Plain EXCEPT !.kind = "broadcast", !.rounds = 3, !.window = 1, !.limited = TRUE],
     [Debate EXCEPT !.window = 2, !.judge = "ghost"]} \cup
    {[Plain EXCEPT !.kind = "consensus", !.judge = j] : j \in {NoName, "ghost"}} \cup
    {[Plain EXCEPT !.kind = "relay", !.rounds = 3]} \cup
    {[Plain EXCEPT !.kind = "supervisor", !.workers = w] : w \in {<<>>, <<"ab">>, <<"ghost">>}} \cup
    {[Plain EXCEPT !.kind = "relay", !.order = <<"b">>]}
Assignments ==
    {[p \in Runs |-> IF p = 1 THEN j ELSE Beside] : j \in Talks} \cup
    {[p \in Runs |-> IF p = 1 THEN j ELSE Refused] : j \in Decisions}
=============================================================================
