------------------------ MODULE AdapterServerProofs ------------------------
(***************************************************************************)
(* Theorems about AdapterServer, for every set of threads and of session   *)
(* ids, finite or not, every time to live, every bound on the sessions, on *)
(* concurrent runs and on the registry, and any number of restarts.        *)
(***************************************************************************)
EXTENDS AdapterServer, FiniteSetTheorems, SequenceTheorems,
        WellFoundedInduction, TLAPS

USE ServerAssumption DEF ServerAssumption

(* The inductive invariant, in four parts.  Requests in flight pay for the  *)
(* runs to come: this is what bounds the numbers of runs and coordinators.  *)
Phases == {"idle", "register", "gate", "running", "history"}
inPhase(P) == {t \in Threads : phase[t] \in P}
running == inPhase({"running"})
pending == inPhase({"gate", "running"})

RequestsInv ==
    /\ clock \in 0 .. MaxTime
    /\ phase \in [Threads -> Phases]
    /\ coord \in [Threads -> Nat] /\ run \in [Threads -> Nat]
    /\ requests \in 0 .. MaxRequests /\ faults \in 0 .. MaxFaults
    /\ empty \subseteq Coordinators
    /\ ends \in Nat
    /\ made <= requests
    /\ \A t \in Threads : coord[t] <= made /\ run[t] <= ends
    /\ IsFiniteSet(pending) /\ ends + Cardinality(pending) <= requests

SessionsInv == SM!SessionsTypeOK /\ SM!Isolated /\ IsFiniteSet(SM!live)

GateInv == permits \in Nat /\ IsFiniteSet(running) /\ GateBalanced

(* A run that ended is found until enough later ones ended.  In a registry  *)
(* runs are at least as old as their place says, so that the one dropped is *)
(* Limit runs old.                                                          *)
Ascending(s) == \A i, j \in DOMAIN s : i < j => s[i] < s[j]
Aged(s, e) == \A i \in DOMAIN s : s[i] + Len(s) - i <= e
found(r, c) == r \in index[c] \/ ends - r >= Limit

RegistryInv ==
    /\ runs \in [Coordinators -> Seq(Nat)] /\ index \in [Coordinators -> SUBSET Nat]
    /\ \A c \in Coordinators :
          /\ index[c] = Range(runs[c]) /\ Len(runs[c]) <= Limit
          /\ Ascending(runs[c]) /\ Aged(runs[c], ends)
    /\ faults = 0 =>
          /\ \A a \in ok : found(a[1], a[2])
          /\ \A t \in Threads : phase[t] = "history" => found(run[t], coord[t])

(* The runs in the file, those on their way into it and those lost are      *)
(* distinct; a torn line is one nobody can read, and so is one that was     *)
(* torn inside a character.  The counter is never behind the lines.         *)
Line == [index : Nat, run : Nat]

FileOK ==
    /\ count \in Nat /\ lines \in Seq(Line) /\ torn \in BOOLEAN
    /\ torn => lines # <<>> /\ lines[Len(lines)] = History!garbled
    /\ \A i \in History!readable : i <= lines[i].index
    /\ undecodable => \E i \in DOMAIN lines : i \notin History!readable

HistoryInv ==
    /\ FileOK
    /\ up => Len(lines) <= count
    /\ ok \subseteq Runs \X Coordinators /\ garbledRuns \subseteq Runs
    /\ \A i \in History!readable : lines[i].run <= ends
    /\ \A i, j \in History!readable : lines[i].run = lines[j].run => i = j
    /\ \A t \in Threads : phase[t] = "history" =>
          /\ run[t] > 0
          /\ \A i \in History!readable : lines[i].run # run[t]
          /\ \A u \in Threads : phase[u] = "history" /\ run[u] = run[t] => u = t
    /\ \A a \in ok : a[1] \in garbledRuns \/ \E i \in History!readable : lines[i].run = a[1]
    /\ faults = 0 =>
          /\ count = Len(lines) /\ ~torn /\ ~undecodable
          /\ \A i \in DOMAIN lines : lines[i].index = i

IInv ==
    /\ RequestsInv /\ SessionsInv /\ GateInv /\ RegistryInv /\ HistoryInv
    /\ up \in BOOLEAN

-----------------------------------------------------------------------------
(* Sessions by age                                                          *)
LEMMA LeastBy ==
    ASSUME NEW S, S # {}, NEW f \in [S -> Nat]
    PROVE  \E m \in S : \A s \in S : f[m] <= f[s]
<1> DEFINE V == {f[s] : s \in S}
<1>1. V \subseteq Nat /\ V # {}
  OBVIOUS
<1>2. PICK v \in V : \A w \in V : <<w, v>> \notin OpToRel(<, Nat)
  BY <1>1, NatLessThanWellFounded, WFMin, Zenon
<1>3. \A w \in V : ~(w < v)
  BY <1>1, <1>2, Zenon DEF OpToRel
<1>4. PICK m \in S : f[m] = v
  OBVIOUS
<1>5. \A s \in S : f[s] \in Nat /\ f[s] \in V
  OBVIOUS
<1> HIDE DEF V
<1> QED
  BY <1>3, <1>4, <1>5

(* Sessions are ordered by their last activity and their coordinators.      *)
LEMMA OlderOrders ==
    ASSUME SessionsInv
    PROVE  \A s, t \in SM!live :
              /\ ~SM!older(s, s)
              /\ s = t \/ SM!older(s, t) \/ SM!older(t, s)
              /\ \A u \in SM!live : SM!older(s, t) /\ SM!older(t, u) => SM!older(s, u)
<1>1. \A s \in SM!live : s \in Ids /\ sessions[s] \in Nat /\ lastActive[s] \in Nat
  BY DEF SessionsInv, SM!SessionsTypeOK, SM!live
<1>2. \A s, t \in SM!live : sessions[s] = sessions[t] => s = t
  BY DEF SessionsInv, SM!Isolated
<1> QED
  BY <1>1, <1>2 DEF SM!older

newer(S, s) == {t \in S : SM!older(s, t)}

LEMMA NewerShrinks ==
    ASSUME SessionsInv, NEW S \in SUBSET SM!live
    PROVE  /\ IsFiniteSet(S)
           /\ \A s \in S : IsFiniteSet(newer(S, s)) /\ Cardinality(newer(S, s)) \in Nat
           /\ \A s, t \in S : SM!older(s, t) =>
                 Cardinality(newer(S, t)) < Cardinality(newer(S, s))
<1>1. IsFiniteSet(S)
  BY FS_Subset DEF SessionsInv
<1>2. \A s \in S : IsFiniteSet(newer(S, s)) /\ Cardinality(newer(S, s)) \in Nat
  BY <1>1, FS_Subset, FS_CardinalityType DEF newer
<1>3. ASSUME NEW s \in S, NEW t \in S, SM!older(s, t)
      PROVE  Cardinality(newer(S, t)) < Cardinality(newer(S, s))
  <2>1. \A u \in newer(S, t) : u \in newer(S, s)
    BY <1>3, OlderOrders DEF newer
  <2>2. t \in newer(S, s) /\ t \notin newer(S, t)
    BY <1>3, OlderOrders DEF newer
  <2>3. /\ Cardinality(newer(S, t)) <= Cardinality(newer(S, s))
        /\ Cardinality(newer(S, t)) # Cardinality(newer(S, s))
    BY <1>2, <2>1, <2>2, FS_Subset
  <2> QED
    BY <1>2, <2>3
<1> QED
  BY <1>1, <1>2, <1>3

(* Eviction leaves at most keep sessions, exactly keep when it evicts at    *)
(* all, and the ones it leaves are newer than the ones it evicts.           *)
LEMMA BeyondKeeps ==
    ASSUME SessionsInv, NEW S \in SUBSET SM!live, NEW keep \in Nat
    PROVE  LET gone == SM!beyond(S, keep) IN
           /\ gone \subseteq S
           /\ IsFiniteSet(S \ gone) /\ Cardinality(S \ gone) <= keep
           /\ gone # {} => Cardinality(S \ gone) = keep
           /\ \A s \in gone, k \in S \ gone : SM!older(s, k)
<1> DEFINE gone == SM!beyond(S, keep)  rest == S \ gone
<1>1. gone = {s \in S : Cardinality(newer(S, s)) >= keep}
  BY Zenon DEF SM!beyond, SM!Cardinality, Cardinality, newer
<1> HIDE DEF gone
<1>2. /\ IsFiniteSet(rest) /\ Cardinality(rest) \in Nat
      /\ \A s \in S : Cardinality(newer(S, s)) \in Nat
  BY NewerShrinks, FS_Difference, FS_CardinalityType
<1>3. ASSUME NEW s \in gone, NEW k \in rest
      PROVE  SM!older(s, k)
  <2>1. Cardinality(newer(S, k)) < Cardinality(newer(S, s))
    BY <1>1, <1>2, <1>3
  <2>2. ~SM!older(k, s)
    BY <1>1, <1>2, <2>1, NewerShrinks
  <2> QED
    BY <1>1, <2>1, <2>2, <1>2, OlderOrders
<1>4. Cardinality(rest) <= keep
  <2>1. CASE rest = {}
    BY <2>1, FS_EmptySet
  <2>2. CASE rest # {}
    <3> DEFINE f == [s \in rest |-> keep - Cardinality(newer(S, s))]
    <3>1. \A s \in rest : keep - Cardinality(newer(S, s)) \in Nat /\ s \in S
      BY <1>1, <1>2
    <3>2. f \in [rest -> Nat]
      BY <3>1
    <3>3. PICK m \in rest : \A s \in rest : f[m] <= f[s]
      BY <2>2, <3>2, LeastBy
    <3>4. ASSUME NEW s \in rest, SM!older(s, m)
          PROVE  FALSE
      <4>1. Cardinality(newer(S, m)) < Cardinality(newer(S, s))
        BY <3>4, NewerShrinks
      <4>2. f[m] <= f[s]
        BY <3>3
      <4>3. s \in S /\ m \in S
        BY <3>1
      <4> QED
        BY <1>2, <4>1, <4>2, <4>3
    <3>5. rest \subseteq newer(S, m) \cup {m}
      BY <3>1, <3>4, OlderOrders DEF newer
    <3>6. /\ IsFiniteSet(newer(S, m)) /\ Cardinality(newer(S, m)) < keep
          /\ m \notin newer(S, m)
      BY <1>1, <1>2, <3>1, NewerShrinks, OlderOrders DEF newer
    <3>7. /\ IsFiniteSet(newer(S, m) \cup {m})
          /\ Cardinality(newer(S, m) \cup {m}) = Cardinality(newer(S, m)) + 1
      BY <3>6, FS_AddElement
    <3>8. Cardinality(rest) <= Cardinality(newer(S, m)) + 1
      BY <3>5, <3>7, FS_Subset
    <3> QED
      BY <1>2, <3>1, <3>6, <3>8
  <2> QED
    BY <2>1, <2>2
<1>5. ASSUME gone # {}
      PROVE  Cardinality(rest) >= keep
  <2> DEFINE f == [s \in gone |-> Cardinality(newer(S, s))]
  <2>1. f \in [gone -> Nat]
    BY <1>1, <1>2
  <2>2. PICK m \in gone : \A s \in gone : f[m] <= f[s]
    BY <1>5, <2>1, LeastBy
  <2>3. m \in S /\ \A s \in gone : s \in S /\ ~SM!older(m, s)
    BY <1>1, <1>2, <2>2, NewerShrinks
  <2>4. newer(S, m) \subseteq rest
    BY <2>3 DEF newer
  <2>5. Cardinality(newer(S, m)) <= Cardinality(rest)
    BY <1>2, <2>4, FS_Subset
  <2> QED
    BY <1>1, <1>2, <2>3, <2>5
<1>6. gone # {} => Cardinality(rest) = keep
  BY <1>2, <1>4, <1>5
<1> HIDE DEF rest
<1>7. gone \subseteq S
  BY <1>1
<1> QED
  BY <1>2, <1>3, <1>4, <1>6, <1>7, Zenon DEF gone, rest

(* What get_or_create evicts for a new session ...                          *)
LEMMA EvictingForNew ==
    ASSUME SessionsInv
    PROVE  LET left == SM!live \ SM!evictedForNew(clock) IN
           /\ IsFiniteSet(left) /\ Cardinality(left) \in Nat
           /\ MaxSessions > 0 => Cardinality(left) + 1 <= MaxSessions
           /\ \A s \in SM!live : s \notin left =>
                 \/ clock >= lastActive[s] + Ttl
                 \/ /\ Cardinality(left) + 1 = MaxSessions
                    /\ \A k \in left : SM!older(s, k)
<1> DEFINE left == SM!live \ SM!evictedForNew(clock)
           S == SM!live \ SM!expired(clock)
           gone == SM!beyond(S, MaxSessions - 1)
<1>1. IsFiniteSet(left) /\ Cardinality(left) \in Nat
  BY FS_Difference, FS_CardinalityType DEF SessionsInv
<1>2. \A s \in SM!expired(clock) : s \in SM!live /\ clock >= lastActive[s] + Ttl
  BY DEF SM!expired
<1>3. CASE MaxSessions = 0
  <2>1. SM!evictedForNew(clock) = SM!expired(clock)
    BY <1>3 DEF SM!evictedForNew
  <2> QED
    BY <1>1, <1>2, <1>3, <2>1
<1>4. CASE MaxSessions # 0
  <2>1. left = S \ gone
    BY <1>4 DEF SM!evictedForNew, SM!evicted
  <2>2. S \in SUBSET SM!live /\ MaxSessions - 1 \in Nat
    BY <1>4
  <2>3. /\ gone \subseteq S
        /\ Cardinality(S \ gone) <= MaxSessions - 1
        /\ gone # {} => Cardinality(S \ gone) = MaxSessions - 1
        /\ \A s \in gone, k \in S \ gone : SM!older(s, k)
    BY <2>2, BeyondKeeps, Zenon
  <2>4. ASSUME NEW s \in SM!live, s \notin left
        PROVE  s \in SM!expired(clock) \/ s \in gone
    BY <2>1, <2>4
  <2> HIDE DEF gone, S, left
  <2>5. ASSUME NEW s \in SM!live, s \notin left, s \in gone
        PROVE  /\ Cardinality(left) + 1 = MaxSessions
               /\ \A k \in left : SM!older(s, k)
    BY <1>1, <2>1, <2>3, <2>5
  <2>6. MaxSessions > 0 => Cardinality(left) + 1 <= MaxSessions
    BY <1>1, <2>1, <2>3
  <2> QED
    BY <1>1, <1>2, <2>4, <2>5, <2>6, Zenon DEF left
<1> QED
  BY <1>3, <1>4

(* ... and what it does.                                                    *)
LEMMA Getting ==
    ASSUME SessionsInv, clock \in Nat, NEW s \in Ids, SM!getOrCreate(s, clock)
    PROVE  /\ SessionsInv'
           /\ made \in Nat /\ made' \in {made, made + 1}
           /\ SM!coordinatorOf(s) \in Nat /\ SM!coordinatorOf(s) <= made'
<1>1. /\ sessions \in [Ids -> Nat] /\ lastActive \in [Ids -> Nat] /\ made \in Nat
      /\ \A t \in Ids : sessions[t] <= made
      /\ \A t, u \in SM!live : sessions[t] = sessions[u] => t = u
      /\ IsFiniteSet(SM!live)
      /\ MaxSessions > 0 => Cardinality(SM!live) <= MaxSessions
  BY Zenon DEF SessionsInv, SM!SessionsTypeOK, SM!Isolated, SM!Cardinality, Cardinality
<1>2. lastActive' \in [Ids -> Nat]
  BY <1>1 DEF SM!getOrCreate
<1>3. CASE s \in SM!live
  <2>1. sessions' = sessions /\ made' = made /\ SM!live' = SM!live
    BY <1>3 DEF SM!getOrCreate, SM!live
  <2>2. SessionsInv'
    BY <1>1, <1>2, <2>1, Zenon
       DEF SessionsInv, SM!SessionsTypeOK, SM!Isolated, SM!Cardinality, Cardinality
  <2> QED
    BY <1>1, <1>3, <2>1, <2>2 DEF SM!coordinatorOf
<1>4. CASE s \notin SM!live
  <2> DEFINE left == SM!live \ SM!evictedForNew(clock)
  <2>1. /\ made' = made + 1
        /\ sessions' = [t \in Ids |-> IF t = s THEN made + 1
                                      ELSE IF t \in SM!evictedForNew(clock) THEN 0
                                      ELSE sessions[t]]
    BY <1>4 DEF SM!getOrCreate, SM!none
  <2>2. sessions' \in [Ids -> Nat] /\ made' \in Nat /\ \A t \in Ids : sessions'[t] <= made'
    BY <1>1, <2>1
  <2>3. SM!live' = left \cup {s} /\ s \notin left
    BY <1>1, <1>4, <2>1 DEF SM!live, SM!none
  <2>4. /\ IsFiniteSet(left) /\ Cardinality(left) \in Nat
        /\ MaxSessions > 0 => Cardinality(left) + 1 <= MaxSessions
    BY EvictingForNew, Zenon
  <2>5. \A t, u \in SM!live' : sessions'[t] = sessions'[u] => t = u
    <3>1. \A t \in left : t \in SM!live /\ t \in Ids /\ sessions'[t] = sessions[t] /\ sessions'[t] < made + 1
      BY <1>1, <1>4, <2>1 DEF SM!live
    <3>2. sessions'[s] = made + 1
      BY <2>1
    <3> HIDE DEF left
    <3>3. ASSUME NEW t \in SM!live', NEW u \in SM!live', sessions'[t] = sessions'[u]
          PROVE  t = u
      <4>1. CASE t \in left /\ u \in left
        BY <1>1, <3>1, <3>3, <4>1
      <4>2. CASE t = s \/ u = s
        BY <1>1, <2>3, <3>1, <3>2, <3>3, <4>2
      <4> QED
        BY <2>3, <4>1, <4>2
    <3> QED
      BY <3>3
  <2> HIDE DEF left
  <2>6. /\ IsFiniteSet(SM!live')
        /\ MaxSessions > 0 => Cardinality(SM!live') <= MaxSessions
    <3>1. /\ IsFiniteSet(left \cup {s})
          /\ Cardinality(left \cup {s}) = IF s \in left THEN Cardinality(left)
                                                       ELSE Cardinality(left) + 1
      BY <2>4, FS_AddElement, Zenon
    <3>2. IsFiniteSet(SM!live') /\ Cardinality(SM!live') = Cardinality(left) + 1
      BY <2>3, <3>1
    <3> QED BY <2>4, <3>2
  <2>7. SessionsInv'
    BY <1>2, <2>2, <2>5, <2>6, Zenon
       DEF SessionsInv, SM!SessionsTypeOK, SM!Isolated, SM!Cardinality, Cardinality
  <2> QED
    BY <1>1, <1>4, <2>1, <2>7 DEF SM!coordinatorOf
<1> QED
  BY <1>3, <1>4

LEMMA Dropping ==
    ASSUME SessionsInv, NEW S, SM!drop(S)
    PROVE  SessionsInv' /\ made' = made
<1>1. /\ sessions \in [Ids -> Nat] /\ lastActive \in [Ids -> Nat] /\ made \in Nat
      /\ \A t \in Ids : sessions[t] <= made
      /\ \A t, u \in SM!live : sessions[t] = sessions[u] => t = u
      /\ IsFiniteSet(SM!live)
      /\ MaxSessions > 0 => Cardinality(SM!live) <= MaxSessions
  BY Zenon DEF SessionsInv, SM!SessionsTypeOK, SM!Isolated, SM!Cardinality, Cardinality
<1>2. /\ sessions' = [t \in Ids |-> IF t \in S THEN 0 ELSE sessions[t]]
      /\ lastActive' = lastActive /\ made' = made
  BY DEF SM!drop, SM!none
<1>3. /\ SM!live' \in SUBSET SM!live /\ \A t \in SM!live' : sessions'[t] = sessions[t]
  BY <1>2 DEF SM!live, SM!none
<1>4. /\ sessions' \in [Ids -> Nat] /\ \A t \in Ids : sessions'[t] <= made'
      /\ \A t, u \in SM!live' : sessions'[t] = sessions'[u] => t = u
  BY <1>1, <1>2, <1>3
<1>5. /\ IsFiniteSet(SM!live')
      /\ MaxSessions > 0 => Cardinality(SM!live') <= MaxSessions
  BY <1>1, <1>3, FS_Subset, FS_CardinalityType
<1> QED
  BY <1>1, <1>2, <1>4, <1>5, Zenon
     DEF SessionsInv, SM!SessionsTypeOK, SM!Isolated, SM!Cardinality, Cardinality

LEMMA NoSessions == SM!SessionsInit => SessionsInv
<1> SUFFICES ASSUME sessions = [s \in Ids |-> SM!none],
                    lastActive = [s \in Ids |-> 0], made = 0
             PROVE  SessionsInv
  BY DEF SM!SessionsInit
<1>1. SM!live = {}
  BY DEF SM!live, SM!none
<1>2. IsFiniteSet(SM!live) /\ Cardinality(SM!live) = 0
  BY <1>1, FS_EmptySet
<1>3. \A s \in Ids : sessions[s] <= made
  BY DEF SM!none
<1>4. SM!SessionsTypeOK
  BY DEF SM!SessionsTypeOK, SM!none
<1>5. MaxSessions > 0 => Cardinality(SM!live) <= MaxSessions
  BY <1>2
<1>6. SM!Isolated
  BY <1>1, <1>3, <1>5, Zenon DEF SM!Isolated, SM!Cardinality, Cardinality
<1> QED
  BY <1>2, <1>4, <1>6 DEF SessionsInv

-----------------------------------------------------------------------------
(* Threads in a phase, when one of them moves                               *)
LEMMA Moving ==
    ASSUME phase \in [Threads -> Phases], NEW t \in Threads, NEW p, goto(t, p),
           NEW P, IsFiniteSet(inPhase(P))
    PROVE  /\ IsFiniteSet(inPhase(P)') /\ Cardinality(inPhase(P)') \in Nat
           /\ Cardinality(inPhase(P)') + (IF phase[t] \in P THEN 1 ELSE 0) =
                 Cardinality(inPhase(P)) + (IF p \in P THEN 1 ELSE 0)
<1>1. /\ \A u \in Threads : phase'[u] = IF u = t THEN p ELSE phase[u]
      /\ Cardinality(inPhase(P)) \in Nat
  BY FS_CardinalityType DEF goto
<1>2. CASE p \in P /\ phase[t] \notin P
  <2>1. inPhase(P)' = inPhase(P) \cup {t} /\ t \notin inPhase(P)
    BY <1>1, <1>2 DEF inPhase
  <2> QED
    BY <1>1, <1>2, <2>1, FS_AddElement
<1>3. CASE p \notin P /\ phase[t] \in P
  <2>1. inPhase(P)' = inPhase(P) \ {t} /\ t \in inPhase(P)
    BY <1>1, <1>3 DEF inPhase
  <2>2. /\ IsFiniteSet(inPhase(P)')
        /\ Cardinality(inPhase(P)') = Cardinality(inPhase(P)) - 1
    BY <2>1, FS_RemoveElement
  <2>3. Cardinality(inPhase(P)') \in Nat
    BY <2>2, FS_CardinalityType
  <2> QED
    BY <1>1, <1>3, <2>2, <2>3
<1>4. CASE p \in P <=> phase[t] \in P
  <2>1. inPhase(P)' = inPhase(P)
    BY <1>1, <1>4 DEF inPhase
  <2> QED
    BY <1>1, <1>4, <2>1
<1> QED
  BY <1>2, <1>3, <1>4

LEMMA NobodyIn ==
    (\A t \in Threads : phase[t] = "idle") =>
       /\ running = {} /\ pending = {}
       /\ IsFiniteSet({}) /\ Cardinality({}) = 0
BY FS_EmptySet DEF running, pending, inPhase

LEMMA RequestsKept ==
    ASSUME RequestsInv, SessionsInv, [Next]_vars
    PROVE  RequestsInv'
<1>1. /\ made \in Nat /\ IsFiniteSet(pending) /\ Cardinality(pending) \in Nat
      /\ phase \in [Threads -> Phases]
  BY FS_CardinalityType DEF RequestsInv, SessionsInv, SM!SessionsTypeOK
<1>2. ASSUME NEW t \in Threads, NEW p, goto(t, p)
      PROVE  /\ IsFiniteSet(pending') /\ Cardinality(pending') \in Nat
             /\ Cardinality(pending') + (IF phase[t] \in {"gate", "running"} THEN 1 ELSE 0) =
                   Cardinality(pending) + (IF p \in {"gate", "running"} THEN 1 ELSE 0)
  <2> DEFINE P == {"gate", "running"}
  <2>1. /\ IsFiniteSet(inPhase(P)') /\ Cardinality(inPhase(P)') \in Nat
        /\ Cardinality(inPhase(P)') + (IF phase[t] \in P THEN 1 ELSE 0) =
              Cardinality(inPhase(P)) + (IF p \in P THEN 1 ELSE 0)
    <3>1. IsFiniteSet(inPhase(P)) /\ phase \in [Threads -> Phases]
      BY <1>1 DEF pending
    <3> HIDE DEF P
    <3> QED BY ONLY <3>1, <1>2, Moving, Zenon
  <2> QED BY <2>1 DEF pending
<1>3. UNCHANGED phase => pending' = pending
  BY DEF pending, inPhase
<1>4. ASSUME NEW t \in Threads, Route(t)
      PROVE  RequestsInv'
  <2>1. PICK o \in Ops, s \in Ids \cup {Default} :
          /\ goto(t, phaseAfterRouting(o))
          /\ IF s = Default
                THEN coord' = [coord EXCEPT ![t] = 0] /\ UNCHANGED manager
                ELSE /\ coord' = [coord EXCEPT ![t] = SM!coordinatorOf(s)]
                     /\ SM!getOrCreate(s, clock)
    BY <1>4 DEF Route
  <2>2. /\ made' \in {made, made + 1}
        /\ \E c \in Nat : c <= made' /\ coord' = [coord EXCEPT ![t] = c]
    <3>1. CASE s = Default
      BY <1>1, <2>1, <3>1 DEF manager
    <3>2. CASE s # Default
      <4>1. clock \in Nat
        BY DEF RequestsInv
      <4>2. s \in Ids /\ SM!getOrCreate(s, clock) /\ coord' = [coord EXCEPT ![t] = SM!coordinatorOf(s)]
        BY <2>1, <3>2
      <4> QED
        BY <4>1, <4>2, Getting
    <3> QED
      BY <3>1, <3>2
  <2>3. phaseAfterRouting(o) \in Phases
    BY <2>1 DEF phaseAfterRouting, Ops, Phases
  <2>4. /\ IsFiniteSet(pending') /\ Cardinality(pending') \in Nat
        /\ Cardinality(pending') <= Cardinality(pending) + 1
    BY <1>1, <1>2, <2>1
  <2> QED
    BY <1>1, <1>4, <2>1, <2>2, <2>3, <2>4 DEF Route, RequestsInv, goto
<1>5. ASSUME NEW t \in Threads, Register(t)
      PROVE  RequestsInv'
  <2>1. goto(t, "idle") /\ phase[t] = "register" /\ made' = made
    BY <1>5 DEF Register, manager
  <2>2. IsFiniteSet(pending') /\ Cardinality(pending') = Cardinality(pending)
    BY <1>1, <1>2, <2>1
  <2> QED
    BY <1>5, <2>1, <2>2 DEF Register, RequestsInv, goto, Phases
<1>6. ASSUME NEW t \in Threads, Gate(t)
      PROVE  RequestsInv'
  <2>1. phase[t] = "gate" /\ (goto(t, "running") \/ goto(t, "idle")) /\ made' = made
    BY <1>6 DEF Gate, manager
  <2>2. /\ IsFiniteSet(pending') /\ Cardinality(pending') \in Nat
        /\ Cardinality(pending') <= Cardinality(pending)
    BY <1>1, <1>2, <2>1
  <2> QED
    BY <1>1, <1>6, <2>1, <2>2 DEF Gate, RequestsInv, goto, Phases
<1>7. ASSUME NEW t \in Threads, RunEnds(t)
      PROVE  RequestsInv'
  <2>1. /\ phase[t] = "running" /\ made' = made
        /\ goto(t, "idle") \/ goto(t, "history")
        /\ \/ run' = run /\ ends' \in {ends, ends + 1}
           \/ run' = [run EXCEPT ![t] = ends + 1] /\ ends' = ends + 1
    BY <1>7, Zenon DEF RunEnds, manager
  <2>2. /\ IsFiniteSet(pending') /\ Cardinality(pending') \in Nat
        /\ Cardinality(pending') + 1 = Cardinality(pending)
    BY <1>1, <1>2, <2>1
  <2> QED
    BY <1>1, <1>7, <2>1, <2>2 DEF RunEnds, RequestsInv, goto, Phases
<1>8. ASSUME NEW t \in Threads, Record(t)
      PROVE  RequestsInv'
  <2>1. goto(t, "idle") /\ phase[t] = "history" /\ made' = made
    BY <1>8 DEF Record, manager
  <2>2. IsFiniteSet(pending') /\ Cardinality(pending') = Cardinality(pending)
    BY <1>1, <1>2, <2>1
  <2> QED
    BY <1>8, <2>1, <2>2 DEF Record, RequestsInv, goto, Phases
<1>9. ASSUME NEW t \in Threads, Delete(t) \/ Cleanup(t)
      PROVE  RequestsInv'
  <2>1. (\E S : SM!drop(S)) /\ UNCHANGED threads
    BY <1>9 DEF Delete, Cleanup, SM!delete, SM!cleanup
  <2>2. made' = made
    BY <2>1, Dropping
  <2> QED
    BY <1>1, <1>3, <1>9, <2>1, <2>2 DEF Delete, Cleanup, RequestsInv, threads
<1>10. CASE Crash
  <2>1. \A t \in Threads : phase'[t] = "idle"
    BY <1>10 DEF Crash
  <2>2. (\A t \in Threads : phase'[t] = "idle") => pending' = {}
    BY DEF pending, inPhase
  <2>3. IsFiniteSet(pending') /\ Cardinality(pending') = 0
    BY <2>1, <2>2, FS_EmptySet
  <2> QED
    BY <1>1, <1>10, <2>3 DEF Crash, RequestsInv, Phases
<1>11. CASE Tick \/ Start
  BY <1>3, <1>11 DEF Tick, Start, RequestsInv, manager, threads
<1>12. CASE UNCHANGED vars
  BY <1>3, <1>12 DEF vars, RequestsInv, manager, threads
<1> QED
  BY <1>4, <1>5, <1>6, <1>7, <1>8, <1>9, <1>10, <1>11, <1>12
     DEF Next, Handle, Over

LEMMA SessionsKept ==
    ASSUME RequestsInv, SessionsInv, [Next]_vars
    PROVE  SessionsInv'
<1>1. ASSUME NEW t \in Threads, Route(t)
      PROVE  SessionsInv'
  <2>1. \E s \in Ids \cup {Default} :
           IF s = Default THEN UNCHANGED manager ELSE SM!getOrCreate(s, clock)
    BY <1>1, Zenon DEF Route
  <2>2. clock \in Nat
    BY DEF RequestsInv
  <2>3. ASSUME UNCHANGED manager PROVE SessionsInv'
    BY <2>3 DEF SessionsInv, manager, SM!SessionsTypeOK, SM!Isolated, SM!live
  <2> QED
    BY <2>1, <2>2, <2>3, Getting
<1>2. ASSUME UNCHANGED manager PROVE SessionsInv'
  BY <1>2 DEF SessionsInv, manager, SM!SessionsTypeOK, SM!Isolated, SM!live
<1>3. ASSUME NEW t \in Threads, Delete(t) \/ Cleanup(t)
      PROVE  SessionsInv'
  <2>1. \E S : SM!drop(S)
    BY <1>3 DEF Delete, Cleanup, SM!delete, SM!cleanup
  <2> QED
    BY <2>1, Dropping
<1>4. CASE Crash
  <2>1. SM!SessionsInit' => SessionsInv'
    BY NoSessions, PTL
  <2> QED
    BY <1>4, <2>1 DEF Crash, SM!SessionsInit
<1> QED
  BY <1>1, <1>2, <1>3, <1>4
     DEF Next, Handle, Over, Register, Gate, RunEnds, Record, Start, Tick, vars

LEMMA GateKept ==
    ASSUME RequestsInv, GateInv, [Next]_vars
    PROVE  GateInv'
<1>1. /\ GateInv <=> /\ permits \in Nat /\ IsFiniteSet(running)
                     /\ permits + Cardinality(running) = MaxRuns
      /\ GateInv' <=> /\ permits' \in Nat /\ IsFiniteSet(running')
                      /\ permits' + Cardinality(running') = MaxRuns
  <2>1. running = {t \in Threads : phase[t] = "running"}
    BY DEF running, inPhase
  <2>2. running' = {t \in Threads : phase'[t] = "running"}
    BY DEF running, inPhase
  <2> QED
    BY <2>1, <2>2, Zenon DEF GateInv, GateBalanced
<1>2. phase \in [Threads -> Phases] /\ IsFiniteSet(running) /\ Cardinality(running) \in Nat
  BY FS_CardinalityType DEF RequestsInv, GateInv
<1>3. ASSUME NEW t \in Threads, NEW p, goto(t, p)
      PROVE  /\ IsFiniteSet(running') /\ Cardinality(running') \in Nat
             /\ Cardinality(running') + (IF phase[t] \in {"running"} THEN 1 ELSE 0) =
                   Cardinality(running) + (IF p \in {"running"} THEN 1 ELSE 0)
  BY <1>2, <1>3, Moving DEF running
<1>4. UNCHANGED phase => running' = running
  BY DEF running, inPhase
<1>5. ASSUME NEW t \in Threads, Route(t) \/ Register(t) \/ Record(t)
      PROVE  GateInv'
  <2>1. /\ permits' = permits /\ phase[t] # "running"
        /\ \E p \in {"idle", "gate", "register"} : goto(t, p)
    BY <1>5 DEF Route, Register, Record, Ops, phaseAfterRouting
  <2>2. IsFiniteSet(running') /\ Cardinality(running') = Cardinality(running)
    BY <1>2, <1>3, <2>1
  <2> QED
    BY <1>1, <2>1, <2>2
<1>6. ASSUME NEW t \in Threads, Gate(t)
      PROVE  GateInv'
  <2>1. phase[t] = "gate"
    BY <1>6 DEF Gate
  <2>2. CASE permits > 0
    <3>1. permits' = permits - 1 /\ goto(t, "running")
      BY <1>6, <2>2 DEF Gate
    <3>2. IsFiniteSet(running') /\ Cardinality(running') = Cardinality(running) + 1
      BY <1>2, <1>3, <2>1, <3>1
    <3> QED
      BY <1>1, <1>2, <2>2, <3>1, <3>2
  <2>3. CASE ~(permits > 0)
    <3>1. permits' = permits /\ goto(t, "idle")
      BY <1>6, <2>3 DEF Gate
    <3>2. IsFiniteSet(running') /\ Cardinality(running') = Cardinality(running)
      BY <1>2, <1>3, <2>1, <3>1
    <3> QED
      BY <1>1, <3>1, <3>2
  <2> QED
    BY <2>2, <2>3
<1>7. ASSUME NEW t \in Threads, RunEnds(t)
      PROVE  GateInv'
  <2>1. /\ permits' = permits + 1 /\ phase[t] = "running"
        /\ goto(t, "idle") \/ goto(t, "history")
    BY <1>7, Zenon DEF RunEnds
  <2>2. IsFiniteSet(running') /\ Cardinality(running') = Cardinality(running) - 1
    BY <1>2, <1>3, <2>1
  <2> QED
    BY <1>1, <1>2, <2>1, <2>2
<1>8. CASE Crash
  <2>1. permits' = MaxRuns /\ \A t \in Threads : phase'[t] = "idle"
    BY <1>8 DEF Crash
  <2>2. (\A t \in Threads : phase'[t] = "idle") => running' = {}
    BY DEF running, inPhase
  <2>3. IsFiniteSet(running') /\ Cardinality(running') = 0
    BY <2>1, <2>2, FS_EmptySet
  <2> QED
    BY <1>1, <2>1, <2>3
<1>9. ASSUME UNCHANGED <<permits, phase>>
      PROVE  GateInv'
  BY <1>1, <1>4, <1>9
<1> QED
  BY <1>5, <1>6, <1>7, <1>8, <1>9
     DEF Next, Handle, Over, Delete, Cleanup, Start, Tick, vars, threads

-----------------------------------------------------------------------------
(* The registry *)
LEMMA RangeOf ==
    ASSUME NEW s \in Seq(Nat)
    PROVE  \A r : r \in Range(s) <=> \E i \in 1 .. Len(s) : s[i] = r
BY RangeEquality

(* A run that ends is recorded; the run dropped for it is Limit runs old.   *)
LEMMA Recording ==
    ASSUME NEW s \in Seq(Nat), NEW e \in Nat, Len(s) <= Limit,
           Ascending(s), Aged(s, e)
    PROVE  LET longer == Append(s, e + 1)
               kept == IF Len(longer) > Limit THEN Tail(longer) ELSE longer
               wider == Range(s) \cup {e + 1}
               new == IF Cardinality(wider) > Limit THEN wider \cap Range(kept)
                      ELSE wider
           IN  /\ kept \in Seq(Nat) /\ new = Range(kept) /\ Len(kept) <= Limit
               /\ Ascending(kept) /\ Aged(kept, e + 1)
               /\ e + 1 \in new
               /\ \A r \in Range(s) : r \in new \/ e + 1 - r >= Limit
<1> DEFINE longer == Append(s, e + 1)
           kept == IF Len(longer) > Limit THEN Tail(longer) ELSE longer
           wider == Range(s) \cup {e + 1}
           n == Len(s)
<1>1. /\ n \in Nat /\ DOMAIN s = 1 .. n /\ \A i \in 1 .. n : s[i] \in Nat
      /\ e + 1 \in Nat
  BY LenProperties, ElementOfSeq
<1>2. /\ longer \in Seq(Nat) /\ Len(longer) = n + 1 /\ longer # <<>>
      /\ \A i \in 1 .. n : longer[i] = s[i]
      /\ longer[n + 1] = e + 1
  BY <1>1, AppendProperties
<1>3. n <= Limit
  OBVIOUS
<1> HIDE DEF longer, kept, wider, n
<1>4. DOMAIN longer = 1 .. n + 1
  BY <1>2, LenProperties
<1>5. \A i \in 1 .. n : s[i] + n - i <= e
  BY <1>1, Zenon DEF Aged, n
<1>6. \A i, j \in 1 .. n : i < j => s[i] < s[j]
  BY <1>1, Zenon DEF Ascending
<1>7. \A i \in 1 .. n + 1 : i \in 1 .. n \/ i = n + 1
  BY <1>1
<1>8. \A i, j \in 1 .. n + 1 : i < j => longer[i] < longer[j]
  <2> SUFFICES ASSUME NEW i \in 1 .. n + 1, NEW j \in 1 .. n + 1, i < j
               PROVE  longer[i] < longer[j]
    OBVIOUS
  <2>1. i \in 1 .. n /\ (j \in 1 .. n \/ j = n + 1)
    BY <1>1
  <2>2. s[i] \in Nat /\ s[i] < e + 1
    BY <1>1, <1>5, <2>1
  <2> QED
    BY <1>2, <1>6, <2>1, <2>2
<1>9. \A i \in 1 .. n + 1 : longer[i] \in Nat /\ longer[i] + (n + 1) - i <= e + 1
  <2> SUFFICES ASSUME NEW i \in 1 .. n + 1
               PROVE  longer[i] \in Nat /\ longer[i] + (n + 1) - i <= e + 1
    OBVIOUS
  <2>1. CASE i \in 1 .. n
    <3>1. longer[i] = s[i] /\ s[i] \in Nat /\ s[i] + n - i <= e
      BY <1>1, <1>2, <1>5, <2>1
    <3> QED BY <1>1, <2>1, <3>1
  <2>2. CASE i = n + 1
    BY <1>1, <1>2, <2>2
  <2> QED
    BY <1>7, <2>1, <2>2
<1>10. Ascending(longer) /\ Aged(longer, e + 1)
  BY <1>2, <1>4, <1>8, <1>9 DEF Ascending, Aged
<1>11. wider = Range(longer)
  <2>1. \A r : r \in Range(longer) <=> \E i \in 1 .. n + 1 : longer[i] = r
    BY <1>2, RangeOf
  <2>2. \A r : r \in Range(s) <=> \E i \in 1 .. n : s[i] = r
    BY RangeOf DEF n
  <2>3. 1 .. n + 1 = (1 .. n) \cup {n + 1}
    BY <1>1
  <2> QED
    <3>1. ASSUME NEW r PROVE r \in wider <=> r \in Range(longer)
      <4>1. r \in wider <=> (\E i \in 1 .. n : s[i] = r) \/ r = e + 1
        BY <2>2 DEF wider
      <4>2. (\E i \in 1 .. n + 1 : longer[i] = r) <=>
               (\E i \in 1 .. n : longer[i] = r) \/ longer[n + 1] = r
        BY <2>3
      <4>3. (\E i \in 1 .. n : longer[i] = r) <=> \E i \in 1 .. n : s[i] = r
        BY <1>2
      <4> QED BY <1>2, <2>1, <4>1, <4>2, <4>3
    <3> QED BY <3>1
<1>12. IsFiniteSet(wider) /\ Cardinality(wider) = n + 1
  <2>1. /\ IsFiniteSet(1 .. n + 1) /\ Cardinality(1 .. n + 1) = n + 1
    <3>1. 1 \in Int /\ n + 1 \in Int /\ ~(1 > n + 1) /\ (n + 1) - 1 + 1 = n + 1
      BY <1>1
    <3> QED
      BY <3>1, FS_Interval
  <2>2. longer \in Injection(1 .. n + 1, Range(longer))
    <3>1. longer \in [1 .. n + 1 -> Range(longer)]
      BY <1>2, <1>4, LenProperties DEF Range
    <3>2. \A i, j \in 1 .. n + 1 : longer[i] = longer[j] => i = j
      BY <1>1, <1>8, <1>9
    <3> QED
      BY <1>4, <3>1, <3>2, Zenon DEF Injection, IsInjective
  <2>3. longer \in Surjection(1 .. n + 1, Range(longer))
    BY <1>4, <2>2, Zenon DEF Injection, Surjection, Range
  <2>4. ExistsBijection(1 .. n + 1, Range(longer))
    BY <2>2, <2>3, Zenon DEF Bijection, ExistsBijection
  <2> QED
    BY <1>11, <2>1, <2>4, FS_Bijection
<1>13. CASE n + 1 > Limit
  <2>1. /\ kept = Tail(longer) /\ kept \in Seq(Nat) /\ Len(kept) = n
        /\ \A i \in 1 .. n : kept[i] = longer[i + 1]
    BY <1>1, <1>2, <1>13, HeadTailProperties DEF kept
  <2>2. DOMAIN kept = 1 .. n /\ n = Limit
    BY <1>1, <1>3, <1>13, <2>1, LenProperties
  <2>3. \A i \in 1 .. n : i + 1 \in 1 .. n + 1
    BY <1>1
  <2>4. \A r : r \in Range(kept) <=> \E i \in 1 .. n : longer[i + 1] = r
    <3>1. \A r : r \in Range(kept) <=> \E i \in 1 .. n : kept[i] = r
      BY <2>1, RangeOf
    <3> QED
      BY <2>1, <3>1
  <2>5. \A r : r \in wider <=> \E i \in 1 .. n + 1 : longer[i] = r
    BY <1>2, <1>11, RangeOf
  <2>6. wider \cap Range(kept) = Range(kept)
    BY <2>3, <2>4, <2>5
  <2>7. e + 1 \in Range(kept)
    BY <1>1, <1>2, <2>2, <2>4
  <2>8. ASSUME NEW r \in wider, r \notin Range(kept)
        PROVE  e + 1 - r >= Limit
    <3>1. PICK i \in 1 .. n + 1 : longer[i] = r
      BY <2>5
    <3>2. i = 1
      <4>1. i # 1 => i - 1 \in 1 .. n /\ (i - 1) + 1 = i
        BY <1>1
      <4> QED
        BY <2>4, <2>8, <3>1, <4>1
    <3>3. longer[1] \in Nat /\ longer[1] + (n + 1) - 1 <= e + 1
      BY <1>9, <3>2
    <3> QED
      BY <1>1, <2>2, <3>1, <3>2, <3>3
  <2>9. Ascending(kept)
    <3>1. \A i, j \in 1 .. n : i < j => longer[i + 1] < longer[j + 1]
      BY <1>1, <1>8, <2>3
    <3> QED
      <4>1. \A i, j \in 1 .. n : i < j => kept[i] < kept[j]
        BY <2>1, <3>1
      <4> QED
        BY <2>2, <4>1 DEF Ascending
  <2>10. Aged(kept, e + 1)
    <3>1. \A i \in 1 .. n : longer[i + 1] \in Nat /\ longer[i + 1] + (n + 1) - (i + 1) <= e + 1
      BY <1>9, <2>3
    <3>2. \A i \in 1 .. n : longer[i + 1] + n - i <= e + 1
      BY <1>1, <3>1
    <3> QED
      BY <2>1, <2>2, <3>2 DEF Aged
  <2>11. (IF Cardinality(wider) > Limit THEN wider \cap Range(kept) ELSE wider) = Range(kept)
    BY <1>12, <1>13, <2>6
  <2>12. \A r \in Range(s) : r \in Range(kept) \/ e + 1 - r >= Limit
    BY <2>8 DEF wider
  <2>13. Len(kept) <= Limit
    BY <1>1, <2>1, <2>2
  <2> QED
    BY <2>1, <2>7, <2>9, <2>10, <2>11, <2>12, <2>13, Zenon DEF longer, kept, wider
<1>14. CASE ~(n + 1 > Limit)
  <2>1. kept = longer
    BY <1>2, <1>14 DEF kept
  <2>2. (IF Cardinality(wider) > Limit THEN wider \cap Range(kept) ELSE wider) = Range(kept)
    BY <1>11, <1>12, <1>14, <2>1
  <2>3. Len(kept) <= Limit
    BY <1>1, <1>2, <1>14, <2>1
  <2>4. e + 1 \in Range(kept)
    BY <1>11, <2>1 DEF wider
  <2>5. \A r \in Range(s) : r \in Range(kept)
    BY <1>11, <2>1 DEF wider
  <2> QED
    BY <1>2, <1>10, <2>1, <2>2, <2>3, <2>4, <2>5, Zenon DEF longer, kept, wider
<1> QED
  BY <1>13, <1>14

(* What RunRegistry.record does to the registries.                          *)
LEMMA RecordingRun ==
    ASSUME RegistryInv, ends \in Nat, NEW c \in Coordinators,
           recordRun(c, ends + 1), ends' = ends + 1
    PROVE  /\ runs' \in [Coordinators -> Seq(Nat)] /\ index' \in [Coordinators -> SUBSET Nat]
           /\ \A d \in Coordinators :
                 /\ index'[d] = Range(runs'[d]) /\ Len(runs'[d]) <= Limit
                 /\ Ascending(runs'[d]) /\ Aged(runs'[d], ends')
           /\ ends' \in index'[c]
           /\ \A d \in Coordinators, r \in Nat : found(r, d) => found(r, d)'
<1> DEFINE longer == Append(runs[c], ends + 1)
           kept == IF Len(longer) > Limit THEN Tail(longer) ELSE longer
           wider == index[c] \cup {ends + 1}
           new == IF Cardinality(wider) > Limit THEN wider \cap Range(kept) ELSE wider
<1>1. /\ runs' = [runs EXCEPT ![c] = kept] /\ index' = [index EXCEPT ![c] = new]
  BY Zenon DEF recordRun
<1>2. /\ runs \in [Coordinators -> Seq(Nat)] /\ index \in [Coordinators -> SUBSET Nat]
      /\ \A d \in Coordinators :
            /\ index[d] = Range(runs[d]) /\ Len(runs[d]) <= Limit
            /\ Ascending(runs[d]) /\ Aged(runs[d], ends)
  BY DEF RegistryInv
<1>3. runs[c] \in Seq(Nat) /\ index[c] = Range(runs[c])
  BY <1>2
<1>4. /\ kept \in Seq(Nat) /\ new = Range(kept) /\ Len(kept) <= Limit
      /\ Ascending(kept) /\ Aged(kept, ends + 1)
      /\ ends + 1 \in new
      /\ \A r \in index[c] : r \in new \/ ends + 1 - r >= Limit
  BY <1>2, <1>3, Recording, Zenon
<1> HIDE DEF kept, new
<1>5. \A d \in Coordinators :
         /\ runs'[d] = IF d = c THEN kept ELSE runs[d]
         /\ index'[d] = IF d = c THEN new ELSE index[d]
  BY <1>1, <1>2
<1>6. new \in SUBSET Nat
  BY <1>4, RangeOfSeq
<1>7. runs' \in [Coordinators -> Seq(Nat)] /\ index' \in [Coordinators -> SUBSET Nat]
  BY <1>1, <1>2, <1>4, <1>6
<1>8. ASSUME NEW d \in Coordinators
      PROVE  Aged(runs[d], ends + 1)
  <2>1. runs[d] \in Seq(Nat) /\ Aged(runs[d], ends)
    BY <1>2
  <2>2. /\ Len(runs[d]) \in Nat /\ DOMAIN runs[d] = 1 .. Len(runs[d])
        /\ \A i \in 1 .. Len(runs[d]) : runs[d][i] \in Nat
    BY <2>1, LenProperties, ElementOfSeq
  <2> QED
    BY <2>1, <2>2 DEF Aged
<1>9. ASSUME NEW d \in Coordinators
      PROVE  /\ index'[d] = Range(runs'[d]) /\ Len(runs'[d]) <= Limit
             /\ Ascending(runs'[d]) /\ Aged(runs'[d], ends')
  <2>1. CASE d = c
    BY <1>4, <1>5, <2>1
  <2>2. CASE d # c
    BY <1>2, <1>5, <1>8, <2>2
  <2> QED
    BY <2>1, <2>2
<1>10. ASSUME NEW d \in Coordinators, NEW r \in Nat, found(r, d)
       PROVE  found(r, d)'
  <2>1. CASE ends - r >= Limit
    <3>1. ends + 1 - r >= Limit
      BY <2>1
    <3> QED
      BY <3>1 DEF found
  <2>2. CASE r \in index[d] /\ d = c
    BY <1>4, <1>5, <2>2 DEF found
  <2>3. CASE r \in index[d] /\ d # c
    BY <1>5, <2>3 DEF found
  <2> QED
    BY <1>10, <2>1, <2>2, <2>3 DEF found
<1>11. ends' \in index'[c]
  BY <1>4, <1>5
<1> QED
  BY <1>7, <1>9, <1>10, <1>11

LEMMA CoordsKnown ==
    ASSUME RequestsInv, SessionsInv
    PROVE  coord \in [Threads -> Coordinators]
<1>1. made \in Nat /\ \A t \in Threads : coord[t] \in Nat /\ coord[t] <= MaxRequests
  BY DEF RequestsInv, SessionsInv, SM!SessionsTypeOK
<1> QED
  BY <1>1 DEF RequestsInv, Coordinators

LEMMA RegistryKept ==
    ASSUME RequestsInv, SessionsInv, RegistryInv, HistoryInv, [Next]_vars
    PROVE  RegistryInv'
<1>1. /\ coord \in [Threads -> Coordinators] /\ ends \in Nat /\ faults \in Nat
      /\ run \in [Threads -> Nat] /\ phase \in [Threads -> Phases]
      /\ ok \subseteq Runs \X Coordinators
  BY CoordsKnown DEF RequestsInv, HistoryInv
<1>2. ASSUME UNCHANGED <<registry, ends>>, faults' = 0 => faults = 0,
             faults = 0 => \A a \in ok' : found(a[1], a[2]),
             \A t \in Threads : phase'[t] = "history" =>
                phase[t] = "history" /\ run'[t] = run[t] /\ coord'[t] = coord[t]
      PROVE  RegistryInv'
  <2>1. runs' = runs /\ index' = index /\ ends' = ends
    BY <1>2 DEF registry
  <2>2. \A r, c : found(r, c)' <=> found(r, c)
    BY <2>1 DEF found
  <2> QED
    BY <1>2, <2>1, <2>2 DEF RegistryInv
<1>3. ASSUME NEW t \in Threads, Route(t)
      PROVE  RegistryInv'
  <2>1. \A u \in Threads : phase'[u] = "history" => u # t
    BY <1>1, <1>3 DEF Route, goto, Ops, phaseAfterRouting
  <2>2. /\ UNCHANGED <<registry, ends, faults, ok, run>>
        /\ \A u \in Threads : u # t => phase'[u] = phase[u] /\ coord'[u] = coord[u]
    <3>1. \E c : coord' = [coord EXCEPT ![t] = c]
      BY <1>3 DEF Route
    <3> QED
      BY <1>1, <1>3, <3>1 DEF Route, goto, ghosts
  <2> QED
    BY <1>1, <1>2, <2>1, <2>2 DEF RegistryInv
<1>4. ASSUME NEW t \in Threads, Register(t) \/ Gate(t) \/ Delete(t) \/ Cleanup(t)
      PROVE  RegistryInv'
  <2>1. /\ UNCHANGED <<registry, ends, faults, ok, run, coord>>
        /\ \A u \in Threads : phase'[u] = "history" => phase[u] = "history"
    BY <1>1, <1>4 DEF Register, Gate, Delete, Cleanup, goto, ghosts, threads
  <2> QED
    BY <1>2, <2>1 DEF RegistryInv
<1>5. ASSUME NEW t \in Threads, Record(t)
      PROVE  RegistryInv'
  <2>1. /\ UNCHANGED <<registry, ends, run, coord>> /\ phase[t] = "history"
        /\ \A u \in Threads : phase'[u] = "history" => phase[u] = "history"
    BY <1>1, <1>5 DEF Record, goto
  <2>2. /\ faults' = 0 => faults = 0
        /\ ok' = ok \/ ok' = ok \cup {<<run[t], coord[t]>>}
    BY <1>1, <1>5 DEF Record, ghosts
  <2>3. faults = 0 => \A a \in ok' : found(a[1], a[2])
    BY <2>1, <2>2 DEF RegistryInv
  <2> QED
    BY <1>2, <2>1, <2>2, <2>3
<1>6. ASSUME NEW t \in Threads, RunEnds(t)
      PROVE  RegistryInv'
  <2>1. /\ UNCHANGED <<faults, ok, coord>>
    BY <1>6 DEF RunEnds, ghosts
  <2>2. CASE coord[t] \in empty
    <3>1. UNCHANGED <<registry, ends, run>> /\ goto(t, "idle")
      BY <1>6, <2>2 DEF RunEnds
    <3>2. \A u \in Threads : phase'[u] = "history" => phase[u] = "history"
      BY <1>1, <3>1 DEF goto
    <3> QED
      BY <1>2, <2>1, <3>1, <3>2 DEF RegistryInv
  <2>3. CASE coord[t] \notin empty
    <3>1. /\ recordRun(coord[t], ends + 1) /\ ends' = ends + 1
          /\ \/ goto(t, "history") /\ run' = [run EXCEPT ![t] = ends + 1]
             \/ goto(t, "idle") /\ UNCHANGED run
      BY <1>6, <2>3 DEF RunEnds
    <3>2. coord[t] \in Coordinators
      BY <1>1
    <3>3. /\ runs' \in [Coordinators -> Seq(Nat)] /\ index' \in [Coordinators -> SUBSET Nat]
          /\ \A d \in Coordinators :
                /\ index'[d] = Range(runs'[d]) /\ Len(runs'[d]) <= Limit
                /\ Ascending(runs'[d]) /\ Aged(runs'[d], ends')
          /\ ends' \in index'[coord[t]]
          /\ \A d \in Coordinators, r \in Nat : found(r, d) => found(r, d)'
      BY <1>1, <3>1, <3>2, RecordingRun
    <3>4. ASSUME faults' = 0, NEW a \in ok'
          PROVE  found(a[1], a[2])'
      <4>1. a[1] \in Nat /\ a[2] \in Coordinators /\ found(a[1], a[2])
        BY <1>1, <2>1, <3>4 DEF RegistryInv, Runs
      <4> QED
        BY <3>3, <4>1
    <3>5. ASSUME faults' = 0, NEW u \in Threads, phase'[u] = "history"
          PROVE  found(run[u], coord[u])'
      <4>1. CASE u = t
        <5>1. run'[t] = ends' /\ coord'[t] = coord[t]
          BY <1>1, <2>1, <3>1, <3>5, <4>1 DEF goto
        <5> QED
          BY <3>3, <4>1, <5>1 DEF found
      <4>2. CASE u # t
        <5>1. phase[u] = "history" /\ run'[u] = run[u] /\ coord'[u] = coord[u]
          BY <1>1, <2>1, <3>1, <3>5, <4>2 DEF goto
        <5>2. run[u] \in Nat /\ coord[u] \in Coordinators /\ found(run[u], coord[u])
          BY <1>1, <2>1, <3>5, <5>1 DEF RegistryInv
        <5>3. ends' - run[u] >= Limit \/ run[u] \in index'[coord[u]]
          BY <3>3, <5>2 DEF found
        <5> QED
          BY <5>1, <5>3 DEF found
      <4> QED
        BY <4>1, <4>2
    <3> QED
      BY <3>3, <3>4, <3>5 DEF RegistryInv
  <2> QED
    BY <2>2, <2>3
<1>7. CASE Crash
  <2>1. /\ runs' = [c \in Coordinators |-> <<>>] /\ index' = [c \in Coordinators |-> {}]
        /\ faults' # 0
    BY <1>1, <1>7 DEF Crash
  <2>2. <<>> \in Seq(Nat) /\ Len(<<>>) = 0 /\ DOMAIN <<>> = 1 .. 0
    BY EmptySeq, LenProperties
  <2>3. Range(<<>>) = {} /\ Ascending(<<>>) /\ Aged(<<>>, ends')
    <3>1. DOMAIN <<>> = {}
      BY <2>2
    <3> QED
      BY <3>1 DEF Range, Ascending, Aged
  <2> QED
    BY <2>1, <2>2, <2>3 DEF RegistryInv
<1>8. CASE Start \/ Tick \/ UNCHANGED vars
  <2>1. UNCHANGED <<registry, ends, faults, ok, run, coord, phase>>
    BY <1>8 DEF Start, Tick, vars, ghosts, threads
  <2> QED
    BY <1>2, <2>1 DEF RegistryInv
<1> QED
  BY <1>3, <1>4, <1>5, <1>6, <1>7, <1>8 DEF Next, Handle, Over

-----------------------------------------------------------------------------
(* The history file                                                         *)
(* An append that fails or is cut short adds nothing that can be read.      *)
LEMMA PartlyUnread ==
    ASSUME FileOK, History!partly, count' \in Nat
    PROVE  /\ FileOK'
           /\ Len(lines) <= Len(lines') /\ Len(lines') <= Len(lines) + 1
           /\ History!readable' = History!readable
           /\ \A i \in History!readable : lines'[i] = lines[i]
<1>1. /\ lines \in Seq(Line) /\ Len(lines) \in Nat /\ DOMAIN lines = 1 .. Len(lines)
      /\ torn \in BOOLEAN
  BY LenProperties DEF FileOK
<1>2. CASE UNCHANGED <<lines, torn, undecodable>>
  BY <1>1, <1>2 DEF FileOK, History!readable
<1>3. CASE torn /\ lines' = lines /\ torn' = TRUE
  <2>1. Len(lines) \in DOMAIN lines /\ Len(lines) \notin History!readable
    BY <1>1, <1>3 DEF FileOK, History!readable
  <2>2. History!readable' = History!readable
    BY <1>3 DEF History!readable
  <2> QED
    BY <1>1, <1>3, <2>1, <2>2 DEF FileOK
<1>4. CASE ~torn /\ lines' = Append(lines, History!garbled) /\ torn' = TRUE
  <2>1. History!garbled \in Line
    BY DEF History!garbled, Line
  <2>2. /\ lines' \in Seq(Line) /\ lines' # <<>> /\ Len(lines') = Len(lines) + 1
        /\ \A i \in 1 .. Len(lines) : lines'[i] = lines[i]
        /\ lines'[Len(lines) + 1] = History!garbled
    BY <1>1, <1>4, <2>1, AppendProperties
  <2>3. DOMAIN lines' = 1 .. Len(lines) + 1
    BY <2>2, LenProperties
  <2>4. 1 .. Len(lines) + 1 = (1 .. Len(lines)) \cup {Len(lines) + 1}
    BY <1>1
  <2>5. History!readable' = History!readable
    BY <1>1, <2>2, <2>3, <2>4 DEF History!readable, History!garbled
  <2>6. \A i \in History!readable : lines'[i] = lines[i] /\ i \in 1 .. Len(lines)
    BY <1>1, <2>2 DEF History!readable
  <2>7. torn' \in BOOLEAN /\ Len(lines') \in Nat /\ lines'[Len(lines')] = History!garbled
    <3>1. Len(lines') \in Nat /\ lines'[Len(lines')] = History!garbled
      BY <1>1, <2>2
    <3>2. torn' \in BOOLEAN
      BY <1>4, Zenon
    <3> QED
      BY <3>1, <3>2
  <2>8. Len(lines) + 1 \in DOMAIN lines' /\ Len(lines) + 1 \notin History!readable'
    BY <1>1, <2>3, <2>5, <2>6
  <2>9. \A i \in History!readable' : i <= lines'[i].index
    BY <2>5, <2>6 DEF FileOK
  <2>10. FileOK'
    BY <2>2, <2>7, <2>8, <2>9, Zenon DEF FileOK
  <2> QED
    BY <1>1, <2>2, <2>5, <2>6, <2>10
<1>5. \/ UNCHANGED <<lines, torn, undecodable>>
      \/ torn /\ lines' = lines /\ torn' = TRUE
      \/ ~torn /\ lines' = Append(lines, History!garbled) /\ torn' = TRUE
  BY <1>1 DEF History!partly
<1> QED
  BY <1>2, <1>3, <1>4, <1>5

(* An append that succeeds adds a record, unless the last line is torn.     *)
LEMMA Appending ==
    ASSUME FileOK, Len(lines) <= count, NEW r \in Nat, r # 0, History!append(r)
    PROVE  /\ FileOK' /\ count' = count + 1 /\ ~torn' /\ Len(lines') <= count'
           /\ undecodable' = undecodable
           /\ torn => /\ History!readable' = History!readable /\ lines' = lines
           /\ ~torn => /\ Len(lines') = Len(lines) + 1
                       /\ \A i \in DOMAIN lines : lines'[i] = lines[i]
                       /\ DOMAIN lines' = DOMAIN lines \cup {Len(lines) + 1}
                       /\ lines'[Len(lines) + 1] = [index |-> count + 1, run |-> r]
                       /\ History!readable' = History!readable \cup {Len(lines) + 1}
                       /\ Len(lines) + 1 \notin DOMAIN lines
<1>1. /\ lines \in Seq(Line) /\ Len(lines) \in Nat /\ DOMAIN lines = 1 .. Len(lines)
      /\ count \in Nat /\ torn \in BOOLEAN
  BY LenProperties DEF FileOK
<1>2. count' = count + 1 /\ torn' = FALSE /\ undecodable' = undecodable
  BY DEF History!append
<1>3. CASE torn
  <2>1. lines' = [lines EXCEPT ![Len(lines)] = History!garbled]
    BY <1>3 DEF History!append
  <2>2. lines' = lines
    BY <1>1, <1>3, <2>1 DEF FileOK
  <2>3. History!readable' = History!readable
    BY <2>2 DEF History!readable
  <2>4. FileOK'
    <3>1. count' \in Nat /\ lines' \in Seq(Line)
      BY <1>1, <1>2, <2>2
    <3>2. torn' \in BOOLEAN /\ ~torn'
      BY <1>2, Zenon
    <3>3. DOMAIN lines' = DOMAIN lines /\ lines' = lines
      BY <2>2
    <3> QED
      BY <1>2, <2>3, <3>1, <3>2, <3>3, Zenon DEF FileOK
  <2>5. Len(lines') <= count'
    BY <1>1, <1>2, <2>2
  <2> QED
    BY <1>2, <1>3, <2>2, <2>3, <2>4, <2>5, Zenon
<1>4. CASE ~torn
  <2>1. lines' = Append(lines, [index |-> count + 1, run |-> r])
    BY <1>4 DEF History!append, History!record
  <2>2. [index |-> count + 1, run |-> r] \in Line
    BY <1>1 DEF Line
  <2>3. /\ lines' \in Seq(Line) /\ Len(lines') = Len(lines) + 1
        /\ \A i \in 1 .. Len(lines) : lines'[i] = lines[i]
        /\ lines'[Len(lines) + 1] = [index |-> count + 1, run |-> r]
    BY <1>1, <2>1, <2>2, AppendProperties
  <2>4. DOMAIN lines' = 1 .. Len(lines) + 1
    BY <2>3, LenProperties
  <2>5. 1 .. Len(lines) + 1 = (1 .. Len(lines)) \cup {Len(lines) + 1}
    BY <1>1
  <2>6. [index |-> count + 1, run |-> r] # History!garbled
    BY DEF History!garbled
  <2>7. History!readable' = History!readable \cup {Len(lines) + 1}
    BY <1>1, <2>3, <2>4, <2>5, <2>6 DEF History!readable, History!garbled
  <2>8. FileOK'
    <3>1. count' \in Nat
      BY <1>1, <1>2
    <3>2. torn' \in BOOLEAN /\ ~torn'
      BY <1>2, Zenon
    <3>3. \A i \in History!readable' : i <= lines'[i].index
      <4>1. ASSUME NEW i \in History!readable
            PROVE  i <= lines'[i].index
        BY <1>1, <2>3, <4>1 DEF FileOK, History!readable
      <4>2. Len(lines) + 1 <= lines'[Len(lines) + 1].index
        BY <1>1, <2>3
      <4> QED
        BY <2>7, <4>1, <4>2
    <3>4. undecodable' => \E i \in DOMAIN lines' : i \notin History!readable'
      BY <1>1, <1>2, <2>4, <2>5, <2>7 DEF FileOK
    <3> QED
      BY <2>3, <3>1, <3>2, <3>3, <3>4, Zenon DEF FileOK
  <2>9. Len(lines) + 1 \notin DOMAIN lines
    BY <1>1
  <2>10. DOMAIN lines' = DOMAIN lines \cup {Len(lines) + 1}
    BY <1>1, <2>4, <2>5
  <2>11. Len(lines') <= count'
    BY <1>1, <1>2, <2>3
  <2> QED
    BY <1>1, <1>2, <1>4, <2>3, <2>7, <2>8, <2>9, <2>10, <2>11, Zenon
<1> QED
  BY <1>1, <1>3, <1>4

LEMMA HistoryKept ==
    ASSUME RequestsInv, SessionsInv, HistoryInv, [Next]_vars
    PROVE  HistoryInv'
<1>1. /\ ends \in Nat /\ faults \in Nat /\ ends <= MaxRequests
      /\ run \in [Threads -> Nat] /\ phase \in [Threads -> Phases]
      /\ \A t \in Threads : run[t] <= ends
  BY FS_CardinalityType DEF RequestsInv
<1>2. /\ FileOK /\ (up => Len(lines) <= count) /\ ok \subseteq Runs \X Coordinators /\ garbledRuns \subseteq Runs
      /\ \A i \in History!readable : lines[i].run <= ends
      /\ \A i, j \in History!readable : lines[i].run = lines[j].run => i = j
      /\ \A t \in Threads : phase[t] = "history" =>
            /\ run[t] > 0
            /\ \A i \in History!readable : lines[i].run # run[t]
            /\ \A u \in Threads : phase[u] = "history" /\ run[u] = run[t] => u = t
      /\ \A a \in ok : a[1] \in garbledRuns \/ \E i \in History!readable : lines[i].run = a[1]
      /\ faults = 0 =>
            /\ count = Len(lines) /\ ~torn /\ ~undecodable
            /\ \A i \in DOMAIN lines : lines[i].index = i
  BY DEF HistoryInv
<1>3. \A i \in History!readable : i \in DOMAIN lines /\ lines[i] \in Line
  BY <1>2, ElementOfSeq, LenProperties DEF FileOK, History!readable
(* The steps that write nothing: what could be read can still be.           *)
<1>4. ASSUME FileOK', up' => Len(lines') <= count',
             History!readable' = History!readable,
             \A i \in History!readable : lines'[i] = lines[i],
             UNCHANGED <<ok, garbledRuns, ends>>,
             faults' # 0 \/ UNCHANGED <<file, faults>>,
             \A t \in Threads : phase'[t] = "history" =>
                phase[t] = "history" /\ run'[t] = run[t]
      PROVE  HistoryInv'
  <2>1. /\ \A i \in History!readable' : lines'[i].run <= ends'
        /\ \A i, j \in History!readable' : lines'[i].run = lines'[j].run => i = j
    BY <1>2, <1>4
  <2>2. ASSUME NEW t \in Threads, phase'[t] = "history"
        PROVE  /\ run'[t] > 0
               /\ \A i \in History!readable' : lines'[i].run # run'[t]
               /\ \A u \in Threads : phase'[u] = "history" /\ run'[u] = run'[t] => u = t
    BY <1>2, <1>4, <2>2
  <2>3. \A a \in ok' : a[1] \in garbledRuns' \/ \E i \in History!readable' : lines'[i].run = a[1]
    BY <1>2, <1>4
  <2>4. faults' = 0 =>
           /\ count' = Len(lines') /\ ~torn' /\ ~undecodable'
           /\ \A i \in DOMAIN lines' : lines'[i].index = i
    BY <1>2, <1>4 DEF file
  <2> QED
    BY <1>2, <1>4, <2>1, <2>2, <2>3, <2>4 DEF HistoryInv
<1>5. ASSUME UNCHANGED <<file, up, ok, garbledRuns, ends, faults>>,
             \A t \in Threads : phase'[t] = "history" =>
                phase[t] = "history" /\ run'[t] = run[t]
      PROVE  HistoryInv'
  <2>1. lines' = lines /\ FileOK' /\ History!readable' = History!readable
    BY <1>2, <1>5 DEF file, FileOK, History!readable
  <2>2. up' => Len(lines') <= count'
    BY <1>2, <1>5, <2>1 DEF file
  <2> QED
    BY <1>4, <1>5, <2>1, <2>2
<1>6. ASSUME NEW t \in Threads, UNCHANGED up,
             Route(t) \/ Register(t) \/ Gate(t) \/ Delete(t) \/ Cleanup(t)
      PROVE  HistoryInv'
  <2>1. UNCHANGED <<file, ok, garbledRuns, ends, faults, run>>
    BY <1>6 DEF Route, Register, Gate, Delete, Cleanup, ghosts, threads
  <2>2. \A u \in Threads : phase'[u] = "history" => phase[u] = "history"
    BY <1>1, <1>6 DEF Route, Register, Gate, Delete, Cleanup, goto, threads, Ops,
                      phaseAfterRouting
  <2> QED
    BY <1>5, <1>6, <2>1, <2>2
<1>7. ASSUME NEW t \in Threads, UNCHANGED up, RunEnds(t)
      PROVE  HistoryInv'
  <2>1. UNCHANGED <<file, up, ok, garbledRuns, faults>>
    BY <1>7 DEF RunEnds, ghosts
  <2>2. \/ goto(t, "idle") /\ UNCHANGED <<run, ends>>
        \/ goto(t, "idle") /\ UNCHANGED run /\ ends' = ends + 1
        \/ goto(t, "history") /\ run' = [run EXCEPT ![t] = ends + 1] /\ ends' = ends + 1
    BY <1>7 DEF RunEnds
  <2>3. CASE goto(t, "idle") /\ UNCHANGED <<run, ends>>
    <3>1. \A u \in Threads : phase'[u] = "history" => phase[u] = "history"
      BY <1>1, <2>3 DEF goto
    <3> QED
      BY <1>5, <2>1, <2>3, <3>1
  <2>4. CASE ends' = ends + 1
    <3>1. lines' = lines /\ FileOK' /\ History!readable' = History!readable
      BY <1>2, <2>1 DEF file, FileOK, History!readable
    <3>2. \A i \in History!readable' : lines'[i].run <= ends' /\ lines'[i].run # ends'
      <4>1. \A i \in History!readable : lines[i].run \in Nat
        BY <1>3 DEF Line
      <4> QED
        BY <1>1, <1>2, <2>4, <3>1, <4>1
    <3>3. ASSUME NEW u \in Threads, phase'[u] = "history"
          PROVE  /\ run'[u] > 0
                 /\ \A i \in History!readable' : lines'[i].run # run'[u]
                 /\ \A v \in Threads : phase'[v] = "history" /\ run'[v] = run'[u] => v = u
      <4>1. \A v \in Threads : phase'[v] = "history" =>
               \/ v # t /\ phase[v] = "history" /\ run'[v] = run[v] /\ run'[v] < ends'
               \/ v = t /\ run'[v] = ends'
        <5>1. ASSUME NEW v \in Threads, phase'[v] = "history", v # t
              PROVE  phase[v] = "history" /\ run'[v] = run[v] /\ run'[v] < ends'
          BY <1>1, <2>2, <2>4, <5>1 DEF goto
        <5>2. ASSUME phase'[t] = "history"
              PROVE  run'[t] = ends'
          BY <1>1, <2>2, <5>2 DEF goto
        <5> QED
          BY <5>1, <5>2
      <4>2. CASE u = t
        BY <1>1, <2>4, <3>2, <3>3, <4>1, <4>2
      <4>3. CASE u # t
        BY <1>1, <1>2, <2>4, <3>1, <3>3, <4>1, <4>3
      <4> QED
        BY <4>2, <4>3
    <3> QED
      BY <1>2, <2>1, <3>1, <3>2, <3>3 DEF HistoryInv, file
  <2> QED
    BY <2>2, <2>3, <2>4
<1>8. ASSUME NEW t \in Threads, up, UNCHANGED up, Record(t)
      PROVE  HistoryInv'
  <2>1. /\ phase[t] = "history" /\ UNCHANGED <<ends, run>>
        /\ \A u \in Threads : phase'[u] = "history" => phase[u] = "history" /\ u # t
    BY <1>1, <1>8 DEF Record, goto
  <2>2. CASE faults' = faults + 1 /\ History!appendFails /\ UNCHANGED ghosts
    <3>1. History!partly /\ count' = count + 1
      BY <2>2 DEF History!appendFails
    <3>2. count \in Nat /\ count' \in Nat
      BY <1>2, <3>1 DEF FileOK
    <3>3. /\ FileOK' /\ History!readable' = History!readable
          /\ \A i \in History!readable : lines'[i] = lines[i]
          /\ Len(lines') <= Len(lines) + 1
      BY <1>2, <3>1, <3>2, PartlyUnread
    <3>4. faults' # 0 /\ UNCHANGED <<ok, garbledRuns, ends>>
      BY <1>1, <2>1, <2>2 DEF ghosts
    <3>5. Len(lines') <= count'
      <4>1. Len(lines) \in Nat /\ Len(lines') \in Nat
        BY <1>2, <3>3, LenProperties DEF FileOK
      <4> QED
        BY <1>2, <1>8, <3>1, <3>2, <3>3, <4>1
    <3> QED
      BY <1>4, <2>1, <3>3, <3>4, <3>5
  <2>3. CASE /\ History!append(run[t])
             /\ ok' = ok \cup {<<run[t], coord[t]>>}
             /\ garbledRuns' = garbledRuns \cup (IF torn THEN {run[t]} ELSE {})
             /\ UNCHANGED faults
    <3> DEFINE r == run[t]
    <3>1. r \in Nat /\ r > 0 /\ r \in Runs /\ r <= ends
      BY <1>1, <1>2, <2>1 DEF Runs
    <3>2. ok' \subseteq Runs \X Coordinators /\ garbledRuns' \subseteq Runs
      BY <1>2, <2>3, <3>1, CoordsKnown
    <3>3. /\ FileOK' /\ count' = count + 1 /\ ~torn' /\ Len(lines') <= count'
          /\ undecodable' = undecodable
          /\ torn => History!readable' = History!readable /\ lines' = lines
          /\ ~torn => /\ Len(lines') = Len(lines) + 1
                      /\ \A i \in DOMAIN lines : lines'[i] = lines[i]
                      /\ DOMAIN lines' = DOMAIN lines \cup {Len(lines) + 1}
                      /\ lines'[Len(lines) + 1] = [index |-> count + 1, run |-> r]
                      /\ History!readable' = History!readable \cup {Len(lines) + 1}
                      /\ Len(lines) + 1 \notin DOMAIN lines
      <4>1. FileOK /\ Len(lines) <= count /\ r \in Nat /\ r # 0 /\ History!append(r)
        BY <1>2, <1>8, <2>3, <3>1
      <4> HIDE DEF r
      <4> QED
        BY <4>1, Appending, Zenon
    <3> DEFINE last == Len(lines) + 1
    (* What can be read now: what could be, and perhaps the run itself.     *)
    <3>4. \A i \in History!readable' :
             \/ i \in History!readable /\ lines'[i] = lines[i]
             \/ i = last /\ lines'[i].run = r
      BY <1>3, <3>3
    <3>5. \A i \in History!readable : i \in History!readable' /\ lines'[i] = lines[i]
      BY <1>3, <3>3
    <3>6. ~torn => last \in History!readable' /\ lines'[last].run = r
      <4>1. ~torn => lines'[last] = [index |-> count + 1, run |-> r] /\ last \in History!readable'
        BY <3>3
      <4> QED
        BY <4>1
    <3> HIDE DEF last
    <3>7. /\ \A i \in History!readable' : lines'[i].run <= ends'
          /\ \A i, j \in History!readable' : lines'[i].run = lines'[j].run => i = j
      BY <1>2, <2>1, <3>1, <3>4
    <3>8. ASSUME NEW u \in Threads, phase'[u] = "history"
          PROVE  /\ run'[u] > 0
                 /\ \A i \in History!readable' : lines'[i].run # run'[u]
                 /\ \A v \in Threads : phase'[v] = "history" /\ run'[v] = run'[u] => v = u
      <4>1. phase[u] = "history" /\ u # t /\ run'[u] = run[u] /\ run[u] # r
        BY <1>2, <2>1, <3>8
      <4> QED
        BY <1>2, <2>1, <3>4, <4>1
    <3>9. \A a \in ok' : a[1] \in garbledRuns' \/ \E i \in History!readable' : lines'[i].run = a[1]
      <4>1. ASSUME NEW a \in ok
            PROVE  a[1] \in garbledRuns' \/ \E i \in History!readable' : lines'[i].run = a[1]
        BY <1>2, <2>3, <3>5
      <4>2. r \in garbledRuns' \/ \E i \in History!readable' : lines'[i].run = r
        BY <2>3, <3>6
      <4>3. <<r, coord[t]>>[1] = r
        OBVIOUS
      <4> HIDE DEF r
      <4> QED
        BY <2>3, <4>1, <4>2, <4>3 DEF r
    <3>10. faults' = 0 =>
              /\ count' = Len(lines') /\ ~torn' /\ ~undecodable'
              /\ \A i \in DOMAIN lines' : lines'[i].index = i
      <4>1. SUFFICES ASSUME faults = 0
                     PROVE  /\ count' = Len(lines') /\ ~undecodable'
                            /\ \A i \in DOMAIN lines' : lines'[i].index = i
        BY <2>3, <3>3
      <4>2. count = Len(lines) /\ ~torn /\ ~undecodable /\ \A i \in DOMAIN lines : lines[i].index = i
        BY <1>2, <4>1
      <4> QED
        BY <3>3, <4>2
    <3> QED
      BY <3>2, <3>3, <3>7, <3>8, <3>9, <3>10 DEF HistoryInv
  <2> QED
    BY <1>8, <2>2, <2>3 DEF Record
<1>9. CASE Crash
  <2>1. /\ faults' # 0 /\ ~up' /\ UNCHANGED <<ok, garbledRuns, ends>>
        /\ \A t \in Threads : phase'[t] = "idle"
        /\ History!partly /\ count' = 0
    <3>1. faults' # 0
      BY <1>1, <1>9 DEF Crash
    <3>2. ~up' /\ UNCHANGED <<ok, garbledRuns, ends>> /\ count' = 0
      BY <1>9, Zenon DEF Crash, ghosts
    <3>3. \A t \in Threads : phase'[t] = "idle"
      BY <1>9 DEF Crash
    <3>4. History!partly
      BY <1>9, Zenon DEF Crash, History!dieAppending, History!partly
    <3> QED
      BY <3>1, <3>2, <3>3, <3>4
  <2>2. /\ FileOK' /\ History!readable' = History!readable
        /\ \A i \in History!readable : lines'[i] = lines[i]
    BY <1>2, <2>1, PartlyUnread
  <2> QED
    BY <1>4, <2>1, <2>2
<1>10. CASE Start
  <2>1. /\ UNCHANGED <<lines, torn, undecodable, ok, garbledRuns, ends, faults, run, phase>>
        /\ count' = Len(lines)
    BY <1>10 DEF Start, History!reopen, ghosts, threads
  <2>2. Len(lines) \in Nat /\ DOMAIN lines' = DOMAIN lines
    BY <1>2, <2>1, LenProperties DEF FileOK
  <2>3. FileOK' /\ History!readable' = History!readable
    BY <1>2, <2>1, <2>2 DEF FileOK, History!readable
  <2>4. faults' = 0 => count' = count
    BY <1>2, <2>1
  <2> QED
    BY <1>2, <1>4, <2>1, <2>2, <2>3, <2>4 DEF file
<1>11. CASE Tick \/ UNCHANGED vars
  <2>1. UNCHANGED <<file, up, ok, garbledRuns, ends, faults, run, phase>>
    BY <1>11 DEF Tick, vars, ghosts, threads
  <2> QED
    BY <1>5, <2>1
<1> QED
  BY <1>6, <1>7, <1>8, <1>9, <1>10, <1>11 DEF Next, Handle, Over

-----------------------------------------------------------------------------
LEMMA InitIInv == Init => IInv
<1> SUFFICES ASSUME Init PROVE IInv
  OBVIOUS
<1>1. /\ SM!SessionsInit /\ History!HistoryInit
      /\ empty = (IF EmptyFactory THEN Coordinators ELSE {})
      /\ runs = [c \in Coordinators |-> <<>>] /\ index = [c \in Coordinators |-> {}]
      /\ permits = MaxRuns
      /\ phase = [t \in Threads |-> "idle"]
      /\ coord = [t \in Threads |-> 0] /\ run = [t \in Threads |-> 0]
      /\ clock = 0 /\ requests = 0 /\ faults = 0 /\ ends = 0
      /\ ok = {} /\ garbledRuns = {} /\ up = TRUE
  BY DEF Init, Fresh
<1>2. /\ running = {} /\ pending = {} /\ IsFiniteSet({}) /\ Cardinality({}) = 0
  BY <1>1, NobodyIn
<1>3. made = 0
  BY <1>1 DEF SM!SessionsInit
<1>4. RequestsInv
  BY <1>1, <1>2, <1>3 DEF RequestsInv, Phases
<1>5. SessionsInv
  BY <1>1, NoSessions
<1>6. GateInv
  <2>2. permits \in Nat /\ IsFiniteSet(running) /\ permits + Cardinality(running) = MaxRuns
    BY <1>1, <1>2
  <2>3. running = {t \in Threads : phase[t] = "running"}
    BY DEF running, inPhase
  <2> QED
    BY <2>2, <2>3, Zenon DEF GateInv, GateBalanced
<1>7. RegistryInv
  <2>1. <<>> \in Seq(Nat) /\ Len(<<>>) = 0 /\ DOMAIN <<>> = {}
    BY EmptySeq, LenProperties
  <2>2. Range(<<>>) = {} /\ Ascending(<<>>) /\ Aged(<<>>, ends)
    BY <2>1 DEF Range, Ascending, Aged
  <2> QED
    BY <1>1, <2>1, <2>2 DEF RegistryInv
<1>8. HistoryInv
  <2>1. <<>> \in Seq(Line) /\ Len(<<>>) = 0 /\ DOMAIN <<>> = {}
    BY EmptySeq, LenProperties
  <2>2. /\ count = 0 /\ lines = <<>> /\ torn = FALSE /\ undecodable = FALSE
    BY <1>1 DEF History!HistoryInit
  <2>3. FileOK
    <3>1. torn \in BOOLEAN /\ ~torn /\ ~undecodable
      BY <2>2, Zenon
    <3> QED
      BY <2>1, <2>2, <3>1, Zenon DEF FileOK, History!readable
  <2> QED
    BY <1>1, <2>1, <2>2, <2>3 DEF HistoryInv, History!readable
<1> QED
  BY <1>1, <1>4, <1>5, <1>6, <1>7, <1>8, Zenon DEF IInv

(* It holds whatever is routed, evicted, deleted, torn or restarted.         *)
THEOREM Invariance == Spec => []IInv
<1>1. up \in BOOLEAN /\ [Next]_vars => up' \in BOOLEAN
  BY Zenon DEF Next, Handle, Crash, Start, Tick, Over, vars
<1>2. IInv /\ [Next]_vars => IInv'
  BY <1>1, RequestsKept, SessionsKept, GateKept, RegistryKept, HistoryKept DEF IInv
<1> QED
  BY <1>2, InitIInv, PTL DEF Spec

(* No two sessions ever share a coordinator, and there are never more of    *)
(* them than the bound, whatever is routed, evicted, deleted or restarted.  *)
THEOREM SessionsStayIsolated == Spec => []SessionsIsolated
<1>1. ASSUME IInv PROVE SessionsIsolated
  <2>1. coord \in [Threads -> Coordinators]
    BY <1>1, CoordsKnown DEF IInv
  <2>2. \A t \in Threads : run[t] \in {0} \cup Runs
    <3>1. Cardinality(pending) \in Nat
      BY <1>1, FS_CardinalityType DEF IInv, RequestsInv
    <3> QED
      BY <1>1, <3>1 DEF IInv, RequestsInv, Runs
  <2>3. run \in [Threads -> {0} \cup Runs]
    BY <1>1, <2>2 DEF IInv, RequestsInv
  <2> QED
    BY <1>1, <2>1, <2>3 DEF IInv, RequestsInv, SessionsInv, HistoryInv, SessionsIsolated, Phases
<1> QED
  BY <1>1, Invariance, PTL

(* No permit of the gate leaks or is given back twice, and every run that   *)
(* ended is found in its registry until Limit later ones have ended.        *)
THEOREM RunsStayAccounted == Spec => []RunsAccounted
<1>1. ASSUME IInv PROVE RunsAccounted
  BY <1>1 DEF IInv, GateInv, RegistryInv, Ascending, found, RunsAccounted, RegistryConsistent
<1> QED
  BY <1>1, Invariance, PTL

(* An answered run is in the history exactly once, or was appended to a     *)
(* torn line, whatever fails and dies; records are numbered onwards, without *)
(* gaps as long as nothing fails; and only a torn line keeps the file from   *)
(* being opened again.                                                      *)
THEOREM HistoryStaysKept == Spec => []HistoryKeeps
<1>1. ASSUME IInv PROVE HistoryKeeps
  <2> DEFINE where(r) == {i \in History!readable : lines[i].run = r}
  <2>1. ASSUME NEW r \in Runs PROVE Cardinality(where(r)) <= 1
    <3>1. CASE where(r) = {}
      BY <3>1, FS_EmptySet
    <3>2. CASE where(r) # {}
      <4>1. \A i, j \in where(r) : i = j
        BY <1>1 DEF IInv, HistoryInv
      <4>2. PICK i : i \in where(r)
        BY <3>2
      <4> HIDE DEF where
      <4>3. where(r) = {i}
        BY <4>1, <4>2
      <4>4. Cardinality(where(r)) = 1
        BY <4>3, FS_Singleton
      <4> QED
        BY <4>4
    <3> QED
      BY <3>1, <3>2
  <2>2. \A a \in ok : a[1] \in garbledRuns \/ where(a[1]) # {}
    BY <1>1 DEF IInv, HistoryInv
  <2>3. faults = 0 => \A i \in DOMAIN lines : lines[i].index = i
    BY <1>1 DEF IInv, HistoryInv
  <2>4. \A i \in History!readable : lines[i].index >= i
    <3>1. \A i \in History!readable : i \in DOMAIN lines /\ lines[i] \in Line
      BY <1>1, ElementOfSeq, LenProperties DEF IInv, HistoryInv, FileOK, History!readable
    <3>2. \A i \in History!readable : i <= lines[i].index
      BY <1>1 DEF IInv, HistoryInv, FileOK
    <3> QED
      BY <3>1, <3>2 DEF Line
  <2>5. undecodable => faults > 0 /\ History!readable # DOMAIN lines
    BY <1>1 DEF IInv, RequestsInv, HistoryInv, FileOK
  <2> QED
    BY <2>1, <2>2, <2>3, <2>4, <2>5 DEF HistoryKeeps
<1> QED
  BY <1>1, Invariance, PTL

(* A session is evicted for a new one only when it has expired, or when     *)
(* there is no room without it and it is older than all that stay.          *)
THEOREM EvictionsNeeded == Spec => EvictionNeeded
<1> DEFINE A == made' > made =>
          \A s \in SM!live : sessions'[s] = SM!none =>
              \/ clock >= lastActive[s] + Ttl
              \/ /\ Cardinality(SM!live') = MaxSessions
                 /\ \A k \in SM!live \cap SM!live' : SM!older(s, k)
<1>1. ASSUME IInv, [Next]_vars PROVE [A]_vars
  <2>1. SUFFICES ASSUME made' > made, NEW s \in SM!live, sessions'[s] = 0
                 PROVE  \/ clock >= lastActive[s] + Ttl
                        \/ /\ Cardinality(SM!live') = MaxSessions
                           /\ \A k \in SM!live \cap SM!live' : SM!older(s, k)
    BY DEF SM!none
  <2>2. made \in Nat
    BY <1>1 DEF IInv, SessionsInv, SM!SessionsTypeOK
  <2>3. \E n \in Ids : SM!getOrCreate(n, clock)
    <3>1. ASSUME NEW t \in Threads, Route(t)
          PROVE  \E n \in Ids : SM!getOrCreate(n, clock)
      BY <2>1, <2>2, <3>1 DEF Route, manager
    <3>2. ASSUME NEW t \in Threads, Delete(t) \/ Cleanup(t)
          PROVE  made' = made
      BY <3>2 DEF Delete, Cleanup, SM!delete, SM!cleanup, SM!drop
    <3>3. Crash => made' = 0
      BY DEF Crash
    <3> QED
      BY <1>1, <2>1, <2>2, <3>1, <3>2, <3>3
         DEF Next, Handle, Over, Register, Gate, RunEnds, Record, Start, Tick, vars, manager
  <2>4. PICK n \in Ids : SM!getOrCreate(n, clock)
    BY <2>3
  <2> DEFINE left == SM!live \ SM!evictedForNew(clock)
  <2>5. /\ n \notin SM!live /\ made' = made + 1
        /\ sessions' = [t \in Ids |-> IF t = n THEN made + 1
                                      ELSE IF t \in SM!evictedForNew(clock) THEN 0
                                      ELSE sessions[t]]
    BY <2>1, <2>2, <2>4 DEF SM!getOrCreate, SM!none
  <2>6. SM!live' = left \cup {n} /\ n \notin left /\ SM!live \cap SM!live' = left
    BY <2>2, <2>5 DEF SM!live, SM!none
  <2>7. s \notin left
    BY <2>1, <2>5 DEF SM!live, SM!none
  <2>8. /\ IsFiniteSet(left) /\ Cardinality(left) \in Nat
        /\ \/ clock >= lastActive[s] + Ttl
           \/ /\ Cardinality(left) + 1 = MaxSessions
              /\ \A k \in left : SM!older(s, k)
    BY <1>1, <2>7, EvictingForNew, Zenon DEF IInv
  <2> HIDE DEF left
  <2>9. Cardinality(SM!live') = Cardinality(left) + 1
    BY <2>6, <2>8, FS_AddElement
  <2> QED
    BY <2>6, <2>8, <2>9
<1> QED
  BY <1>1, Invariance, PTL DEF Spec, EvictionNeeded

=============================================================================
