--------------------------- MODULE RecoveryProofs ---------------------------
(***************************************************************************)
(* What the recovery loop of Recovery.tla does for every plan, every pool   *)
(* and every budget: an attempt dispatches every task once and after its    *)
(* dependencies, to no agent a repair took out; the budget is kept; the     *)
(* caller is told a cancellation and nothing else is told as one; and what  *)
(* is decided follows the report.                                           *)
(*                                                                         *)
(* The orders of the tasks and the repaired pool are recursive functions.   *)
(* What they compute is proved by least counterexample (UpTo), after        *)
(* Iterate has shown that the functions exist.                              *)
(***************************************************************************)
EXTENDS Recovery, SequenceTheorems, FiniteSetTheorems, NaturalsInduction, TLAPS

(* order lists the tasks, each of them once.                                *)
Lists(order, tasks) ==
    /\ order \in Seq(tasks)
    /\ \A i, j \in DOMAIN order : order[i] = order[j] => i = j
    /\ \A t \in tasks : \E i \in DOMAIN order : order[i] = t

(* Every task of order comes after the tasks it depends on.                 *)
Sorts(order, g) ==
    \A i \in DOMAIN order : g[order[i]] \subseteq {order[j] : j \in 1 .. i - 1}

(* The budget: what was decided was paid with an attempt.                   *)
BudgetInv ==
    /\ attempts <= MaxAttempts /\ replansUsed <= MaxReplans
    /\ dispatched <= attempts
    /\ repairsUsed + replansUsed <= attempts
    /\ pc \in {"top", "delay"} => attempts < MaxAttempts
    /\ pc \in {"prepare", "running"} => repairsUsed + replansUsed < attempts
    /\ pc = "prepare" => dispatched < attempts

(* The repaired pool has no agent a repair took out.                        *)
PoolInv == \A i \in DOMAIN pool : pool[i] \notin evicted

(* What the Supervisor was given.                                           *)
RunningInv ==
    pc = "running" =>
        /\ steps = strategyTaskOrder
        /\ Lists(steps, kept) /\ Sorts(steps, deps)
        /\ \A t \in kept : routed[t] \in Agents \ evicted

(* No attempt starts once the caller aborted, and a recorded cancellation   *)
(* ends the run.                                                            *)
TellInv ==
    /\ pc = "prepare" => ~aborted
    /\ pc # "finished" => failure # "CANCELLED"
    /\ CancelledToldRight

IInv == TypeOK /\ BudgetInv /\ PoolInv /\ RunningInv /\ TellInv

-----------------------------------------------------------------------------
(* What a recursive function computes.                                      *)

(* Counting to n: a set with 0 and the successors of its members has them   *)
(* all.                                                                     *)
LEMMA UpTo ==
    ASSUME NEW n \in Nat, NEW S, 0 \in S,
           \A k \in 1 .. n : k - 1 \in S => k \in S
    PROVE  0 .. n \subseteq S
<1> DEFINE Bad == (0 .. n) \ S
<1>1. SUFFICES ASSUME Bad # {} PROVE FALSE
  OBVIOUS
<1>2. Bad \subseteq Nat
  OBVIOUS
<1>3. PICK m \in Bad : \A k \in Bad : <<k, m>> \notin OpToRel(<, Nat)
  BY <1>1, <1>2, WFMin, NatLessThanWellFounded, Zenon
<1>4. \A k \in Bad : ~(k < m)
  BY <1>2, <1>3, Zenon DEF OpToRel
<1>5. m \in 1 .. n
  OBVIOUS
<1>6. m - 1 \notin Bad
  BY <1>4, <1>5
<1>7. QED BY <1>5, <1>6

(* A function of 0 .. n given by its first value and by its steps.          *)
Iterates(g, n, V, x, h) ==
    /\ g \in [0 .. n -> V] /\ g[0] = x
    /\ \A k \in 1 .. n : g[k] = h[k][g[k - 1]]

(* There is one.                                                            *)
LEMMA Iterate ==
    ASSUME NEW n \in Nat, NEW V, NEW x \in V, NEW h \in [1 .. n -> [V -> V]]
    PROVE  \E g : Iterates(g, n, V, x, h)
<1> DEFINE Runs(m, g) == g[0] = x /\ \A k \in 1 .. m : g[k] = h[k][g[k - 1]]
           S == {m \in 0 .. n : \E g \in [0 .. m -> V] : Runs(m, g)}
<1>1. 0 \in S
  <2> DEFINE f == [k \in 0 .. 0 |-> x]
  <2>1. f \in [0 .. 0 -> V] /\ f[0] = x
    OBVIOUS
  <2>2. Runs(0, f)
    BY <2>1
  <2> HIDE DEF f, Runs
  <2>3. QED BY <2>1, <2>2
<1>2. ASSUME NEW m \in 1 .. n, m - 1 \in S PROVE m \in S
  <2>1. PICK g \in [0 .. m - 1 -> V] : Runs(m - 1, g)
    BY <1>2
  <2> DEFINE f == [k \in 0 .. m |-> IF k = m THEN h[m][g[m - 1]] ELSE g[k]]
  <2>2. h[m][g[m - 1]] \in V
    OBVIOUS
  <2>3. f \in [0 .. m -> V]
    BY <2>2
  <2>4. f[0] = x /\ f[m] = h[m][g[m - 1]] /\ \A k \in 0 .. m - 1 : f[k] = g[k]
    BY <2>1
  <2> HIDE DEF f
  <2>5. \A k \in 1 .. m : f[k] = h[k][f[k - 1]]
    <3>1. TAKE k \in 1 .. m
    <3>2. CASE k = m
      BY <3>2, <2>4
    <3>3. CASE k # m
      <4>1. k \in 1 .. m - 1 /\ k - 1 \in 0 .. m - 1 /\ k \in 0 .. m - 1
        BY <3>3
      <4>2. QED BY <4>1, <2>1, <2>4
    <3>4. QED BY <3>2, <3>3
  <2>6. Runs(m, f)
    BY <2>4, <2>5
  <2> HIDE DEF Runs
  <2>7. QED BY <2>3, <2>6
<1> HIDE DEF S
<1>3. 0 .. n \subseteq S
  BY <1>1, <1>2, UpTo
<1>4. n \in S
  BY <1>3
<1>5. QED BY <1>4 DEF S, Iterates

-----------------------------------------------------------------------------
(* The tasks in declaration order.                                          *)

(* The recursive function of declared is there, and has its equations.      *)
LEMMA DeclaredSteps ==
    ASSUME NEW tasks
    PROVE  \E f : /\ declared(tasks) = f[N] /\ f[0] = <<>>
                  /\ \A t \in 1 .. N : f[t] = IF t \in tasks
                                              THEN Append(f[t - 1], t) ELSE f[t - 1]
<1>0. N \in Nat
  BY NAssumption
<1> DEFINE h == [t \in 1 .. N |-> [s \in Seq(Nat) |-> IF t \in tasks
                                                     THEN Append(s, t) ELSE s]]
           Eq(f) == f = [t \in 0 .. N |-> IF t = 0 THEN <<>>
                                     ELSE IF t \in tasks THEN Append(f[t - 1], t)
                                     ELSE f[t - 1]]
<1>1. h \in [1 .. N -> [Seq(Nat) -> Seq(Nat)]]
  OBVIOUS
<1>2. PICK g \in [0 .. N -> Seq(Nat)] :
         g[0] = <<>> /\ \A k \in 1 .. N : g[k] = h[k][g[k - 1]]
  <2> HIDE DEF h
  <2>1. <<>> \in Seq(Nat)
    OBVIOUS
  <2> DEFINE W == Seq(Nat)
             e == <<>>
  <2>2. e \in W /\ h \in [1 .. N -> [W -> W]]
    BY <1>1, <2>1
  <2> HIDE DEF W, e
  <2>3. \E g : Iterates(g, N, W, e, h)
    BY <1>0, <2>2, Iterate, Zenon
  <2>4. QED BY <2>3, Zenon DEF W, e, Iterates
<1>3. \A t \in 1 .. N : g[t] = IF t \in tasks THEN Append(g[t - 1], t) ELSE g[t - 1]
  <2>1. TAKE t \in 1 .. N
  <2>2. t - 1 \in 0 .. N /\ g[t - 1] \in Seq(Nat)
    BY <1>0
  <2>3. g[t] = h[t][g[t - 1]]
    BY <1>2
  <2>4. h[t][g[t - 1]] = IF t \in tasks THEN Append(g[t - 1], t) ELSE g[t - 1]
    BY <2>2
  <2>5. QED BY <2>3, <2>4
<1>4. Eq(g)
  <2>1. \A t \in 0 .. N : t = 0 \/ t \in 1 .. N
    BY <1>0
  <2>2. QED BY <1>2, <1>3, <2>1
<1> DEFINE f == CHOOSE e : Eq(e)
<1>5. Eq(f)
  BY <1>4, Zenon
<1>6. declared(tasks) = f[N]
  BY Zenon DEF declared
<1> HIDE DEF f
<1>7. f[0] = <<>>
  BY <1>0, <1>5
<1>8. \A t \in 1 .. N : f[t] = IF t \in tasks THEN Append(f[t - 1], t) ELSE f[t - 1]
  <2>1. TAKE t \in 1 .. N
  <2>2. t \in 0 .. N /\ t # 0
    BY <1>0
  <2>3. QED BY <1>5, <2>2
<1>9. QED BY <1>6, <1>7, <1>8

(* declared lists its tasks.                                                *)
LEMMA DeclaredLists ==
    ASSUME NEW tasks \in SUBSET Task
    PROVE  Lists(declared(tasks), tasks)
<1>0. N \in Nat
  BY NAssumption
<1>1. PICK f : /\ declared(tasks) = f[N] /\ f[0] = <<>>
               /\ \A t \in 1 .. N : f[t] = IF t \in tasks
                                           THEN Append(f[t - 1], t) ELSE f[t - 1]
  BY DeclaredSteps
<1> DEFINE S == {t \in 0 .. N : Lists(f[t], tasks \cap 1 .. t)}
<1>2. 0 \in S
  <2>1. f[0] = <<>> /\ tasks \cap 1 .. 0 = {}
    BY <1>0, <1>1
  <2>2. Lists(<<>>, {})
    BY DEF Lists
  <2>3. QED BY <2>1, <2>2, <1>0
<1>3. ASSUME NEW t \in 1 .. N, t - 1 \in S PROVE t \in S
  <2> DEFINE s == f[t - 1]
             r == Append(s, t)
  <2>1. Lists(s, tasks \cap 1 .. t - 1)
    BY <1>3
  <2>2. CASE t \notin tasks
    <3>1. tasks \cap 1 .. t = tasks \cap 1 .. t - 1 /\ f[t] = s
      BY <2>2, <1>1
    <3>2. QED BY <3>1, <2>1
  <2>3. CASE t \in tasks
    <3>1. f[t] = r
      BY <2>3, <1>1
    <3>2. s \in Seq(tasks \cap 1 .. t - 1) /\ s \in Seq(tasks \cap 1 .. t)
      BY <2>1 DEF Lists
    <3>a. t \in tasks \cap 1 .. t
      BY <2>3
    <3> HIDE DEF s
    <3>3. r \in Seq(tasks \cap 1 .. t) /\ Len(r) = Len(s) + 1 /\ r[Len(r)] = t
      BY <3>2, <3>a
    <3>4. \A i \in 1 .. Len(s) : r[i] = s[i] /\ s[i] \in tasks \cap 1 .. t - 1
      BY <3>2, <3>a
    <3>5. Len(s) \in Nat /\ DOMAIN s = 1 .. Len(s) /\ DOMAIN r = 1 .. Len(s) + 1
      BY <3>2, <3>3
    <3> HIDE DEF r
    <3>6. ASSUME NEW i \in DOMAIN r, NEW j \in DOMAIN r, r[i] = r[j] PROVE i = j
      <4>1. CASE i \in 1 .. Len(s) /\ j \in 1 .. Len(s)
        BY <4>1, <3>4, <3>5, <3>6, <2>1 DEF Lists
      <4>2. CASE i = Len(r) /\ j \in 1 .. Len(s)
        BY <4>2, <3>3, <3>4, <3>6
      <4>3. CASE j = Len(r) /\ i \in 1 .. Len(s)
        BY <4>3, <3>3, <3>4, <3>6
      <4>4. QED BY <4>1, <4>2, <4>3, <3>3, <3>5
    <3>7. ASSUME NEW u \in tasks \cap 1 .. t PROVE \E i \in DOMAIN r : r[i] = u
      <4>1. CASE u = t
        BY <4>1, <3>3, <3>5
      <4>2. CASE u # t
        <5>1. PICK i \in DOMAIN s : s[i] = u
          <6>1. u \in tasks \cap 1 .. t - 1
            BY <4>2
          <6>2. QED BY <6>1, <2>1 DEF Lists
        <5>2. QED BY <5>1, <3>4, <3>5
      <4>3. QED BY <4>1, <4>2
    <3>8. Lists(r, tasks \cap 1 .. t)
      BY <3>3, <3>6, <3>7 DEF Lists
    <3>9. QED BY <3>1, <3>8
  <2>4. QED BY <2>2, <2>3
<1> HIDE DEF S
<1>4. 0 .. N \subseteq S
  BY <1>0, <1>2, <1>3, UpTo
<1>5. Lists(f[N], tasks \cap 1 .. N)
  BY <1>0, <1>4 DEF S
<1>6. tasks \cap 1 .. N = tasks
  BY DEF Task
<1>7. QED BY <1>1, <1>5, <1>6

-----------------------------------------------------------------------------
(* topologicalOrder: the passes.                                            *)

(* What one look at a task does to an order.                                *)
LEMMA PlaceTask ==
    ASSUME NEW tasks, NEW g, NEW order, NEW t
    PROVE  place(tasks, g, order, t) =
              IF /\ t \in tasks /\ \A i \in DOMAIN order : order[i] # t
                 /\ g[t] \subseteq {order[i] : i \in DOMAIN order}
              THEN Append(order, t) ELSE order
<1> DEFINE done == {order[i] : i \in DOMAIN order}
<1>1. t \in done <=> \E i \in DOMAIN order : order[i] = t
  OBVIOUS
<1> HIDE DEF done
<1>2. place(tasks, g, order, t) =
         IF t \in tasks \ done /\ g[t] \subseteq done THEN Append(order, t) ELSE order
  BY Zenon DEF place, done
<1>3. QED BY <1>1, <1>2 DEF done

(* The task the k-th look is at.                                            *)
looked(k) == ((k - 1) % N) + 1

(* Every look is at a task, and every pass looks at each of them.           *)
LEMMA LookedAt ==
    /\ \A k \in Nat \ {0} : looked(k) \in Task
    /\ \A r \in Nat, t \in Task : looked(r * N + t) = t
<1>0. N \in Nat \ {0}
  BY NAssumption
<1>1. ASSUME NEW k \in Nat \ {0} PROVE looked(k) \in Task
  <2>1. k - 1 \in Nat
    OBVIOUS
  <2>2. (k - 1) % N \in 0 .. N - 1
    BY <1>0, <2>1
  <2> DEFINE m == (k - 1) % N
  <2> HIDE DEF m
  <2>3. m + 1 \in 1 .. N
    BY <1>0, <2>2 DEF m
  <2>4. QED BY <2>3 DEF looked, Task, m
<1>2. ASSUME NEW r \in Nat, NEW t \in Task PROVE looked(r * N + t) = t
  <2> DEFINE b == t - 1
             c == r * N
  <2>1. b \in 0 .. N - 1
    BY <1>0 DEF Task
  <2>2. (r * N + b) % N = b
    <3> HIDE DEF b
    <3>1. QED BY <1>0, <2>1
  <2>3. c \in Nat
    BY <1>0
  <2>4. c + t - 1 = c + b
    <3> HIDE DEF c
    <3>1. QED BY <1>0, <2>3 DEF Task
  <2>5. (c + t - 1) % N = b
    BY <2>2, <2>4
  <2>6. QED BY <2>5, <1>0 DEF looked, Task
<1>3. QED BY <1>1, <1>2

(* The recursive function of topologicalOrder holds one order at a time:    *)
(* the orders after each look.                                              *)
LEMMA SortSteps ==
    ASSUME NEW tasks, NEW g
    PROVE  \E o : /\ topologicalOrder(tasks, g) = o[N * N]
                  /\ o \in [0 .. N * N -> Seq(Task)] /\ o[0] = <<>>
                  /\ \A k \in 1 .. N * N : o[k] = place(tasks, g, o[k - 1], looked(k))
<1>0. N \in Nat /\ N * N \in Nat
  BY NAssumption
<1> DEFINE M == N * N
           W == Seq(Task)
           e == <<>>
           h == [k \in 1 .. M |-> [s \in W |-> place(tasks, g, s, looked(k))]]
           Eq(f) == f = [k \in 0 .. M |->
              IF k = 0 THEN { <<>> }
              ELSE {place(tasks, g, order, ((k - 1) % N) + 1) : order \in f[k - 1]}]
<1>1. e \in W
  OBVIOUS
<1>2. ASSUME NEW k \in 1 .. M, NEW s \in W PROVE place(tasks, g, s, looked(k)) \in W
  <2>1. looked(k) \in Task
    BY <1>0, LookedAt
  <2>2. QED BY <2>1, PlaceTask
<1>3. h \in [1 .. M -> [W -> W]]
  <2> HIDE DEF W, M
  <2>1. QED BY <1>2
<1>4. PICK o : Iterates(o, M, W, e, h)
  <2> HIDE DEF W, e, h, M
  <2>1. QED BY <1>0, <1>1, <1>3, Iterate, Zenon DEF M
<1>5. o \in [0 .. M -> W] /\ o[0] = <<>>
  BY <1>4, Zenon DEF Iterates
<1>6. \A k \in 1 .. M : o[k] = place(tasks, g, o[k - 1], looked(k))
  <2>1. TAKE k \in 1 .. M
  <2>2. o[k] = h[k][o[k - 1]]
    BY <1>4, Zenon DEF Iterates
  <2>3. k - 1 \in 0 .. M
    BY <1>0
  <2>4. o[k - 1] \in W
    <3> HIDE DEF W, M
    <3>1. QED BY <1>5, <2>3
  <2>5. h[k][o[k - 1]] = place(tasks, g, o[k - 1], looked(k))
    <3> HIDE DEF W, M
    <3>1. QED BY <2>4 DEF h
  <2>6. QED BY <2>2, <2>5
<1>7. \A k \in 1 .. M : ((k - 1) % N) + 1 = looked(k)
  BY DEF looked
<1>8. \E f : Eq(f)
  <2> DEFINE f == [k \in 0 .. M |-> {o[k]}]
  <2>1. \A k \in 0 .. M : f[k] = {o[k]}
    OBVIOUS
  <2>2. \A k \in 0 .. M : k = 0 \/ (k \in 1 .. M /\ k # 0 /\ k - 1 \in 0 .. M)
    BY <1>0
  <2>3. \A k \in 0 .. M : f[k] =
          IF k = 0 THEN { <<>> }
          ELSE {place(tasks, g, order, ((k - 1) % N) + 1) : order \in f[k - 1]}
    <3> HIDE DEF f, M
    <3>1. TAKE k \in 0 .. M
    <3>2. CASE k = 0
      BY <3>2, <2>1, <1>5
    <3>3. CASE k # 0
      <4>1. k \in 1 .. M /\ k - 1 \in 0 .. M
        BY <3>3, <2>2
      <4>2. f[k - 1] = {o[k - 1]} /\ f[k] = {o[k]}
        BY <4>1, <2>1
      <4>3. {place(tasks, g, order, ((k - 1) % N) + 1) : order \in {o[k - 1]}} =
               {place(tasks, g, o[k - 1], ((k - 1) % N) + 1)}
        OBVIOUS
      <4>4. o[k] = place(tasks, g, o[k - 1], ((k - 1) % N) + 1)
        BY <4>1, <1>6, <1>7
      <4>5. QED BY <3>3, <4>2, <4>3, <4>4
    <3>4. QED BY <3>2, <3>3
  <2>4. Eq(f)
    BY <2>3
  <2> HIDE DEF f, Eq
  <2>5. QED BY <2>4
<1> DEFINE c == CHOOSE f : Eq(f)
<1>9. Eq(c)
  <2> HIDE DEF Eq
  <2>1. QED BY <1>8, Zenon
<1>10. topologicalOrder(tasks, g) = CHOOSE order \in c[N * N] : TRUE
  BY Zenon DEF topologicalOrder
<1> HIDE DEF c
<1> DEFINE S == {k \in 0 .. M : c[k] = {o[k]}}
<1>11. 0 \in S
  <2>1. c[0] = { <<>> }
    BY <1>0, <1>9
  <2>2. QED BY <2>1, <1>5, <1>0
<1>12. ASSUME NEW k \in 1 .. M, k - 1 \in S PROVE k \in S
  <2>1. k \in 0 .. M /\ k # 0
    BY <1>0
  <2>2. c[k] = {place(tasks, g, order, ((k - 1) % N) + 1) : order \in c[k - 1]}
    <3> HIDE DEF M
    <3>1. QED BY <1>9, <2>1
  <2>3. c[k - 1] = {o[k - 1]}
    BY <1>12
  <2>4. c[k] = {place(tasks, g, o[k - 1], looked(k))}
    BY <2>2, <2>3, <1>7
  <2>5. QED BY <2>1, <2>4, <1>6
<1>13. 0 .. M \subseteq S
  <2> HIDE DEF S, M
  <2>1. QED BY <1>0, <1>11, <1>12, UpTo DEF M
<1>14. c[N * N] = {o[N * N]}
  <2>1. M \in 0 .. M
    BY <1>0
  <2>2. QED BY <2>1, <1>13
<1>15. topologicalOrder(tasks, g) = o[N * N]
  BY <1>10, <1>14
<1>16. QED BY <1>5, <1>6, <1>15

(* The tasks of an order.                                                   *)
placed(order) == {order[i] : i \in DOMAIN order}

(* An order of some of the tasks, each once and after its dependencies.     *)
Partial(order, tasks, g) ==
    /\ order \in Seq(tasks)
    /\ \A i, j \in DOMAIN order : order[i] = order[j] => i = j
    /\ Sorts(order, g)

(* Every look leaves such an order, and takes no task out.                  *)
LEMMA PlaceKeeps ==
    ASSUME NEW tasks, NEW g, NEW s, Partial(s, tasks, g), NEW t
    PROVE  /\ Partial(place(tasks, g, s, t), tasks, g)
           /\ placed(s) \subseteq placed(place(tasks, g, s, t))
           /\ t \in tasks /\ g[t] \subseteq placed(s)
                 => t \in placed(place(tasks, g, s, t))
<1> DEFINE r == Append(s, t)
           p == place(tasks, g, s, t)
           Takes == /\ t \in tasks /\ t \notin placed(s)
                    /\ g[t] \subseteq placed(s)
<1>1. p = IF Takes THEN r ELSE s
  BY PlaceTask DEF placed
<1>2. s \in Seq(tasks) /\ Len(s) \in Nat /\ DOMAIN s = 1 .. Len(s)
  BY DEF Partial
<1>3. CASE ~Takes
  <2>1. p = s
    BY <1>1, <1>3
  <2>2. t \in tasks /\ g[t] \subseteq placed(s) => t \in placed(s)
    BY <1>3
  <2>3. placed(s) \subseteq placed(s)
    OBVIOUS
  <2>4. QED BY <2>1, <2>2, <2>3, Zenon
<1>4. CASE Takes
  <2>1. p = r
    BY <1>1, <1>4
  <2>2. r \in Seq(tasks) /\ Len(r) = Len(s) + 1 /\ r[Len(s) + 1] = t
    BY <1>2, <1>4
  <2>3. \A i \in 1 .. Len(s) : r[i] = s[i]
    BY <1>2, <1>4
  <2>4. DOMAIN r = 1 .. Len(s) + 1
    BY <2>2
  <2> HIDE DEF r, p
  <2>5. \A i \in 1 .. Len(s) : s[i] \in placed(s)
    BY <1>2 DEF placed
  <2>6. ASSUME NEW i \in DOMAIN r, NEW j \in DOMAIN r, r[i] = r[j] PROVE i = j
    <3>1. CASE i \in 1 .. Len(s) /\ j \in 1 .. Len(s)
      BY <3>1, <2>3, <2>6, <1>2 DEF Partial
    <3>2. CASE i = Len(s) + 1 /\ j \in 1 .. Len(s)
      BY <3>2, <2>2, <2>3, <2>5, <2>6, <1>4
    <3>3. CASE j = Len(s) + 1 /\ i \in 1 .. Len(s)
      BY <3>3, <2>2, <2>3, <2>5, <2>6, <1>4
    <3>4. QED BY <3>1, <3>2, <3>3, <2>4, <1>2
  <2>7. ASSUME NEW i \in DOMAIN r PROVE g[r[i]] \subseteq {r[j] : j \in 1 .. i - 1}
    <3>1. CASE i \in 1 .. Len(s)
      <4>1. g[s[i]] \subseteq {s[j] : j \in 1 .. i - 1}
        BY <3>1, <1>2 DEF Partial, Sorts
      <4>2. \A j \in 1 .. i - 1 : r[j] = s[j]
        BY <3>1, <1>2, <2>3
      <4>3. QED BY <4>1, <4>2, <3>1, <2>3
    <3>2. CASE i = Len(s) + 1
      <4>1. i - 1 = Len(s)
        BY <3>2, <1>2
      <4>2. placed(s) = {r[j] : j \in 1 .. i - 1}
        BY <4>1, <1>2, <2>3 DEF placed
      <4>3. QED BY <4>2, <3>2, <2>2, <1>4
    <3>3. QED BY <3>1, <3>2, <2>4, <1>2
  <2>8. Partial(r, tasks, g)
    BY <2>2, <2>6, <2>7 DEF Partial, Sorts
  <2>9. placed(s) \subseteq placed(r)
    <3>1. \A i \in DOMAIN s : i \in DOMAIN r /\ r[i] = s[i]
      BY <1>2, <2>3, <2>4
    <3>2. QED BY <3>1 DEF placed
  <2>10. t \in placed(r)
    <3>1. Len(s) + 1 \in DOMAIN r
      BY <2>4, <1>2
    <3>2. QED BY <3>1, <2>2 DEF placed
  <2>11. QED BY <2>1, <2>8, <2>9, <2>10 DEF p
<1>5. QED BY <1>3, <1>4

(* What topologicalOrder makes of a plan the validator passed: a list of    *)
(* its tasks, each after those it depends on.                               *)
LEMMA OrderSorts ==
    ASSUME NEW tasks \in SUBSET Task, NEW g,
           \A t \in tasks : g[t] \subseteq tasks,
           NEW rank \in [Task -> Task],
           \A t \in tasks : \A d \in g[t] : rank[d] < rank[t]
    PROVE  Lists(topologicalOrder(tasks, g), tasks) /\ Sorts(topologicalOrder(tasks, g), g)
<1>0. N \in Nat \ {0} /\ N * N \in Nat
  BY NAssumption
<1>1. PICK o : /\ topologicalOrder(tasks, g) = o[N * N]
               /\ o \in [0 .. N * N -> Seq(Task)] /\ o[0] = <<>>
               /\ \A k \in 1 .. N * N : o[k] = place(tasks, g, o[k - 1], looked(k))
  BY SortSteps
<1> DEFINE M == N * N
<1>2. \A k \in 0 .. M : Partial(o[k], tasks, g)
  <2> DEFINE S == {k \in 0 .. M : Partial(o[k], tasks, g)}
  <2>1. 0 \in S
    BY <1>0, <1>1 DEF Partial, Sorts
  <2>2. ASSUME NEW k \in 1 .. M, k - 1 \in S PROVE k \in S
    <3>1. Partial(place(tasks, g, o[k - 1], looked(k)), tasks, g)
      BY <2>2, PlaceKeeps
    <3>2. k \in 0 .. M
      BY <1>0
    <3>3. QED BY <3>1, <3>2, <1>1
  <2>3. 0 .. M \subseteq S
    <3> HIDE DEF S, M
    <3>1. QED BY <1>0, <2>1, <2>2, UpTo DEF M
  <2>4. QED BY <2>3
<1>3. \A k \in 1 .. M : placed(o[k - 1]) \subseteq placed(o[k])
  <2>1. TAKE k \in 1 .. M
  <2>2. k - 1 \in 0 .. M
    BY <1>0
  <2>3. o[k] = place(tasks, g, o[k - 1], looked(k))
    BY <1>1
  <2>4. Partial(o[k - 1], tasks, g)
    BY <1>2, <2>2
  <2>5. QED BY <2>3, <2>4, PlaceKeeps
<1>4. ASSUME NEW a \in 0 .. M, NEW b \in 0 .. M, a <= b
      PROVE  placed(o[a]) \subseteq placed(o[b])
  <2> DEFINE S == {m \in 0 .. b - a : placed(o[a]) \subseteq placed(o[a + m])}
  <2>0. b - a \in Nat /\ a \in Nat /\ b \in Nat /\ M \in Nat
    BY <1>4, <1>0
  <2> HIDE DEF M
  <2>1. 0 \in S
    BY <2>0
  <2>2. ASSUME NEW m \in 1 .. b - a, m - 1 \in S PROVE m \in S
    <3>1. a + m \in 1 .. M /\ a + (m - 1) = a + m - 1 /\ m \in 0 .. b - a
      BY <2>0
    <3>2. placed(o[a + m - 1]) \subseteq placed(o[a + m])
      <4> DEFINE k == a + m
      <4>1. k \in 1 .. M
        BY <3>1
      <4> HIDE DEF k
      <4>2. placed(o[k - 1]) \subseteq placed(o[k])
        BY <4>1, <1>3
      <4>3. QED BY <4>2 DEF k
    <3>3. placed(o[a]) \subseteq placed(o[a + m - 1])
      BY <2>2, <3>1
    <3>4. QED BY <3>1, <3>2, <3>3
  <2>3. 0 .. b - a \subseteq S
    <3> HIDE DEF S
    <3>1. QED BY <2>0, <2>1, <2>2, UpTo
  <2>4. b - a \in S /\ a + (b - a) = b
    BY <2>0, <2>3
  <2>5. QED BY <2>4
<1> DEFINE S == {r \in 0 .. N : \A t \in tasks : rank[t] <= r => t \in placed(o[r * N])}
<1>5. 0 \in S
  <2>1. \A t \in tasks : ~(rank[t] <= 0)
    <3>1. \A t \in tasks : rank[t] \in 1 .. N
      BY DEF Task
    <3>2. QED BY <3>1, <1>0
  <2>2. QED BY <2>1, <1>0
<1>6. ASSUME NEW r \in 1 .. N, r - 1 \in S PROVE r \in S
  <2>1. ASSUME NEW t \in tasks, rank[t] <= r PROVE t \in placed(o[r * N])
    <3> DEFINE a == (r - 1) * N
               z == r * N
               k == a + t
    <3>1. t \in 1 .. N /\ t \in Task /\ r - 1 \in Nat /\ r \in Nat
      BY <1>0 DEF Task
    <3>2. a \in Nat /\ z \in Nat /\ M \in Nat /\ z = a + N /\ z <= M
      <4>1. r * N <= N * N
        BY <1>0
      <4>2. r * N = (r - 1) * N + N
        BY <1>0
      <4>3. QED BY <4>1, <4>2, <3>1, <1>0
    <3> HIDE DEF a, z, M
    <3>3. k \in 1 .. M /\ k - 1 \in 0 .. M /\ a \in 0 .. M /\ z \in 0 .. M
      BY <3>1, <3>2, <1>0
    <3>4. a <= k - 1 /\ k <= z /\ k \in 0 .. M
      <4>1. a <= k - 1
        BY <3>1, <3>2
      <4>2. k <= z
        BY <3>1, <3>2, <1>0
      <4>3. k \in 0 .. M
        BY <3>2, <3>3
      <4>4. QED BY <4>1, <4>2, <4>3
    <3>5. looked(k) = t
      BY <3>1, LookedAt DEF a
    <3>6. o[k] = place(tasks, g, o[k - 1], t)
      BY <3>3, <3>5, <1>1 DEF M
    <3>7. g[t] \subseteq placed(o[a])
      <4>1. ASSUME NEW d \in g[t] PROVE d \in placed(o[a])
        <5>1. d \in tasks /\ rank[d] < rank[t]
          BY <4>1
        <5>2. rank[d] \in 1 .. N /\ rank[t] \in 1 .. N
          BY <5>1 DEF Task
        <5>3. rank[d] <= r - 1
          BY <5>1, <5>2, <2>1, <1>0
        <5>4. \A u \in tasks : rank[u] <= r - 1 => u \in placed(o[(r - 1) * N])
          BY <1>6
        <5>5. QED BY <5>1, <5>3, <5>4 DEF a
      <4>2. QED BY <4>1
    <3> HIDE DEF k
    <3>8. placed(o[a]) \subseteq placed(o[k - 1])
      BY <3>3, <3>4, <1>4
    <3>9. t \in placed(o[k])
      <4>1. Partial(o[k - 1], tasks, g)
        BY <3>3, <1>2
      <4>2. g[t] \subseteq placed(o[k - 1])
        BY <3>7, <3>8
      <4>3. QED BY <4>1, <4>2, <3>6, PlaceKeeps
    <3>10. placed(o[k]) \subseteq placed(o[z])
      BY <3>3, <3>4, <1>4
    <3>11. QED BY <3>9, <3>10 DEF z
  <2>2. r \in 0 .. N
    BY <1>0
  <2>3. QED BY <2>1, <2>2
<1>7. 0 .. N \subseteq S
  <2> HIDE DEF S
  <2>1. QED BY <1>0, <1>5, <1>6, UpTo
<1>8. \A t \in tasks : t \in placed(o[M])
  <2>1. N \in S
    BY <1>7, <1>0
  <2>2. \A t \in tasks : rank[t] <= N
    <3>1. \A t \in tasks : rank[t] \in 1 .. N
      BY DEF Task
    <3>2. QED BY <3>1, <1>0
  <2>3. QED BY <2>1, <2>2
<1>9. Partial(o[M], tasks, g)
  BY <1>2, <1>0
<1>10. \A t \in tasks : \E i \in DOMAIN o[M] : o[M][i] = t
  BY <1>8 DEF placed
<1>11. QED BY <1>1, <1>9, <1>10 DEF Lists, Partial

-----------------------------------------------------------------------------
(* The repaired pool has no agent that is gone, and no new one.             *)
LEMMA WithoutGone ==
    ASSUME NEW A, NEW agents \in Seq(A), NEW gone
    PROVE  /\ without(agents, gone) \in Seq(A)
           /\ \A i \in DOMAIN without(agents, gone) :
                 /\ without(agents, gone)[i] \notin gone
                 /\ \E j \in DOMAIN agents : agents[j] = without(agents, gone)[i]
<1> DEFINE n == Len(agents)
           B == {a \in A : a \notin gone /\ \E j \in DOMAIN agents : agents[j] = a}
           W == Seq(B)
           e == <<>>
           h == [i \in 1 .. n |-> [s \in W |-> IF agents[i] \in gone THEN s
                                               ELSE Append(s, agents[i])]]
           Eq(f) == f = [i \in 0 .. n |-> IF i = 0 THEN <<>>
                                     ELSE IF agents[i] \in gone THEN f[i - 1]
                                     ELSE Append(f[i - 1], agents[i])]
<1>0. n \in Nat /\ \A i \in 1 .. n : agents[i] \in gone \/ agents[i] \in B
  OBVIOUS
<1>1. e \in W
  OBVIOUS
<1>2. h \in [1 .. n -> [W -> W]]
  <2> HIDE DEF n, B
  <2>1. \A i \in 1 .. n, s \in W :
           (IF agents[i] \in gone THEN s ELSE Append(s, agents[i])) \in W
    BY <1>0
  <2> HIDE DEF W
  <2>2. QED BY <2>1
<1>3. PICK g : Iterates(g, n, W, e, h)
  <2> HIDE DEF n, W, e, h
  <2>1. QED BY <1>0, <1>1, <1>2, Iterate, Zenon
<1>4. g \in [0 .. n -> W] /\ g[0] = <<>>
  BY <1>3, Zenon DEF Iterates
<1>5. \A i \in 1 .. n : g[i] = IF agents[i] \in gone THEN g[i - 1]
                               ELSE Append(g[i - 1], agents[i])
  <2>1. TAKE i \in 1 .. n
  <2>2. g[i] = h[i][g[i - 1]]
    BY <1>3, Zenon DEF Iterates
  <2>3. i - 1 \in 0 .. n
    BY <1>0
  <2> HIDE DEF W, n
  <2>4. g[i - 1] \in W
    BY <1>4, <2>3
  <2>5. h[i][g[i - 1]] = IF agents[i] \in gone THEN g[i - 1]
                         ELSE Append(g[i - 1], agents[i])
    BY <2>4
  <2>6. QED BY <2>2, <2>5
<1>6. Eq(g)
  <2> HIDE DEF n
  <2>1. \A i \in 0 .. n : i = 0 \/ i \in 1 .. n
    BY <1>0
  <2>2. QED BY <2>1, <1>4, <1>5
<1> DEFINE c == CHOOSE f : Eq(f)
<1>7. Eq(c)
  <2> HIDE DEF Eq
  <2>1. QED BY <1>6, Zenon
<1>8. without(agents, gone) = c[n]
  BY Zenon DEF without
<1> HIDE DEF c
<1> DEFINE S == {i \in 0 .. n : c[i] = g[i]}
<1>9. 0 \in S
  <2> HIDE DEF n
  <2>1. c[0] = <<>>
    BY <1>0, <1>7
  <2>2. QED BY <2>1, <1>4, <1>0
<1>10. ASSUME NEW i \in 1 .. n, i - 1 \in S PROVE i \in S
  <2> HIDE DEF n
  <2>1. i \in 0 .. n /\ i # 0
    BY <1>0
  <2>2. c[i] = IF agents[i] \in gone THEN c[i - 1] ELSE Append(c[i - 1], agents[i])
    BY <2>1, <1>7
  <2>3. QED BY <2>1, <2>2, <1>5, <1>10
<1>11. 0 .. n \subseteq S
  <2> HIDE DEF S, n
  <2>1. QED BY <1>0, <1>9, <1>10, UpTo
<1>12. without(agents, gone) \in Seq(B)
  <2> HIDE DEF n, B
  <2>1. n \in S /\ n \in 0 .. n
    BY <1>0, <1>11
  <2>2. g[n] \in W
    <3> HIDE DEF W
    <3>1. QED BY <2>1, <1>4
  <2>3. QED BY <2>1, <2>2, <1>8
<1>13. QED
  <2> DEFINE w == without(agents, gone)
  <2>1. w \in Seq(B) /\ B \subseteq A
    BY <1>12
  <2> HIDE DEF w
  <2>2. w \in Seq(A) /\ \A i \in DOMAIN w : w[i] \in B
    <3> HIDE DEF B
    <3>1. QED BY <2>1
  <2>3. QED BY <2>2 DEF w

-----------------------------------------------------------------------------
(* A list of tasks is as long as the tasks are many.                        *)
LEMMA ListLength ==
    ASSUME NEW tasks \in SUBSET Task, NEW order, Lists(order, tasks)
    PROVE  Len(order) = Cardinality(tasks)
<1>1. order \in Seq(tasks) /\ Len(order) \in Nat
  BY DEF Lists
<1>2. order \in Bijection(1 .. Len(order), tasks)
  <2>1. order \in [1 .. Len(order) -> tasks]
    BY <1>1
  <2>2. \A i, j \in 1 .. Len(order) : order[i] = order[j] => i = j
    BY <1>1 DEF Lists
  <2>3. \A t \in tasks : \E i \in 1 .. Len(order) : order[i] = t
    BY <1>1 DEF Lists
  <2>4. QED BY <2>1, <2>2, <2>3, Zenon DEF Bijection, Injection, Surjection, IsInjective
<1>3. IsFiniteSet(1 .. Len(order)) /\ Cardinality(1 .. Len(order)) = Len(order)
  BY <1>1, FS_Interval
<1>4. Cardinality(tasks) = Cardinality(1 .. Len(order))
  BY <1>2, <1>3, FS_Bijection, Zenon DEF ExistsBijection
<1>5. QED BY <1>3, <1>4

(* The router sends the tasks of the candidate to agents of the pool.       *)
LEMMA RoutedFromPool ==
    ASSUME TypeOK, PoolInv, pool # <<>>
    PROVE  /\ route \in [Task -> Agents \cup {NoAgent}]
           /\ \A t \in kept : route[t] \in Agents \ evicted
<1>1. /\ kept \subseteq Task /\ agentId \in [Task -> Agents \cup {NoAgent}]
      /\ pool \in Seq(Agents)
  BY DEF TypeOK
<1>2. ASSUME NEW t \in kept, inPool(agentId[t]) PROVE agentId[t] \in Agents \ evicted
  BY <1>1, <1>2 DEF inPool, PoolInv
<1>3. ASSUME NEW t \in kept PROVE roundRobin(t) \in Agents \ evicted
  <2> DEFINE others == {u \in kept : u < t /\ ~inPool(agentId[u])}
             m == Cardinality(others) % Len(pool)
  <2>1. IsFiniteSet(Task)
    BY NAssumption, FS_Interval DEF Task
  <2>2. others \subseteq Task
    BY <1>1
  <2>3. Cardinality(others) \in Nat
    <3> HIDE DEF others
    <3>1. QED BY <2>1, <2>2, FS_Subset, FS_CardinalityType
  <2>4. Len(pool) \in Nat \ {0}
    BY <1>1
  <2>5. m \in 0 .. Len(pool) - 1
    <3> HIDE DEF others
    <3>1. QED BY <2>3, <2>4
  <2>6. roundRobin(t) = pool[m + 1]
    BY Zenon DEF roundRobin
  <2> HIDE DEF m
  <2>7. m + 1 \in DOMAIN pool
    BY <2>4, <2>5, <1>1
  <2>8. pool[m + 1] \in Agents
    BY <2>7, <1>1
  <2>9. QED BY <2>6, <2>7, <2>8 DEF PoolInv
<1>4. ASSUME NEW t \in kept PROVE route[t] \in Agents \ evicted
  <2>1. t \in Task
    BY <1>1
  <2>2. route[t] = IF inPool(agentId[t]) THEN agentId[t] ELSE roundRobin(t)
    BY <2>1 DEF route
  <2>3. QED BY <2>2, <1>2, <1>3
<1>5. route \in [Task -> Agents \cup {NoAgent}]
  <2>1. \A t \in Task \ kept : route[t] = NoAgent
    BY DEF route
  <2>2. \A t \in Task : route[t] \in Agents \cup {NoAgent}
    BY <2>1, <1>4
  <2>3. route = [t \in Task |-> route[t]]
    BY DEF route
  <2>4. QED BY <2>2, <2>3
<1>6. QED BY <1>4, <1>5

(* What a strategy is given of a plan that is valid.                        *)
LEMMA GivenInOrder ==
    ASSUME TypeOK, valid, fits
    PROVE  Lists(strategyTaskOrder, kept) /\ Sorts(strategyTaskOrder, deps)
<1>1. kept \in SUBSET Task
  BY DEF TypeOK
<1>2. CASE strategy = "broadcast"
  <2>1. strategyTaskOrder = declared(kept)
    BY <1>2 DEF strategyTaskOrder
  <2>2. Lists(declared(kept), kept)
    BY <1>1, DeclaredLists
  <2>3. \A t \in kept : deps[t] = {}
    BY <1>2 DEF fits
  <2>4. \A i \in DOMAIN declared(kept) : declared(kept)[i] \in kept
    BY <2>2 DEF Lists
  <2>5. QED BY <2>1, <2>2, <2>3, <2>4 DEF Sorts
<1>3. CASE strategy # "broadcast"
  <2>1. strategyTaskOrder = topologicalOrder(kept, deps)
    BY <1>3 DEF strategyTaskOrder
  <2>2. \A t \in kept : deps[t] \subseteq kept
    BY DEF valid
  <2>3. PICK rank \in [Task -> Task] : \A t \in kept : \A d \in deps[t] : rank[d] < rank[t]
    BY DEF valid
  <2>4. QED BY <1>1, <2>1, <2>2, <2>3, OrderSorts
<1>4. QED BY <1>2, <1>3

-----------------------------------------------------------------------------
(* What is reported speaks of the steps, and how it is classified.          *)
LEMMA ReportShape ==
    ASSUME TypeOK, NEW rep \in Reports
    PROVE  rep \in Seq(TaskCodes) /\ DOMAIN rep = DOMAIN steps
<1>1. steps \in Seq(Task) /\ DOMAIN steps = 1 .. Len(steps) /\ Len(steps) \in Nat
  BY DEF TypeOK
<1>2. CASE strategy = "broadcast"
  <2>1. rep \in [DOMAIN steps -> TaskCodes \ {"DEPENDENCY_FAILURE"}]
    BY <1>2 DEF Reports
  <2>2. rep \in [1 .. Len(steps) -> TaskCodes]
    BY <2>1, <1>1
  <2>3. QED BY <2>2, <1>1
<1>3. CASE strategy # "broadcast"
  <2>1. PICK k \in 1 .. Len(steps) + 1, c \in OwnFailures :
           rep = [i \in DOMAIN steps |-> IF i < k THEN "completed"
                                         ELSE IF i = k THEN c ELSE "DEPENDENCY_FAILURE"]
    BY <1>3 DEF Reports
  <2>2. \A i \in 1 .. Len(steps) : rep[i] \in TaskCodes
    BY <2>1, <1>1 DEF TaskCodes
  <2>3. rep \in [1 .. Len(steps) -> TaskCodes]
    BY <2>1, <2>2, <1>1
  <2>4. QED BY <2>3, <1>1
<1>4. QED BY <1>2, <1>3

LEMMA Classified ==
    ASSUME NEW rep
    PROVE  classifyResult(rep) \in OwnFailures \cup {"DEPENDENCY_FAILURE"}
BY DEF classifyResult, OwnFailures

(* The tasks a repair clears are tasks of the plan that reported their      *)
(* agent unavailable, and the agents it takes out are agents.               *)
LEMMA Repaired ==
    ASSUME TypeOK, RunningInv, pc = "running", NEW rep \in Reports
    PROVE  /\ clearable(rep) \subseteq stepsWith(rep, "AGENT_UNAVAILABLE")
           /\ {routed[steps[i]] : i \in unavailable(rep)} \subseteq Agents
<1>1. DOMAIN rep = DOMAIN steps
  BY ReportShape
<1>2. steps = strategyTaskOrder /\ \A i \in DOMAIN steps : steps[i] \in kept
  BY DEF RunningInv, Lists
<1>3. planTasks(unavailable(rep)) = {steps[i] : i \in unavailable(rep)}
  BY <1>2 DEF planTasks
<1>4. unavailable(rep) = {j \in DOMAIN steps : rep[j] = "AGENT_UNAVAILABLE"}
  BY <1>1 DEF unavailable
<1>5. clearable(rep) \subseteq {steps[i] : i \in unavailable(rep)}
  BY <1>3 DEF clearable
<1>6. clearable(rep) \subseteq stepsWith(rep, "AGENT_UNAVAILABLE")
  BY <1>4, <1>5 DEF stepsWith
<1>7. \A i \in unavailable(rep) : routed[steps[i]] \in Agents
  BY <1>2, <1>4 DEF RunningInv
<1>8. QED BY <1>6, <1>7

(* What a run that did not complete decides: one of five ways on.           *)
Decided(rep) ==
    LET code == classifyResult(rep)
    IN  \/ (aborted \/ code = "CANCELLED") /\ giveUp("cancelled", "abort")
        \/ ~aborted /\ code # "CANCELLED" /\ mayRetry(code) /\ retry
        \/ ~aborted /\ code # "CANCELLED" /\ mayRepair(code, rep) /\ repair(rep)
        \/ ~aborted /\ code # "CANCELLED" /\ mayReplan(code, rep) /\ replan(rep)
        \/ ~aborted /\ code # "CANCELLED" /\ giveUp(failedAs(code), "failed")

LEMMA FailedDecides ==
    ASSUME Failed
    PROVE  \E rep \in Reports : report' = rep /\ failure' = classifyResult(rep)
                                /\ Decided(rep)
<1>1. PICK rep \in Reports : LET code == classifyResult(rep) IN
          /\ timedOut \/ aborted \/ failedSteps(rep) # {}
          /\ report' = rep /\ failure' = code
          /\ IF aborted \/ code = "CANCELLED" THEN giveUp("cancelled", "abort")
             ELSE IF mayRetry(code) THEN retry
             ELSE IF mayRepair(code, rep) THEN repair(rep)
             ELSE IF mayReplan(code, rep) THEN replan(rep)
             ELSE giveUp(failedAs(code), "failed")
  BY DEF Failed
<1> DEFINE code == classifyResult(rep)
           G1 == giveUp("cancelled", "abort")
           G2 == giveUp(failedAs(code), "failed")
           C == code = "CANCELLED"
           R1 == mayRetry(code)
           R2 == mayRepair(code, rep)
           R3 == mayReplan(code, rep)
           P2 == repair(rep)
           P3 == replan(rep)
<1>2. IF aborted \/ C THEN G1 ELSE IF R1 THEN retry ELSE IF R2 THEN P2
      ELSE IF R3 THEN P3 ELSE G2
  BY <1>1
<1> HIDE DEF C, R1, R2, R3, P2, P3, G1, G2
<1>3. \/ (aborted \/ C) /\ G1
      \/ ~aborted /\ ~C /\ R1 /\ retry
      \/ ~aborted /\ ~C /\ R2 /\ P2
      \/ ~aborted /\ ~C /\ R3 /\ P3
      \/ ~aborted /\ ~C /\ G2
  BY <1>2, Zenon
<1>4. Decided(rep)
  BY <1>3, Zenon DEF Decided, C, R1, R2, R3, P2, P3, G1, G2
<1>5. QED BY <1>1, <1>4

-----------------------------------------------------------------------------
(* The invariant: it holds at first, and every step keeps it.               *)
LEMMA InitInv == Init => IInv
<1>1. SUFFICES ASSUME Init PROVE IInv
  OBVIOUS
<1>2. TypeOK
  <2>1. \A t \in Task : NoAgent \in Agents \cup {NoAgent}
    OBVIOUS
  <2>2. /\ kept \subseteq Task /\ pool \in Seq(Agents) /\ evicted \subseteq Agents
        /\ routed \in [Task -> Agents \cup {NoAgent}]
    BY <1>1, <2>1, PoolAssumption DEF Init
  <2>3. steps \in Seq(Task) /\ report \in Seq(TaskCodes)
    BY <1>1 DEF Init
  <2>4. /\ attempts \in Nat /\ repairsUsed \in Nat /\ replansUsed \in Nat
        /\ dispatched \in Nat /\ timedOut \in BOOLEAN
        /\ pc \in Phases /\ failure \in FailureCodes
        /\ decision = "none" /\ status = "none"
    BY <1>1 DEF Init, Phases, FailureCodes
  <2>5. deps \in Plans /\ strategy \in Strategies /\ aborted \in BOOLEAN
        /\ agentId \in [Task -> Agents \cup {NoAgent}]
    BY <1>1, Zenon DEF Init
  <2>6. QED BY <2>2, <2>3, <2>4, <2>5 DEF TypeOK
<1>3. BudgetInv
  BY <1>1, BudgetAssumption DEF Init, BudgetInv
<1>4. PoolInv
  BY <1>1 DEF Init, PoolInv
<1>5. RunningInv
  BY <1>1 DEF Init, RunningInv
<1>6. TellInv
  BY <1>1 DEF Init, TellInv, CancelledToldRight
<1>7. QED BY <1>2, <1>3, <1>4, <1>5, <1>6 DEF IInv

(* What is unchanged by what the decisions leave alone.                     *)
LEMMA TypeStep == IInv /\ [Next]_vars => TypeOK'
<1>1. SUFFICES ASSUME TypeOK, PoolInv, RunningInv, [Next]_vars PROVE TypeOK'
  BY DEF IInv
<1>2. CASE Top
  <2>1. failedAs(failure) \in Statuses
    BY DEF failedAs, Statuses
  <2>2. QED BY <1>1, <1>2, <2>1
      DEF Top, finish, TypeOK, candidate, attempt, Phases, Statuses, Final
<1>3. CASE PrepareFails
  BY <1>1, <1>3 DEF PrepareFails, finish, TypeOK, candidate, budget, attempt, Phases,
                    Statuses, Final, FailureCodes
<1>4. CASE Dispatch
  <2>1. /\ UNCHANGED <<deps, strategy, kept, agentId, pool, attempts, repairsUsed,
                       replansUsed, failure, decision, status, aborted, evicted>>
        /\ routed' = route /\ steps' = strategyTaskOrder /\ report' = <<>>
        /\ pc' = "running" /\ timedOut' = FALSE /\ dispatched' = dispatched + 1
    BY <1>4 DEF Dispatch, candidate, budget, outcome, strategyTaskOrder
  <2>2. pool # <<>> /\ valid /\ fits
    BY <1>4 DEF Dispatch
  <2>3. routed' \in [Task -> Agents \cup {NoAgent}]
    BY <1>1, <2>1, <2>2, RoutedFromPool
  <2>4. steps' \in Seq(Task)
    <3>1. strategyTaskOrder \in Seq(kept) /\ kept \subseteq Task
      BY <1>1, <2>2, GivenInOrder DEF Lists, TypeOK
    <3>2. QED BY <2>1, <3>1
  <2>5. report' \in Seq(TaskCodes) /\ pc' \in Phases /\ timedOut' \in BOOLEAN
    <3>1. report' = <<>> /\ pc' = "running"
      BY <2>1
    <3>2. timedOut' \in BOOLEAN
      BY <1>4 DEF Dispatch
    <3>3. QED BY <3>1, <3>2 DEF Phases
  <2>6. dispatched' \in Nat
    BY <1>1, <2>1 DEF TypeOK
  <2>7. QED BY <1>1, <2>1, <2>3, <2>4, <2>5, <2>6, Zenon DEF TypeOK
<1>5. CASE Abort
  BY <1>1, <1>5 DEF Abort, TypeOK, candidate, budget, attempt, outcome, Phases
<1>6. CASE TimerFires
  BY <1>1, <1>6 DEF TimerFires, TypeOK, candidate, budget, attempt, outcome
<1>7. CASE DelayOver
  BY <1>1, <1>7 DEF DelayOver, TypeOK, candidate, budget, attempt, outcome, Phases
<1>8. CASE Completed
  <2>1. report' \in Seq(TaskCodes)
    <3>1. report' = [i \in 1 .. Len(steps) |-> "completed"] /\ Len(steps) \in Nat
      BY <1>1, <1>8 DEF Completed, TypeOK
    <3>2. "completed" \in TaskCodes
      BY DEF TaskCodes
    <3>3. QED BY <3>1, <3>2
  <2>2. QED BY <1>1, <1>8, <2>1
      DEF Completed, finish, TypeOK, candidate, budget, Phases, Statuses, Final
<1>9. CASE Failed
  <2>1. PICK rep \in Reports : report' = rep /\ failure' = classifyResult(rep)
                               /\ Decided(rep)
    BY <1>9, FailedDecides
  <2>2. UNCHANGED <<deps, strategy, attempts, routed, steps, aborted, timedOut, dispatched>>
    BY <1>9 DEF Failed
  <2>3. report' \in Seq(TaskCodes)
    BY <1>1, <2>1, ReportShape
  <2>4. failure' \in FailureCodes
    BY <2>1, Classified DEF FailureCodes
  <2> DEFINE code == classifyResult(rep)
  <2>5. /\ kept' \subseteq Task /\ agentId' \in [Task -> Agents \cup {NoAgent}]
        /\ pool' \in Seq(Agents) /\ repairsUsed' \in Nat /\ replansUsed' \in Nat
        /\ pc' \in Phases /\ decision' \in {"none"} \cup Recoveries \cup Final
        /\ status' \in {"none"} \cup Statuses /\ evicted' \subseteq Agents
    <3>1. CASE giveUp("cancelled", "abort")
      BY <1>1, <3>1 DEF giveUp, finish, TypeOK, candidate, Phases, Final, Statuses
    <3>2. CASE giveUp(failedAs(code), "failed")
      <4>1. failedAs(code) \in Statuses
        BY DEF failedAs, Statuses
      <4> HIDE DEF code
      <4>2. QED BY <1>1, <3>2, <4>1 DEF giveUp, finish, TypeOK, candidate, Phases, Final
    <3>3. CASE retry
      BY <1>1, <3>3 DEF retry, TypeOK, candidate, Phases, Recoveries
    <3>4. CASE repair(rep)
      <4> DEFINE gone == {routed[steps[i]] : i \in unavailable(rep)}
      <4>1. /\ agentId' = [t \in Task |-> IF t \in clearable(rep) THEN NoAgent
                                          ELSE agentId[t]]
            /\ pool' = without(pool, gone) /\ evicted' = evicted \cup gone
            /\ repairsUsed' = repairsUsed + 1 /\ decision' = "repair" /\ pc' = "top"
            /\ UNCHANGED <<status, kept, replansUsed>>
        BY <3>4 DEF repair
      <4>2. evicted' \subseteq Agents
        <5>1. pc = "running"
          BY <1>9 DEF Failed
        <5>2. gone \subseteq Agents
          BY <1>1, <5>1, Repaired
        <5> HIDE DEF gone
        <5>3. QED BY <1>1, <4>1, <5>2 DEF TypeOK
      <4> HIDE DEF gone
      <4>3. pool' \in Seq(Agents)
        BY <1>1, <4>1, WithoutGone DEF TypeOK
      <4>4. agentId' \in [Task -> Agents \cup {NoAgent}]
        BY <1>1, <4>1 DEF TypeOK
      <4>5. QED BY <1>1, <4>1, <4>2, <4>3, <4>4 DEF TypeOK, Phases, Recoveries
    <3>5. CASE replan(rep)
      BY <1>1, <3>5 DEF replan, TypeOK, Phases, Recoveries
    <3>6. QED BY <2>1, <3>1, <3>2, <3>3, <3>4, <3>5 DEF Decided
  <2>6. QED BY <1>1, <2>2, <2>3, <2>4, <2>5 DEF TypeOK
<1>10. CASE Thrown
  <2>1. failure' \in FailureCodes
    BY <1>10 DEF Thrown, FailureCodes, OwnFailures
  <2>2. giveUp("cancelled", "abort") \/ retry \/ \E c : giveUp(failedAs(c), "failed")
    BY <1>10 DEF Thrown
  <2>3. \A c : failedAs(c) \in Statuses
    BY DEF failedAs, Statuses
  <2>4. /\ UNCHANGED <<kept, agentId, pool, repairsUsed, replansUsed, evicted>>
        /\ pc' \in Phases /\ decision' \in {"none"} \cup Recoveries \cup Final
        /\ status' \in {"none"} \cup Statuses
    BY <1>1, <2>2, <2>3 DEF giveUp, finish, retry, candidate, TypeOK, Phases, Final,
                            Recoveries, Statuses
  <2>5. QED BY <1>1, <1>10, <2>1, <2>4 DEF Thrown, TypeOK, attempt
<1>11. CASE Over \/ UNCHANGED vars
  BY <1>1, <1>11 DEF Over, TypeOK, vars, candidate, budget, attempt, outcome
<1>12. QED BY <1>1, <1>2, <1>3, <1>4, <1>5, <1>6, <1>7, <1>8, <1>9, <1>10, <1>11 DEF Next

(* The budget.                                                              *)
LEMMA BudgetStep == IInv /\ [Next]_vars => BudgetInv'
<1>1. SUFFICES ASSUME TypeOK, BudgetInv, [Next]_vars PROVE BudgetInv'
  BY DEF IInv
<1>2. /\ attempts \in Nat /\ repairsUsed \in Nat /\ replansUsed \in Nat
      /\ dispatched \in Nat /\ MaxAttempts \in Nat /\ MaxReplans \in Nat
  BY <1>1, BudgetAssumption DEF TypeOK
<1>3. CASE Top
  BY <1>1, <1>2, <1>3 DEF Top, finish, BudgetInv, canAttempt
<1>4. CASE PrepareFails
  BY <1>1, <1>2, <1>4 DEF PrepareFails, finish, BudgetInv, budget
<1>5. CASE Dispatch
  BY <1>1, <1>2, <1>5 DEF Dispatch, BudgetInv, budget
<1>6. CASE Abort
  BY <1>1, <1>2, <1>6 DEF Abort, BudgetInv, budget
<1>7. CASE TimerFires
  BY <1>1, <1>2, <1>7 DEF TimerFires, BudgetInv, budget
<1>8. CASE DelayOver
  BY <1>1, <1>2, <1>8 DEF DelayOver, BudgetInv, budget
<1>9. CASE Completed
  BY <1>1, <1>2, <1>9 DEF Completed, finish, BudgetInv, budget
<1>10. CASE Failed
  <2>1. PICK rep \in Reports : Decided(rep)
    BY <1>10, FailedDecides
  <2>2. pc = "running" /\ UNCHANGED <<attempts, dispatched>>
    BY <1>10 DEF Failed
  <2> DEFINE code == classifyResult(rep)
  <2>3. CASE giveUp("cancelled", "abort") \/ giveUp(failedAs(code), "failed")
    BY <1>1, <1>2, <2>2, <2>3 DEF giveUp, finish, BudgetInv
  <2>4. CASE mayRetry(code) /\ retry
    BY <1>1, <1>2, <2>2, <2>4 DEF mayRetry, canAttempt, retry, BudgetInv
  <2>5. CASE mayRepair(code, rep) /\ repair(rep)
    <3>1. /\ attempts + 1 <= MaxAttempts /\ pc' = "top"
          /\ repairsUsed' = repairsUsed + 1 /\ replansUsed' = replansUsed
      BY <2>5 DEF mayRepair, canAttempt, repair
    <3>2. QED BY <1>1, <1>2, <2>2, <3>1 DEF BudgetInv
  <2>6. CASE mayReplan(code, rep) /\ replan(rep)
    <3>1. /\ attempts + 1 <= MaxAttempts /\ replansUsed < MaxReplans /\ pc' = "top"
          /\ repairsUsed' = repairsUsed /\ replansUsed' = replansUsed + 1
      BY <2>6 DEF mayReplan, canAttempt, canReplan, replan
    <3>2. QED BY <1>1, <1>2, <2>2, <3>1 DEF BudgetInv
  <2>7. QED BY <2>1, <2>3, <2>4, <2>5, <2>6 DEF Decided
<1>11. CASE Thrown
  <2>1. /\ pc = "running"
        /\ UNCHANGED <<attempts, dispatched, repairsUsed, replansUsed>>
        /\ pc' = "finished" \/ (pc' = "delay" /\ attempts + 1 <= MaxAttempts)
    BY <1>11 DEF Thrown, giveUp, finish, retry, mayRetry, canAttempt
  <2>2. QED BY <1>1, <1>2, <2>1 DEF BudgetInv
<1>12. CASE Over \/ UNCHANGED vars
  BY <1>1, <1>12 DEF Over, BudgetInv, vars, budget
<1>13. QED BY <1>1, <1>3, <1>4, <1>5, <1>6, <1>7, <1>8, <1>9, <1>10, <1>11, <1>12
           DEF Next

(* The pool: repairs only take agents out of it.                            *)
LEMMA PoolStep == IInv /\ [Next]_vars => PoolInv'
<1>1. SUFFICES ASSUME TypeOK, PoolInv, [Next]_vars PROVE PoolInv'
  BY DEF IInv
<1>2. CASE UNCHANGED <<pool, evicted>>
  BY <1>1, <1>2 DEF PoolInv
<1>3. ASSUME NEW rep, repair(rep) PROVE PoolInv'
  <2> DEFINE gone == {routed[steps[i]] : i \in unavailable(rep)}
  <2>1. pool' = without(pool, gone) /\ evicted' = evicted \cup gone
    BY <1>3 DEF repair
  <2> HIDE DEF gone
  <2>2. \A i \in DOMAIN pool' : pool'[i] \notin gone
                                /\ \E j \in DOMAIN pool : pool[j] = pool'[i]
    BY <1>1, <2>1, WithoutGone DEF TypeOK
  <2>3. QED BY <1>1, <2>1, <2>2 DEF PoolInv
<1>4. CASE Failed
  <2>1. PICK rep \in Reports : Decided(rep)
    BY <1>4, FailedDecides
  <2>2. CASE repair(rep)
    BY <2>2, <1>3
  <2>3. CASE ~repair(rep)
    <3>1. UNCHANGED <<pool, evicted>>
      BY <2>1, <2>3 DEF Decided, giveUp, retry, replan, candidate
    <3>2. QED BY <3>1, <1>2
  <2>4. QED BY <2>2, <2>3
<1>5. CASE Thrown
  BY <1>2, <1>5 DEF Thrown, giveUp, retry, candidate
<1>6. CASE Top \/ PrepareFails \/ Dispatch \/ Abort \/ TimerFires \/ DelayOver
           \/ Completed \/ Over \/ UNCHANGED vars
  BY <1>2, <1>6 DEF Top, PrepareFails, Dispatch, Abort, TimerFires, DelayOver,
                    Completed, Over, vars, candidate
<1>7. QED BY <1>1, <1>4, <1>5, <1>6 DEF Next

(* What the Supervisor was given.                                           *)
LEMMA RunningStep == IInv /\ [Next]_vars => RunningInv'
<1>1. SUFFICES ASSUME TypeOK, PoolInv, RunningInv, [Next]_vars, pc' = "running"
               PROVE  RunningInv'
  BY DEF IInv, RunningInv
<1>2. CASE pc = "running" /\ UNCHANGED <<deps, strategy, kept, routed, steps, evicted>>
  <2>1. strategyTaskOrder' = strategyTaskOrder
    BY <1>2 DEF strategyTaskOrder
  <2>2. QED BY <1>1, <1>2, <2>1 DEF RunningInv
<1>3. CASE Dispatch
  <2>1. /\ UNCHANGED <<deps, strategy, kept, evicted>>
        /\ routed' = route /\ steps' = strategyTaskOrder
        /\ valid /\ fits /\ pool # <<>>
    BY <1>3 DEF Dispatch, candidate, strategyTaskOrder
  <2>2. strategyTaskOrder' = strategyTaskOrder
    BY <2>1 DEF strategyTaskOrder
  <2>3. Lists(steps', kept') /\ Sorts(steps', deps')
    BY <1>1, <2>1, GivenInOrder
  <2>4. \A t \in kept' : routed'[t] \in Agents \ evicted'
    BY <1>1, <2>1, RoutedFromPool
  <2>5. QED BY <2>1, <2>2, <2>3, <2>4 DEF RunningInv
<1>4. CASE Abort \/ TimerFires \/ Over \/ UNCHANGED vars
  <2>1. pc = "running" /\ UNCHANGED <<deps, strategy, kept, routed, steps, evicted>>
    BY <1>1, <1>4 DEF Abort, TimerFires, Over, vars, candidate, attempt
  <2>2. QED BY <1>2, <2>1
<1>5. CASE Top \/ PrepareFails \/ DelayOver \/ Completed
  BY <1>1, <1>5 DEF Top, PrepareFails, DelayOver, Completed, finish
<1>6. CASE Failed
  <2>1. PICK rep \in Reports : Decided(rep)
    BY <1>6, FailedDecides
  <2>2. pc' # "running"
    BY <2>1 DEF Decided, giveUp, finish, retry, repair, replan
  <2>3. QED BY <1>1, <2>2
<1>7. CASE Thrown
  BY <1>1, <1>7 DEF Thrown, giveUp, finish, retry
<1>8. QED BY <1>1, <1>3, <1>4, <1>5, <1>6, <1>7 DEF Next

(* What the caller is told.                                                 *)
LEMMA TellStep == IInv /\ [Next]_vars => TellInv'
<1>1. SUFFICES ASSUME TypeOK, BudgetInv, TellInv, [Next]_vars PROVE TellInv'
  BY DEF IInv
<1> DEFINE Told == status' = "cancelled" <=> aborted' \/ failure' = "CANCELLED"
<1>2. \A c : failedAs(c) # "cancelled"
  BY DEF failedAs
<1>3. CASE Top
  <2>1. pc = "top" /\ failure # "CANCELLED" /\ UNCHANGED <<failure, aborted>>
    BY <1>1, <1>3 DEF Top, TellInv
  <2>2. CASE aborted
    BY <2>1, <2>2, <1>3 DEF Top, finish, TellInv, CancelledToldRight
  <2>3. CASE ~aborted
    BY <2>1, <2>3, <1>2, <1>3 DEF Top, finish, TellInv, CancelledToldRight
  <2>4. QED BY <2>2, <2>3
<1>4. CASE PrepareFails
  BY <1>1, <1>4 DEF PrepareFails, finish, TellInv, CancelledToldRight
<1>5. CASE Dispatch
  BY <1>1, <1>5 DEF Dispatch, TellInv, CancelledToldRight, outcome
<1>6. CASE Abort
  BY <1>1, <1>6 DEF Abort, TellInv, CancelledToldRight, outcome
<1>7. CASE TimerFires
  BY <1>1, <1>7 DEF TimerFires, TellInv, CancelledToldRight, outcome
<1>8. CASE DelayOver
  BY <1>1, <1>8 DEF DelayOver, TellInv, CancelledToldRight, outcome
<1>9. CASE Completed
  BY <1>1, <1>9 DEF Completed, finish, TellInv, CancelledToldRight
<1>10. CASE Failed
  <2>1. PICK rep \in Reports : failure' = classifyResult(rep) /\ Decided(rep)
    BY <1>10, FailedDecides
  <2>2. aborted' = aborted
    BY <1>10 DEF Failed
  <2> DEFINE code == classifyResult(rep)
  <2> HIDE DEF code
  <2>3. failure' = code
    BY <2>1 DEF code
  <2>4. CASE (aborted \/ code = "CANCELLED") /\ giveUp("cancelled", "abort")
    BY <2>2, <2>3, <2>4 DEF giveUp, finish, TellInv, CancelledToldRight
  <2>5. CASE ~aborted /\ code # "CANCELLED" /\ giveUp(failedAs(code), "failed")
    BY <2>2, <2>3, <2>5, <1>2 DEF giveUp, finish, TellInv, CancelledToldRight
  <2>6. CASE ~aborted /\ code # "CANCELLED" /\ (retry \/ repair(rep) \/ replan(rep))
    <3>1. pc' \in {"delay", "top"}
      BY <2>6 DEF retry, repair, replan
    <3>2. QED BY <3>1, <2>2, <2>3, <2>6 DEF TellInv, CancelledToldRight
  <2>7. QED BY <2>1, <2>4, <2>5, <2>6 DEF Decided, code
<1>11. CASE Thrown
  <2>1. aborted' = aborted
    BY <1>11 DEF Thrown
  <2>2. CASE aborted
    BY <1>11, <2>1, <2>2 DEF Thrown, giveUp, finish, TellInv, CancelledToldRight
  <2>3. CASE ~aborted
    <3>1. failure' # "CANCELLED"
      BY <1>11, <2>3 DEF Thrown
    <3>2. pc' = "delay" \/ (pc' = "finished" /\ status' # "cancelled")
      BY <1>11, <2>3, <1>2 DEF Thrown, giveUp, finish, retry
    <3>3. QED BY <3>1, <3>2, <2>1, <2>3 DEF TellInv, CancelledToldRight
  <2>4. QED BY <2>2, <2>3
<1>12. CASE Over \/ UNCHANGED vars
  BY <1>1, <1>12 DEF Over, TellInv, CancelledToldRight, vars, outcome
<1>13. QED BY <1>1, <1>3, <1>4, <1>5, <1>6, <1>7, <1>8, <1>9, <1>10, <1>11, <1>12
           DEF Next

(* The inductive invariant of the recovery loop.                            *)
THEOREM Invariance == Spec => []IInv
<1>1. IInv /\ [Next]_vars => IInv'
  BY TypeStep, BudgetStep, PoolStep, RunningStep, TellStep DEF IInv
<1>2. QED BY <1>1, InitInv, PTL DEF Spec

-----------------------------------------------------------------------------
(* No run of a plan costs more than its budget, whatever mix of retries,    *)
(* repairs and replans it goes through (retry-policy.ts:4-6).               *)
THEOREM BudgetHolds == Spec => []BudgetKept
<1>1. IInv => BudgetKept
  BY DEF IInv, BudgetInv, BudgetKept
<1>2. QED BY <1>1, Invariance, PTL

(* "cancelled" is told exactly when the caller aborted or the last failure  *)
(* is a cancellation (manager.ts:106-110).                                  *)
THEOREM CancellationTold == Spec => []CancelledToldRight
<1>1. IInv => CancelledToldRight
  BY DEF IInv, TellInv
<1>2. QED BY <1>1, Invariance, PTL

(* A strategy gets every task of the candidate once, after its              *)
(* dependencies, and none assigned to an agent that a repair took out,      *)
(* whatever the plan and its order of declaration (integration.ts:33-37).   *)
THEOREM DispatchIsRight == Spec => []DispatchedRight
<1>1. IInv => DispatchedRight
  <2>1. SUFFICES ASSUME TypeOK, RunningInv, pc = "running" PROVE DispatchedRight
    BY DEF IInv, DispatchedRight
  <2>2. Lists(steps, kept) /\ Sorts(steps, deps)
    BY <2>1 DEF RunningInv
  <2>3. Len(steps) = Cardinality(kept)
    BY <2>1, <2>2, ListLength DEF TypeOK
  <2>4. ASSUME NEW t \in kept
        PROVE  /\ routed[t] \notin evicted
               /\ \E i \in DOMAIN steps : steps[i] = t /\ deps[t] \subseteq stepsBefore(i)
    <3>1. routed[t] \notin evicted
      BY <2>1 DEF RunningInv
    <3>2. PICK i \in DOMAIN steps : steps[i] = t
      BY <2>2 DEF Lists
    <3>3. deps[t] \subseteq stepsBefore(i)
      BY <2>2, <3>2 DEF Sorts, stepsBefore
    <3>4. QED BY <3>1, <3>2, <3>3
  <2>5. QED BY <2>3, <2>4 DEF DispatchedRight
<1>2. QED BY <1>1, Invariance, PTL

-----------------------------------------------------------------------------
(* A chain that broke: what is pruned is what did not complete, for the     *)
(* steps after the one that failed are the only ones that could depend on   *)
(* it.                                                                      *)
LEMMA PrunedFailed ==
    ASSUME TypeOK, RunningInv, pc = "running", strategy # "broadcast",
           NEW rep \in Reports
    PROVE  kept \ pruned(rep) = stepsWith(rep, "completed")
<1>1. /\ steps = strategyTaskOrder /\ steps \in Seq(kept)
      /\ \A i, j \in DOMAIN steps : steps[i] = steps[j] => i = j
      /\ \A t \in kept : \E i \in DOMAIN steps : steps[i] = t
      /\ \A i \in DOMAIN steps : deps[steps[i]] \subseteq {steps[j] : j \in 1 .. i - 1}
  BY DEF RunningInv, Lists, Sorts
<1>2. DOMAIN steps = 1 .. Len(steps) /\ Len(steps) \in Nat
      /\ \A i \in DOMAIN steps : steps[i] \in kept
  BY <1>1
<1>3. PICK k \in 1 .. Len(steps) + 1, c \in OwnFailures :
         rep = [i \in DOMAIN steps |-> IF i < k THEN "completed"
                                       ELSE IF i = k THEN c ELSE "DEPENDENCY_FAILURE"]
  BY DEF Reports
<1>4. \A i \in DOMAIN steps : rep[i] = "completed" <=> i < k
  BY <1>3, <1>2 DEF OwnFailures
<1> DEFINE F == {steps[i] : i \in {j \in DOMAIN steps : ~(j < k)}}
<1>5. planTasks(failedSteps(rep)) = F
  <2>1. failedSteps(rep) = {j \in DOMAIN steps : ~(j < k)}
    BY <1>3, <1>4 DEF failedSteps
  <2>2. planTasks(failedSteps(rep)) = {steps[i] : i \in failedSteps(rep)}
    BY <1>1 DEF planTasks
  <2>3. QED BY <2>1, <2>2
<1>6. F \subseteq kept
  BY <1>2
<1>7. ASSUME NEW u \in kept, deps[u] \cap F # {} PROVE u \in F
  <2>1. PICK i \in DOMAIN steps : steps[i] = u
    BY <1>1
  <2>2. PICK d \in F : d \in deps[u]
    BY <1>7
  <2>3. PICK j \in 1 .. i - 1 : d = steps[j]
    BY <2>1, <2>2, <1>1
  <2>4. PICK m \in DOMAIN steps : ~(m < k) /\ d = steps[m]
    BY <2>2
  <2>5. j \in DOMAIN steps
    BY <2>1, <2>3, <1>2
  <2>6. j = m
    BY <2>3, <2>4, <2>5, <1>1
  <2>7. ~(i < k)
    BY <2>1, <2>3, <2>4, <2>6, <1>2
  <2>8. QED BY <2>1, <2>7
<1> HIDE DEF F
<1>8. dependents(F) \subseteq F
  BY <1>6, <1>7 DEF dependents
<1>9. F \subseteq dependents(F)
  BY <1>6 DEF dependents
<1>10. pruned(rep) = F
  BY <1>5, <1>8, <1>9 DEF pruned
<1>11. kept \ F = {steps[i] : i \in {j \in DOMAIN steps : j < k}}
  <2>1. ASSUME NEW i \in DOMAIN steps, i < k PROVE steps[i] \in kept \ F
    BY <2>1, <1>1, <1>2 DEF F
  <2>2. ASSUME NEW t \in kept \ F PROVE \E i \in DOMAIN steps : i < k /\ steps[i] = t
    BY <2>2, <1>1 DEF F
  <2>3. QED BY <2>1, <2>2
<1>12. stepsWith(rep, "completed") = {steps[i] : i \in {j \in DOMAIN steps : j < k}}
  BY <1>4 DEF stepsWith
<1>13. QED BY <1>10, <1>11, <1>12

(* A broadcast reports no broken dependency, hence is never replanned.      *)
LEMMA BroadcastStays ==
    ASSUME TypeOK, strategy = "broadcast", NEW rep \in Reports
    PROVE  classifyResult(rep) # "DEPENDENCY_FAILURE"
<1>1. rep \in [DOMAIN steps -> TaskCodes \ {"DEPENDENCY_FAILURE"}]
  BY DEF Reports
<1>2. "DEPENDENCY_FAILURE" \notin {rep[i] : i \in DOMAIN rep}
  BY <1>1
<1> DEFINE codes == {rep[i] : i \in DOMAIN rep}
<1> HIDE DEF codes
<1>3. QED BY <1>2 DEF classifyResult, codes

(* What the loop decides follows the report: a repair clears the tasks that *)
(* reported their agent unavailable, a replan keeps exactly the tasks that  *)
(* completed, and nothing is dispatched once the caller aborted             *)
(* (manager.ts:48-53, :106-110, replanner.ts:4-8).                          *)
THEOREM DecisionsFollow == Spec => DecisionsRight
<1> DEFINE Right ==
       /\ \A t \in Task : agentId'[t] # agentId[t] =>
             t \in stepsWith(report', "AGENT_UNAVAILABLE")
       /\ kept' # kept => kept' = stepsWith(report', "completed")
       /\ aborted => dispatched' = dispatched
<1>1. IInv /\ [Next]_vars => [Right]_vars
  <2>1. SUFFICES ASSUME TypeOK, RunningInv, TellInv, Next PROVE Right
    BY DEF IInv
  <2>2. CASE UNCHANGED <<agentId, kept>> /\ (aborted => dispatched' = dispatched)
    BY <2>2
  <2>3. CASE Dispatch
    <3>1. UNCHANGED <<agentId, kept>> /\ ~aborted
      BY <2>1, <2>3 DEF Dispatch, candidate, TellInv
    <3>2. QED BY <3>1, <2>2
  <2>4. CASE Failed
    <3>1. PICK rep \in Reports : report' = rep /\ Decided(rep)
      BY <2>4, FailedDecides
    <3>2. pc = "running" /\ dispatched' = dispatched
      BY <2>4 DEF Failed
    <3>3. CASE repair(rep)
      <4>1. kept' = kept
        BY <3>3 DEF repair
      <4>2. ASSUME NEW t \in Task, agentId'[t] # agentId[t]
            PROVE  t \in stepsWith(report', "AGENT_UNAVAILABLE")
        <5>1. agentId' = [u \in Task |-> IF u \in clearable(rep) THEN NoAgent
                                         ELSE agentId[u]]
          BY <3>3 DEF repair
        <5>2. t \in clearable(rep)
          BY <4>2, <5>1
        <5>3. QED BY <2>1, <3>1, <3>2, <5>2, Repaired
      <4>3. QED BY <3>2, <4>1, <4>2
    <3>4. CASE mayReplan(classifyResult(rep), rep) /\ replan(rep)
      <4>1. agentId' = agentId /\ kept' = kept \ pruned(rep)
        BY <3>4 DEF replan
      <4>2. strategy # "broadcast"
        BY <2>1, <3>4, BroadcastStays DEF mayReplan
      <4>3. kept' = stepsWith(report', "completed")
        BY <2>1, <3>1, <3>2, <4>1, <4>2, PrunedFailed
      <4>4. QED BY <3>2, <4>1, <4>3
    <3>5. CASE retry \/ \E r, l : giveUp(r, l)
      BY <3>5, <3>2, <2>2 DEF retry, giveUp, candidate
    <3>6. QED BY <3>1, <3>3, <3>4, <3>5 DEF Decided
  <2>5. CASE Thrown
    BY <2>2, <2>5 DEF Thrown, retry, giveUp, candidate
  <2>6. CASE Top \/ PrepareFails \/ Abort \/ TimerFires \/ DelayOver \/ Completed \/ Over
    BY <2>2, <2>6 DEF Top, PrepareFails, Abort, TimerFires, DelayOver, Completed, Over,
                      vars, candidate
  <2>7. QED BY <2>1, <2>3, <2>4, <2>5, <2>6 DEF Next
<1>2. QED BY <1>1, Invariance, PTL DEF Spec, DecisionsRight
=============================================================================
