------------------------- MODULE DiagnosticsProofs -------------------------
(***************************************************************************)
(* Theorems about Diagnostics, for any number of runs and managers, ids    *)
(* shared in any way, and registries of every size.                        *)
(***************************************************************************)
EXTENDS Diagnostics, FiniteSetTheorems, SequenceTheorems, TLAPS

USE MaxAssumption DEF MaxAssumption

-----------------------------------------------------------------------------
(* The inductive invariant.  What an operator knows is said of the runs as  *)
(* they are when an event is ingested: ph, at, fa and si are the phases,    *)
(* attempts, failures and later ids then, of which a step passes through    *)
(* several.                                                                 *)
Ids == {idOf[r] : r \in Runs}
going(ph) == {r \in Runs : ph[r] \in Awaiting}
has(ph, r) == ph[r] \notin {"idle", "refused"}
sole(ph, r) == has(ph, r) /\ \A q \in Runs \ {r} : has(ph, q) => idOf[q] # idOf[r]

RunsTold(ph, at, fa, si) ==
    /\ ph \in [Runs -> Phases] /\ at \in [Runs -> Nat] /\ fa \in [Runs -> Nat]
    /\ si \in [Runs -> SUBSET Ids]
    /\ \A r \in Runs : ph[r] = "idle" => at[r] = 0 /\ fa[r] = 0
    /\ \A r \in Runs : IsFiniteSet(si[r])

(* An entry belongs to a run that was begun, and to one that is going on if *)
(* it says so; ids are listed once.                                         *)
Listed(reg, ph) ==
    /\ reg \in Seq(Inspection) /\ Len(reg) <= MaxRuns
    /\ \A i, j \in DOMAIN reg : reg[i].id = reg[j].id => i = j
    /\ \A i \in DOMAIN reg :
          /\ \E r \in Runs : has(ph, r) /\ idOf[r] = reg[i].id
          /\ reg[i].status = "running" => \E r \in going(ph) : idOf[r] = reg[i].id

(* The entry of a run that nothing displaced, and what comes after it       *)
entry(r, ph, at, fa) ==
    [id |-> idOf[r], status |-> IF ph[r] \in Awaiting THEN "running" ELSE ph[r],
     attempts |-> at[r], failures |-> fa[r]]
Found(reg, r, ph, at, fa, si) ==
    \E i \in DOMAIN reg : /\ reg[i] = entry(r, ph, at, fa)
                          /\ \A j \in DOMAIN reg : j > i => reg[j].id \in si[r]
Entered(reg, ph, at, fa, si) ==
    \A r \in Runs : sole(ph, r) /\ Cardinality(si[r]) < MaxRuns =>
        Found(reg, r, ph, at, fa, si)

Counted(metrics, ph) ==
    /\ metrics \in [{"started"} \cup Statuses -> Nat]
    /\ IsFiniteSet(going(ph))
    /\ metrics["started"] = metrics["completed"] + metrics["failed"] + metrics["cancelled"]
                            + metrics["timeout"] + Cardinality(going(ph))

Told(known, ph, at, fa, si) ==
    /\ RunsTold(ph, at, fa, si)
    /\ Listed(known.registry, ph) /\ Entered(known.registry, ph, at, fa, si)
    /\ Counted(known.counts, ph)

(* A manager is taken while its run is going on.                            *)
GuardInv ==
    /\ attempts \in [Runs -> 0 .. MaxAttempts]
    /\ active \subseteq {managerOf[r] : r \in Runs}
    /\ \A r \in Runs : isActive(r) => managerOf[r] \in active
    /\ \A r, q \in Runs :
          isActive(r) /\ isActive(q) /\ managerOf[r] = managerOf[q] => r = q

IInv == GuardInv /\ Told(now, phase, attempts, failures, since)

-----------------------------------------------------------------------------
(* The registry: what becomes of its entries.                               *)
LEMMA Deleting ==
    ASSUME NEW reg \in Seq(Inspection), NEW id
    PROVE  LET d == delete(reg, id) IN
           \/ d = reg /\ \A i \in 1 .. Len(reg) : reg[i].id # id
           \/ \E k \in 1 .. Len(reg) :
                 /\ reg[k].id = id
                 /\ d \in Seq(Inspection) /\ Len(d) = Len(reg) - 1
                 /\ \A j \in 1 .. Len(reg) - 1 : d[j] = reg[IF j < k THEN j ELSE j + 1]
<1>1. DOMAIN reg = 1 .. Len(reg) /\ Len(reg) \in Nat
  OBVIOUS
<1>2. CASE \A i \in 1 .. Len(reg) : reg[i].id # id
  BY <1>1, <1>2 DEF delete
<1>3. CASE \E i \in 1 .. Len(reg) : reg[i].id = id
  <2> DEFINE k == CHOOSE i \in DOMAIN reg : reg[i].id = id
             d == [j \in 1 .. Len(reg) - 1 |-> reg[IF j < k THEN j ELSE j + 1]]
  <2>1. delete(reg, id) = d
    BY <1>1, <1>3, Zenon DEF delete
  <2>2. k \in 1 .. Len(reg) /\ reg[k].id = id
    BY <1>1, <1>3
  <2> HIDE DEF k
  <2>3. \A j \in 1 .. Len(reg) - 1 : reg[IF j < k THEN j ELSE j + 1] \in Inspection
    BY <1>1, <2>2
  <2>4. d \in Seq(Inspection) /\ Len(d) = Len(reg) - 1
    BY <1>1, <2>2, <2>3
  <2>5. \A j \in 1 .. Len(reg) - 1 : d[j] = reg[IF j < k THEN j ELSE j + 1]
    OBVIOUS
  <2> HIDE DEF d
  <2> QED BY <2>1, <2>2, <2>4, <2>5
<1> QED BY <1>2, <1>3

(* An entry that is put back goes to the end; the others keep their order.  *)
Once(reg) == \A i, j \in 1 .. Len(reg) : reg[i].id = reg[j].id => i = j
Later(reg, i, X) == \A j \in 1 .. Len(reg) : j > i => reg[j].id \in X

LEMMA Appending ==
    ASSUME NEW reg \in Seq(Inspection), Once(reg), NEW e \in Inspection
    PROVE  LET a == Append(delete(reg, e.id), e) IN
           /\ a \in Seq(Inspection) /\ Once(a)
           /\ Len(a) >= 1 /\ Len(a) <= Len(reg) + 1 /\ a[Len(a)] = e
           /\ \A i \in 1 .. Len(a) : i = Len(a) \/ \E k \in 1 .. Len(reg) :
                 a[i] = reg[k] /\ reg[k].id # e.id
           /\ \A X : \A i \in 1 .. Len(reg) :
                 reg[i].id # e.id /\ Later(reg, i, X) /\ e.id \in X =>
                    \E k \in 1 .. Len(a) : a[k] = reg[i] /\ Later(a, k, X)
<1> DEFINE d == delete(reg, e.id)
           a == Append(d, e)
           n == Len(reg)
           m == Len(d)
           Traced ==
             \E from \in [1 .. m -> 1 .. n] :
               /\ \A i \in 1 .. m : d[i] = reg[from[i]] /\ reg[from[i]].id # e.id
               /\ \A i, j \in 1 .. m : i < j => from[i] < from[j]
               /\ \A k \in 1 .. n : reg[k].id # e.id => \E i \in 1 .. m : from[i] = k
<1>1. n \in Nat
  OBVIOUS
(* Where each entry came from, and where it goes                            *)
<1>2. d \in Seq(Inspection) /\ m \in Nat /\ m <= n /\ Traced
  <2>1. CASE d = reg /\ \A i \in 1 .. n : reg[i].id # e.id
    <3> DEFINE from == [i \in 1 .. n |-> i]
    <3>1. /\ from \in [1 .. n -> 1 .. n] /\ \A i \in 1 .. n : from[i] = i
      OBVIOUS
    <3> HIDE DEF from
    <3>2. /\ \A i \in 1 .. n : d[i] = reg[from[i]] /\ reg[from[i]].id # e.id
          /\ \A i, j \in 1 .. n : i < j => from[i] < from[j]
          /\ \A k \in 1 .. n : reg[k].id # e.id => \E i \in 1 .. n : from[i] = k
      BY <2>1, <3>1
    <3>3. m = n /\ d \in Seq(Inspection)
      BY <2>1
    <3> HIDE DEF m, n, d
    <3> QED BY <1>1, <3>1, <3>2, <3>3
  <2>2. ASSUME NEW k \in 1 .. n, reg[k].id = e.id,
               d \in Seq(Inspection), m = n - 1,
               \A j \in 1 .. n - 1 : d[j] = reg[IF j < k THEN j ELSE j + 1]
        PROVE  d \in Seq(Inspection) /\ m \in Nat /\ m <= n /\ Traced
    <3> DEFINE from == [j \in 1 .. m |-> IF j < k THEN j ELSE j + 1]
    <3>1. \A j \in 1 .. m : from[j] = IF j < k THEN j ELSE j + 1
      OBVIOUS
    <3> HIDE DEF m, n, d
    <3>2. from \in [1 .. m -> 1 .. n]
      BY <1>1, <2>2
    <3> HIDE DEF from
    <3>3. \A i \in 1 .. m : d[i] = reg[from[i]] /\ from[i] # k /\ from[i] \in 1 .. n
      <4> SUFFICES ASSUME NEW i \in 1 .. m
                   PROVE  d[i] = reg[from[i]] /\ from[i] # k /\ from[i] \in 1 .. n
        OBVIOUS
      <4>1. from[i] = IF i < k THEN i ELSE i + 1
        BY <3>1
      <4>2. from[i] # k
        BY <1>1, <2>2, <4>1
      <4>3. d[i] = reg[IF i < k THEN i ELSE i + 1]
        BY <2>2
      <4>4. from[i] \in 1 .. n
        BY <3>2
      <4> QED BY <4>1, <4>2, <4>3, <4>4
    <3>4. \A i \in 1 .. m : reg[from[i]].id # e.id
      BY <2>2, <3>3 DEF Once, n
    <3>5. \A i, j \in 1 .. m : i < j => from[i] < from[j]
      <4> SUFFICES ASSUME NEW i \in 1 .. m, NEW j \in 1 .. m, i < j
                   PROVE  from[i] < from[j]
        OBVIOUS
      <4>1. /\ from[i] = IF i < k THEN i ELSE i + 1
            /\ from[j] = IF j < k THEN j ELSE j + 1
        BY <3>1
      <4>2. i \in Int /\ j \in Int /\ k \in Int
        BY <1>1, <2>2
      <4> QED BY <4>1, <4>2
    <3>6. \A l \in 1 .. n : l # k => \E i \in 1 .. m : from[i] = l
      <4> SUFFICES ASSUME NEW l \in 1 .. n, l # k PROVE \E i \in 1 .. m : from[i] = l
        OBVIOUS
      <4>1. CASE l < k
        <5>1. l \in 1 .. m /\ from[l] = l
          BY <1>1, <2>2, <3>1, <4>1
        <5> QED BY <5>1
      <4>2. CASE l > k
        <5>1. l - 1 \in 1 .. m /\ from[l - 1] = l
          BY <1>1, <2>2, <3>1, <4>2
        <5> QED BY <5>1
      <4> QED BY <1>1, <4>1, <4>2
    <3>7. m \in Nat /\ m <= n
      BY <1>1, <2>2
    <3>8. \A i \in 1 .. n : reg[i].id # e.id => \E j \in 1 .. m : from[j] = i
      BY <2>2, <3>6
    <3>9. Traced
      BY <3>2, <3>3, <3>4, <3>5, <3>8
    <3> HIDE DEF Traced
    <3> QED BY <2>2, <3>7, <3>9
  <2> HIDE DEF m, n, d
  <2>3. \/ d = reg /\ \A i \in 1 .. n : reg[i].id # e.id
        \/ \E k \in 1 .. n :
              /\ reg[k].id = e.id
              /\ d \in Seq(Inspection) /\ m = n - 1
              /\ \A j \in 1 .. n - 1 : d[j] = reg[IF j < k THEN j ELSE j + 1]
    BY Deleting DEF d, m, n
  <2> QED BY <2>1, <2>2, <2>3
<1>3. PICK from \in [1 .. m -> 1 .. n] :
            /\ \A i \in 1 .. m : d[i] = reg[from[i]] /\ reg[from[i]].id # e.id
            /\ \A i, j \in 1 .. m : i < j => from[i] < from[j]
            /\ \A k \in 1 .. n : reg[k].id # e.id => \E i \in 1 .. m : from[i] = k
  BY <1>2
<1> HIDE DEF d
<1>4. /\ a \in Seq(Inspection) /\ Len(a) = m + 1 /\ a[m + 1] = e
      /\ \A i \in 1 .. m : a[i] = d[i]
  BY <1>2
<1> HIDE DEF a, m, n
<1>5. \A i \in 1 .. m + 1 : i \in 1 .. m \/ i = m + 1
  BY <1>2
<1>6. \A i \in 1 .. m : from[i] \in 1 .. n /\ a[i] = reg[from[i]] /\ a[i].id # e.id
  BY <1>3, <1>4
<1>7. Once(a)
  <2> SUFFICES ASSUME NEW i \in 1 .. m + 1, NEW j \in 1 .. m + 1, a[i].id = a[j].id
               PROVE  i = j
    BY <1>4 DEF Once
  <2>1. CASE i \in 1 .. m /\ j \in 1 .. m
    <3>1. from[i] = from[j]
      BY <1>6, <2>1 DEF Once, n
    <3>2. ~(i < j) /\ ~(j < i)
      BY <1>3, <1>6, <2>1, <3>1
    <3> QED BY <1>2, <2>1, <3>2
  <2>2. CASE i = m + 1 \/ j = m + 1
    BY <1>4, <1>5, <1>6, <2>2
  <2> QED BY <1>5, <2>1, <2>2
<1>8. ASSUME NEW X, NEW i \in 1 .. n, reg[i].id # e.id, Later(reg, i, X), e.id \in X
      PROVE  \E k \in 1 .. m + 1 : a[k] = reg[i] /\ Later(a, k, X)
  <2>1. PICK k \in 1 .. m : from[k] = i
    BY <1>3, <1>8
  <2>2. ASSUME NEW j \in 1 .. m + 1, j > k PROVE a[j].id \in X
    <3>1. CASE j = m + 1
      BY <1>4, <1>8, <3>1
    <3>2. CASE j \in 1 .. m
      <4>1. from[k] < from[j] /\ from[j] \in 1 .. n
        BY <1>3, <1>6, <2>2, <3>2
      <4>2. reg[from[j]].id \in X
        BY <1>8, <2>1, <4>1 DEF Later, n
      <4> QED BY <1>6, <3>2, <4>2
    <3> QED BY <1>5, <3>1, <3>2
  <2>3. Later(a, k, X)
    BY <1>4, <2>2 DEF Later
  <2>4. k \in 1 .. m + 1 /\ a[k] = reg[i]
    BY <1>2, <1>6, <2>1
  <2> QED BY <2>3, <2>4
<1>9. \A i \in 1 .. m + 1 : i = m + 1 \/ \E k \in 1 .. n : a[i] = reg[k] /\ reg[k].id # e.id
  BY <1>3, <1>5, <1>6
<1>10. /\ Len(a) >= 1 /\ Len(a) <= n + 1 /\ a[Len(a)] = e /\ Len(a) = m + 1
  BY <1>1, <1>2, <1>4
<1>11. \A i \in 1 .. Len(a) : i = Len(a) \/ \E k \in 1 .. n :
          a[i] = reg[k] /\ reg[k].id # e.id
  BY <1>9, <1>10
<1>12. \A X : \A i \in 1 .. n : reg[i].id # e.id /\ Later(reg, i, X) /\ e.id \in X =>
          \E k \in 1 .. Len(a) : a[k] = reg[i] /\ Later(a, k, X)
  BY <1>8, <1>10
<1>13. a \in Seq(Inspection)
  BY <1>4
<1> QED
  BY <1>7, <1>10, <1>11, <1>12, <1>13, Zenon DEF a, d, n

(* The oldest entry is dropped only if MaxRuns ids came after it.           *)
LEMMA Trimming ==
    ASSUME NEW a \in Seq(Inspection), Once(a), Len(a) >= 1, Len(a) <= MaxRuns + 1
    PROVE  LET t == trim(a) IN
           /\ t \in Seq(Inspection) /\ Once(t) /\ Len(t) <= MaxRuns
           /\ Len(t) >= 1 /\ t[Len(t)] = a[Len(a)]
           /\ \A i \in 1 .. Len(t) : i = Len(t) \/ \E k \in 1 .. Len(a) - 1 : t[i] = a[k]
           /\ \A X : \A k \in 1 .. Len(a) :
                 IsFiniteSet(X) /\ Cardinality(X) < MaxRuns /\ Later(a, k, X) =>
                    \E i \in 1 .. Len(t) : t[i] = a[k] /\ Later(t, i, X)
<1> DEFINE t == trim(a)
           n == Len(a)
<1>1. n \in Nat /\ MaxRuns \in Nat /\ MaxRuns >= 1
  OBVIOUS
<1>2. CASE n <= MaxRuns
  <2>1. t = a
    BY <1>1, <1>2 DEF trim
  <2>2. \A i \in 1 .. n : i = n \/ i \in 1 .. n - 1
    BY <1>1
  <2>3. \A i \in 1 .. n : i = n \/ \E k \in 1 .. n - 1 : a[i] = a[k]
    BY <2>2
  <2> HIDE DEF t
  <2> QED BY <1>2, <2>1, <2>3 DEF t
<1>3. CASE n = MaxRuns + 1
  <2>1. t = Tail(a) /\ a # <<>>
    BY <1>1, <1>3 DEF trim
  <2>2. t \in Seq(Inspection) /\ Len(t) = MaxRuns /\ \A i \in 1 .. MaxRuns : t[i] = a[i + 1]
    BY <1>1, <1>3, <2>1
  <2> HIDE DEF t
  <2>3. \A i \in 1 .. MaxRuns : i + 1 \in 1 .. n
    BY <1>1, <1>3
  <2>4. Once(t)
    <3>1. \A i, j \in 1 .. MaxRuns : t[i].id = t[j].id => i + 1 = j + 1
      BY <2>2, <2>3 DEF Once
    <3> QED BY <1>1, <2>2, <3>1 DEF Once
  <2>5. \A i \in 1 .. MaxRuns : i = MaxRuns \/ \E k \in 1 .. n - 1 : t[i] = a[k]
    <3>1. \A i \in 1 .. MaxRuns : i = MaxRuns \/ i + 1 \in 1 .. n - 1
      BY <1>1, <1>3
    <3> QED BY <2>2, <3>1
  <2>6. ASSUME NEW X, NEW k \in 1 .. n,
               IsFiniteSet(X), Cardinality(X) < MaxRuns, Later(a, k, X)
        PROVE  \E i \in 1 .. MaxRuns : t[i] = a[k] /\ Later(t, i, X)
    <3>1. k # 1
      <4> SUFFICES ASSUME k = 1 PROVE FALSE
        OBVIOUS
      <4> DEFINE f == [i \in 1 .. MaxRuns |-> a[i + 1].id]
      <4>1. \A i \in 1 .. MaxRuns : a[i + 1].id \in X
        BY <1>1, <1>3, <2>3, <2>6 DEF Later
      <4>2. f \in [1 .. MaxRuns -> X] /\ \A i \in 1 .. MaxRuns : f[i] = a[i + 1].id
        BY <4>1
      <4> HIDE DEF f
      <4>3. IsFiniteSet(1 .. MaxRuns) /\ Cardinality(1 .. MaxRuns) = MaxRuns
        BY <1>1, FS_Interval
      <4>4. PICK i \in 1 .. MaxRuns, j \in 1 .. MaxRuns : i # j /\ f[i] = f[j]
        <5> DEFINE S == 1 .. MaxRuns
        <5>1. IsFiniteSet(S) /\ IsFiniteSet(X) /\ f \in [S -> X]
          BY <2>6, <4>2, <4>3
        <5>2. Cardinality(X) < Cardinality(S)
          BY <2>6, <4>3
        <5> HIDE DEF S
        <5>3. \E x, y \in S : x # y /\ f[x] = f[y]
          BY <5>1, <5>2, FS_PigeonHole
        <5> QED BY <5>3 DEF S
      <4>5. i + 1 = j + 1
        <5>1. a[i + 1].id = a[j + 1].id
          BY <4>2, <4>4
        <5>2. i + 1 \in 1 .. Len(a) /\ j + 1 \in 1 .. Len(a)
          BY <2>3
        <5> QED BY <5>1, <5>2 DEF Once
      <4> QED BY <1>1, <4>4, <4>5
    <3>2. k - 1 \in 1 .. MaxRuns /\ (k - 1) + 1 = k
      BY <1>1, <1>3, <3>1
    <3>3. Later(t, k - 1, X)
      <4>1. \A j \in 1 .. MaxRuns : j > k - 1 => j + 1 \in 1 .. n /\ j + 1 > k
        BY <1>1, <1>3
      <4> QED BY <2>2, <2>6, <4>1 DEF Later
    <3> QED BY <2>2, <3>2, <3>3
  <2>7. t[Len(t)] = a[n] /\ Len(t) >= 1 /\ Len(t) <= MaxRuns
    BY <1>1, <1>3, <2>2
  <2>8. \A X : \A k \in 1 .. n :
           IsFiniteSet(X) /\ Cardinality(X) < MaxRuns /\ Later(a, k, X) =>
              \E i \in 1 .. Len(t) : t[i] = a[k] /\ Later(t, i, X)
    BY <2>2, <2>6
  <2>9. \A i \in 1 .. Len(t) : i = Len(t) \/ \E k \in 1 .. n - 1 : t[i] = a[k]
    BY <2>2, <2>5
  <2> QED BY <2>2, <2>4, <2>7, <2>8, <2>9, Zenon DEF t, n
<1> QED BY <1>1, <1>2, <1>3

(* A run that is started and not known to be over has the last entry.       *)
fresh(id) == [id |-> id, status |-> "running", attempts |-> 0, failures |-> 0]
LEMMA Starting ==
    ASSUME NEW reg \in Seq(Inspection), Once(reg), Len(reg) <= MaxRuns, NEW id \in Ids
    PROVE  LET res == start(reg, id) IN
           \/ res = reg /\ \E i \in 1 .. Len(reg) : reg[i].id = id
           \/ /\ res \in Seq(Inspection) /\ Once(res) /\ Len(res) <= MaxRuns
              /\ Len(res) >= 1 /\ res[Len(res)] = fresh(id)
              /\ \A i \in 1 .. Len(res) : i = Len(res) \/ \E k \in 1 .. Len(reg) :
                    res[i] = reg[k] /\ reg[k].id # id
              /\ \A X : \A i \in 1 .. Len(reg) :
                    /\ IsFiniteSet(X) /\ Cardinality(X) < MaxRuns /\ id \in X
                    /\ reg[i].id # id /\ Later(reg, i, X)
                    => \E k \in 1 .. Len(res) : res[k] = reg[i] /\ Later(res, k, X)
<1> DEFINE e == fresh(id)
           a == Append(delete(reg, id), e)
           t == trim(a)
<1>1. DOMAIN reg = 1 .. Len(reg)
  OBVIOUS
<1>2. CASE \E i \in DOMAIN reg : reg[i].id = id /\ reg[i].status # "running"
  BY <1>1, <1>2, Zenon DEF start
<1>3. CASE ~\E i \in DOMAIN reg : reg[i].id = id /\ reg[i].status # "running"
  <2>1. start(reg, id) = t
    BY <1>3, Zenon DEF start, fresh
  <2>2. e \in Inspection /\ e.id = id
    BY DEF fresh, Inspection, Ids
  <2> HIDE DEF e
  <2>3. /\ a \in Seq(Inspection) /\ Once(a)
        /\ Len(a) >= 1 /\ Len(a) <= Len(reg) + 1 /\ a[Len(a)] = e
        /\ \A i \in 1 .. Len(a) : i = Len(a) \/ \E k \in 1 .. Len(reg) :
              a[i] = reg[k] /\ reg[k].id # id
        /\ \A X : \A i \in 1 .. Len(reg) :
              reg[i].id # id /\ Later(reg, i, X) /\ id \in X =>
                 \E k \in 1 .. Len(a) : a[k] = reg[i] /\ Later(a, k, X)
    <3>1. Append(delete(reg, e.id), e) = a
      BY <2>2
    <3> HIDE DEF a
    <3>2. LET l == Append(delete(reg, e.id), e) IN
          /\ l \in Seq(Inspection) /\ Once(l)
          /\ Len(l) >= 1 /\ Len(l) <= Len(reg) + 1 /\ l[Len(l)] = e
          /\ \A i \in 1 .. Len(l) : i = Len(l) \/ \E k \in 1 .. Len(reg) :
                l[i] = reg[k] /\ reg[k].id # e.id
          /\ \A X : \A i \in 1 .. Len(reg) :
                reg[i].id # e.id /\ Later(reg, i, X) /\ e.id \in X =>
                   \E k \in 1 .. Len(l) : l[k] = reg[i] /\ Later(l, k, X)
      BY <2>2, Appending, Zenon
    <3> QED BY ONLY <2>2, <3>1, <3>2, SMT
  <2> HIDE DEF a
  <2>4. Len(a) <= MaxRuns + 1
    BY <2>3
  <2>5. /\ t \in Seq(Inspection) /\ Once(t) /\ Len(t) <= MaxRuns
        /\ Len(t) >= 1 /\ t[Len(t)] = a[Len(a)]
        /\ \A i \in 1 .. Len(t) : i = Len(t) \/ \E k \in 1 .. Len(a) - 1 : t[i] = a[k]
        /\ \A X : \A k \in 1 .. Len(a) :
              IsFiniteSet(X) /\ Cardinality(X) < MaxRuns /\ Later(a, k, X) =>
                 \E i \in 1 .. Len(t) : t[i] = a[k] /\ Later(t, i, X)
    BY <2>3, <2>4, Trimming, Zenon
  <2> HIDE DEF t
  <2>6. ASSUME NEW i \in 1 .. Len(t), i # Len(t)
        PROVE  \E k \in 1 .. Len(reg) : t[i] = reg[k] /\ reg[k].id # id
    <3>1. PICK k \in 1 .. Len(a) - 1 : t[i] = a[k]
      BY <2>5, <2>6
    <3>2. k \in 1 .. Len(a) /\ k # Len(a)
      BY <2>3, <3>1
    <3> QED BY <2>3, <3>1, <3>2
  <2>7. ASSUME NEW X, NEW i \in 1 .. Len(reg),
               IsFiniteSet(X), Cardinality(X) < MaxRuns, id \in X,
               reg[i].id # id, Later(reg, i, X)
        PROVE  \E k \in 1 .. Len(t) : t[k] = reg[i] /\ Later(t, k, X)
    <3>1. PICK k \in 1 .. Len(a) : a[k] = reg[i] /\ Later(a, k, X)
      BY <2>3, <2>7
    <3> QED BY <2>5, <2>7, <3>1
  <2>8. t[Len(t)] = fresh(id)
    BY <2>3, <2>5 DEF e
  <2> QED BY <2>1, <2>5, <2>6, <2>7, <2>8
<1> QED BY <1>2, <1>3

-----------------------------------------------------------------------------
(* What an event leaves of the registry.                                    *)
DomainOf(reg) == DOMAIN reg = 1 .. Len(reg)
LEMMA Domains == ASSUME NEW reg \in Seq(Inspection) PROVE DomainOf(reg)
BY DEF DomainOf

(* A run begins: phases and later ids change with it.                       *)
LEMMA ListedStart ==
    ASSUME NEW reg, NEW ph, NEW at, NEW fa, NEW si, RunsTold(ph, at, fa, si),
           Listed(reg, ph), Entered(reg, ph, at, fa, si),
           NEW r \in Runs, ph[r] = "idle",
           NEW ph2, \A q \in Runs : ph2[q] = IF q = r THEN "running" ELSE ph[q],
           NEW si2, \A q \in Runs : si2[q] = IF ph[q] = "idle" THEN {}
                                             ELSE si[q] \cup {idOf[r]}
    PROVE  /\ Listed(start(reg, idOf[r]), ph2)
           /\ Entered(start(reg, idOf[r]), ph2, at, fa, si2)
<1> DEFINE id == idOf[r]
           res == start(reg, id)
<1>1. /\ reg \in Seq(Inspection) /\ Len(reg) <= MaxRuns /\ Once(reg) /\ id \in Ids
      /\ DOMAIN reg = 1 .. Len(reg)
  BY Domains DEF Listed, Once, Ids, DomainOf
<1>2. /\ r \in going(ph2) /\ has(ph2, r) /\ ~has(ph, r) /\ idOf[r] = id
      /\ \A q \in Runs : /\ has(ph, q) => has(ph2, q) /\ q # r /\ ph[q] # "idle"
                         /\ q \in going(ph) => q \in going(ph2)
                         /\ has(ph2, q) => q = r \/ has(ph, q)
  BY DEF going, has, Awaiting
<1>3. ASSUME NEW q \in Runs, q # r, sole(ph2, q), Cardinality(si2[q]) < MaxRuns
      PROVE  /\ sole(ph, q) /\ idOf[q] # id /\ ph2[q] = ph[q]
             /\ si2[q] = si[q] \cup {id} /\ IsFiniteSet(si2[q]) /\ id \in si2[q]
             /\ \E i \in 1 .. Len(reg) :
                   reg[i] = entry(q, ph, at, fa) /\ Later(reg, i, si2[q])
  <2>1. sole(ph, q) /\ idOf[q] # id /\ ph2[q] = ph[q] /\ ph[q] # "idle"
    BY <1>2, <1>3 DEF sole
  <2>2. si2[q] = si[q] \cup {id}
    BY <2>1
  <2>3. IsFiniteSet(si2[q]) /\ Cardinality(si[q]) <= Cardinality(si2[q])
    <3>1. IsFiniteSet(si[q])
      BY DEF RunsTold
    <3>2. IsFiniteSet(si2[q])
      BY <2>2, <3>1, FS_AddElement
    <3> QED BY <2>2, <3>2, FS_Subset
  <2>4. Cardinality(si[q]) < MaxRuns
    <3>1. Cardinality(si[q]) \in Nat /\ Cardinality(si2[q]) \in Nat
      BY <2>3, FS_CardinalityType DEF RunsTold
    <3> QED BY <1>3, <2>3, <3>1
  <2>5. Found(reg, q, ph, at, fa, si)
    BY <2>1, <2>4 DEF Entered
  <2>6. PICK i \in DOMAIN reg : /\ reg[i] = entry(q, ph, at, fa)
                                /\ \A j \in DOMAIN reg : j > i => reg[j].id \in si[q]
    BY <2>5 DEF Found
  <2>7. Later(reg, i, si2[q])
    BY <1>1, <2>2, <2>6 DEF Later
  <2> QED BY <1>1, <2>1, <2>2, <2>3, <2>6, <2>7
<1>4. CASE res = reg /\ \E i \in 1 .. Len(reg) : reg[i].id = id
  <2>1. Listed(res, ph2)
    <3>1. ASSUME NEW i \in DOMAIN reg
          PROVE  /\ \E q \in Runs : has(ph2, q) /\ idOf[q] = reg[i].id
                 /\ reg[i].status = "running" => \E q \in going(ph2) : idOf[q] = reg[i].id
      <4>1. PICK q \in Runs : has(ph, q) /\ idOf[q] = reg[i].id
        BY DEF Listed
      <4>2. ASSUME reg[i].status = "running" PROVE \E p \in going(ph2) : idOf[p] = reg[i].id
        <5>1. PICK p \in going(ph) : idOf[p] = reg[i].id
          BY <4>2 DEF Listed
        <5>2. p \in going(ph2)
          BY <1>2, <5>1 DEF going
        <5> QED BY <5>1, <5>2
      <4> QED BY <1>2, <4>1, <4>2
    <3> QED BY <1>4, <3>1 DEF Listed
  <2>2. ASSUME NEW q \in Runs, sole(ph2, q), Cardinality(si2[q]) < MaxRuns
        PROVE  Found(reg, q, ph2, at, fa, si2)
    <3>1. q # r
      <4>1. PICK i \in 1 .. Len(reg) : reg[i].id = id
        BY <1>4
      <4>2. PICK p \in Runs : has(ph, p) /\ idOf[p] = id
        BY <1>1, <4>1 DEF Listed
      <4> QED BY <1>2, <2>2, <4>2 DEF sole
    <3>2. PICK i \in 1 .. Len(reg) :
             reg[i] = entry(q, ph, at, fa) /\ Later(reg, i, si2[q])
      BY <1>3, <2>2, <3>1
    <3>3. reg[i] = entry(q, ph2, at, fa)
      BY <1>3, <2>2, <3>1, <3>2 DEF entry
    <3> QED BY <1>1, <3>2, <3>3 DEF Found, Later
  <2> QED BY <1>4, <2>1, <2>2 DEF Entered
<1>5. CASE /\ res \in Seq(Inspection) /\ Once(res) /\ Len(res) <= MaxRuns
           /\ Len(res) >= 1 /\ res[Len(res)] = fresh(id)
           /\ \A i \in 1 .. Len(res) : i = Len(res) \/ \E k \in 1 .. Len(reg) :
                 res[i] = reg[k] /\ reg[k].id # id
           /\ \A X : \A i \in 1 .. Len(reg) :
                 /\ IsFiniteSet(X) /\ Cardinality(X) < MaxRuns /\ id \in X
                 /\ reg[i].id # id /\ Later(reg, i, X)
                 => \E k \in 1 .. Len(res) : res[k] = reg[i] /\ Later(res, k, X)
  <2> HIDE DEF res
  <2>1. DOMAIN res = 1 .. Len(res) /\ Len(res) \in 1 .. Len(res)
    BY <1>5
  <2>2. Listed(res, ph2)
    <3>1. ASSUME NEW i \in DOMAIN res
          PROVE  /\ \E q \in Runs : has(ph2, q) /\ idOf[q] = res[i].id
                 /\ res[i].status = "running" => \E q \in going(ph2) : idOf[q] = res[i].id
      <4>1. CASE i = Len(res)
        <5>1. res[i].id = idOf[r]
          BY <1>5, <4>1 DEF fresh
        <5> QED BY <1>2, <5>1
      <4>2. CASE i # Len(res)
        <5>1. PICK k \in DOMAIN reg : res[i] = reg[k]
          BY <1>1, <1>5, <2>1, <4>2
        <5>2. PICK q \in Runs : has(ph, q) /\ idOf[q] = reg[k].id
          BY <5>1 DEF Listed
        <5>3. ASSUME reg[k].status = "running" PROVE \E p \in going(ph2) : idOf[p] = reg[k].id
          <6>1. PICK p \in going(ph) : idOf[p] = reg[k].id
            BY <5>1, <5>3 DEF Listed
          <6>2. p \in going(ph2)
            BY <1>2, <6>1 DEF going
          <6> QED BY <6>1, <6>2
        <5> QED BY <1>2, <5>1, <5>2, <5>3
      <4> QED BY <4>1, <4>2
    <3>2. \A i, j \in DOMAIN res : res[i].id = res[j].id => i = j
      BY <1>5, <2>1 DEF Once
    <3> QED BY <1>5, <3>1, <3>2 DEF Listed
  <2>3. ASSUME NEW q \in Runs, sole(ph2, q), Cardinality(si2[q]) < MaxRuns
        PROVE  Found(res, q, ph2, at, fa, si2)
    <3>1. CASE q = r
      <4>1. res[Len(res)] = entry(r, ph2, at, fa)
        BY <1>5 DEF fresh, entry, Awaiting, RunsTold
      <4>2. \A j \in DOMAIN res : ~(j > Len(res))
        BY <2>1
      <4> QED BY <2>1, <3>1, <4>1, <4>2 DEF Found
    <3>2. CASE q # r
      <4>1. PICK i \in 1 .. Len(reg) :
               reg[i] = entry(q, ph, at, fa) /\ Later(reg, i, si2[q])
        BY <1>3, <2>3, <3>2
      <4>2. reg[i] = entry(q, ph2, at, fa) /\ reg[i].id # id
        BY <1>3, <2>3, <3>2, <4>1 DEF entry
      <4>3. PICK k \in 1 .. Len(res) : res[k] = reg[i] /\ Later(res, k, si2[q])
        BY <1>3, <1>5, <2>3, <3>2, <4>1, <4>2
      <4> QED BY <2>1, <4>2, <4>3 DEF Found, Later
    <3> QED BY <3>1, <3>2
  <2> QED BY <2>2, <2>3 DEF Entered, res
<1>6. \/ res = reg /\ \E i \in 1 .. Len(reg) : reg[i].id = id
      \/ /\ res \in Seq(Inspection) /\ Once(res) /\ Len(res) <= MaxRuns
         /\ Len(res) >= 1 /\ res[Len(res)] = fresh(id)
         /\ \A i \in 1 .. Len(res) : i = Len(res) \/ \E k \in 1 .. Len(reg) :
               res[i] = reg[k] /\ reg[k].id # id
         /\ \A X : \A i \in 1 .. Len(reg) :
               /\ IsFiniteSet(X) /\ Cardinality(X) < MaxRuns /\ id \in X
               /\ reg[i].id # id /\ Later(reg, i, X)
               => \E k \in 1 .. Len(res) : res[k] = reg[i] /\ Later(res, k, X)
  <2> HIDE DEF id
  <2> QED BY <1>1, Starting, Zenon
<1> QED BY <1>4, <1>5, <1>6

(* A run that goes on, or is over now: its entry follows.                   *)
LEMMA ListedUpdate ==
    ASSUME NEW reg, NEW ph, NEW at, NEW fa, NEW si, RunsTold(ph, at, fa, si),
           Listed(reg, ph), Entered(reg, ph, at, fa, si),
           NEW r \in going(ph), NEW e, e.type # "started", e.id = idOf[r],
           NEW ph2, NEW at2, NEW fa2,
           \A q \in Runs : q # r => /\ ph2[q] = ph[q] /\ at2[q] = at[q] /\ fa2[q] = fa[q],
           has(ph2, r),
           updated(entry(r, ph, at, fa), e) = entry(r, ph2, at2, fa2),
           \A x \in Inspection : x.status = "running" =>
              /\ updated(x, e) \in Inspection /\ updated(x, e).id = x.id
              /\ updated(x, e).status = "running" => r \in going(ph2)
    PROVE  Listed(consume(reg, e), ph2) /\ Entered(consume(reg, e), ph2, at2, fa2, si)
<1> DEFINE res == consume(reg, e)
           hit(i) == reg[i].id = idOf[r] /\ reg[i].status = "running"
<1>1. reg \in Seq(Inspection) /\ DOMAIN reg = 1 .. Len(reg) /\ Len(reg) \in Nat
  BY DEF Listed
<1>2. \A i \in DOMAIN reg : reg[i] \in Inspection
  BY <1>1
<1>3. res = [i \in DOMAIN reg |-> IF hit(i) THEN updated(reg[i], e) ELSE reg[i]]
  BY Zenon DEF consume
<1>4. \A i \in DOMAIN reg : res[i] = IF hit(i) THEN updated(reg[i], e) ELSE reg[i]
  BY <1>3
<1>5. \A i \in DOMAIN reg :
         IF hit(i) THEN updated(reg[i], e) \in Inspection /\ updated(reg[i], e).id = reg[i].id
                   ELSE reg[i] \in Inspection
  BY <1>2
<1>6. res \in Seq(Inspection) /\ Len(res) = Len(reg) /\ DOMAIN res = DOMAIN reg
  <2>1. \A i \in 1 .. Len(reg) :
           (IF hit(i) THEN updated(reg[i], e) ELSE reg[i]) \in Inspection
    BY <1>1, <1>5
  <2> HIDE DEF hit, res
  <2>2. res \in [1 .. Len(reg) -> Inspection]
    BY <1>1, <1>3, <2>1
  <2> QED BY <1>1, <2>2
<1> HIDE DEF res
<1>7. \A i \in DOMAIN reg : res[i].id = reg[i].id
  BY <1>4, <1>5
<1>8. /\ r \in Runs /\ has(ph, r) /\ r \in going(ph)
      /\ \A q \in Runs : /\ has(ph, q) <=> has(ph2, q)
                         /\ q # r => (q \in going(ph) <=> q \in going(ph2))
  BY DEF going, has, Awaiting
<1>9. Listed(res, ph2)
  <2>1. ASSUME NEW i \in DOMAIN reg
        PROVE  /\ \E q \in Runs : has(ph2, q) /\ idOf[q] = res[i].id
               /\ res[i].status = "running" => \E q \in going(ph2) : idOf[q] = res[i].id
    <3>1. PICK q \in Runs : has(ph, q) /\ idOf[q] = reg[i].id
      BY DEF Listed
    <3>2. ASSUME res[i].status = "running" PROVE \E p \in going(ph2) : idOf[p] = res[i].id
      <4>1. CASE hit(i)
        <5>1. res[i] = updated(reg[i], e)
          BY <1>4, <4>1
        <5>2. r \in going(ph2)
          BY <1>2, <3>2, <4>1, <5>1
        <5> QED BY <1>7, <4>1, <5>2
      <4>2. CASE ~hit(i)
        <5>1. res[i] = reg[i]
          BY <1>4, <4>2
        <5>2. PICK p \in going(ph) : idOf[p] = reg[i].id
          BY <3>2, <5>1 DEF Listed
        <5>3. p # r /\ p \in Runs
          BY <3>2, <4>2, <5>1, <5>2 DEF going
        <5> QED BY <1>8, <5>1, <5>2, <5>3
      <4> QED BY <4>1, <4>2
    <3> QED BY <1>7, <1>8, <3>1, <3>2
  <2>2. \A i, j \in DOMAIN res : res[i].id = res[j].id => i = j
    BY <1>6, <1>7 DEF Listed
  <2>3. Len(res) <= MaxRuns
    BY <1>6 DEF Listed
  <2> QED BY <1>6, <2>1, <2>2, <2>3 DEF Listed
<1>10. ASSUME NEW q \in Runs, sole(ph2, q), Cardinality(si[q]) < MaxRuns
       PROVE  Found(res, q, ph2, at2, fa2, si)
  <2>1. sole(ph, q) /\ (q # r => idOf[q] # idOf[r])
    BY <1>8, <1>10 DEF sole
  <2>2. Found(reg, q, ph, at, fa, si)
    BY <1>10, <2>1 DEF Entered
  <2>3. PICK i \in DOMAIN reg : /\ reg[i] = entry(q, ph, at, fa)
                                /\ \A j \in DOMAIN reg : j > i => reg[j].id \in si[q]
    BY <2>2 DEF Found
  <2>4. CASE q = r
    <3>1. hit(i)
      BY <1>8, <2>3, <2>4 DEF entry, going
    <3>2. res[i] = entry(q, ph2, at2, fa2)
      BY <1>4, <2>3, <2>4, <3>1
    <3> QED BY <1>6, <1>7, <2>3, <3>2 DEF Found
  <2>5. CASE q # r
    <3>1. ~hit(i)
      BY <2>1, <2>3, <2>5 DEF entry
    <3>2. res[i] = entry(q, ph2, at2, fa2)
      BY <1>4, <2>3, <2>5, <3>1 DEF entry
    <3> QED BY <1>6, <1>7, <2>3, <3>2 DEF Found
  <2> QED BY <2>4, <2>5
<1> QED BY <1>9, <1>10 DEF Entered, res

-----------------------------------------------------------------------------
(* What each event leaves of all that is known.                             *)
LEMMA Going ==
    ASSUME NEW ph, NEW r \in Runs, IsFiniteSet(going(ph)),
           NEW ph2, \A q \in Runs : q # r => ph2[q] = ph[q]
    PROVE  /\ IsFiniteSet(going(ph2)) /\ Cardinality(going(ph2)) \in Nat
           /\ Cardinality(going(ph)) \in Nat
           /\ Cardinality(going(ph2)) + (IF ph[r] \in Awaiting THEN 1 ELSE 0)
                 = Cardinality(going(ph)) + (IF ph2[r] \in Awaiting THEN 1 ELSE 0)
<1>1. Cardinality(going(ph)) \in Nat
  BY FS_CardinalityType
<1>2. CASE ph2[r] \in Awaiting /\ ph[r] \in Awaiting
  <2>1. going(ph2) = going(ph)
    BY <1>2 DEF going
  <2> QED BY <1>1, <1>2, <2>1
<1>3. CASE ph2[r] \notin Awaiting /\ ph[r] \notin Awaiting
  <2>1. going(ph2) = going(ph)
    BY <1>3 DEF going
  <2> QED BY <1>1, <1>3, <2>1
<1>4. CASE ph2[r] \in Awaiting /\ ph[r] \notin Awaiting
  <2>1. going(ph2) = going(ph) \cup {r} /\ r \notin going(ph)
    BY <1>4 DEF going
  <2>2. IsFiniteSet(going(ph2)) /\ Cardinality(going(ph2)) = Cardinality(going(ph)) + 1
    BY <2>1, FS_AddElement
  <2> QED BY <1>1, <1>4, <2>2
<1>5. CASE ph2[r] \notin Awaiting /\ ph[r] \in Awaiting
  <2>1. going(ph2) = going(ph) \ {r} /\ r \in going(ph)
    BY <1>5 DEF going
  <2>2. IsFiniteSet(going(ph2)) /\ Cardinality(going(ph2)) = Cardinality(going(ph)) - 1
    BY <2>1, FS_RemoveElement
  <2>3. Cardinality(going(ph2)) \in Nat
    BY <2>2, FS_CardinalityType
  <2> QED BY <1>1, <1>5, <2>2, <2>3
<1> QED BY <1>2, <1>3, <1>4, <1>5

LEMMA Started ==
    ASSUME NEW known, NEW ph, NEW at, NEW fa, NEW si, Told(known, ph, at, fa, si),
           NEW r \in Runs, ph[r] = "idle"
    PROVE  Told(ingest(known, started(r)), [ph EXCEPT ![r] = "running"], at, fa,
                [q \in Runs |-> IF ph[q] = "idle" THEN {} ELSE si[q] \cup {idOf[r]}])
<1> DEFINE ph2 == [ph EXCEPT ![r] = "running"]
           si2 == [q \in Runs |-> IF ph[q] = "idle" THEN {} ELSE si[q] \cup {idOf[r]}]
           e == started(r)
           reg == known.registry
           metrics == known.counts
<1>1. /\ RunsTold(ph, at, fa, si) /\ Listed(reg, ph) /\ Entered(reg, ph, at, fa, si)
      /\ Counted(metrics, ph)
  BY DEF Told
<1>2. \A q \in Runs : ph2[q] = IF q = r THEN "running" ELSE ph[q]
  BY <1>1 DEF RunsTold
<1>3. \A q \in Runs : si2[q] = IF ph[q] = "idle" THEN {} ELSE si[q] \cup {idOf[r]}
  OBVIOUS
<1>4. RunsTold(ph2, at, fa, si2)
  <2>1. ph2 \in [Runs -> Phases] /\ si2 \in [Runs -> SUBSET Ids]
    BY <1>1 DEF RunsTold, Phases, Awaiting, Ids
  <2>2. \A q \in Runs : IsFiniteSet(si2[q])
    BY <1>1, <1>3, FS_EmptySet, FS_AddElement DEF RunsTold
  <2> QED BY <1>1, <1>2, <2>1, <2>2 DEF RunsTold
<1> HIDE DEF ph2, si2
<1>5. /\ consume(reg, e) = start(reg, idOf[r])
      /\ count(metrics, e) = [metrics EXCEPT !["started"] = @ + 1]
  BY DEF consume, count, started
<1>6. Listed(consume(reg, e), ph2) /\ Entered(consume(reg, e), ph2, at, fa, si2)
  <2> HIDE DEF reg, e
  <2>1. /\ Listed(start(reg, idOf[r]), ph2)
        /\ Entered(start(reg, idOf[r]), ph2, at, fa, si2)
    BY <1>1, <1>2, <1>3, ListedStart, ZenonT(60)
  <2> QED BY <1>5, <2>1
<1>7. Counted(count(metrics, e), ph2)
  <2>1. /\ IsFiniteSet(going(ph2)) /\ Cardinality(going(ph2)) \in Nat
        /\ Cardinality(going(ph)) \in Nat
        /\ Cardinality(going(ph2)) = Cardinality(going(ph)) + 1
    BY <1>1, <1>2, Going DEF Counted, Awaiting
  <2> HIDE DEF metrics
  <2> QED BY <1>1, <1>5, <2>1 DEF Counted, Statuses
<1>8. /\ ingest(known, e).registry = consume(reg, e)
      /\ ingest(known, e).counts = count(metrics, e)
  BY DEF ingest
<1> QED BY <1>4, <1>6, <1>7, <1>8 DEF Told, ph2, si2

(* What the three other events share                                        *)
LEMMA Followed ==
    ASSUME NEW known, NEW ph, NEW at, NEW fa, NEW si, Told(known, ph, at, fa, si),
           NEW r \in going(ph), NEW e, e.type # "started", e.id = idOf[r],
           NEW ph2, NEW at2, NEW fa2, RunsTold(ph2, at2, fa2, si),
           \A q \in Runs : q # r => /\ ph2[q] = ph[q] /\ at2[q] = at[q] /\ fa2[q] = fa[q],
           has(ph2, r), Counted(count(known.counts, e), ph2),
           updated(entry(r, ph, at, fa), e) = entry(r, ph2, at2, fa2),
           \A x \in Inspection : x.status = "running" =>
              /\ updated(x, e) \in Inspection /\ updated(x, e).id = x.id
              /\ updated(x, e).status = "running" => r \in going(ph2)
    PROVE  Told(ingest(known, e), ph2, at2, fa2, si)
<1> DEFINE reg == known.registry
<1>1. RunsTold(ph, at, fa, si) /\ Listed(reg, ph) /\ Entered(reg, ph, at, fa, si)
  BY DEF Told
<1>2. /\ ingest(known, e).registry = consume(reg, e)
      /\ ingest(known, e).counts = count(known.counts, e)
  BY DEF ingest
<1> HIDE DEF reg
<1>3. Listed(consume(reg, e), ph2) /\ Entered(consume(reg, e), ph2, at2, fa2, si)
  BY <1>1, ListedUpdate
<1> QED BY <1>2, <1>3 DEF Told

LEMMA Attempted ==
    ASSUME NEW known, NEW ph, NEW at, NEW fa, NEW si, Told(known, ph, at, fa, si),
           NEW r \in going(ph), NEW n, n = at[r] + 1
    PROVE  Told(ingest(known, attempt(r, n)), ph, [at EXCEPT ![r] = n], fa, si)
<1> DEFINE e == attempt(r, n)
           at2 == [at EXCEPT ![r] = n]
<1>1. RunsTold(ph, at, fa, si) /\ Counted(known.counts, ph)
  BY DEF Told
<1>2. r \in Runs /\ at[r] \in Nat /\ n \in Nat /\ at2 \in [Runs -> Nat]
      /\ at2[r] = n /\ (\A q \in Runs : q # r => at2[q] = at[q])
      /\ ph[r] # "idle" /\ has(ph, r)
  BY <1>1 DEF RunsTold, going, has, Awaiting
<1> HIDE DEF at2
<1>3. RunsTold(ph, at2, fa, si)
  BY <1>1, <1>2 DEF RunsTold
<1>4. e.type = "attempt" /\ e.id = idOf[r] /\ e.attempt = n
  BY DEF attempt
<1> HIDE DEF e
<1>5. count(known.counts, e) = known.counts
  BY <1>4 DEF count
<1>6. \A x : updated(x, e) = [x EXCEPT !.attempts = max(x.attempts, n)]
  BY <1>4 DEF updated
<1>7. updated(entry(r, ph, at, fa), e) = entry(r, ph, at2, fa)
  <2>1. max(at[r], n) = n
    BY <1>2 DEF max
  <2> DEFINE x == entry(r, ph, at, fa)
  <2>2. x.attempts = at[r]
    BY DEF entry
  <2>3. updated(x, e) = [x EXCEPT !.attempts = n]
    BY <1>6, <2>1, <2>2, Zenon
  <2> QED BY <1>2, <2>3 DEF entry
<1>8. ASSUME NEW x \in Inspection
      PROVE  updated(x, e) \in Inspection /\ updated(x, e).id = x.id
  <2>1. updated(x, e) = [x EXCEPT !.attempts = max(x.attempts, n)]
    BY <1>6
  <2>2. max(x.attempts, n) \in Nat
    BY <1>2 DEF max, Inspection
  <2> HIDE DEF max
  <2> QED BY <2>1, <2>2 DEF Inspection
<1> QED
  BY <1>1, <1>2, <1>3, <1>4, <1>5, <1>7, <1>8, Followed DEF e, at2

LEMMA HasFailed ==
    ASSUME NEW known, NEW ph, NEW at, NEW fa, NEW si, Told(known, ph, at, fa, si),
           NEW r \in going(ph), NEW n, n = at[r], NEW f, f = fa[r] + 1
    PROVE  Told(ingest(known, failure(r, n)), ph, at, [fa EXCEPT ![r] = f], si)
<1> DEFINE e == failure(r, n)
           fa2 == [fa EXCEPT ![r] = f]
<1>1. RunsTold(ph, at, fa, si) /\ Counted(known.counts, ph)
  BY DEF Told
<1>2. r \in Runs /\ n \in Nat /\ fa[r] \in Nat /\ fa2 \in [Runs -> Nat]
      /\ fa2[r] = f /\ (\A q \in Runs : q # r => fa2[q] = fa[q])
      /\ ph[r] # "idle" /\ has(ph, r)
  BY <1>1 DEF RunsTold, going, has, Awaiting
<1> HIDE DEF fa2
<1>3. RunsTold(ph, at, fa2, si)
  BY <1>1, <1>2 DEF RunsTold
<1>4. e.type = "failure" /\ e.id = idOf[r] /\ e.attempt = n
  BY DEF failure
<1> HIDE DEF e
<1>5. count(known.counts, e) = known.counts
  BY <1>4 DEF count
<1>6. \A x : updated(x, e) = [x EXCEPT !.failures = x.failures + 1,
                                       !.attempts = max(x.attempts, n)]
  BY <1>4 DEF updated
<1>7. updated(entry(r, ph, at, fa), e) = entry(r, ph, at, fa2)
  <2>1. max(at[r], n) = at[r]
    BY <1>2 DEF max
  <2> DEFINE x == entry(r, ph, at, fa)
  <2>2. x.attempts = at[r] /\ x.failures = fa[r]
    BY DEF entry
  <2>3. updated(x, e) = [x EXCEPT !.failures = f, !.attempts = at[r]]
    <3>1. updated(x, e) = [x EXCEPT !.failures = x.failures + 1,
                                    !.attempts = max(x.attempts, n)]
      BY <1>6
    <3> HIDE DEF x
    <3> QED BY <2>1, <2>2, <3>1, Zenon
  <2> QED BY <1>2, <2>3 DEF entry
<1>8. ASSUME NEW x \in Inspection
      PROVE  updated(x, e) \in Inspection /\ updated(x, e).id = x.id
  <2>1. updated(x, e) = [x EXCEPT !.failures = x.failures + 1,
                                  !.attempts = max(x.attempts, n)]
    BY <1>6
  <2> DEFINE y == max(x.attempts, n)
             z == x.failures + 1
  <2>2. y \in Nat /\ z \in Nat
    BY <1>2 DEF max, Inspection
  <2>3. updated(x, e) = [x EXCEPT !.failures = z, !.attempts = y]
    BY <2>1
  <2> HIDE DEF y, z
  <2> QED BY <2>2, <2>3 DEF Inspection
<1> QED
  BY <1>1, <1>2, <1>3, <1>4, <1>5, <1>7, <1>8, Followed DEF e, fa2

LEMMA HasFinished ==
    ASSUME NEW known, NEW ph, NEW at, NEW fa, NEW si, Told(known, ph, at, fa, si),
           NEW r \in going(ph), NEW n, n = at[r], NEW status \in Statuses
    PROVE  Told(ingest(known, finished(r, n, status)), [ph EXCEPT ![r] = status], at, fa, si)
<1> DEFINE e == finished(r, n, status)
           ph2 == [ph EXCEPT ![r] = status]
           metrics == known.counts
<1>1. RunsTold(ph, at, fa, si) /\ Counted(metrics, ph)
  BY DEF Told
<1>2. /\ r \in Runs /\ n \in Nat /\ ph2 \in [Runs -> Phases] /\ ph2[r] = status
      /\ \A q \in Runs : q # r => ph2[q] = ph[q]
      /\ ph[r] \in Awaiting
  BY <1>1 DEF RunsTold, going, Phases
<1>a. status # "running" /\ status \notin Awaiting /\ status # "idle" /\ status # "refused"
      /\ status # "started"
  BY DEF Statuses, Awaiting
<1> HIDE DEF ph2
<1>3. RunsTold(ph2, at, fa, si) /\ has(ph2, r)
  BY <1>1, <1>2, <1>a DEF RunsTold, has
<1>4. e.type = "finished" /\ e.id = idOf[r] /\ e.attempt = n /\ e.status = status
  BY DEF finished
<1> HIDE DEF e, metrics
<1>5. Counted(count(metrics, e), ph2)
  <2>1. count(metrics, e) = [metrics EXCEPT ![status] = metrics[status] + 1]
    BY <1>4 DEF count
  <2>2. /\ IsFiniteSet(going(ph2)) /\ Cardinality(going(ph2)) \in Nat
        /\ Cardinality(going(ph)) \in Nat
        /\ Cardinality(going(ph2)) + 1 = Cardinality(going(ph))
    BY <1>1, <1>2, <1>a, Going DEF Counted
  <2>3. metrics \in [{"started"} \cup Statuses -> Nat]
    BY <1>1 DEF Counted
  <2>4. count(metrics, e) \in [{"started"} \cup Statuses -> Nat]
    BY <2>1, <2>3
  <2>5. \A k \in {"started"} \cup Statuses :
           count(metrics, e)[k] = IF k = status THEN metrics[k] + 1 ELSE metrics[k]
    BY <2>1, <2>3
  <2>6. metrics["started"] = metrics["completed"] + metrics["failed"] + metrics["cancelled"]
                             + metrics["timeout"] + Cardinality(going(ph))
    BY <1>1 DEF Counted
  <2>7. /\ metrics["started"] \in Nat /\ metrics["completed"] \in Nat
        /\ metrics["failed"] \in Nat /\ metrics["cancelled"] \in Nat
        /\ metrics["timeout"] \in Nat
    BY <2>3 DEF Statuses
  <2>8. status \in {"completed", "failed", "cancelled", "timeout"}
    BY DEF Statuses
  <2> DEFINE c == count(metrics, e)
  <2>9. /\ c["started"] = metrics["started"]
        /\ c["completed"] = IF status = "completed" THEN metrics["completed"] + 1
                                                    ELSE metrics["completed"]
        /\ c["failed"] = IF status = "failed" THEN metrics["failed"] + 1
                                              ELSE metrics["failed"]
        /\ c["cancelled"] = IF status = "cancelled" THEN metrics["cancelled"] + 1
                                                    ELSE metrics["cancelled"]
        /\ c["timeout"] = IF status = "timeout" THEN metrics["timeout"] + 1
                                                ELSE metrics["timeout"]
    BY <1>a, <2>5 DEF Statuses
  <2> HIDE DEF c
  <2>10. c["started"] = c["completed"] + c["failed"] + c["cancelled"]
                        + c["timeout"] + Cardinality(going(ph2))
    <3> DEFINE k == Cardinality(going(ph))
               l == Cardinality(going(ph2))
    <3>1. k \in Nat /\ l \in Nat /\ l + 1 = k
      BY <2>2
    <3>2. metrics["started"] = metrics["completed"] + metrics["failed"]
                               + metrics["cancelled"] + metrics["timeout"] + k
      BY <2>6
    <3> HIDE DEF k, l
    <3>3. c["started"] = c["completed"] + c["failed"] + c["cancelled"] + c["timeout"] + l
      <4>1. CASE status = "completed"
        <5>1. /\ c["started"] = metrics["started"] /\ c["completed"] = metrics["completed"] + 1
              /\ c["failed"] = metrics["failed"] /\ c["cancelled"] = metrics["cancelled"]
              /\ c["timeout"] = metrics["timeout"]
          BY ONLY <2>9, <4>1
        <5> QED BY ONLY <2>7, <3>1, <3>2, <5>1
      <4>2. CASE status = "failed"
        <5>1. /\ c["started"] = metrics["started"] /\ c["failed"] = metrics["failed"] + 1
              /\ c["completed"] = metrics["completed"] /\ c["cancelled"] = metrics["cancelled"]
              /\ c["timeout"] = metrics["timeout"]
          BY ONLY <2>9, <4>2
        <5> QED BY ONLY <2>7, <3>1, <3>2, <5>1
      <4>3. CASE status = "cancelled"
        <5>1. /\ c["started"] = metrics["started"] /\ c["cancelled"] = metrics["cancelled"] + 1
              /\ c["completed"] = metrics["completed"] /\ c["failed"] = metrics["failed"]
              /\ c["timeout"] = metrics["timeout"]
          BY ONLY <2>9, <4>3
        <5> QED BY ONLY <2>7, <3>1, <3>2, <5>1
      <4>4. CASE status = "timeout"
        <5>1. /\ c["started"] = metrics["started"] /\ c["timeout"] = metrics["timeout"] + 1
              /\ c["completed"] = metrics["completed"] /\ c["failed"] = metrics["failed"]
              /\ c["cancelled"] = metrics["cancelled"]
          BY ONLY <2>9, <4>4
        <5> QED BY ONLY <2>7, <3>1, <3>2, <5>1
      <4> QED BY <2>8, <4>1, <4>2, <4>3, <4>4
    <3> QED BY <3>3 DEF l
  <2> QED BY <2>2, <2>4, <2>10 DEF Counted, c
<1>6. \A x : updated(x, e) = [x EXCEPT !.status = status, !.attempts = n]
  BY <1>4 DEF updated
<1>7. updated(entry(r, ph, at, fa), e) = entry(r, ph2, at, fa)
  <2> DEFINE x == entry(r, ph, at, fa)
  <2>1. updated(x, e) = [x EXCEPT !.status = status, !.attempts = n]
    BY <1>6
  <2> QED BY <1>2, <1>a, <2>1 DEF entry
<1>8. ASSUME NEW x \in Inspection
      PROVE  /\ updated(x, e) \in Inspection /\ updated(x, e).id = x.id
             /\ updated(x, e).status # "running"
  <2>1. updated(x, e) = [x EXCEPT !.status = status, !.attempts = n]
    BY <1>6
  <2> QED BY <1>2, <1>a, <2>1 DEF Inspection
<1> QED
  <2>1. RunsTold(ph2, at, fa, si) /\ Counted(count(known.counts, e), ph2)
    BY <1>3, <1>5 DEF metrics
  <2>2. Told(ingest(known, e), ph2, at, fa, si)
    BY <1>2, <1>3, <1>4, <1>7, <1>8, <2>1, Followed
  <2> QED BY <2>2 DEF e, ph2

(* Whether it waits for its Supervisor or for a delay is not told of a run, *)
(* and neither is a run that was refused.                                   *)
LEMMA Waiting ==
    ASSUME NEW known, NEW ph, NEW at, NEW fa, NEW si, Told(known, ph, at, fa, si),
           NEW r \in going(ph), NEW p \in Awaiting
    PROVE  Told(known, [ph EXCEPT ![r] = p], at, fa, si)
<1> DEFINE ph2 == [ph EXCEPT ![r] = p]
<1>1. /\ RunsTold(ph, at, fa, si) /\ Listed(known.registry, ph)
      /\ Entered(known.registry, ph, at, fa, si) /\ Counted(known.counts, ph)
  BY DEF Told
<1>2. /\ r \in Runs /\ ph[r] \in Awaiting /\ ph2 \in [Runs -> Phases] /\ ph2[r] = p
      /\ \A q \in Runs : q # r => ph2[q] = ph[q]
  BY <1>1 DEF RunsTold, going, Phases
<1>3. p \notin {"idle", "refused"} /\ \A x \in Awaiting : x \notin {"idle", "refused"}
  BY DEF Awaiting
<1> HIDE DEF ph2
<1>4. \A q \in Runs : has(ph2, q) <=> has(ph, q)
  BY <1>2, <1>3 DEF has
<1>5. going(ph2) = going(ph)
  BY <1>2 DEF going
<1>6. RunsTold(ph2, at, fa, si)
  BY <1>1, <1>2, <1>3 DEF RunsTold
<1>7. Listed(known.registry, ph2)
  BY <1>1, <1>4, <1>5 DEF Listed
<1>8. \A q \in Runs : entry(q, ph2, at, fa) = entry(q, ph, at, fa)
  <2> SUFFICES ASSUME NEW q \in Runs PROVE entry(q, ph2, at, fa) = entry(q, ph, at, fa)
    OBVIOUS
  <2>1. (IF ph2[q] \in Awaiting THEN "running" ELSE ph2[q])
          = (IF ph[q] \in Awaiting THEN "running" ELSE ph[q])
    BY <1>2
  <2> QED BY <2>1, Zenon DEF entry
<1>9. Entered(known.registry, ph2, at, fa, si)
  <2> SUFFICES ASSUME NEW q \in Runs, sole(ph2, q), Cardinality(si[q]) < MaxRuns
               PROVE  Found(known.registry, q, ph2, at, fa, si)
    BY DEF Entered
  <2>1. sole(ph, q)
    BY <1>4 DEF sole
  <2>2. Found(known.registry, q, ph, at, fa, si)
    BY <1>1, <2>1 DEF Entered
  <2> QED BY <1>8, <2>2 DEF Found
<1>10. Counted(known.counts, ph2)
  BY <1>1, <1>5 DEF Counted
<1> QED BY <1>6, <1>7, <1>9, <1>10 DEF Told, ph2

LEMMA Refusing ==
    ASSUME NEW known, NEW ph, NEW at, NEW fa, NEW si, Told(known, ph, at, fa, si),
           NEW r \in Runs, ph[r] = "idle"
    PROVE  Told(known, [ph EXCEPT ![r] = "refused"], at, fa, si)
<1> DEFINE ph2 == [ph EXCEPT ![r] = "refused"]
<1>1. /\ RunsTold(ph, at, fa, si) /\ Listed(known.registry, ph)
      /\ Entered(known.registry, ph, at, fa, si) /\ Counted(known.counts, ph)
  BY DEF Told
<1>2. /\ ph2 \in [Runs -> Phases] /\ ph2[r] = "refused"
      /\ \A q \in Runs : q # r => ph2[q] = ph[q]
  BY <1>1 DEF RunsTold, Phases
<1>3. "idle" \notin Awaiting /\ "refused" \notin Awaiting /\ "refused" # "idle"
  BY DEF Awaiting
<1> HIDE DEF ph2
<1>4. \A q \in Runs : has(ph2, q) <=> has(ph, q)
  BY <1>2 DEF has
<1>5. going(ph2) = going(ph)
  BY <1>2, <1>3 DEF going
<1>6. RunsTold(ph2, at, fa, si)
  BY <1>1, <1>2, <1>3 DEF RunsTold
<1>7. Listed(known.registry, ph2)
  BY <1>1, <1>4, <1>5 DEF Listed
<1>8. Entered(known.registry, ph2, at, fa, si)
  <2> SUFFICES ASSUME NEW q \in Runs, sole(ph2, q), Cardinality(si[q]) < MaxRuns
               PROVE  Found(known.registry, q, ph2, at, fa, si)
    BY DEF Entered
  <2>1. sole(ph, q) /\ q # r
    BY <1>2, <1>4 DEF sole, has
  <2>2. Found(known.registry, q, ph, at, fa, si)
    BY <1>1, <2>1 DEF Entered
  <2>3. entry(q, ph2, at, fa) = entry(q, ph, at, fa)
    BY <1>2, <2>1 DEF entry
  <2> QED BY <2>2, <2>3 DEF Found
<1>9. Counted(known.counts, ph2)
  BY <1>1, <1>5 DEF Counted
<1> QED BY <1>6, <1>7, <1>8, <1>9 DEF Told, ph2

-----------------------------------------------------------------------------
(* What a run emits before its next await.  What is known has followed it   *)
(* up to ph and fa, which differ from the variables for the run only.       *)
LEMMA Emitted ==
    ASSUME NEW r, NEW known, NEW n, NEW f, NEW next, NEW si,
           emit(r, known, n, f, next), Told(known, phase', attempts', failures', si)
    PROVE  Told(now', phase', attempts', failures', si)
BY DEF Told, emit, now

LEMMA Replaced ==
    ASSUME NEW F, NEW G, NEW S, F \in [Runs -> S], G \in [Runs -> S], NEW r \in Runs, NEW v,
           \A q \in Runs : q # r => F[q] = G[q]
    PROVE  [F EXCEPT ![r] = v] = [G EXCEPT ![r] = v]
OBVIOUS

LEMMA Cancels ==
    ASSUME NEW known, NEW ph, NEW si, Told(known, ph, attempts, failures, si),
           phase \in [Runs -> Phases], NEW r \in going(ph),
           \A q \in Runs : q # r => ph[q] = phase[q],
           cancels(r, known)
    PROVE  Told(now', phase', attempts', failures', si)
<1> DEFINE s == ingest(known, finished(r, attempts[r], "cancelled"))
<1>1. RunsTold(ph, attempts, failures, si) /\ r \in Runs
  BY DEF Told, going
<1>2. emit(r, s, attempts[r], failures[r], "cancelled")
  BY DEF cancels
<1>3. attempts' = attempts /\ failures' = failures /\ phase' = [phase EXCEPT ![r] = "cancelled"]
  BY <1>1, <1>2 DEF emit, RunsTold
<1>4. [phase EXCEPT ![r] = "cancelled"] = [ph EXCEPT ![r] = "cancelled"]
  BY <1>1 DEF RunsTold
<1>5. "cancelled" \in Statuses
  BY DEF Statuses
<1>6. Told(s, [ph EXCEPT ![r] = "cancelled"], attempts, failures, si)
  BY <1>5, HasFinished
<1> HIDE DEF s
<1> QED BY <1>2, <1>3, <1>4, <1>6, Emitted

LEMMA Tries ==
    ASSUME NEW known, NEW ph, NEW fa, NEW si, Told(known, ph, attempts, fa, si),
           phase \in [Runs -> Phases], failures \in [Runs -> Nat], NEW r \in going(ph),
           \A q \in Runs : q # r => ph[q] = phase[q] /\ fa[q] = failures[q],
           NEW f, f = fa[r], tries(r, known, f)
    PROVE  Told(now', phase', attempts', failures', si)
<1> DEFINE n == attempts[r] + 1
           at2 == [attempts EXCEPT ![r] = n]
           fa2 == [fa EXCEPT ![r] = f + 1]
           tried == ingest(known, attempt(r, n))
           told == ingest(tried, failure(r, n))
           over == ingest(told, finished(r, n, "failed"))
<1>1. RunsTold(ph, attempts, fa, si) /\ r \in Runs
  BY DEF Told, going
<1>2. emit(r, tried, n, f, "running") \/ emit(r, over, n, f + 1, "failed")
  BY DEF tries
<1>3. at2[r] = n /\ [failures EXCEPT ![r] = f] = fa /\ [failures EXCEPT ![r] = f + 1] = fa2
  <2>1. fa \in [Runs -> Nat]
    BY <1>1 DEF RunsTold
  <2>2. [failures EXCEPT ![r] = f] = [fa EXCEPT ![r] = f]
        /\ [failures EXCEPT ![r] = f + 1] = [fa EXCEPT ![r] = f + 1]
    BY <1>1, <2>1, Replaced
  <2>3. [fa EXCEPT ![r] = f] = fa
    BY <1>1, <2>1
  <2> QED BY <1>1, <2>2, <2>3 DEF RunsTold
<1>4. \A p : [phase EXCEPT ![r] = p] = [ph EXCEPT ![r] = p]
  BY <1>1, Replaced DEF RunsTold
<1>5. Told(tried, ph, at2, fa, si)
  BY Attempted
<1> HIDE DEF tried, at2, n
<1>6. CASE emit(r, tried, n, f, "running")
  <2>1. attempts' = at2 /\ failures' = fa /\ phase' = [ph EXCEPT ![r] = "running"]
    BY <1>3, <1>4, <1>6 DEF emit, at2
  <2>2. Told(tried, [ph EXCEPT ![r] = "running"], at2, fa, si)
    BY <1>5, Waiting DEF Awaiting
  <2> QED BY <1>6, <2>1, <2>2, Emitted
<1>7. CASE emit(r, over, n, f + 1, "failed")
  <2>1. Told(told, ph, at2, fa2, si)
    BY <1>3, <1>5, HasFailed
  <2> HIDE DEF told, fa2
  <2>2. Told(over, [ph EXCEPT ![r] = "failed"], at2, fa2, si)
    BY <1>3, <2>1, HasFinished DEF Statuses
  <2> HIDE DEF over
  <2>3. attempts' = at2 /\ failures' = fa2 /\ phase' = [ph EXCEPT ![r] = "failed"]
    BY <1>3, <1>4, <1>7 DEF emit, at2
  <2> QED BY <1>7, <2>2, <2>3, Emitted
<1> QED BY <1>2, <1>6, <1>7 DEF over, told

-----------------------------------------------------------------------------
(* The guard: a run that begins finds its manager free, and one that ends   *)
(* had it.                                                                  *)
LEMMA Guarded ==
    ASSUME GuardInv, phase \in [Runs -> Phases], NEW r \in Runs, NEW known,
           NEW n \in 0 .. MaxAttempts, NEW f, NEW next, emit(r, known, n, f, next),
           isActive(r) \/ managerOf[r] \notin active
    PROVE  GuardInv'
<1>1. /\ attempts' = [attempts EXCEPT ![r] = n] /\ phase' = [phase EXCEPT ![r] = next]
      /\ active' = IF next \in Awaiting THEN active \cup {managerOf[r]}
                                        ELSE active \ {managerOf[r]}
  BY DEF emit
<1>2. attempts' \in [Runs -> 0 .. MaxAttempts]
  BY <1>1 DEF GuardInv
<1>3. active' \subseteq {managerOf[q] : q \in Runs}
  BY <1>1 DEF GuardInv
<1>4. \A q \in Runs : q # r => (isActive(q)' <=> isActive(q))
  BY <1>1 DEF isActive
<1>5. isActive(r)' <=> next \in Awaiting
  BY <1>1 DEF isActive
<1>6. \A q \in Runs : q # r /\ isActive(q) => managerOf[q] \in active /\ managerOf[q] # managerOf[r]
  BY DEF GuardInv
<1>7. \A q \in Runs : isActive(q)' => managerOf[q] \in active'
  BY <1>1, <1>4, <1>5, <1>6
<1>8. \A p, q \in Runs : isActive(p)' /\ isActive(q)' /\ managerOf[p] = managerOf[q] => p = q
  BY <1>4, <1>6 DEF GuardInv
<1> QED BY <1>2, <1>3, <1>7, <1>8 DEF GuardInv

LEMMA InitInv == ASSUME Init PROVE IInv
<1>1. \A r \in Runs : phase[r] = "idle" /\ attempts[r] = 0 /\ failures[r] = 0 /\ since[r] = {}
  BY DEF Init
<1>2. GuardInv
  BY <1>1 DEF Init, GuardInv, isActive, Awaiting
<1>3. RunsTold(phase, attempts, failures, since)
  <2>1. \A r \in Runs : IsFiniteSet(since[r])
    BY <1>1, FS_EmptySet
  <2> QED BY <1>1, <2>1 DEF Init, RunsTold, Phases
<1>4. Listed(registry, phase)
  BY DEF Init, Listed
<1>5. Entered(registry, phase, attempts, failures, since)
  BY <1>1 DEF Entered, sole, has
<1>6. Counted(counts, phase)
  <2>1. going(phase) = {}
    BY <1>1 DEF going, Awaiting
  <2>2. IsFiniteSet(going(phase)) /\ Cardinality(going(phase)) = 0
    BY <2>1, FS_EmptySet
  <2> QED BY <2>2 DEF Init, Counted, Statuses
<1> QED BY <1>2, <1>3, <1>4, <1>5, <1>6 DEF IInv, Told, now

(* One lemma for each action.                                               *)
LEMMA BeginInv == ASSUME IInv, NEW r \in Runs, Begin(r) PROVE IInv'
<1> DEFINE known == ingest(now, started(r))
           ph == [phase EXCEPT ![r] = "running"]
<1>1. /\ Told(now, phase, attempts, failures, since)
      /\ RunsTold(phase, attempts, failures, since) /\ GuardInv
  BY DEF IInv, Told
<1>2. /\ phase[r] = "idle" /\ managerOf[r] \notin active
      /\ cancels(r, known) \/ tries(r, known, 0)
      /\ since' = [q \in Runs |-> IF phase[q] = "idle" THEN {} ELSE since[q] \cup {idOf[r]}]
  BY DEF Begin
<1>3. failures[r] = 0 /\ attempts[r] = 0 /\ phase \in [Runs -> Phases]
      /\ failures \in [Runs -> Nat]
  BY <1>1, <1>2 DEF RunsTold
<1>4. Told(known, ph, attempts, failures, since')
  BY <1>1, <1>2, Started
<1>5. r \in going(ph) /\ \A q \in Runs : q # r => ph[q] = phase[q]
  BY <1>3 DEF going, Awaiting
<1> HIDE DEF known, ph
<1>6. CASE cancels(r, known)
  <2>1. Told(now', phase', attempts', failures', since')
    BY <1>3, <1>4, <1>5, <1>6, Cancels
  <2>2. GuardInv'
    <3>1. PICK s : emit(r, s, attempts[r], failures[r], "cancelled")
      BY <1>6 DEF cancels
    <3>2. attempts[r] \in 0 .. MaxAttempts
      BY <1>3
    <3> QED BY <1>1, <1>2, <1>3, <3>1, <3>2, Guarded
  <2> QED BY <2>1, <2>2 DEF IInv
<1>7. CASE tries(r, known, 0)
  <2>1. Told(now', phase', attempts', failures', since')
    BY <1>3, <1>4, <1>5, <1>7, Tries
  <2>2. GuardInv'
    <3>1. PICK s, f, next : emit(r, s, attempts[r] + 1, f, next)
      BY <1>7 DEF tries
    <3>2. attempts[r] + 1 \in 0 .. MaxAttempts
      BY <1>3
    <3> QED BY <1>1, <1>2, <1>3, <3>1, <3>2, Guarded
  <2> QED BY <2>1, <2>2 DEF IInv
<1> QED BY <1>2, <1>6, <1>7

LEMMA RefuseInv == ASSUME IInv, NEW r \in Runs, Refuse(r) PROVE IInv'
<1>1. /\ phase[r] = "idle" /\ phase' = [phase EXCEPT ![r] = "refused"]
      /\ UNCHANGED <<attempts, failures, active, registry, counts, since>>
  BY DEF Refuse
<1>2. Told(now, phase, attempts, failures, since) /\ GuardInv
  BY DEF IInv
<1>3. phase \in [Runs -> Phases]
  BY <1>2 DEF Told, RunsTold
<1>4. Told(now, phase', attempts, failures, since)
  BY <1>1, <1>2, Refusing
<1>5. Told(now', phase', attempts', failures', since')
  BY <1>1, <1>4 DEF now
<1>6. \A q \in Runs : isActive(q)' => isActive(q)
  BY <1>1, <1>3 DEF isActive, Awaiting
<1>7. GuardInv'
  BY <1>1, <1>2, <1>6 DEF GuardInv
<1> QED BY <1>5, <1>7 DEF IInv

LEMMA ReturnsInv == ASSUME IInv, NEW r \in Runs, Returns(r) PROVE IInv'
<1> DEFINE n == attempts[r]
           f == failures[r] + 1
           failed == ingest(now, failure(r, n))
           fa == [failures EXCEPT ![r] = f]
<1>1. /\ Told(now, phase, attempts, failures, since)
      /\ RunsTold(phase, attempts, failures, since) /\ GuardInv
  BY DEF IInv, Told
<1>2. phase[r] = "running" /\ since' = since
  BY DEF Returns
<1>3. phase \in [Runs -> Phases] /\ failures \in [Runs -> Nat] /\ attempts \in [Runs -> Nat]
      /\ n \in 0 .. MaxAttempts
  BY <1>1 DEF RunsTold, GuardInv
<1>4. r \in going(phase) /\ isActive(r)
  BY <1>2 DEF going, isActive, Awaiting
<1>5. attempts = [attempts EXCEPT ![r] = n] /\ failures = [failures EXCEPT ![r] = failures[r]]
      /\ fa[r] = f /\ \A q \in Runs : q # r => fa[q] = failures[q]
  BY <1>3
<1>6. Told(failed, phase, attempts, fa, since)
  BY <1>1, <1>4, HasFailed
<1>7. \/ emit(r, ingest(now, finished(r, n, "completed")), n, failures[r], "completed")
      \/ n < MaxAttempts /\ emit(r, failed, n, f, "delay")
      \/ tries(r, failed, f)
      \/ \E status \in Statuses \ {"completed"} :
            emit(r, ingest(failed, finished(r, n, status)), n, f, status)
  BY DEF Returns
<1> HIDE DEF failed, f
<1>8. CASE emit(r, ingest(now, finished(r, n, "completed")), n, failures[r], "completed")
  <2> DEFINE s == ingest(now, finished(r, n, "completed"))
  <2>1. attempts' = attempts /\ failures' = failures
        /\ phase' = [phase EXCEPT ![r] = "completed"]
    BY <1>5, <1>8 DEF emit
  <2>2. Told(s, [phase EXCEPT ![r] = "completed"], attempts, failures, since)
    BY <1>1, <1>4, HasFinished DEF Statuses
  <2> HIDE DEF s
  <2>3. Told(s, phase', attempts', failures', since')
    BY <1>2, <2>1, <2>2
  <2>4. Told(now', phase', attempts', failures', since')
    BY <1>8, <2>3, Emitted DEF s
  <2>5. GuardInv'
    BY <1>1, <1>3, <1>4, <1>8, Guarded
  <2> QED BY <2>4, <2>5 DEF IInv
<1>9. CASE emit(r, failed, n, f, "delay")
  <2>1. attempts' = attempts /\ failures' = fa /\ phase' = [phase EXCEPT ![r] = "delay"]
    BY <1>5, <1>9 DEF emit
  <2>2. Told(failed, [phase EXCEPT ![r] = "delay"], attempts, fa, since)
    BY <1>4, <1>6, Waiting DEF Awaiting
  <2>3. Told(failed, phase', attempts', failures', since')
    BY <1>2, <2>1, <2>2
  <2>4. Told(now', phase', attempts', failures', since')
    BY <1>9, <2>3, Emitted
  <2>5. GuardInv'
    BY <1>1, <1>3, <1>4, <1>9, Guarded
  <2> QED BY <2>4, <2>5 DEF IInv
<1>10. CASE tries(r, failed, f)
  <2>1. Told(now', phase', attempts', failures', since')
    <3> HIDE DEF fa
    <3> QED BY <1>2, <1>3, <1>4, <1>5, <1>6, <1>10, Tries
  <2>2. GuardInv'
    <3>1. PICK s, g, next : emit(r, s, n + 1, g, next)
      BY <1>10 DEF tries
    <3>2. n + 1 \in 0 .. MaxAttempts
      BY <1>3, <1>10 DEF tries
    <3> QED BY <1>1, <1>3, <1>4, <3>1, <3>2, Guarded
  <2> QED BY <2>1, <2>2 DEF IInv
<1>11. ASSUME NEW status \in Statuses,
              emit(r, ingest(failed, finished(r, n, status)), n, f, status)
       PROVE  IInv'
  <2> DEFINE s == ingest(failed, finished(r, n, status))
  <2>1. attempts' = attempts /\ failures' = fa /\ phase' = [phase EXCEPT ![r] = status]
    BY <1>5, <1>11 DEF emit
  <2>2. Told(s, [phase EXCEPT ![r] = status], attempts, fa, since)
    BY <1>4, <1>6, HasFinished
  <2> HIDE DEF s
  <2>3. Told(s, phase', attempts', failures', since')
    BY <1>2, <2>1, <2>2
  <2>4. Told(now', phase', attempts', failures', since')
    BY <1>11, <2>3, Emitted DEF s
  <2>5. GuardInv'
    BY <1>1, <1>3, <1>4, <1>11, Guarded
  <2> QED BY <2>4, <2>5 DEF IInv
<1> QED BY <1>7, <1>8, <1>9, <1>10, <1>11

LEMMA DelayOverInv == ASSUME IInv, NEW r \in Runs, DelayOver(r) PROVE IInv'
<1>1. /\ Told(now, phase, attempts, failures, since)
      /\ RunsTold(phase, attempts, failures, since) /\ GuardInv
  BY DEF IInv, Told
<1>2. /\ phase[r] = "delay" /\ since' = since
      /\ cancels(r, now) \/ tries(r, now, failures[r])
  BY DEF DelayOver
<1>3. phase \in [Runs -> Phases] /\ failures \in [Runs -> Nat]
      /\ attempts[r] \in 0 .. MaxAttempts
  BY <1>1 DEF RunsTold, GuardInv
<1>4. r \in going(phase) /\ isActive(r)
  BY <1>2 DEF going, isActive, Awaiting
<1>5. CASE cancels(r, now)
  <2>1. Told(now', phase', attempts', failures', since')
    BY <1>1, <1>2, <1>3, <1>4, <1>5, Cancels
  <2>2. PICK s : emit(r, s, attempts[r], failures[r], "cancelled")
    BY <1>5 DEF cancels
  <2>3. GuardInv'
    BY <1>1, <1>3, <1>4, <2>2, Guarded
  <2> QED BY <2>1, <2>3 DEF IInv
<1>6. CASE tries(r, now, failures[r])
  <2>1. Told(now', phase', attempts', failures', since')
    BY <1>1, <1>2, <1>3, <1>4, <1>6, Tries
  <2>2. PICK s, f, next : emit(r, s, attempts[r] + 1, f, next)
    BY <1>6 DEF tries
  <2>3. attempts[r] + 1 \in 0 .. MaxAttempts
    BY <1>3, <1>6 DEF tries
  <2>4. GuardInv'
    BY <1>1, <1>3, <1>4, <2>2, <2>3, Guarded
  <2> QED BY <2>1, <2>4 DEF IInv
<1> QED BY <1>2, <1>5, <1>6

LEMMA StepInv == ASSUME IInv, [Next]_vars PROVE IInv'
<1>1. CASE \E r \in Runs : Begin(r)
  BY <1>1, BeginInv
<1>2. CASE \E r \in Runs : Refuse(r)
  BY <1>2, RefuseInv
<1>3. CASE \E r \in Runs : Returns(r)
  BY <1>3, ReturnsInv
<1>4. CASE \E r \in Runs : DelayOver(r)
  BY <1>4, DelayOverInv
<1>5. CASE UNCHANGED vars
  BY <1>5 DEF vars, IInv, GuardInv, isActive, now
<1> QED BY <1>1, <1>2, <1>3, <1>4, <1>5 DEF Next, Quiet

-----------------------------------------------------------------------------
(* At every moment what is known is what the runs did, and a manager is     *)
(* taken while its run is going on.                                         *)
THEOREM Invariance == Spec => []IInv
<1>1. Init => IInv
  BY InitInv
<1>2. IInv /\ [Next]_vars => IInv'
  BY StepInv
<1> QED BY <1>1, <1>2, PTL DEF Spec

(* No run is listed as running that is not, the metrics add up, and a       *)
(* manager has one run at a time.                                           *)
THEOREM NoGhosts == Spec => []NoGhostRun
<1>1. IInv => NoGhostRun
  <2> SUFFICES ASSUME IInv PROVE NoGhostRun
    OBVIOUS
  <2>1. /\ GuardInv /\ RunsTold(phase, attempts, failures, since)
        /\ Listed(registry, phase) /\ Counted(counts, phase)
    BY DEF IInv, Told, now
  <2>2. TypeOK
    BY <2>1 DEF TypeOK, GuardInv, RunsTold, Listed, Counted
  <2>3. \A r, q \in Runs :
           isActive(r) /\ isActive(q) /\ managerOf[r] = managerOf[q] => r = q
    BY <2>1 DEF GuardInv
  <2>4. \A i \in running : \E r \in Runs : isActive(r) /\ idOf[r] = registry[i].id
    BY <2>1 DEF Listed, running, going, isActive
  <2>5. going(phase) = {r \in Runs : isActive(r)}
    BY DEF going, isActive
  <2>6. counts["started"] = counts["completed"] + counts["failed"] + counts["cancelled"]
                            + counts["timeout"] + Cardinality({r \in Runs : isActive(r)})
    BY <2>1, <2>5 DEF Counted
  <2> QED BY <2>2, <2>3, <2>4, <2>6 DEF NoGhostRun
<1> QED BY <1>1, Invariance, PTL

(* An operator is told the truth of every run that is known.                *)
LEMMA InspectIsRight == ASSUME IInv PROVE InspectRight
<1> SUFFICES ASSUME NEW r \in Runs, isKnown(r)
             PROVE  \E i \in DOMAIN registry :
                       registry[i] = [id |-> idOf[r],
                                      status |-> IF isActive(r) THEN "running" ELSE phase[r],
                                      attempts |-> attempts[r], failures |-> failures[r]]
  BY DEF InspectRight
<1>1. Entered(registry, phase, attempts, failures, since)
  BY DEF IInv, Told, now
<1>2. sole(phase, r) /\ Cardinality(since[r]) < MaxRuns
  BY DEF isKnown, sole, has, begun
<1>3. Found(registry, r, phase, attempts, failures, since)
  BY <1>1, <1>2 DEF Entered
<1> QED BY <1>3 DEF Found, entry, isActive

LEMMA HealthIsRight == ASSUME IInv PROVE HealthRight
<1> SUFFICES ASSUME \A r \in Runs : isActive(r) => isKnown(r)
             PROVE  /\ health = "unhealthy" <=> \E r \in Runs : isActive(r) /\ failures[r] > 0
                    /\ health = "healthy" => \A r \in Runs : ~isActive(r)
  BY DEF HealthRight
<1>1. Listed(registry, phase)
  BY DEF IInv, Told, now
(* A run that is going on has an entry, which is the only one of its id.    *)
<1>2. ASSUME NEW r \in Runs, isActive(r)
      PROVE  \E i \in running : registry[i].id = idOf[r] /\ registry[i].failures = failures[r]
  <2>1. PICK i \in DOMAIN registry :
           registry[i] = [id |-> idOf[r], status |-> "running",
                          attempts |-> attempts[r], failures |-> failures[r]]
    BY <1>2, InspectIsRight DEF InspectRight
  <2> QED BY <2>1 DEF running
<1>3. failing <=> \E r \in Runs : isActive(r) /\ failures[r] > 0
  <2>1. ASSUME NEW i \in running, registry[i].failures > 0
        PROVE  \E r \in Runs : isActive(r) /\ failures[r] > 0
    <3>1. PICK r \in Runs : isActive(r) /\ idOf[r] = registry[i].id
      BY <1>1 DEF Listed, running, going, isActive
    <3>2. PICK j \in running : registry[j].id = idOf[r] /\ registry[j].failures = failures[r]
      BY <1>2, <3>1
    <3>3. i = j
      BY <1>1, <3>1, <3>2 DEF Listed, running
    <3> QED BY <2>1, <3>1, <3>2, <3>3
  <2>2. ASSUME NEW r \in Runs, isActive(r), failures[r] > 0 PROVE failing
    BY <1>2, <2>2 DEF failing
  <2> QED BY <2>1, <2>2 DEF failing
<1>4. health = "unhealthy" <=> failing
  BY DEF health
<1>5. health = "healthy" => running = {}
  BY DEF health
<1> QED BY <1>2, <1>3, <1>4, <1>5

(* What inspect() and health() say is true of every run whose id was not    *)
(* used again and which was not displaced (diagnostics.ts:124-143).         *)
THEOREM OperatorIsTold == Spec => []OperatorTold
<1>1. IInv => OperatorTold
  BY InspectIsRight, HealthIsRight DEF OperatorTold
<1> QED BY <1>1, Invariance, PTL
=============================================================================
