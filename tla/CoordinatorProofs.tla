-------------------------- MODULE CoordinatorProofs --------------------------
(***************************************************************************)
(* Theorems about what a Coordinator runs: its strategies and plans         *)
(* (Strategies), for every set of interleaved runs, every registration of   *)
(* agents, plan, vote and answer and every capacity of its memory; and its  *)
(* agents (Provider), for every number of threads, keys, backends and       *)
(* retries, caches of every size, and whatever of it is registered.         *)
(***************************************************************************)
EXTENDS Strategies, Provider,
        FiniteSetTheorems, SequenceTheorems, NaturalsInduction, TLAPS

-----------------------------------------------------------------------------
(* What a recursive function computes.                                      *)

(* Counting to n: a set with 0 and the successors of its members has them   *)
(* all.                                                                     *)
LEMMA UpTo ==
    ASSUME NEW n \in Nat, NEW S, 0 \in S,
           \A k \in 1 .. n : k - 1 \in S => k \in S
    PROVE  0 .. n \subseteq S
<1> DEFINE Bad == (0 .. n) \ S
<1>1. SUFFICES ASSUME Bad # {} PROVE FALSE
  OBVIOUS
<1>2. Bad \subseteq Nat
  OBVIOUS
<1>3. PICK m \in Bad : \A k \in Bad : <<k, m>> \notin OpToRel(<, Nat)
  BY <1>1, <1>2, WFMin, NatLessThanWellFounded, Zenon
<1>4. \A k \in Bad : ~(k < m)
  BY <1>2, <1>3, Zenon DEF OpToRel
<1>5. m \in 1 .. n
  OBVIOUS
<1>6. m - 1 \notin Bad
  BY <1>4, <1>5
<1>7. QED BY <1>5, <1>6

(* A function of 0 .. n given by its first value and by its steps.          *)
Iterates(g, n, V, x, h) ==
    /\ g \in [0 .. n -> V] /\ g[0] = x
    /\ \A k \in 1 .. n : g[k] = h[k][g[k - 1]]

(* There is one.                                                            *)
LEMMA Iterate ==
    ASSUME NEW n \in Nat, NEW V, NEW x \in V, NEW h \in [1 .. n -> [V -> V]]
    PROVE  \E g : Iterates(g, n, V, x, h)
<1> DEFINE Follows(m, g) == g[0] = x /\ \A k \in 1 .. m : g[k] = h[k][g[k - 1]]
           S == {m \in 0 .. n : \E g \in [0 .. m -> V] : Follows(m, g)}
<1>1. 0 \in S
  <2> DEFINE f == [k \in 0 .. 0 |-> x]
  <2>1. f \in [0 .. 0 -> V] /\ f[0] = x
    OBVIOUS
  <2>2. Follows(0, f)
    BY <2>1
  <2> HIDE DEF f, Follows
  <2>3. QED BY <2>1, <2>2
<1>2. ASSUME NEW m \in 1 .. n, m - 1 \in S PROVE m \in S
  <2>1. PICK g \in [0 .. m - 1 -> V] : Follows(m - 1, g)
    BY <1>2
  <2> DEFINE f == [k \in 0 .. m |-> IF k = m THEN h[m][g[m - 1]] ELSE g[k]]
  <2>2. h[m][g[m - 1]] \in V
    OBVIOUS
  <2>3. f \in [0 .. m -> V]
    BY <2>2
  <2>4. f[0] = x /\ f[m] = h[m][g[m - 1]] /\ \A k \in 0 .. m - 1 : f[k] = g[k]
    BY <2>1
  <2> HIDE DEF f
  <2>5. \A k \in 1 .. m : f[k] = h[k][f[k - 1]]
    <3>1. TAKE k \in 1 .. m
    <3>2. CASE k = m
      BY <3>2, <2>4
    <3>3. CASE k # m
      <4>1. k \in 1 .. m - 1 /\ k - 1 \in 0 .. m - 1 /\ k \in 0 .. m - 1
        BY <3>3
      <4>2. QED BY <4>1, <2>1, <2>4
    <3>4. QED BY <3>2, <3>3
  <2>6. Follows(m, f)
    BY <2>4, <2>5
  <2> HIDE DEF Follows
  <2>7. QED BY <2>3, <2>6
<1> HIDE DEF S
<1>3. 0 .. n \subseteq S
  BY <1>1, <1>2, UpTo
<1>4. n \in S
  BY <1>3
<1>5. QED BY <1>4 DEF S, Iterates

-----------------------------------------------------------------------------
(* Sequences, one element after the other.                                  *)

LEMMA ConcatAppend ==
    ASSUME NEW X, NEW a \in Seq(X), NEW b \in Seq(X), NEW e \in X
    PROVE  a \o Append(b, e) = Append(a \o b, e)
<1>1. a \o b \in Seq(X) /\ Append(b, e) \in Seq(X) /\ <<e>> \in Seq(X)
  OBVIOUS
<1>2. Append(b, e) = b \o <<e>> /\ Append(a \o b, e) = (a \o b) \o <<e>>
  BY <1>1, AppendIsConcat
<1>3. (a \o b) \o <<e>> = a \o (b \o <<e>>)
  BY <1>1, ConcatAssociative
<1>4. QED BY <1>2, <1>3

(* A set with <<>> and all that comes of its members by Append              *)
LEMMA ByAppend ==
    ASSUME NEW X, NEW Good, << >> \in Good,
           \A s \in Seq(X) : \A e \in X : s \in Good => Append(s, e) \in Good
    PROVE  Seq(X) \subseteq Good
<1> SUFFICES ASSUME NEW s \in Seq(X) PROVE s \in Good
  OBVIOUS
<1> DEFINE pre(n) == SubSeq(s, 1, n)
<1>1. pre(0) = <<>> /\ pre(Len(s)) = s /\ Len(s) \in Nat
  BY SubSeqEmpty, SubSeqFull
<1>2. ASSUME NEW n \in 1 .. Len(s) PROVE pre(n - 1) \in Seq(X) /\ pre(n) = Append(pre(n - 1), s[n])
  <2>1. SubSeq(s, 1, n) = SubSeq(s, 1, n - 1) \o <<s[n]>>
    BY SubSeqRecursiveSecond
  <2>2. SubSeq(s, 1, n - 1) \in Seq(X) /\ s[n] \in X
    OBVIOUS
  <2>3. QED BY <2>1, <2>2, AppendIsConcat
<1> HIDE DEF pre
<1> DEFINE S == {n \in 0 .. Len(s) : pre(n) \in Good}
<1>3. 0 \in S
  BY <1>1
<1>4. ASSUME NEW n \in 1 .. Len(s), n - 1 \in S PROVE n \in S
  <2>1. pre(n - 1) \in Seq(X) /\ pre(n - 1) \in Good /\ s[n] \in X
    BY <1>2, <1>4
  <2>2. Append(pre(n - 1), s[n]) \in Good
    BY <2>1
  <2>3. pre(n) \in Good
    BY <1>2, <2>2
  <2>4. QED BY <2>3
<1> HIDE DEF S
<1>5. 0 .. Len(s) \subseteq S
  BY <1>1, <1>3, <1>4, UpTo
<1>6. Len(s) \in S
  BY <1>1, <1>5
<1>7. QED BY <1>1, <1>6 DEF S

-----------------------------------------------------------------------------
(* keep: some members of a sequence.                                        *)

kept(s, S, n, f) ==
    /\ f[0] = <<>>
    /\ \A k \in 1 .. n : f[k] = IF s[k] \in S THEN Append(f[k - 1], s[k]) ELSE f[k - 1]

LEMMA KeepSteps ==
    ASSUME NEW X, NEW s \in Seq(X), NEW S
    PROVE  \E f \in [0 .. Len(s) -> Seq(X)] : keep(s, S) = f[Len(s)] /\ kept(s, S, Len(s), f)
<1>0. Len(s) \in Nat
  OBVIOUS
<1> DEFINE n == Len(s)
           W == Seq(X)
           e == <<>>
           h == [k \in 1 .. n |-> [t \in W |-> IF s[k] \in S THEN Append(t, s[k]) ELSE t]]
           Eq(f) == f = [k \in 0 .. n |->
              IF k = 0 THEN <<>> ELSE IF s[k] \in S THEN Append(f[k - 1], s[k]) ELSE f[k - 1]]
<1>1. e \in W /\ h \in [1 .. n -> [W -> W]]
  OBVIOUS
<1>2. PICK g : Iterates(g, n, W, e, h)
  <2> HIDE DEF n, W, e, h
  <2>1. n \in Nat
    BY <1>0 DEF n
  <2>2. QED BY <1>1, <2>1, Iterate, Zenon
<1>3. g \in [0 .. n -> W] /\ g[0] = <<>>
  BY <1>2, Zenon DEF Iterates
<1>4. \A k \in 1 .. n : g[k] = IF s[k] \in S THEN Append(g[k - 1], s[k]) ELSE g[k - 1]
  <2>1. TAKE k \in 1 .. n
  <2>2. k - 1 \in 0 .. n
    BY <1>0
  <2>3. g[k - 1] \in W
    <3> HIDE DEF W, n
    <3>1. QED BY <1>3, <2>2
  <2>4. g[k] = h[k][g[k - 1]]
    BY <1>2, Zenon DEF Iterates
  <2>5. QED
    <3> HIDE DEF W, n
    <3>1. QED BY <2>3, <2>4 DEF h
<1>5. Eq(g)
  <2> HIDE DEF W, h
  <2>1. n \in Nat /\ \A k \in 0 .. n : k = 0 \/ k \in 1 .. n
    BY <1>0
  <2> HIDE DEF n
  <2>2. QED BY <1>3, <1>4, <2>1
<1> DEFINE f == CHOOSE a : Eq(a)
<1>6. Eq(f)
  BY <1>5, Zenon
<1>7. keep(s, S) = f[Len(s)]
  BY Zenon DEF keep
<1> HIDE DEF f
<1>8. kept(s, S, n, f)
  <2>1. n \in Nat /\ 0 \in 0 .. n /\ \A k \in 1 .. n : k \in 0 .. n /\ k # 0
    BY <1>0
  <2> HIDE DEF n
  <2>2. QED BY <1>6, <2>1 DEF kept
<1>9. f \in [0 .. n -> Seq(X)]
  <2> DEFINE T == {k \in 0 .. n : f[k] \in Seq(X)}
  <2>1. 0 \in T
    <3>1. f[0] = <<>>
      BY <1>8 DEF kept
    <3>2. f[0] \in Seq(X)
      BY <3>1
    <3>3. QED BY <1>0, <3>2
  <2>2. ASSUME NEW k \in 1 .. n, k - 1 \in T PROVE k \in T
    <3>1. f[k - 1] \in Seq(X) /\ s[k] \in X
      BY <1>0, <2>2
    <3>2. f[k] = IF s[k] \in S THEN Append(f[k - 1], s[k]) ELSE f[k - 1]
      BY <1>8 DEF kept
    <3>3. f[k] \in Seq(X)
      BY <3>1, <3>2
    <3>4. QED BY <3>3
  <2> HIDE DEF T
  <2>3. 0 .. n \subseteq T
    BY <1>0, <2>1, <2>2, UpTo
  <2>4. QED BY <1>6, <2>3 DEF T
<1>10. QED BY <1>7, <1>8, <1>9

LEMMA KeepType ==
    ASSUME NEW X, NEW s \in Seq(X), NEW S
    PROVE  keep(s, S) \in Seq(X)
<1>1. PICK f \in [0 .. Len(s) -> Seq(X)] : keep(s, S) = f[Len(s)]
  BY KeepSteps
<1>2. Len(s) \in 0 .. Len(s)
  OBVIOUS
<1>3. QED BY <1>1, <1>2

LEMMA KeepEmpty ==
    ASSUME NEW S
    PROVE  keep(<<>>, S) = <<>>
<1>1. <<>> \in Seq({}) /\ Len(<<>>) = 0
  OBVIOUS
<1>2. PICK f \in [0 .. Len(<<>>) -> Seq({})] :
         keep(<<>>, S) = f[Len(<<>>)] /\ kept(<<>>, S, Len(<<>>), f)
  BY <1>1, KeepSteps
<1>3. QED BY <1>1, <1>2 DEF kept

LEMMA KeepAppend ==
    ASSUME NEW X, NEW s \in Seq(X), NEW e \in X, NEW S
    PROVE  keep(Append(s, e), S) = IF e \in S THEN Append(keep(s, S), e) ELSE keep(s, S)
<1> DEFINE t == Append(s, e)
<1>0. /\ Len(s) \in Nat /\ t \in Seq(X) /\ Len(t) = Len(s) + 1
      /\ \A k \in 1 .. Len(s) : t[k] = s[k]
      /\ t[Len(s) + 1] = e
  OBVIOUS
<1> HIDE DEF t
<1>1. PICK f \in [0 .. Len(t) -> Seq(X)] : keep(t, S) = f[Len(t)] /\ kept(t, S, Len(t), f)
  BY <1>0, KeepSteps
<1>2. PICK g \in [0 .. Len(s) -> Seq(X)] : keep(s, S) = g[Len(s)] /\ kept(s, S, Len(s), g)
  BY KeepSteps
<1> DEFINE T == {k \in 0 .. Len(s) : f[k] = g[k]}
<1>3. 0 \in T
  BY <1>0, <1>1, <1>2 DEF kept
<1>4. ASSUME NEW k \in 1 .. Len(s), k - 1 \in T PROVE k \in T
  <2>1. f[k - 1] = g[k - 1] /\ t[k] = s[k] /\ k \in 1 .. Len(t)
    BY <1>0, <1>4
  <2>2. f[k] = IF t[k] \in S THEN Append(f[k - 1], t[k]) ELSE f[k - 1]
    BY <1>1, <2>1 DEF kept
  <2>3. g[k] = IF s[k] \in S THEN Append(g[k - 1], s[k]) ELSE g[k - 1]
    BY <1>2 DEF kept
  <2>4. f[k] = g[k]
    BY <2>1, <2>2, <2>3
  <2>5. QED BY <2>4
<1> HIDE DEF T
<1>5. Len(s) \in T
  <2>1. 0 .. Len(s) \subseteq T
    BY <1>0, <1>3, <1>4, UpTo
  <2>2. QED BY <1>0, <2>1
<1>6. f[Len(s)] = keep(s, S)
  BY <1>2, <1>5 DEF T
<1>7. f[Len(t)] = IF t[Len(t)] \in S THEN Append(f[Len(t) - 1], t[Len(t)]) ELSE f[Len(t) - 1]
  BY <1>0, <1>1 DEF kept
<1>8. Len(t) - 1 = Len(s)
  BY <1>0
<1>9. QED BY <1>0, <1>1, <1>6, <1>7, <1>8 DEF t

LEMMA KeepConcat ==
    ASSUME NEW X, NEW s \in Seq(X), NEW t \in Seq(X), NEW S
    PROVE  keep(s \o t, S) = keep(s, S) \o keep(t, S)
<1> DEFINE Good == {u \in Seq(X) : keep(s \o u, S) = keep(s, S) \o keep(u, S)}
<1>0. keep(s, S) \in Seq(X)
  BY KeepType
<1>1. <<>> \in Good
  <2>1. s \o <<>> = s /\ keep(s, S) \o <<>> = keep(s, S)
    BY <1>0
  <2>2. keep(s \o <<>>, S) = keep(s, S) \o keep(<<>>, S)
    BY <2>1, KeepEmpty
  <2>3. QED BY <2>2
<1>2. ASSUME NEW u \in Seq(X), NEW e \in X, u \in Good PROVE Append(u, e) \in Good
  <2>1. s \o Append(u, e) = Append(s \o u, e) /\ s \o u \in Seq(X)
    OBVIOUS
  <2>2. keep(u, S) \in Seq(X)
    BY KeepType
  <2>3. keep(Append(s \o u, e), S) = IF e \in S THEN Append(keep(s \o u, S), e) ELSE keep(s \o u, S)
    BY <2>1, KeepAppend
  <2>4. keep(Append(u, e), S) = IF e \in S THEN Append(keep(u, S), e) ELSE keep(u, S)
    BY KeepAppend
  <2>5. Append(keep(s, S) \o keep(u, S), e) = keep(s, S) \o Append(keep(u, S), e)
    <3> DEFINE a == keep(s, S)
               b == keep(u, S)
    <3> HIDE DEF a, b
    <3>1. a \in Seq(X) /\ b \in Seq(X)
      BY <1>0, <2>2 DEF a, b
    <3>2. a \o Append(b, e) = Append(a \o b, e)
      BY <3>1, ConcatAppend
    <3>3. QED BY <3>2 DEF a, b
  <2>6. keep(s \o Append(u, e), S) = keep(s, S) \o keep(Append(u, e), S)
    BY <1>2, <2>1, <2>3, <2>4, <2>5
  <2>7. QED BY <2>6
<1> HIDE DEF Good
<1>3. Seq(X) \subseteq Good
  BY <1>1, <1>2, ByAppend
<1>4. QED BY <1>3 DEF Good

(* Only of the members of the sequence does it matter whether they are kept.*)
LEMMA KeepSame ==
    ASSUME NEW X, NEW s \in Seq(X), NEW S, NEW T,
           \A i \in DOMAIN s : s[i] \in S <=> s[i] \in T
    PROVE  keep(s, S) = keep(s, T)
<1> DEFINE Y == {e \in X : e \in S <=> e \in T}
           Good == {u \in Seq(Y) : keep(u, S) = keep(u, T)}
<1>1. s \in Seq(Y)
  OBVIOUS
<1>2. <<>> \in Good
  BY KeepEmpty
<1>3. ASSUME NEW u \in Seq(Y), NEW e \in Y, u \in Good PROVE Append(u, e) \in Good
  <2>0. e \in S <=> e \in T
    OBVIOUS
  <2> HIDE DEF Y
  <2>1. keep(Append(u, e), S) = IF e \in S THEN Append(keep(u, S), e) ELSE keep(u, S)
    BY KeepAppend
  <2>2. keep(Append(u, e), T) = IF e \in T THEN Append(keep(u, T), e) ELSE keep(u, T)
    BY KeepAppend
  <2>3. keep(u, S) = keep(u, T)
    BY <1>3
  <2>4. keep(Append(u, e), S) = keep(Append(u, e), T)
    BY <2>0, <2>1, <2>2, <2>3
  <2>5. Append(u, e) \in Seq(Y)
    OBVIOUS
  <2>6. QED BY <2>4, <2>5
<1> HIDE DEF Good, Y
<1>4. Seq(Y) \subseteq Good
  BY <1>2, <1>3, ByAppend
<1>5. QED BY <1>1, <1>4 DEF Good

LEMMA KeepTwice ==
    ASSUME NEW X, NEW s \in Seq(X), NEW S, NEW T
    PROVE  keep(keep(s, S), T) = keep(s, S \cap T)
<1> DEFINE Good == {u \in Seq(X) : keep(keep(u, S), T) = keep(u, S \cap T)}
<1>1. <<>> \in Good
  BY KeepEmpty
<1>2. ASSUME NEW u \in Seq(X), NEW e \in X, u \in Good PROVE Append(u, e) \in Good
  <2>1. keep(u, S) \in Seq(X)
    BY KeepType
  <2>2. keep(Append(u, e), S) = IF e \in S THEN Append(keep(u, S), e) ELSE keep(u, S)
    BY KeepAppend
  <2>3. keep(Append(keep(u, S), e), T) =
          IF e \in T THEN Append(keep(keep(u, S), T), e) ELSE keep(keep(u, S), T)
    BY <2>1, KeepAppend
  <2>4. keep(Append(u, e), S \cap T) =
          IF e \in S \cap T THEN Append(keep(u, S \cap T), e) ELSE keep(u, S \cap T)
    BY KeepAppend
  <2>5. keep(keep(u, S), T) = keep(u, S \cap T)
    BY <1>2
  <2>6. keep(keep(Append(u, e), S), T) = keep(Append(u, e), S \cap T)
    <3>1. CASE e \in S
      <4>1. keep(Append(u, e), S) = Append(keep(u, S), e)
        BY <2>2, <3>1
      <4>2. keep(keep(Append(u, e), S), T) =
              IF e \in T THEN Append(keep(u, S \cap T), e) ELSE keep(u, S \cap T)
        BY <2>3, <2>5, <4>1, Zenon
      <4>3. QED BY <2>4, <3>1, <4>2
    <3>2. CASE e \notin S
      BY <2>2, <2>4, <2>5, <3>2
    <3>3. QED BY <3>1, <3>2
  <2>7. QED BY <2>6
<1> HIDE DEF Good
<1>3. Seq(X) \subseteq Good
  BY <1>1, <1>2, ByAppend
<1>4. QED BY <1>3 DEF Good

(* All or none of it is kept.                                               *)
LEMMA KeepAll ==
    ASSUME NEW X, NEW s \in Seq(X), NEW S
    PROVE  /\ (\A i \in DOMAIN s : s[i] \in S) => keep(s, S) = s
           /\ (\A i \in DOMAIN s : s[i] \notin S) => keep(s, S) = <<>>
<1>1. ASSUME \A i \in DOMAIN s : s[i] \in S PROVE keep(s, S) = s
  <2> DEFINE Y == X \cap S
             Good == {u \in Seq(Y) : keep(u, S) = u}
  <2>1. s \in Seq(Y)
    BY <1>1
  <2>2. <<>> \in Good
    BY KeepEmpty
  <2>3. ASSUME NEW u \in Seq(Y), NEW e \in Y, u \in Good PROVE Append(u, e) \in Good
    <3>1. e \in S
      OBVIOUS
    <3> HIDE DEF Y
    <3>2. keep(Append(u, e), S) = Append(keep(u, S), e)
      BY <3>1, KeepAppend
    <3>3. QED BY <2>3, <3>2
  <2> HIDE DEF Good, Y
  <2>4. Seq(Y) \subseteq Good
    BY <2>2, <2>3, ByAppend
  <2>5. QED BY <2>1, <2>4 DEF Good
<1>2. ASSUME \A i \in DOMAIN s : s[i] \notin S PROVE keep(s, S) = <<>>
  <2> DEFINE Y == X \ S
             Good == {u \in Seq(Y) : keep(u, S) = <<>>}
  <2>1. s \in Seq(Y)
    BY <1>2
  <2>2. <<>> \in Good
    BY KeepEmpty
  <2>3. ASSUME NEW u \in Seq(Y), NEW e \in Y, u \in Good PROVE Append(u, e) \in Good
    <3>1. e \notin S
      OBVIOUS
    <3> HIDE DEF Y
    <3>2. keep(Append(u, e), S) = keep(u, S)
      BY <3>1, KeepAppend
    <3>3. QED BY <2>3, <3>2
  <2> HIDE DEF Good, Y
  <2>4. Seq(Y) \subseteq Good
    BY <2>2, <2>3, ByAppend
  <2>5. QED BY <2>1, <2>4 DEF Good
<1>3. QED BY <1>1, <1>2

(* What is kept is a member that is to be kept; whatever is such is kept.   *)
LEMMA KeepMembers ==
    ASSUME NEW X, NEW s \in Seq(X), NEW S
    PROVE  ToSet(keep(s, S)) = ToSet(s) \cap S
<1> DEFINE Good == {u \in Seq(X) : ToSet(keep(u, S)) = ToSet(u) \cap S}
<1>0. ASSUME NEW u \in Seq(X), NEW e \in X PROVE ToSet(Append(u, e)) = ToSet(u) \cup {e}
  <2>1. /\ DOMAIN Append(u, e) = 1 .. Len(u) + 1 /\ DOMAIN u = 1 .. Len(u) /\ Len(u) \in Nat
        /\ \A i \in 1 .. Len(u) : Append(u, e)[i] = u[i]
        /\ Append(u, e)[Len(u) + 1] = e
    OBVIOUS
  <2>2. QED BY <2>1 DEF ToSet
<1>1. <<>> \in Good
  <2>1. ToSet(<<>>) = {}
    BY DEF ToSet
  <2>2. QED BY <2>1, KeepEmpty
<1>2. ASSUME NEW u \in Seq(X), NEW e \in X, u \in Good PROVE Append(u, e) \in Good
  <2>1. keep(Append(u, e), S) = IF e \in S THEN Append(keep(u, S), e) ELSE keep(u, S)
    BY KeepAppend
  <2>2. keep(u, S) \in Seq(X)
    BY KeepType
  <2>3. ToSet(Append(keep(u, S), e)) = ToSet(keep(u, S)) \cup {e}
    BY <1>0, <2>2
  <2>4. ToSet(Append(u, e)) = ToSet(u) \cup {e}
    BY <1>0
  <2>5. ToSet(keep(u, S)) = ToSet(u) \cap S
    BY <1>2
  <2>6. ToSet(keep(Append(u, e), S)) = ToSet(Append(u, e)) \cap S
    BY <2>1, <2>3, <2>4, <2>5
  <2>7. QED BY <2>6
<1> HIDE DEF Good
<1>3. Seq(X) \subseteq Good
  BY <1>1, <1>2, ByAppend
<1>4. QED BY <1>3 DEF Good

-----------------------------------------------------------------------------
(* Routing: who gets a task.                                                *)

PlanTask(I, D, A, K) == [id : I, deps : D, agent : A, caps : SUBSET K]

(* The worker w may get the task t.                                         *)
Assigned(t, w, team) ==
    /\ w \in ToSet(team)
    /\ t.agent \in ToSet(team) => w = t.agent
    /\ (t.agent \notin ToSet(team) /\ \E v \in ToSet(team) : t.caps \subseteq CapsOf[v])
       => t.caps \subseteq CapsOf[w]

LEMMA Member ==
    ASSUME NEW X, NEW s \in Seq(X)
    PROVE  /\ ToSet(s) \subseteq X
           /\ s # <<>> => /\ Len(s) \in Nat \ {0}
                          /\ \A c \in Nat : s[(c % Len(s)) + 1] \in ToSet(s)
           /\ s = <<>> => ToSet(s) = {}
<1>1. Len(s) \in Nat /\ DOMAIN s = 1 .. Len(s)
  OBVIOUS
<1>2. ToSet(s) \subseteq X
  BY <1>1 DEF ToSet
<1>3. ASSUME s # <<>>
      PROVE  Len(s) \in Nat \ {0} /\ \A c \in Nat : s[(c % Len(s)) + 1] \in ToSet(s)
  <2>1. Len(s) \in Nat \ {0}
    BY <1>3
  <2>2. ASSUME NEW c \in Nat, NEW n \in Nat \ {0} PROVE (c % n) + 1 \in 1 .. n
    OBVIOUS
  <2>3. ASSUME NEW c \in Nat PROVE s[(c % Len(s)) + 1] \in ToSet(s)
    <3> DEFINE k == (c % Len(s)) + 1
    <3>1. k \in DOMAIN s
      BY <1>1, <2>1, <2>2
    <3> HIDE DEF k
    <3>2. s[k] \in ToSet(s)
      BY <3>1 DEF ToSet
    <3>3. QED BY <3>2 DEF k
  <2>4. QED BY <2>1, <2>3
<1>4. s = <<>> => ToSet(s) = {}
  BY DEF ToSet
<1>5. QED BY <1>2, <1>3, <1>4

LEMMA AssignRight ==
    ASSUME NEW I, NEW D, NEW A, NEW K, NEW t \in PlanTask(I, D, A, K),
           NEW team \in Seq(A), team # <<>>, NEW cursor \in Nat
    PROVE  /\ assign(t, team, cursor).cursor \in Nat
           /\ assign(t, team, cursor).agent \in A
           /\ Assigned(t, assign(t, team, cursor).agent, team)
<1> DEFINE S == {w \in ToSet(team) : t.caps \subseteq CapsOf[w]}
           able == keep(team, S)
           pool == IF t.caps # {} /\ able # <<>> THEN able ELSE team
<1>1. able \in Seq(A) /\ ToSet(able) = S
  <2>1. ToSet(able) = ToSet(team) \cap S
    BY KeepMembers
  <2>2. QED BY <2>1, KeepType
<1>2. ToSet(team) \subseteq A
  BY Member
<1>3. CASE t.agent \in ToSet(team)
  <2>1. assign(t, team, cursor) = [agent |-> t.agent, cursor |-> cursor]
    BY <1>3 DEF assign
  <2>2. QED BY <1>2, <1>3, <2>1 DEF Assigned
<1>4. CASE t.agent \notin ToSet(team)
  <2> DEFINE w == pool[(cursor % Len(pool)) + 1]
  <2>1. assign(t, team, cursor) = [agent |-> w, cursor |-> cursor + 1]
    BY <1>4 DEF assign
  <2>2. pool \in Seq(A) /\ pool # <<>>
    BY <1>1
  <2>3. w \in ToSet(pool)
    <3> HIDE DEF pool
    <3>1. QED BY <2>2, Member
  <2> HIDE DEF w
  <2>4. w \in ToSet(team)
    BY <1>1, <2>3
  <2>5. ASSUME NEW v \in ToSet(team), t.caps \subseteq CapsOf[v] PROVE t.caps \subseteq CapsOf[w]
    <3>1. CASE t.caps = {}
      BY <3>1
    <3>2. CASE t.caps # {}
      <4>1. v \in S
        BY <2>5
      <4>2. able # <<>>
        <5> HIDE DEF S, able
        <5>1. able = <<>> => ToSet(able) = {}
          BY <1>1, Member
        <5>2. QED BY <1>1, <4>1, <5>1
      <4>3. pool = able
        BY <3>2, <4>2
      <4>4. w \in S
        BY <1>1, <2>3, <4>3
      <4>5. QED BY <4>4
    <3>3. QED BY <3>1, <3>2
  <2>6. Assigned(t, w, team)
    BY <1>4, <2>4, <2>5 DEF Assigned
  <2>7. assign(t, team, cursor).agent = w /\ assign(t, team, cursor).cursor = cursor + 1
    BY <2>1
  <2>8. QED BY <1>2, <2>4, <2>6, <2>7
<1>5. QED BY <1>3, <1>4

WorkOf(I, D, A, K) == [tasks : Seq(PlanTask(I, D, A, K)), cursor : Nat]

LEMMA RouteOne ==
    ASSUME NEW I, NEW D, NEW A, NEW K, NEW work \in WorkOf(I, D, A, K),
           NEW team \in Seq(A), team # <<>>, NEW n \in 1 .. Len(work.tasks)
    PROVE  /\ routedOne(work, n, team) \in WorkOf(I, D, A, K)
           /\ Len(routedOne(work, n, team).tasks) = Len(work.tasks)
           /\ \A i \in 1 .. Len(work.tasks) : i # n => routedOne(work, n, team).tasks[i] = work.tasks[i]
           /\ \E w \in A : /\ routedOne(work, n, team).tasks[n] = [work.tasks[n] EXCEPT !.agent = w]
                           /\ Assigned(work.tasks[n], w, team)
<1> DEFINE ts == work.tasks
           T == PlanTask(I, D, A, K)
           a == assign(ts[n], team, work.cursor)
           u == [ts[n] EXCEPT !.agent = a.agent]
           us == [ts EXCEPT ![n] = u]
<1>1. ts \in Seq(T) /\ work.cursor \in Nat
  BY DEF WorkOf
<1>2. ts[n] \in T
  BY <1>1
<1>3. a.cursor \in Nat /\ a.agent \in A /\ Assigned(ts[n], a.agent, team)
  BY <1>1, <1>2, AssignRight
<1>4. routedOne(work, n, team) = [tasks |-> us, cursor |-> a.cursor]
  BY DEF routedOne
<1> HIDE DEF a
<1>5. u \in T
  BY <1>2, <1>3 DEF PlanTask
<1> HIDE DEF u, T
<1>6. us \in Seq(T) /\ Len(us) = Len(ts) /\ us[n] = u /\ \A i \in 1 .. Len(ts) : i # n => us[i] = ts[i]
  BY <1>1, <1>5
<1> HIDE DEF us
<1>7. routedOne(work, n, team).tasks = us /\ routedOne(work, n, team).cursor = a.cursor
  BY <1>4
<1>8. routedOne(work, n, team) \in WorkOf(I, D, A, K)
  BY <1>3, <1>4, <1>6 DEF WorkOf, T
<1>9. QED BY <1>3, <1>6, <1>7, <1>8 DEF u

(* Routing them one after the other gives each of them a worker.            *)
LEMMA RoutedEach ==
    ASSUME NEW I, NEW D, NEW A, NEW K, NEW work \in WorkOf(I, D, A, K),
           NEW team \in Seq(A), team # <<>>
    PROVE  /\ routed(work, team) \in WorkOf(I, D, A, K)
           /\ Len(routed(work, team).tasks) = Len(work.tasks)
           /\ \A i \in 1 .. Len(work.tasks) : \E w \in A :
                 /\ routed(work, team).tasks[i] = [work.tasks[i] EXCEPT !.agent = w]
                 /\ Assigned(work.tasks[i], w, team)
<1> DEFINE n == Len(work.tasks)
           W == {v \in WorkOf(I, D, A, K) : Len(v.tasks) = n}
           h == [k \in 1 .. n |-> [v \in W |-> routedOne(v, k, team)]]
           Eq(f) == f = [k \in 0 .. n |-> IF k = 0 THEN work ELSE routedOne(f[k - 1], k, team)]
<1>1. n \in Nat /\ work \in W
  BY DEF WorkOf
<1>2. ASSUME NEW k \in 1 .. n, NEW v \in W PROVE routedOne(v, k, team) \in W
  BY <1>2, RouteOne
<1>3. h \in [1 .. n -> [W -> W]]
  <2> HIDE DEF W, n
  <2>1. QED BY <1>2
<1>4. PICK g : Iterates(g, n, W, work, h)
  <2> HIDE DEF n, W, h
  <2>1. QED BY <1>1, <1>3, Iterate, Zenon
<1>5. g \in [0 .. n -> W] /\ g[0] = work
  BY <1>4, Zenon DEF Iterates
<1>6. ASSUME NEW k \in 1 .. n PROVE g[k - 1] \in W /\ g[k] = routedOne(g[k - 1], k, team)
  <2>1. k - 1 \in 0 .. n
    BY <1>1
  <2> HIDE DEF W, n
  <2>2. g[k - 1] \in W
    BY <1>5, <2>1
  <2>3. g[k] = h[k][g[k - 1]]
    BY <1>4, Zenon DEF Iterates
  <2>4. QED BY <2>2, <2>3 DEF h
<1>7. Eq(g)
  <2>1. n \in Nat /\ \A k \in 0 .. n : k = 0 \/ k \in 1 .. n
    BY <1>1
  <2> HIDE DEF n, W, h
  <2>2. QED BY <1>5, <1>6, <2>1
<1> DEFINE f == CHOOSE a : Eq(a)
<1>8. Eq(f)
  BY <1>7, Zenon
<1>9. routed(work, team) = f[n]
  BY Zenon DEF routed
<1> HIDE DEF f
<1>10. f[0] = work /\ \A k \in 1 .. n : f[k] = routedOne(f[k - 1], k, team)
  <2>1. n \in Nat /\ 0 \in 0 .. n /\ \A k \in 1 .. n : k \in 0 .. n /\ k # 0
    BY <1>1
  <2> HIDE DEF n, W, h
  <2>2. QED BY <1>8, <2>1
<1> DEFINE Got(v, i) == \E w \in A : /\ v.tasks[i] = [work.tasks[i] EXCEPT !.agent = w]
                                     /\ Assigned(work.tasks[i], w, team)
           S == {k \in 0 .. n : /\ f[k] \in W
                                /\ \A i \in 1 .. k : Got(f[k], i)
                                /\ \A i \in k + 1 .. n : f[k].tasks[i] = work.tasks[i]}
<1>11. 0 \in S
  <2>1. 0 \in 0 .. n /\ f[0] \in W /\ \A i \in 0 + 1 .. n : f[0].tasks[i] = work.tasks[i]
    BY <1>1, <1>10
  <2>2. 1 .. 0 = {}
    OBVIOUS
  <2> HIDE DEF Got, W, n
  <2>3. QED BY <2>1, <2>2
<1>12. ASSUME NEW k \in 1 .. n, k - 1 \in S PROVE k \in S
  <2>1. /\ f[k - 1] \in W /\ f[k - 1].tasks[k] = work.tasks[k]
        /\ \A i \in 1 .. k - 1 : Got(f[k - 1], i)
        /\ \A i \in k + 1 .. n : f[k - 1].tasks[i] = work.tasks[i]
    <3>1. /\ f[k - 1] \in W
          /\ \A i \in 1 .. k - 1 : Got(f[k - 1], i)
          /\ \A i \in (k - 1) + 1 .. n : f[k - 1].tasks[i] = work.tasks[i]
      BY <1>12
    <3>2. k \in (k - 1) + 1 .. n /\ \A i \in k + 1 .. n : i \in (k - 1) + 1 .. n
      BY <1>1
    <3> HIDE DEF W, n, Got
    <3>3. QED BY <3>1, <3>2
  <2>2. f[k] = routedOne(f[k - 1], k, team)
    BY <1>10
  <2>3. f[k - 1] \in WorkOf(I, D, A, K) /\ Len(f[k - 1].tasks) = n
    BY <2>1
  <2>4. /\ f[k] \in W
        /\ \A i \in 1 .. n : i # k => f[k].tasks[i] = f[k - 1].tasks[i]
        /\ \E w \in A : /\ f[k].tasks[k] = [f[k - 1].tasks[k] EXCEPT !.agent = w]
                        /\ Assigned(f[k - 1].tasks[k], w, team)
    <3> DEFINE v == f[k - 1]
    <3>1. v \in WorkOf(I, D, A, K) /\ Len(v.tasks) = n /\ k \in 1 .. Len(v.tasks)
      BY <2>3
    <3> HIDE DEF v
    <3>2. /\ routedOne(v, k, team) \in WorkOf(I, D, A, K)
          /\ Len(routedOne(v, k, team).tasks) = n
          /\ \A i \in 1 .. n : i # k => routedOne(v, k, team).tasks[i] = v.tasks[i]
          /\ \E w \in A : /\ routedOne(v, k, team).tasks[k] = [v.tasks[k] EXCEPT !.agent = w]
                          /\ Assigned(v.tasks[k], w, team)
      BY <3>1, RouteOne
    <3>3. f[k] = routedOne(v, k, team)
      BY <2>2 DEF v
    <3> HIDE DEF n, Got
    <3>4. QED BY <3>2, <3>3 DEF v
  <2>5. \A i \in k + 1 .. n : i \in 1 .. n /\ i # k
    BY <1>1
  <2>6. \A i \in 1 .. k : i = k \/ i \in 1 .. k - 1
    OBVIOUS
  <2>7. \A i \in 1 .. k - 1 : i \in 1 .. n /\ i # k
    BY <1>1
  <2>8. \A i \in k + 1 .. n : f[k].tasks[i] = work.tasks[i]
    <3> HIDE DEF n, W, Got
    <3>1. QED BY <2>1, <2>4, <2>5
  <2>9. Got(f[k], k)
    BY <2>1, <2>4
  <2>10. \A i \in 1 .. k - 1 : Got(f[k], i)
    <3>1. TAKE i \in 1 .. k - 1
    <3>2. f[k].tasks[i] = f[k - 1].tasks[i]
      <4> HIDE DEF n, W, Got
      <4>1. QED BY <2>4, <2>7
    <3>3. Got(f[k - 1], i)
      BY <2>1
    <3>4. QED BY <3>2, <3>3
  <2>11. \A i \in 1 .. k : Got(f[k], i)
    <3> HIDE DEF n, W, Got
    <3>1. QED BY <2>6, <2>9, <2>10
  <2>12. k \in 0 .. n
    BY <1>1
  <2>13. QED
    <3> HIDE DEF n, W, Got
    <3>1. QED BY <2>4, <2>8, <2>11, <2>12
<1> HIDE DEF S
<1>13. n \in S
  <2>1. 0 .. n \subseteq S
    <3> HIDE DEF n
    <3>1. QED BY <1>1, <1>11, <1>12, UpTo
  <2>2. n \in 0 .. n
    BY <1>1
  <2>3. QED BY <2>1, <2>2
<1>14. f[n] \in W /\ \A i \in 1 .. n : Got(f[n], i)
  <2> HIDE DEF n, W, Got
  <2>1. QED BY <1>13 DEF S
<1>15. QED BY <1>9, <1>14

(* So a routed list has the same tasks, and its tasks have workers.         *)
LEMMA RoutedTasks ==
    ASSUME NEW I, NEW D, NEW A, NEW K, NEW work \in WorkOf(I, D, A, K),
           NEW team \in Seq(A), team # <<>>
    PROVE  LET done == routed(work, team).tasks IN
           /\ routed(work, team) \in WorkOf(I, D, A, K)
           /\ SameTasks(work.tasks, done)
           /\ \A i \in DOMAIN work.tasks :
                 done[i].caps = work.tasks[i].caps /\ Assigned(work.tasks[i], done[i].agent, team)
<1> DEFINE ts == work.tasks
           done == routed(work, team).tasks
<1>1. ts \in Seq(PlanTask(I, D, A, K)) /\ DOMAIN ts = 1 .. Len(ts)
  BY DEF WorkOf
<1>2. /\ routed(work, team) \in WorkOf(I, D, A, K)
      /\ Len(done) = Len(ts)
      /\ \A i \in 1 .. Len(ts) : \E w \in A :
            done[i] = [ts[i] EXCEPT !.agent = w] /\ Assigned(ts[i], w, team)
  BY RoutedEach
<1>3. DOMAIN done = DOMAIN ts
  <2>1. done \in Seq(PlanTask(I, D, A, K))
    BY <1>2 DEF WorkOf
  <2> HIDE DEF done, ts
  <2>2. QED BY <1>1, <1>2, <2>1
<1>4. ASSUME NEW i \in DOMAIN ts
      PROVE  /\ done[i].id = ts[i].id /\ done[i].deps = ts[i].deps /\ done[i].caps = ts[i].caps
             /\ Assigned(ts[i], done[i].agent, team)
  <2>1. ts[i] \in PlanTask(I, D, A, K)
    BY <1>1
  <2>2. PICK w \in A : done[i] = [ts[i] EXCEPT !.agent = w] /\ Assigned(ts[i], w, team)
    BY <1>1, <1>2
  <2>3. done[i].agent = w
    BY <2>1, <2>2 DEF PlanTask
  <2>4. QED BY <2>1, <2>2, <2>3 DEF PlanTask
<1>5. QED BY <1>2, <1>3, <1>4 DEF SameTasks

(* After a repair, moreover, the workers have the capabilities.             *)
LEMMA RepairedTasks ==
    ASSUME NEW I, NEW D, NEW A, NEW K, NEW work \in WorkOf(I, D, A, K),
           NEW team \in Seq(A), team # <<>>
    PROVE  LET done == repaired(work, team).tasks IN
           /\ repaired(work, team) \in WorkOf(I, D, A, K)
           /\ SameTasks(work.tasks, done)
           /\ \A i \in DOMAIN work.tasks :
                 /\ done[i].caps \subseteq knownCaps(team)
                 /\ Assigned(work.tasks[i], done[i].agent, team)
<1> DEFINE ts == work.tasks
           v == routed(work, team)
           us == v.tasks
           done == [i \in DOMAIN us |-> supported(us[i], team)]
<1>1. /\ v \in WorkOf(I, D, A, K) /\ SameTasks(ts, us)
      /\ \A i \in DOMAIN ts : us[i].caps = ts[i].caps /\ Assigned(ts[i], us[i].agent, team)
  BY RoutedTasks
<1>2. repaired(work, team) = [v EXCEPT !.tasks = done]
  BY DEF repaired
<1> HIDE DEF v
<1>3. us \in Seq(PlanTask(I, D, A, K)) /\ v.cursor \in Nat
  BY <1>1 DEF WorkOf
<1>4. ASSUME NEW i \in DOMAIN us
      PROVE  /\ done[i] \in PlanTask(I, D, A, K) /\ done[i].id = us[i].id /\ done[i].deps = us[i].deps
             /\ done[i].agent = us[i].agent /\ done[i].caps \subseteq knownCaps(team)
  <2>1. us[i] \in PlanTask(I, D, A, K)
    BY <1>3
  <2>2. done[i] = [us[i] EXCEPT !.caps = us[i].caps \cap knownCaps(team)]
    BY DEF supported
  <2> HIDE DEF us, done
  <2>3. QED BY <2>1, <2>2 DEF PlanTask
<1>5. done \in Seq(PlanTask(I, D, A, K)) /\ DOMAIN done = DOMAIN us
  <2>1. DOMAIN done = DOMAIN us /\ DOMAIN us = 1 .. Len(us) /\ Len(us) \in Nat
    BY <1>3
  <2> DEFINE T == PlanTask(I, D, A, K)
  <2>2. done \in [1 .. Len(us) -> T]
    <3>1. \A i \in 1 .. Len(us) : done[i] \in T
      BY <1>4, <2>1
    <3>2. done = [i \in 1 .. Len(us) |-> done[i]]
      BY <2>1
    <3> HIDE DEF done, T, us
    <3>3. QED BY <3>1, <3>2
  <2> HIDE DEF done, T, us
  <2>3. done \in Seq(T)
    BY <2>1, <2>2
  <2>4. QED BY <2>1, <2>3 DEF T
<1> HIDE DEF done
<1>6. repaired(work, team).tasks = done /\ repaired(work, team).cursor = v.cursor
  BY <1>1, <1>2 DEF WorkOf
<1>7. repaired(work, team) \in WorkOf(I, D, A, K)
  BY <1>1, <1>2, <1>5 DEF WorkOf
<1>8. QED BY <1>1, <1>4, <1>5, <1>6, <1>7 DEF SameTasks

-----------------------------------------------------------------------------
(* Validation: which plans are well-formed.                                 *)

LEMMA Least ==
    ASSUME NEW S \in SUBSET Nat, S # {}
    PROVE  \E m \in S : \A k \in S : m <= k
<1>1. PICK m \in S : \A k \in S : <<k, m>> \notin OpToRel(<, Nat)
  BY WFMin, NatLessThanWellFounded, Zenon
<1>2. \A k \in S : ~(k < m)
  BY <1>1, Zenon DEF OpToRel
<1>3. \A k \in S : m <= k
  BY <1>2
<1>4. QED BY <1>3

distinctIds(ts) == \A i, j \in DOMAIN ts : ts[i].id = ts[j].id => i = j

LEMMA IdsDistinct ==
    ASSUME NEW T, NEW ts \in Seq(T)
    PROVE  /\ IsFiniteSet(idsOf(ts)) /\ Cardinality(idsOf(ts)) \in Nat
           /\ Cardinality(idsOf(ts)) = Len(ts) <=> distinctIds(ts)
<1> DEFINE n == Len(ts)
           S == 1 .. n
           U == idsOf(ts)
           f == [i \in S |-> ts[i].id]
<1>1. n \in Nat /\ DOMAIN ts = S
  OBVIOUS
<1>2. IsFiniteSet(S) /\ Cardinality(S) = n
  <2> HIDE DEF n
  <2>1. IsFiniteSet(1 .. n) /\ Cardinality(1 .. n) = IF 1 > n THEN 0 ELSE n - 1 + 1
    BY <1>1, FS_Interval
  <2>2. QED BY <1>1, <2>1
<1>3. U = {f[i] : i \in S}
  BY <1>1 DEF idsOf
<1>4. f \in Surjection(S, U)
  <2> HIDE DEF S, U
  <2>1. f \in [S -> U]
    BY <1>3
  <2>2. \A u \in U : \E i \in S : f[i] = u
    BY <1>3
  <2>3. QED BY <2>1, <2>2 DEF Surjection
<1>5. f \in Injection(S, U) <=> distinctIds(ts)
  <2>1. f \in [S -> U]
    BY <1>4 DEF Surjection
  <2>2. DOMAIN f = S /\ \A i \in S : f[i] = ts[i].id
    OBVIOUS
  <2> HIDE DEF f, S, U
  <2>3. f \in Injection(S, U) <=> \A i, j \in S : f[i] = f[j] => i = j
    BY <2>1, <2>2, Zenon DEF Injection, IsInjective
  <2>4. QED BY <1>1, <2>2, <2>3 DEF distinctIds
<1>6. IsFiniteSet(U) /\ (Cardinality(U) = n <=> f \in Injection(S, U))
  <2> HIDE DEF f, S, U, n
  <2>1. QED BY <1>2, <1>4, FS_Surjection
<1>7. Cardinality(U) \in Nat
  BY <1>6, FS_CardinalityType
<1>8. QED BY <1>5, <1>6, <1>7

(* The layers of topological_order                                          *)
layersOf(ts, f) ==
    /\ f[0] = {}
    /\ \A n \in 1 .. Len(ts) :
          f[n] = {i \in DOMAIN ts : \A d \in ts[i].deps : \E j \in f[n - 1] : ts[j].id = d}

LEMMA OrderSteps ==
    ASSUME NEW T, NEW ts \in Seq(T)
    PROVE  \E f \in [0 .. Len(ts) -> SUBSET DOMAIN ts] :
              orderable(ts) = f[Len(ts)] /\ layersOf(ts, f)
<1> DEFINE n == Len(ts)
           W == SUBSET DOMAIN ts
           e == {}
           next(L) == {i \in DOMAIN ts : \A d \in ts[i].deps : \E j \in L : ts[j].id = d}
           h == [k \in 1 .. n |-> [L \in W |-> next(L)]]
           Eq(f) == f = [m \in 0 .. n |-> IF m = 0 THEN {} ELSE next(f[m - 1])]
<1>1. n \in Nat /\ e \in W /\ \A L \in W : next(L) \in W
  OBVIOUS
<1>2. h \in [1 .. n -> [W -> W]]
  <2> HIDE DEF n, W, next
  <2>1. QED BY <1>1
<1>3. PICK g : Iterates(g, n, W, e, h)
  <2> HIDE DEF n, W, h, e
  <2>1. QED BY <1>1, <1>2, Iterate, Zenon
<1>4. g \in [0 .. n -> W] /\ g[0] = {}
  BY <1>3, Zenon DEF Iterates
<1>5. ASSUME NEW k \in 1 .. n PROVE g[k] = next(g[k - 1])
  <2>1. k - 1 \in 0 .. n
    BY <1>1
  <2> HIDE DEF W, n, next
  <2>2. g[k - 1] \in W
    BY <1>4, <2>1
  <2>3. g[k] = h[k][g[k - 1]]
    BY <1>3, Zenon DEF Iterates
  <2>4. QED BY <2>2, <2>3 DEF h
<1>6. Eq(g)
  <2>1. n \in Nat /\ \A k \in 0 .. n : k = 0 \/ k \in 1 .. n
    BY <1>1
  <2> HIDE DEF n, W, h, next
  <2>2. QED BY <1>4, <1>5, <2>1
<1> DEFINE f == CHOOSE a : Eq(a)
<1>7. Eq(f)
  <2> HIDE DEF Eq
  <2>1. QED BY <1>6, Zenon
<1>8. orderable(ts) = f[n]
  BY Zenon DEF orderable
<1> HIDE DEF f
<1>9. f[0] = {} /\ \A k \in 1 .. n : f[k] = next(f[k - 1])
  <2>1. n \in Nat /\ 0 \in 0 .. n /\ \A k \in 1 .. n : k \in 0 .. n /\ k # 0
    BY <1>1
  <2> HIDE DEF n, W, h, next
  <2>2. QED BY <1>7, <2>1
<1>10. f \in [0 .. n -> W]
  <2>1. \A k \in 0 .. n : k = 0 \/ k \in 1 .. n
    BY <1>1
  <2>2. \A k \in 0 .. n : f[k] \in W
    BY <1>9, <2>1
  <2>3. f = [k \in 0 .. n |-> f[k]]
    <3> HIDE DEF n, next
    <3>1. QED BY <1>7
  <2> HIDE DEF n, next, W
  <2>4. QED BY <2>2, <2>3
<1>11. layersOf(ts, f)
  BY <1>9 DEF layersOf
<1>12. QED BY <1>8, <1>10, <1>11

(* All tasks come into the order if in every set one can go first ...       *)
LEMMA SoundOrderable ==
    ASSUME NEW T, NEW ts \in Seq(T), Sound(ts)
    PROVE  orderable(ts) = DOMAIN ts
<1> DEFINE n == Len(ts)
           D == DOMAIN ts
<1>1. n \in Nat /\ D = 1 .. n
  OBVIOUS
<1>2. IsFiniteSet(D) /\ Cardinality(D) = n
  <2> HIDE DEF n, D
  <2>1. IsFiniteSet(1 .. n) /\ Cardinality(1 .. n) = IF 1 > n THEN 0 ELSE n - 1 + 1
    BY <1>1, FS_Interval
  <2>2. QED BY <1>1, <2>1
<1>3. PICK f \in [0 .. n -> SUBSET D] : orderable(ts) = f[n] /\ layersOf(ts, f)
  BY OrderSteps
<1>4. ASSUME NEW L \in SUBSET D, L # D
      PROVE  \E i \in D \ L : \A d \in ts[i].deps : \E j \in L : ts[j].id = d
  <2>1. D \ L \in SUBSET D \ {{}}
    BY <1>4
  <2>2. PICK i \in D \ L : \A j \in D \ L : ts[j].id \notin ts[i].deps
    BY <2>1 DEF Sound
  <2>3. ASSUME NEW d \in ts[i].deps PROVE \E j \in L : ts[j].id = d
    <3>1. PICK j \in D : ts[j].id = d
      BY <2>3 DEF Sound, idsOf
    <3>2. j \in L
      BY <2>2, <3>1
    <3>3. QED BY <3>1, <3>2
  <2>4. QED BY <2>3
<1> DEFINE S == {k \in 0 .. n : /\ \A m \in 1 .. k : f[m - 1] \subseteq f[m]
                                /\ f[k] = D \/ Cardinality(f[k]) >= k}
<1>5. 0 \in S
  <2>1. f[0] = {} /\ Cardinality({}) = 0
    BY <1>3, FS_EmptySet DEF layersOf
  <2>2. Cardinality(f[0]) = 0
    BY <2>1
  <2>3. 1 .. 0 = {} /\ 0 \in 0 .. n
    BY <1>1
  <2> HIDE DEF n, D
  <2>4. QED BY <2>2, <2>3
<1>6. ASSUME NEW k \in 1 .. n, k - 1 \in S PROVE k \in S
  <2>0. k - 1 \in 0 .. n /\ k \in 0 .. n
    BY <1>1
  <2>1. f[k] = {i \in D : \A d \in ts[i].deps : \E j \in f[k - 1] : ts[j].id = d}
    BY <1>3 DEF layersOf
  <2>2. f[k - 1] \subseteq f[k]
    <3>1. CASE k = 1
      BY <1>3, <3>1 DEF layersOf
    <3>2. CASE k # 1
      <4>1. k - 1 \in 1 .. n
        BY <1>1, <3>2
      <4> DEFINE m == k - 1
      <4>2. f[m] = {i \in D : \A d \in ts[i].deps : \E j \in f[m - 1] : ts[j].id = d}
        BY <1>3, <4>1 DEF layersOf
      <4>3. m \in 1 .. m
        BY <4>1
      <4>4. f[m - 1] \subseteq f[m]
        BY <1>6, <4>3
      <4> HIDE DEF m, D, n
      <4>5. f[m] \subseteq f[k]
        BY <2>1, <4>2, <4>4 DEF m
      <4>6. QED BY <4>5 DEF m
    <3>3. QED BY <3>1, <3>2
  <2>3. f[k] = D \/ Cardinality(f[k]) >= k
    <3>1. CASE f[k - 1] = D
      <4>1. f[k] \in SUBSET D
        BY <2>1
      <4>2. QED BY <2>2, <3>1, <4>1
    <3>2. CASE f[k - 1] # D
      <4> DEFINE L == f[k - 1]
      <4>1. L \in SUBSET D /\ Cardinality(L) >= k - 1
        BY <1>6, <2>0, <3>2
      <4>2. PICK i \in D \ L : \A d \in ts[i].deps : \E j \in L : ts[j].id = d
        BY <1>4, <3>2, <4>1
      <4>3. i \in f[k]
        BY <2>1, <4>2
      <4>4. L \cup {i} \subseteq f[k] /\ f[k] \subseteq D
        BY <2>1, <2>2, <4>3
      <4> HIDE DEF L, D, n
      <4>5. IsFiniteSet(L) /\ IsFiniteSet(f[k])
        BY <1>2, <4>1, <4>4, FS_Subset
      <4>6. Cardinality(L \cup {i}) = Cardinality(L) + 1
        BY <4>2, <4>5, FS_AddElement
      <4>7. Cardinality(L \cup {i}) <= Cardinality(f[k])
        BY <4>4, <4>5, FS_Subset
      <4>8. Cardinality(L) \in Nat /\ Cardinality(f[k]) \in Nat
        BY <4>5, FS_CardinalityType
      <4>9. k \in Nat
        BY <2>0
      <4>10. QED BY <4>1, <4>6, <4>7, <4>8, <4>9
    <3>3. QED BY <3>1, <3>2
  <2>4. \A m \in 1 .. k : m = k \/ m \in 1 .. k - 1
    OBVIOUS
  <2>5. \A m \in 1 .. k - 1 : f[m - 1] \subseteq f[m]
    BY <1>6
  <2>6. \A m \in 1 .. k : f[m - 1] \subseteq f[m]
    BY <2>2, <2>4, <2>5
  <2>7. QED BY <2>0, <2>3, <2>6
<1> HIDE DEF S
<1>7. n \in S
  <2>1. 0 .. n \subseteq S
    <3> HIDE DEF n, D
    <3>1. QED BY <1>1, <1>5, <1>6, UpTo
  <2>2. n \in 0 .. n
    BY <1>1
  <2>3. QED BY <2>1, <2>2
<1>8. f[n] = D \/ Cardinality(f[n]) >= n
  BY <1>7 DEF S
<1>9. f[n] \in SUBSET D
  <2> HIDE DEF D
  <2>1. n \in 0 .. n
    BY <1>1
  <2> HIDE DEF n
  <2>2. QED BY <1>3, <2>1
<1>10. f[n] = D
  <2> HIDE DEF n, D
  <2>1. Cardinality(f[n]) <= n /\ IsFiniteSet(f[n]) /\ (Cardinality(D) = Cardinality(f[n]) => D = f[n])
    BY <1>2, <1>9, FS_Subset
  <2>2. Cardinality(f[n]) \in Nat
    BY <2>1, FS_CardinalityType
  <2>3. QED BY <1>1, <1>2, <1>8, <2>1, <2>2
<1>11. QED BY <1>3, <1>10

(* ... and only then.                                                       *)
LEMMA OrderableSound ==
    ASSUME NEW T, NEW ts \in Seq(T), distinctIds(ts), orderable(ts) = DOMAIN ts,
           \A i \in DOMAIN ts : ts[i].deps \subseteq idsOf(ts)
    PROVE  Sound(ts)
<1> DEFINE n == Len(ts)
           D == DOMAIN ts
<1>1. n \in Nat /\ D = 1 .. n
  OBVIOUS
<1>2. PICK f \in [0 .. n -> SUBSET D] : orderable(ts) = f[n] /\ layersOf(ts, f)
  BY OrderSteps
<1>3. SUFFICES ASSUME NEW S \in SUBSET D, S # {}
               PROVE  \E i \in S : \A j \in S : ts[j].id \notin ts[i].deps
  BY DEF Sound
<1> DEFINE B == {k \in 0 .. n : f[k] \cap S # {}}
<1>4. n \in B
  BY <1>1, <1>2
<1>5. PICK m \in B : \A k \in B : m <= k
  <2>1. B \in SUBSET Nat /\ B # {}
    BY <1>1, <1>4
  <2> HIDE DEF B
  <2>2. QED BY <2>1, Least
<1>6. m \in 1 .. n
  <2>1. f[0] = {}
    BY <1>2 DEF layersOf
  <2>2. QED BY <1>1, <2>1
<1>7. PICK i \in S : i \in f[m]
  OBVIOUS
<1>8. \A d \in ts[i].deps : \E j \in f[m - 1] : ts[j].id = d
  BY <1>2, <1>6, <1>7 DEF layersOf
<1>9. m - 1 \in 0 .. n /\ m - 1 \notin B
  BY <1>1, <1>5, <1>6
<1>10. ASSUME NEW j \in S, ts[j].id \in ts[i].deps PROVE FALSE
  <2>1. PICK k \in f[m - 1] : ts[k].id = ts[j].id
    BY <1>8, <1>10
  <2>2. k \in D /\ j \in D
    BY <1>2, <1>9
  <2>3. k = j
    BY <2>1, <2>2 DEF distinctIds
  <2>4. QED BY <1>9, <2>1, <2>3
<1>11. QED BY <1>10

LEMMA WellFormedSound ==
    ASSUME NEW T, NEW ts \in Seq(T)
    PROVE  wellFormed(ts) <=> distinctIds(ts) /\ Sound(ts)
<1>1. Cardinality(idsOf(ts)) = Len(ts) <=> distinctIds(ts)
  BY IdsDistinct
<1>2. ASSUME wellFormed(ts) PROVE distinctIds(ts) /\ Sound(ts)
  <2>1. distinctIds(ts)
    BY <1>1, <1>2 DEF wellFormed
  <2>2. orderable(ts) = DOMAIN ts /\ \A i \in DOMAIN ts : ts[i].deps \subseteq idsOf(ts)
    BY <1>2 DEF wellFormed
  <2>3. QED BY <2>1, <2>2, OrderableSound
<1>3. ASSUME distinctIds(ts), Sound(ts) PROVE wellFormed(ts)
  <2>1. orderable(ts) = DOMAIN ts
    BY <1>3, SoundOrderable
  <2>2. ASSUME NEW i \in DOMAIN ts PROVE ts[i].deps \subseteq idsOf(ts) \ {ts[i].id}
    <3>1. {i} \in SUBSET (DOMAIN ts) /\ {i} # {}
      OBVIOUS
    <3>2. ts[i].id \notin ts[i].deps
      BY <1>3, <3>1 DEF Sound
    <3>3. ts[i].deps \subseteq idsOf(ts)
      BY <1>3 DEF Sound
    <3>4. QED BY <3>2, <3>3
  <2>3. QED BY <1>1, <1>3, <2>1, <2>2 DEF wellFormed
<1>4. QED BY <1>2, <1>3

(* Ids and dependencies decide it.                                          *)
LEMMA WellFormedSame ==
    ASSUME NEW T, NEW ts \in Seq(T), NEW us \in Seq(T), SameTasks(ts, us)
    PROVE  /\ wellFormed(ts) <=> wellFormed(us)
           /\ distinctIds(ts) <=> distinctIds(us)
<1>1. DOMAIN us = DOMAIN ts /\ \A i \in DOMAIN ts : us[i].id = ts[i].id /\ us[i].deps = ts[i].deps
  BY DEF SameTasks
<1>2. distinctIds(ts) <=> distinctIds(us)
  BY <1>1 DEF distinctIds
<1>3. idsOf(ts) = idsOf(us)
  BY <1>1 DEF idsOf
<1>4. Sound(ts) <=> Sound(us)
  BY <1>1, <1>3 DEF Sound
<1>5. QED BY <1>2, <1>4, WellFormedSound

-----------------------------------------------------------------------------
(* The pipeline: validated, repaired, routed.                               *)

repairs(ts, team, f) ==
    /\ f[0] = [tasks |-> ts, cursor |-> 0]
    /\ \A k \in 1 .. MaxRepairs :
          f[k] = IF valid(f[k - 1].tasks, team) THEN f[k - 1] ELSE repaired(f[k - 1], team)

LEMMA RepairSteps ==
    ASSUME NEW I, NEW D, NEW A, NEW K, NEW ts \in Seq(PlanTask(I, D, A, K)),
           NEW team \in Seq(A), team # <<>>
    PROVE  \E f \in [0 .. MaxRepairs -> WorkOf(I, D, A, K)] :
              /\ repairs(ts, team, f)
              /\ pipeline(ts, team) = IF valid(f[MaxRepairs].tasks, team)
                                      THEN routed(f[MaxRepairs], team).tasks ELSE <<>>
<1> DEFINE n == MaxRepairs
           W == WorkOf(I, D, A, K)
           e == [tasks |-> ts, cursor |-> 0]
           next(v) == IF valid(v.tasks, team) THEN v ELSE repaired(v, team)
           h == [k \in 1 .. n |-> [v \in W |-> next(v)]]
           Eq(f) == f = [k \in 0 .. n |-> IF k = 0 THEN e ELSE next(f[k - 1])]
<1>1. n \in Nat /\ e \in W
  BY PipelineAssumption DEF PipelineAssumption, WorkOf
<1>2. ASSUME NEW v \in W PROVE next(v) \in W
  BY RepairedTasks
<1>3. h \in [1 .. n -> [W -> W]]
  <2> HIDE DEF n, W, next
  <2>1. QED BY <1>2
<1>4. PICK g : Iterates(g, n, W, e, h)
  <2> HIDE DEF n, W, h, e
  <2>1. QED BY <1>1, <1>3, Iterate, Zenon
<1>5. g \in [0 .. n -> W] /\ g[0] = e
  BY <1>4, Zenon DEF Iterates
<1>6. ASSUME NEW k \in 1 .. n PROVE g[k] = next(g[k - 1])
  <2>1. k - 1 \in 0 .. n
    BY <1>1
  <2> HIDE DEF W, n, next, e
  <2>2. g[k - 1] \in W
    BY <1>5, <2>1
  <2>3. g[k] = h[k][g[k - 1]]
    BY <1>4, Zenon DEF Iterates
  <2>4. QED BY <2>2, <2>3 DEF h
<1>7. Eq(g)
  <2>1. n \in Nat /\ \A k \in 0 .. n : k = 0 \/ k \in 1 .. n
    BY <1>1
  <2> HIDE DEF n, W, h, next, e
  <2>2. QED BY <1>5, <1>6, <2>1
<1> DEFINE f == CHOOSE a : Eq(a)
<1>8. Eq(f)
  <2> HIDE DEF Eq
  <2>1. QED BY <1>7, Zenon
<1>9. pipeline(ts, team) = IF valid(f[n].tasks, team) THEN routed(f[n], team).tasks ELSE <<>>
  BY Zenon DEF pipeline
<1> HIDE DEF f
<1>10. f[0] = e /\ \A k \in 1 .. n : f[k] = next(f[k - 1])
  <2>1. n \in Nat /\ 0 \in 0 .. n /\ \A k \in 1 .. n : k \in 0 .. n /\ k # 0
    BY <1>1
  <2> HIDE DEF n, W, h, next, e
  <2>2. QED BY <1>8, <2>1
<1> DEFINE S == {k \in 0 .. n : f[k] \in W}
<1>11. 0 .. n \subseteq S
  <2>1. 0 \in S
    <3> HIDE DEF W, e
    <3>1. QED BY <1>1, <1>10
  <2>2. ASSUME NEW k \in 1 .. n, k - 1 \in S PROVE k \in S
    <3>1. f[k - 1] \in W /\ k \in 0 .. n
      BY <1>1, <2>2
    <3>2. f[k] \in W
      <4> HIDE DEF W, next, n, e
      <4>1. QED BY <1>2, <1>10, <3>1
    <3>3. QED BY <3>1, <3>2
  <2> HIDE DEF S, n
  <2>3. QED BY <1>1, <2>1, <2>2, UpTo
<1>12. f \in [0 .. n -> W]
  <2>1. f = [k \in 0 .. n |-> f[k]]
    <3> HIDE DEF n, next, e
    <3>1. QED BY <1>8
  <2>2. \A k \in 0 .. n : f[k] \in W
    BY <1>11
  <2> HIDE DEF n, W
  <2>3. QED BY <2>1, <2>2
<1>13. repairs(ts, team, f)
  BY <1>10 DEF repairs
<1>14. QED BY <1>9, <1>12, <1>13

LEMMA PipelineRight ==
    ASSUME NEW I, NEW D, NEW A, NEW K, NEW ts \in Seq(PlanTask(I, D, A, K)), ts # <<>>,
           distinctIds(ts), NEW team \in Seq(A), team # <<>>, NoName \notin ToSet(team)
    PROVE  /\ pipeline(ts, team) \in Seq(PlanTask(I, D, A, K))
           /\ PlanCarriedOut(ts, pipeline(ts, team), team)
<1> DEFINE M == MaxRepairs
           T == PlanTask(I, D, A, K)
           W == WorkOf(I, D, A, K)
<1>1. M \in Nat \ {0}
  BY PipelineAssumption DEF PipelineAssumption
<1>2. PICK f \in [0 .. M -> W] :
         /\ repairs(ts, team, f)
         /\ pipeline(ts, team) = IF valid(f[M].tasks, team)
                                 THEN routed(f[M], team).tasks ELSE <<>>
  BY RepairSteps
<1>3. wellFormed(ts) <=> Sound(ts)
  BY WellFormedSound
<1> DEFINE P(k) == /\ SameTasks(ts, f[k].tasks)
                   /\ \A i \in DOMAIN ts :
                         ts[i].agent \in ToSet(team) => f[k].tasks[i].agent = ts[i].agent
                   /\ valid(ts, team) => f[k].tasks = ts
                   /\ k # 0 /\ wellFormed(ts) => valid(f[k].tasks, team)
           S == {k \in 0 .. M : P(k)}
<1>4. 0 \in S
  <2>1. f[0] = [tasks |-> ts, cursor |-> 0]
    BY <1>2 DEF repairs
  <2>2. f[0].tasks = ts
    BY <2>1
  <2>3. P(0)
    BY <2>2 DEF SameTasks
  <2>4. QED BY <1>1, <2>3
<1>5. ASSUME NEW k \in 1 .. M, k - 1 \in S PROVE k \in S
  <2> DEFINE v == f[k - 1]
             us == v.tasks
  <2>1. k - 1 \in 0 .. M /\ k \in 0 .. M /\ k # 0
    BY <1>1
  <2>2. v \in W
    <3> HIDE DEF W, M
    <3>1. QED BY <1>2, <2>1
  <2>3. us \in Seq(T)
    BY <2>2 DEF WorkOf
  <2>4. P(k - 1)
    BY <1>5
  <2>5. wellFormed(us) <=> wellFormed(ts)
    <3> HIDE DEF v, T
    <3>1. SameTasks(ts, us)
      BY <2>4 DEF v
    <3>2. QED BY <2>3, <3>1, WellFormedSame DEF T
  <2>6. f[k] = IF valid(us, team) THEN v ELSE repaired(v, team)
    BY <1>2 DEF repairs
  <2>7. CASE valid(us, team)
    <3>1. f[k] = v
      BY <2>6, <2>7
    <3>2. P(k)
      BY <2>4, <2>7, <3>1
    <3>3. QED BY <2>1, <3>2
  <2>8. CASE ~valid(us, team)
    <3> DEFINE done == repaired(v, team).tasks
    <3>1. f[k].tasks = done
      BY <2>6, <2>8
    <3>2. /\ repaired(v, team) \in W
          /\ SameTasks(us, done)
          /\ \A i \in DOMAIN us : /\ done[i].caps \subseteq knownCaps(team)
                                  /\ Assigned(us[i], done[i].agent, team)
      BY <2>2, RepairedTasks
    <3> HIDE DEF v, done
    <3>3. done \in Seq(T)
      BY <3>2 DEF WorkOf, done
    <3>4. SameTasks(ts, us) /\ \A i \in DOMAIN ts :
             ts[i].agent \in ToSet(team) => us[i].agent = ts[i].agent
      BY <2>4 DEF v
    <3>5. SameTasks(ts, done)
      BY <3>2, <3>4 DEF SameTasks
    <3>6. ~valid(ts, team)
      BY <2>4, <2>8 DEF v
    <3>7. ASSUME NEW i \in DOMAIN ts, ts[i].agent \in ToSet(team) PROVE done[i].agent = ts[i].agent
      <4>1. i \in DOMAIN us /\ us[i].agent = ts[i].agent
        BY <3>4, <3>7 DEF SameTasks
      <4>2. QED BY <3>2, <3>7, <4>1 DEF Assigned
    <3>8. ASSUME wellFormed(ts) PROVE valid(done, team)
      <4>1. wellFormed(done)
        <5> HIDE DEF T
        <5>1. QED BY <3>3, <3>5, <3>8, WellFormedSame DEF T
      <4>2. \A i \in DOMAIN done : /\ done[i].agent \in ToSet(team)
                                   /\ done[i].caps \subseteq knownCaps(team)
        BY <3>2 DEF SameTasks, Assigned
      <4>3. QED BY <4>1, <4>2 DEF valid
    <3>9. P(k)
      BY <3>1, <3>5, <3>6, <3>7, <3>8
    <3>10. QED BY <2>1, <3>9
  <2>9. QED BY <2>7, <2>8
<1> HIDE DEF S
<1>6. M \in S
  <2>1. 0 .. M \subseteq S
    <3> HIDE DEF M
    <3>1. QED BY <1>1, <1>4, <1>5, UpTo
  <2>2. QED BY <1>1, <2>1
<1> DEFINE v == f[M]
           us == v.tasks
           done == routed(v, team).tasks
<1>7. P(M)
  BY <1>6 DEF S
<1>8. v \in W /\ us \in Seq(T)
  <2>1. v \in W
    <3> HIDE DEF W
    <3>1. M \in 0 .. M
      BY <1>1
    <3> HIDE DEF M
    <3>2. QED BY <1>2, <3>1
  <2>2. QED BY <2>1 DEF WorkOf
<1>9. valid(us, team) <=> Sound(ts)
  <2>1. wellFormed(us) <=> wellFormed(ts)
    <3> HIDE DEF v, T
    <3>1. SameTasks(ts, us)
      BY <1>7 DEF v
    <3>2. QED BY <1>8, <3>1, WellFormedSame DEF T
  <2>2. wellFormed(ts) => valid(us, team)
    BY <1>1, <1>7
  <2>3. valid(us, team) => wellFormed(us)
    BY DEF valid
  <2>4. QED BY <1>3, <2>1, <2>2, <2>3
<1>10. CASE ~Sound(ts)
  <2>1. pipeline(ts, team) = <<>>
    BY <1>2, <1>9, <1>10
  <2>2. QED BY <1>10, <2>1 DEF PlanCarriedOut
<1>11. CASE Sound(ts)
  <2>1. pipeline(ts, team) = done
    BY <1>2, <1>9, <1>11
  <2>2. /\ routed(v, team) \in W /\ SameTasks(us, done)
        /\ \A i \in DOMAIN us :
              done[i].caps = us[i].caps /\ Assigned(us[i], done[i].agent, team)
    BY <1>8, RoutedTasks
  <2> HIDE DEF done
  <2>3. done \in Seq(T)
    BY <2>2 DEF WorkOf, done
  <2> HIDE DEF v
  <2>4. SameTasks(ts, us)
    BY <1>7 DEF v
  <2>5. SameTasks(ts, done)
    BY <2>2, <2>4 DEF SameTasks
  <2>6. done # <<>>
    <3> HIDE DEF T
    <3>1. 1 \in DOMAIN ts
      BY DEF T
    <3>2. 1 \in DOMAIN done
      BY <2>5, <3>1 DEF SameTasks
    <3>3. QED BY <2>3, <3>2
  <2>7. ASSUME NEW i \in DOMAIN ts
        PROVE  LET t == ts[i] IN
               /\ done[i].agent \in ToSet(team)
               /\ t.agent \in ToSet(team) => done[i].agent = t.agent
               /\ (/\ valid(ts, team) /\ t.agent = NoName
                   /\ \E w \in ToSet(team) : t.caps \subseteq CapsOf[w])
                  => t.caps \subseteq CapsOf[done[i].agent]
    <3>1. i \in DOMAIN us
      BY <2>4 DEF SameTasks
    <3>2. Assigned(us[i], done[i].agent, team)
      BY <2>2, <3>1
    <3>3. ts[i].agent \in ToSet(team) => us[i].agent = ts[i].agent
      BY <1>7 DEF v
    <3>4. valid(ts, team) => us[i] = ts[i]
      BY <1>7 DEF v
    <3>5. QED BY <3>2, <3>3, <3>4 DEF Assigned
  <2>8. RoutedRight(ts, done, team)
    BY <2>7 DEF RoutedRight
  <2>9. QED BY <1>11, <2>1, <2>3, <2>5, <2>6, <2>8 DEF PlanCarriedOut
<1>12. QED BY <1>10, <1>11, <1>2

-----------------------------------------------------------------------------
(* Parsing: what an answer's entries become.                                *)

(* A name that is not used is found, with enough tags.                      *)
LEMMA UnusedRight ==
    ASSUME NEW Tok, Nat \subseteq Tok, NEW id \in Seq(Tok), NEW used, IsFiniteSet(used)
    PROVE  unused(id, used) \in Seq(Tok) /\ unused(id, used) \notin used
<1> DEFINE c == Cardinality(used)
           tag(m) == [k \in 1 .. m |-> c]
           tagged(m) == id \o tag(m)
           B == {m \in 0 .. c : tagged(m) \notin used}
<1>1. c \in Nat
  BY FS_CardinalityType
<1>2. ASSUME NEW m \in 0 .. c PROVE tagged(m) \in Seq(Tok) /\ Len(tagged(m)) = Len(id) + m
  <2>1. m \in Nat /\ c \in Tok
    BY <1>1
  <2> HIDE DEF c
  <2>2. tag(m) \in [1 .. m -> Tok]
    BY <2>1
  <2>3. tag(m) \in Seq(Tok) /\ Len(tag(m)) = m
    BY <2>1, <2>2
  <2> HIDE DEF tag
  <2>4. QED BY <2>3
<1> HIDE DEF tagged
<1>3. B # {}
  <2>1. SUFFICES ASSUME \A m \in 0 .. c : tagged(m) \in used PROVE FALSE
    OBVIOUS
  <2> DEFINE S == 0 .. c
             g == [m \in S |-> tagged(m)]
  <2>2. IsFiniteSet(S) /\ Cardinality(S) = c + 1
    <3> HIDE DEF c
    <3>1. IsFiniteSet(0 .. c) /\ Cardinality(0 .. c) = IF 0 > c THEN 0 ELSE c - 0 + 1
      BY <1>1, FS_Interval
    <3>2. QED BY <1>1, <3>1
  <2>3. g \in [S -> used]
    BY <2>1
  <2>4. \A m \in S : g[m] = tagged(m)
    OBVIOUS
  <2>5. Cardinality(used) < Cardinality(S)
    <3> HIDE DEF S
    <3>1. QED BY <1>1, <2>2
  <2> HIDE DEF S, g
  <2>6. \E x, y \in S : x # y /\ g[x] = g[y]
    BY <2>2, <2>3, <2>5, FS_PigeonHole
  <2>7. PICK x \in S, y \in S : x # y /\ tagged(x) = tagged(y)
    BY <2>4, <2>6
  <2>8. Len(id) + x = Len(id) + y /\ Len(id) \in Nat /\ x \in Nat /\ y \in Nat
    BY <1>1, <1>2, <2>7 DEF S
  <2>9. QED BY <2>7, <2>8
<1>4. PICK m \in B : \A k \in B : m <= k
  <2>1. B \in SUBSET Nat
    BY <1>1
  <2> HIDE DEF B
  <2>2. QED BY <1>3, <2>1, Least
<1> DEFINE Q(n) == tagged(n) \notin used /\ \A k \in 0 .. n - 1 : tagged(k) \in used
<1>5. m \in 0 .. c /\ Q(m)
  <2>1. m \in 0 .. c /\ tagged(m) \notin used
    OBVIOUS
  <2>2. ASSUME NEW k \in 0 .. m - 1 PROVE tagged(k) \in used
    <3>1. k \in 0 .. c /\ ~(m <= k)
      BY <1>1
    <3>2. QED BY <1>4, <3>1
  <2>3. QED BY <2>1, <2>2
<1> DEFINE n == CHOOSE i \in 0 .. c : Q(i)
<1>6. n \in 0 .. c /\ Q(n)
  <2> HIDE DEF Q, c
  <2>1. QED BY <1>5
<1>7. unused(id, used) = tagged(n)
  BY DEF unused, tagged
<1> HIDE DEF n
<1>8. QED BY <1>2, <1>6, <1>7

(* What the entries of an answer are.                                       *)
EntriesOf(E, Tok, D, A, K) ==
    /\ Nat \cup {"task"} \subseteq Tok /\ {} \in D /\ NoName \in A
    /\ \A e \in E : /\ e.id \in Seq(Tok) /\ e.blank \in BOOLEAN
                    /\ e.deps \in D /\ e.agent \in A /\ e.caps \subseteq K

LEMMA TaskOfRight ==
    ASSUME NEW E, NEW Tok, NEW D, NEW A, NEW K, EntriesOf(E, Tok, D, A, K),
           NEW e \in E, NEW n \in Nat, NEW used, IsFiniteSet(used)
    PROVE  /\ taskOf(e, n, used) \in PlanTask(Seq(Tok), D, A, K)
           /\ taskOf(e, n, used).id \notin used
           /\ taskOf(e, n, used).deps = e.deps
<1> DEFINE name == IF e.id = <<>> THEN numbered(n) ELSE e.id
<1>1. name \in Seq(Tok) /\ Nat \subseteq Tok
  <2>1. "task" \in Tok /\ n \in Tok /\ e.id \in Seq(Tok) /\ Nat \subseteq Tok
    BY DEF EntriesOf
  <2>2. <<"task", n>> \in Seq(Tok)
    BY <2>1
  <2>3. QED BY <2>1, <2>2 DEF numbered
<1> HIDE DEF name
<1>2. unused(name, used) \in Seq(Tok) /\ unused(name, used) \notin used
  BY <1>1, UnusedRight
<1>3. taskOf(e, n, used) =
        [id |-> unused(name, used), deps |-> e.deps, agent |-> e.agent, caps |-> e.caps]
  BY DEF taskOf, name
<1>4. e.deps \in D /\ e.agent \in A /\ e.caps \in SUBSET K
  BY DEF EntriesOf
<1> DEFINE u == unused(name, used)
<1> HIDE DEF u
<1>5. taskOf(e, n, used) = [id |-> u, deps |-> e.deps, agent |-> e.agent, caps |-> e.caps]
  BY <1>3 DEF u
<1>6. u \in Seq(Tok) /\ u \notin used
  BY <1>2 DEF u
<1>7. QED BY <1>4, <1>5, <1>6 DEF PlanTask

LEMMA JsonSteps ==
    ASSUME NEW E, NEW Tok, NEW D, NEW A, NEW K, EntriesOf(E, Tok, D, A, K),
           NEW entries \in Seq(E)
    PROVE  \E f \in [0 .. Len(entries) -> Seq(PlanTask(Seq(Tok), D, A, K))] :
              /\ tasksFromJson(entries) = f[Len(entries)]
              /\ f[0] = <<>>
              /\ \A k \in 1 .. Len(entries) :
                    f[k] = IF entries[k].blank THEN f[k - 1]
                           ELSE Append(f[k - 1], taskOf(entries[k], k, idsOf(f[k - 1])))
<1> DEFINE n == Len(entries)
           T == PlanTask(Seq(Tok), D, A, K)
           W == Seq(T)
           e == <<>>
           next(k, v) == IF entries[k].blank THEN v
                         ELSE Append(v, taskOf(entries[k], k, idsOf(v)))
           h == [k \in 1 .. n |-> [v \in W |-> next(k, v)]]
           Eq(f) == f = [k \in 0 .. n |->
              IF k = 0 THEN <<>>
              ELSE IF entries[k].blank THEN f[k - 1]
              ELSE Append(f[k - 1], taskOf(entries[k], k, idsOf(f[k - 1])))]
<1>1. n \in Nat /\ e \in W
  OBVIOUS
<1>2. ASSUME NEW k \in 1 .. n, NEW v \in W PROVE next(k, v) \in W
  <2>1. entries[k] \in E /\ k \in Nat
    OBVIOUS
  <2>2. IsFiniteSet(idsOf(v))
    BY IdsDistinct
  <2>3. taskOf(entries[k], k, idsOf(v)) \in T
    BY <2>1, <2>2, TaskOfRight
  <2> HIDE DEF T
  <2>4. QED BY <2>3
<1>3. h \in [1 .. n -> [W -> W]]
  <2> HIDE DEF n, W, next
  <2>1. QED BY <1>2
<1>4. PICK g : Iterates(g, n, W, e, h)
  <2> HIDE DEF n, W, h, e
  <2>1. QED BY <1>1, <1>3, Iterate, Zenon
<1>5. g \in [0 .. n -> W] /\ g[0] = <<>>
  BY <1>4, Zenon DEF Iterates
<1>6. ASSUME NEW k \in 1 .. n PROVE g[k] = next(k, g[k - 1])
  <2>1. k - 1 \in 0 .. n
    BY <1>1
  <2> HIDE DEF W, n, next
  <2>2. g[k - 1] \in W
    BY <1>5, <2>1
  <2>3. g[k] = h[k][g[k - 1]]
    BY <1>4, Zenon DEF Iterates
  <2>4. QED BY <2>2, <2>3 DEF h
<1>7. Eq(g)
  <2>1. n \in Nat /\ \A k \in 0 .. n : k = 0 \/ k \in 1 .. n
    BY <1>1
  <2>2. \A k \in 1 .. n : g[k] = IF entries[k].blank THEN g[k - 1]
                                 ELSE Append(g[k - 1], taskOf(entries[k], k, idsOf(g[k - 1])))
    BY <1>6
  <2> HIDE DEF n, W, h, next
  <2>3. QED BY <1>5, <2>1, <2>2
<1> DEFINE f == CHOOSE a : Eq(a)
<1>8. Eq(f)
  <2> HIDE DEF Eq
  <2>1. QED BY <1>7, Zenon
<1>9. tasksFromJson(entries) = f[n]
  BY Zenon DEF tasksFromJson
<1> HIDE DEF f
<1>10. f[0] = <<>> /\ \A k \in 1 .. n :
          f[k] = IF entries[k].blank THEN f[k - 1]
                 ELSE Append(f[k - 1], taskOf(entries[k], k, idsOf(f[k - 1])))
  <2>1. n \in Nat /\ 0 \in 0 .. n /\ \A k \in 1 .. n : k \in 0 .. n /\ k # 0
    BY <1>1
  <2> HIDE DEF n, W, h, next
  <2>2. QED BY <1>8, <2>1
<1> DEFINE S == {k \in 0 .. n : f[k] \in W}
<1>11. 0 .. n \subseteq S
  <2>1. 0 \in S
    <3>1. f[0] \in W
      <4>1. f[0] = <<>>
        BY <1>10
      <4> HIDE DEF T
      <4>2. QED BY <4>1
    <3> HIDE DEF W
    <3>2. QED BY <1>1, <3>1
  <2>2. ASSUME NEW k \in 1 .. n, k - 1 \in S PROVE k \in S
    <3>1. f[k - 1] \in W /\ k \in 0 .. n
      BY <1>1, <2>2
    <3>2. f[k] = next(k, f[k - 1])
      BY <1>10
    <3>3. f[k] \in W
      <4> HIDE DEF W, next, n
      <4>1. QED BY <1>2, <3>1, <3>2
    <3>4. QED BY <3>1, <3>3
  <2> HIDE DEF S, n
  <2>3. QED BY <1>1, <2>1, <2>2, UpTo
<1>12. f \in [0 .. n -> W]
  <2>1. f = [k \in 0 .. n |-> f[k]]
    <3> HIDE DEF n
    <3>1. QED BY <1>8
  <2>2. \A k \in 0 .. n : f[k] \in W
    BY <1>11
  <2> HIDE DEF n, W
  <2>3. QED BY <2>1, <2>2
<1>13. QED BY <1>9, <1>10, <1>12

(* Every entry that is described becomes a task with an id of its own.      *)
LEMMA JsonRight ==
    ASSUME NEW E, NEW Tok, NEW D, NEW A, NEW K, EntriesOf(E, Tok, D, A, K),
           NEW entries \in Seq(E)
    PROVE  LET tasks == tasksFromJson(entries)
               described == keep(entries, {e \in ToSet(entries) : ~e.blank})
           IN  /\ tasks \in Seq(PlanTask(Seq(Tok), D, A, K)) /\ distinctIds(tasks)
               /\ described \in Seq(E) /\ Len(tasks) = Len(described)
               /\ \A i \in 1 .. Len(tasks) : tasks[i].deps = described[i].deps
<1> DEFINE n == Len(entries)
           T == PlanTask(Seq(Tok), D, A, K)
           B == {e \in ToSet(entries) : ~e.blank}
<1>0. n \in Nat
  OBVIOUS
<1>1. PICK f \in [0 .. n -> Seq(T)] :
         /\ tasksFromJson(entries) = f[n]
         /\ f[0] = <<>>
         /\ \A k \in 1 .. n : f[k] = IF entries[k].blank THEN f[k - 1]
                                     ELSE Append(f[k - 1], taskOf(entries[k], k, idsOf(f[k - 1])))
  BY JsonSteps
<1>2. PICK g \in [0 .. n -> Seq(E)] : keep(entries, B) = g[n] /\ kept(entries, B, n, g)
  <2> HIDE DEF B
  <2>1. QED BY KeepSteps
<1> DEFINE P(ts, ds) == /\ distinctIds(ts) /\ Len(ts) = Len(ds)
                        /\ \A i \in 1 .. Len(ts) : ts[i].deps = ds[i].deps
           S == {k \in 0 .. n : P(f[k], g[k])}
<1>3. 0 \in S
  <2>1. f[0] = <<>> /\ g[0] = <<>>
    BY <1>1, <1>2 DEF kept
  <2>2. P(<<>>, <<>>)
    BY DEF distinctIds
  <2>3. P(f[0], g[0])
    BY <2>1, <2>2
  <2>4. QED BY <1>0, <2>3
<1>4. ASSUME NEW k \in 1 .. n, k - 1 \in S PROVE k \in S
  <2> DEFINE ts == f[k - 1]
             ds == g[k - 1]
             e == entries[k]
             t == taskOf(e, k, idsOf(ts))
  <2>1. k \in 0 .. n /\ k - 1 \in 0 .. n /\ k \in Nat
    BY <1>0
  <2>2. ts \in Seq(T) /\ ds \in Seq(E) /\ e \in E
    <3>1. e \in E
      OBVIOUS
    <3> HIDE DEF T, n
    <3>2. QED BY <2>1, <3>1
  <2>3. P(ts, ds)
    BY <1>4
  <2>4. e \in B <=> ~e.blank
    <3>1. e \in ToSet(entries)
      BY DEF ToSet
    <3>2. QED BY <3>1
  <2>5. f[k] = IF e.blank THEN ts ELSE Append(ts, t)
    BY <1>1
  <2>6. g[k] = IF e \in B THEN Append(ds, e) ELSE ds
    BY <1>2 DEF kept
  <2>7. CASE e.blank
    <3>1. f[k] = ts /\ g[k] = ds
      BY <2>4, <2>5, <2>6, <2>7
    <3>2. P(f[k], g[k])
      BY <2>3, <3>1
    <3>3. QED BY <2>1, <3>2
  <2>8. CASE ~e.blank
    <3>1. f[k] = Append(ts, t) /\ g[k] = Append(ds, e)
      BY <2>4, <2>5, <2>6, <2>8
    <3>2. t \in T /\ t.id \notin idsOf(ts) /\ t.deps = e.deps
      <4>1. IsFiniteSet(idsOf(ts))
        BY <2>2, IdsDistinct
      <4>2. QED BY <2>1, <2>2, <4>1, TaskOfRight
    <3> HIDE DEF t, ts, ds, e, T
    <3>3. /\ Len(ts) \in Nat /\ DOMAIN ts = 1 .. Len(ts)
          /\ Len(Append(ts, t)) = Len(ts) + 1 /\ DOMAIN Append(ts, t) = 1 .. Len(ts) + 1
          /\ \A i \in 1 .. Len(ts) : Append(ts, t)[i] = ts[i]
          /\ Append(ts, t)[Len(ts) + 1] = t
          /\ Len(Append(ds, e)) = Len(ds) + 1
          /\ \A i \in 1 .. Len(ds) : Append(ds, e)[i] = ds[i]
          /\ Append(ds, e)[Len(ds) + 1] = e
      BY <2>2, <3>2
    <3>4. \A i \in 1 .. Len(ts) : ts[i].id # t.id
      BY <3>2, <3>3 DEF idsOf
    <3>5. distinctIds(Append(ts, t))
      <4>1. SUFFICES ASSUME NEW i \in 1 .. Len(ts) + 1, NEW j \in 1 .. Len(ts) + 1,
                            Append(ts, t)[i].id = Append(ts, t)[j].id
                     PROVE  i = j
        BY <3>3 DEF distinctIds
      <4>2. (i \in 1 .. Len(ts) \/ i = Len(ts) + 1) /\ (j \in 1 .. Len(ts) \/ j = Len(ts) + 1)
        BY <3>3
      <4>3. CASE i \in 1 .. Len(ts) /\ j \in 1 .. Len(ts)
        <5>1. Append(ts, t)[i] = ts[i] /\ Append(ts, t)[j] = ts[j]
          BY <3>3, <4>3
        <5>2. QED BY <2>3, <3>3, <4>1, <4>3, <5>1 DEF distinctIds
      <4>4. CASE i = Len(ts) + 1 /\ j \in 1 .. Len(ts)
        BY <3>3, <3>4, <4>1, <4>4
      <4>5. CASE j = Len(ts) + 1 /\ i \in 1 .. Len(ts)
        BY <3>3, <3>4, <4>1, <4>5
      <4>6. QED BY <4>2, <4>3, <4>4, <4>5
    <3>6. ASSUME NEW i \in 1 .. Len(ts) + 1
          PROVE  Append(ts, t)[i].deps = Append(ds, e)[i].deps
      <4>1. CASE i \in 1 .. Len(ts)
        BY <2>3, <3>3, <4>1
      <4>2. CASE i = Len(ts) + 1
        BY <2>3, <3>2, <3>3, <4>2
      <4>3. i \in 1 .. Len(ts) \/ i = Len(ts) + 1
        BY <3>3
      <4>4. QED BY <4>1, <4>2, <4>3
    <3>7. P(f[k], g[k])
      BY <2>3, <3>1, <3>3, <3>5, <3>6
    <3>8. QED BY <2>1, <3>7
  <2>9. QED BY <2>7, <2>8
<1> HIDE DEF S
<1>5. n \in S
  <2>1. 0 .. n \subseteq S
    <3> HIDE DEF n
    <3>1. QED BY <1>0, <1>3, <1>4, UpTo
  <2>2. QED BY <1>0, <2>1
<1>6. P(f[n], g[n])
  BY <1>5 DEF S
<1>7. f[n] \in Seq(T) /\ g[n] \in Seq(E)
  <2>1. n \in 0 .. n
    BY <1>0
  <2> HIDE DEF n, T
  <2>2. QED BY <2>1
<1>8. QED BY <1>1, <1>2, <1>6, <1>7

LEMMA LinesRight ==
    ASSUME NEW Tok, NEW D, NEW A, NEW K, Nat \cup {"task"} \subseteq Tok, {} \in D, NoName \in A,
           NEW n \in Nat
    PROVE  /\ tasksFromLines(n) \in Seq(PlanTask(Seq(Tok), D, A, K))
           /\ tasksFromLines(n) # <<>> /\ distinctIds(tasksFromLines(n))
<1> DEFINE m == IF n = 0 THEN 1 ELSE n
           t(i) == [id |-> numbered(i), deps |-> {}, agent |-> NoName, caps |-> {}]
           ts == [i \in 1 .. m |-> t(i)]
           T == PlanTask(Seq(Tok), D, A, K)
<1>1. m \in Nat /\ m >= 1
  OBVIOUS
<1>2. tasksFromLines(n) = ts
  BY DEF tasksFromLines
<1> HIDE DEF m
<1>3. ASSUME NEW i \in 1 .. m PROVE t(i) \in T
  <2>1. numbered(i) \in Seq(Tok)
    <3>1. "task" \in Tok /\ i \in Tok
      BY <1>1
    <3>2. <<"task", i>> \in Seq(Tok)
      BY <3>1
    <3>3. QED BY <3>2 DEF numbered
  <2> DEFINE a == numbered(i)
             I == Seq(Tok)
  <2>2. a \in I
    BY <2>1
  <2> HIDE DEF a, I
  <2>3. [id |-> a, deps |-> {}, agent |-> NoName, caps |-> {}] \in PlanTask(I, D, A, K)
    BY <2>2 DEF PlanTask
  <2>4. QED BY <2>3 DEF a, I
<1> HIDE DEF T
<1>4. ts \in Seq(T) /\ Len(ts) = m /\ DOMAIN ts = 1 .. m /\ \A i \in 1 .. m : ts[i] = t(i)
  <2> HIDE DEF t
  <2>1. ts \in [1 .. m -> T] /\ \A i \in 1 .. m : ts[i] = t(i)
    BY <1>3
  <2> HIDE DEF ts
  <2>2. QED BY <1>1, <2>1
<1> HIDE DEF ts
<1>5. ts # <<>>
  BY <1>1, <1>4
<1>6. distinctIds(ts)
  <2>1. SUFFICES ASSUME NEW i \in 1 .. m, NEW j \in 1 .. m, ts[i].id = ts[j].id PROVE i = j
    BY <1>4 DEF distinctIds
  <2>2. numbered(i) = numbered(j)
    BY <1>4, <2>1
  <2>3. QED BY <2>2 DEF numbered
<1>7. QED BY <1>2, <1>4, <1>5, <1>6 DEF T

(* So an answer is parsed to tasks with ids of their own, and the           *)
(* dependencies of its described entries.                                   *)
LEMMA ParsedRight ==
    ASSUME NEW answer, NEW E, NEW Tok, NEW D, NEW A, NEW K, EntriesOf(E, Tok, D, A, K),
           answer.entries \in Seq(E), answer.lines \in Nat
    PROVE  LET tasks == parsed(answer)
               entries == answer.entries
               described == keep(entries, {e \in ToSet(entries) : ~e.blank})
           IN  /\ tasks \in Seq(PlanTask(Seq(Tok), D, A, K)) /\ tasks # <<>>
               /\ distinctIds(tasks) /\ Cardinality(idsOf(tasks)) = Len(tasks)
               /\ described # <<>> =>
                     [i \in DOMAIN tasks |-> tasks[i].deps] =
                        [i \in DOMAIN described |-> described[i].deps]
<1> DEFINE entries == answer.entries
           json == tasksFromJson(entries)
           described == keep(entries, {e \in ToSet(entries) : ~e.blank})
           T == PlanTask(Seq(Tok), D, A, K)
<1>1. /\ json \in Seq(T) /\ distinctIds(json)
      /\ described \in Seq(E) /\ Len(json) = Len(described)
      /\ \A i \in 1 .. Len(json) : json[i].deps = described[i].deps
  BY JsonRight
<1>2. /\ tasksFromLines(answer.lines) \in Seq(T)
      /\ tasksFromLines(answer.lines) # <<>> /\ distinctIds(tasksFromLines(answer.lines))
  BY LinesRight DEF EntriesOf
<1>3. parsed(answer) = IF json = <<>> THEN tasksFromLines(answer.lines) ELSE json
  BY DEF parsed
<1>4. parsed(answer) \in Seq(T) /\ parsed(answer) # <<>> /\ distinctIds(parsed(answer))
  BY <1>1, <1>2, <1>3
<1>5. Cardinality(idsOf(parsed(answer))) = Len(parsed(answer))
  BY <1>4, IdsDistinct
<1> HIDE DEF json, described, T
<1>6. ASSUME described # <<>>
      PROVE  [i \in DOMAIN parsed(answer) |-> parsed(answer)[i].deps] =
                [i \in DOMAIN described |-> described[i].deps]
  <2>1. Len(described) # 0
    BY <1>1, <1>6
  <2>2. json # <<>>
    BY <1>1, <2>1
  <2>3. parsed(answer) = json
    BY <1>3, <2>2
  <2>4. DOMAIN json = 1 .. Len(json) /\ DOMAIN described = 1 .. Len(json)
    BY <1>1
  <2>5. QED BY <1>1, <2>3, <2>4
<1>7. QED BY <1>4, <1>5, <1>6 DEF described, T

-----------------------------------------------------------------------------
(* What the variables hold: By, who may speak; Texts, what may be said.     *)

PlanEntries == UNION {ToSet(a.entries) : a \in PlanAnswers}
Tokens == Nat \cup {"task"} \cup UNION {ToSet(e.id) : e \in PlanEntries}
Wants == {{}} \cup {e.deps : e \in PlanEntries}
Skill == UNION {e.caps : e \in PlanEntries}
By == ToSet(Names) \cup {NoName} \cup {e.agent : e \in PlanEntries} \cup
      UNION {UNION {ToSet(j[p].order) \cup ToSet(j[p].workers) \cup {j[p].judge, j[p].lead} :
                       p \in Runs} : j \in Jobs}
Texts == Answers \cup {Error, Prompt, "plan", "output"}
Said == By \X Texts
Message == [run : Runs, by : By, text : Texts]
ofRun(p) == {m \in Message : m.run = p}
Text == [of : Seq(Texts), cut : BOOLEAN]
Tasks == PlanTask(Seq(Tokens), Wants, By, Skill)

Raised == {NoError, "StrategyError", "AgentNotFound", "BudgetExceeded", "RunTimeout",
           "TaskError", "PlanValidationError"}
Stages == {"new", "round", "turn", "judge", "propose", "vote", "plan", "work", "report", "done"}
stagesOf ==
    [broadcast |-> {"round"}, debate |-> {"round", "judge"}, sequential |-> {"turn"},
     relay |-> {"turn"}, consensus |-> {"propose", "vote", "judge"},
     supervisor |-> {"plan", "work", "report"}]

TypeInv ==
    /\ job \in Jobs
    /\ stage \in [Runs -> Stages]
    /\ round \in [Runs -> Nat \ {0}] /\ turn \in [Runs -> Nat \ {0}]
    /\ waiting \in [Runs -> BOOLEAN]
    /\ log \in [Runs -> Seq(Seq(Said))]
    /\ queue \in [Runs -> Seq(Message)] /\ memory \in Seq(Message)
    /\ text \in [Runs -> Text]
    /\ ballot \in [Runs -> [winner : By, meant : By, clear : BOOLEAN]]
    /\ plan \in [Runs -> [answer : PlanAnswers \cup {NoPlan.answer}, tasks : Seq(Tasks)]]
    /\ final \in [Runs -> [raised : Raised, text : Text]]

(* A run that is under way was not refused and is in a stage of its kind.   *)
StageInv ==
    \A p \in Runs :
       /\ stage[p] \notin {"new", "done"} =>
             refusal(p) = NoError /\ stage[p] \in stagesOf[job[p].kind]
       /\ turn[p] \in 1 .. Len(order(p))
       /\ \A m \in ToSet(queue[p]) : m.run = p

(* It has an answer when it does not wait for one, and when it has its      *)
(* proposals, they are everyone's.                                          *)
listing(entry) ==
    DOMAIN entry = DOMAIN Names /\ \A i \in DOMAIN Names : entry[i][1] = Names[i]

CallInv ==
    \A p \in Runs :
       /\ ~waiting[p] =>
             log[p] # <<>> /\ (stage[p] \in {"turn", "judge", "report"} => Len(lastOf(p)) = 1)
       /\ stage[p] \in {"vote", "judge"} => log[p] # <<>>
       /\ stage[p] = "new" \/ (stage[p] = "propose" /\ waiting[p]) => log[p] = <<>>
       /\ stage[p] = "new" => waiting[p]
       /\ job[p].kind = "consensus" /\ log[p] # <<>> => listing(log[p][1])

LEMMA JobFacts ==
    ASSUME job \in Jobs, NEW p \in Runs
    PROVE  /\ Names \in Seq(By) /\ Len(Names) \in Nat \ {0}
           /\ order(p) \in Seq(By) /\ Len(order(p)) \in Nat \ {0}
           /\ workers(p) \in Seq(By) /\ lead(p) \in By /\ judge(p) \in By
           /\ rounds(p) \in Nat \ {0}
           /\ job[p].kind \in DOMAIN firstStage
           /\ NoName \notin ToSet(Names)
<1>1. Names \in Seq(ToSet(Names)) /\ Len(Names) \in Nat \ {0} /\ NoName \notin ToSet(Names)
  <2>1. Names \in Seq(ToSet(Names)) /\ Len(Names) > 0 /\ NoName \notin ToSet(Names)
    BY StrategiesAssumption DEF StrategiesAssumption, isSeq
  <2>2. QED BY <2>1
<1>2. ToSet(Names) \subseteq By /\ Names \in Seq(By)
  <2>1. ToSet(Names) \subseteq By
    BY DEF By
  <2>2. QED BY <1>1, <2>1, SeqMonotonic
<1>3. ToSet(job[p].order) \subseteq By /\ ToSet(job[p].workers) \subseteq By
      /\ job[p].judge \in By /\ job[p].lead \in By
  BY DEF By
<1>4. /\ job[p].kind \in DOMAIN firstStage /\ job[p].rounds \in Int
      /\ job[p].order \in Seq(ToSet(job[p].order))
      /\ job[p].workers \in Seq(ToSet(job[p].workers))
  BY JobsAssumption DEF JobsAssumption, isSeq
<1>5. Names[1] \in By
  BY <1>1, <1>2
<1>6. ASSUME NEW o \in By, NEW n \in {"judge", "supervisor"} PROVE default(o, n) \in By
  BY <1>2, <1>5 DEF default, registered
<1>7. judge(p) \in By /\ lead(p) \in By
  BY <1>3, <1>6 DEF judge, lead
<1>8. job[p].order \in Seq(By) /\ job[p].workers \in Seq(By)
  BY <1>3, <1>4, SeqMonotonic
<1>9. order(p) \in Seq(By) /\ Len(order(p)) \in Nat \ {0}
  <2>1. order(p) \in Seq(By) /\ order(p) # <<>>
    <3>1. CASE job[p].order = <<>>
      <4>1. order(p) = Names
        BY <3>1 DEF order
      <4>2. QED BY <1>1, <1>2, <4>1
    <3>2. CASE job[p].order # <<>>
      BY <1>8, <3>2 DEF order
    <3>3. QED BY <3>1, <3>2
  <2>2. QED BY <2>1
<1>10. workers(p) \in Seq(By)
  BY <1>2, <1>8, KeepType DEF workers
<1>11. rounds(p) \in Nat \ {0}
  BY <1>4 DEF rounds
<1>12. QED BY <1>1, <1>2, <1>4, <1>7, <1>9, <1>10, <1>11

(* What is not refused can be carried out.                                  *)
LEMMA NotRefused ==
    ASSUME job \in Jobs, NEW p \in Runs, refusal(p) = NoError
    PROVE  /\ job[p].kind \in {"debate", "consensus"} => Len(Names) >= 2
           /\ job[p].kind = "relay" => Len(order(p)) >= 2
           /\ job[p].kind \in {"sequential", "relay"} => ToSet(order(p)) \subseteq ToSet(Names)
           /\ job[p].kind = "supervisor" =>
                 /\ lead(p) \in ToSet(Names) /\ workers(p) # <<>>
                 /\ ToSet(workers(p)) \subseteq ToSet(Names)
<1> DEFINE kind == job[p].kind
<1>1. Len(Names) \in Nat /\ Len(order(p)) \in Nat
  BY JobFacts
<1>2. ~(kind \in {"debate", "consensus"} /\ Len(Names) < 2)
  BY DEF refusal, NoError
<1>3. ~(kind = "relay" /\ Len(order(p)) < 2)
  BY DEF refusal, NoError
<1>4. ~(kind \in {"sequential", "relay"} /\ \E n \in ToSet(order(p)) : ~registered(n))
  BY DEF refusal, NoError
<1>5. kind = "supervisor" => registered(lead(p))
  BY DEF refusal, NoError
<1>6. kind = "supervisor" => workers(p) # <<>>
  BY DEF refusal, NoError
<1>7. kind = "supervisor" => \A n \in ToSet(workers(p)) : registered(n)
  BY DEF refusal, NoError
<1>8. \A n \in Nat : ~(n < 2) => n >= 2
  OBVIOUS
<1>9. /\ kind \in {"debate", "consensus"} => Len(Names) >= 2
      /\ kind = "relay" => Len(order(p)) >= 2
  BY <1>1, <1>2, <1>3, <1>8, Zenon
<1>10. kind \in {"sequential", "relay"} => ToSet(order(p)) \subseteq ToSet(Names)
  BY <1>4 DEF registered
<1>11. kind = "supervisor" => /\ lead(p) \in ToSet(Names) /\ workers(p) # <<>>
                              /\ ToSet(workers(p)) \subseteq ToSet(Names)
  BY <1>5, <1>6, <1>7 DEF registered
<1>12. QED BY <1>8, <1>9, <1>10, <1>11

LEMMA PlansTyped ==
    /\ EntriesOf(PlanEntries, Tokens, Wants, By, Skill)
    /\ \A a \in PlanAnswers \cup {NoPlan.answer} : a.entries \in Seq(PlanEntries) /\ a.lines \in Nat
<1>1. ASSUME NEW a \in PlanAnswers
      PROVE  a.entries \in Seq(PlanEntries) /\ a.lines \in Nat
  <2>1. a.lines \in Nat /\ a.entries \in Seq(ToSet(a.entries))
    BY AnswersAssumption DEF AnswersAssumption, isSeq
  <2>2. ToSet(a.entries) \subseteq PlanEntries
    BY DEF PlanEntries
  <2>3. QED BY <2>1, <2>2, SeqMonotonic
<1>2. NoPlan.answer.entries \in Seq(PlanEntries) /\ NoPlan.answer.lines \in Nat
  <2>1. NoPlan.answer = [entries |-> <<>>, lines |-> 1]
    BY DEF NoPlan
  <2>2. NoPlan.answer.entries = <<>> /\ NoPlan.answer.lines = 1
    BY <2>1
  <2>3. << >> \in Seq(PlanEntries)
    OBVIOUS
  <2>4. QED BY <2>2, <2>3
<1>3. ASSUME NEW e \in PlanEntries
      PROVE  /\ e.id \in Seq(Tokens) /\ e.blank \in BOOLEAN
             /\ e.deps \in Wants /\ e.agent \in By /\ e.caps \subseteq Skill
  <2>1. PICK a \in PlanAnswers : e \in ToSet(a.entries)
    BY DEF PlanEntries
  <2>2. e.id \in Seq(ToSet(e.id)) /\ e.blank \in BOOLEAN
    BY <2>1, AnswersAssumption DEF AnswersAssumption, isSeq
  <2>3. ToSet(e.id) \subseteq Tokens
    BY DEF Tokens
  <2>4. e.id \in Seq(Tokens)
    BY <2>2, <2>3, SeqMonotonic
  <2>5. e.deps \in Wants /\ e.agent \in By /\ e.caps \subseteq Skill
    BY DEF Wants, By, Skill
  <2>6. QED BY <2>2, <2>4, <2>5
<1>4. Nat \cup {"task"} \subseteq Tokens /\ {} \in Wants /\ NoName \in By
  BY DEF Tokens, Wants, By
<1>5. QED BY <1>1, <1>2, <1>3, <1>4 DEF EntriesOf

(* A plan of a run that was not refused                                     *)
LEMMA PlanOfRun ==
    ASSUME job \in Jobs, NEW p \in Runs, refusal(p) = NoError, job[p].kind = "supervisor",
           NEW answer \in PlanAnswers \cup {NoPlan.answer}
    PROVE  /\ parsed(answer) \in Seq(Tasks) /\ parsed(answer) # <<>> /\ distinctIds(parsed(answer))
           /\ pipeline(parsed(answer), workers(p)) \in Seq(Tasks)
           /\ PlanCarriedOut(parsed(answer), pipeline(parsed(answer), workers(p)), workers(p))
<1>1. EntriesOf(PlanEntries, Tokens, Wants, By, Skill)
      /\ answer.entries \in Seq(PlanEntries) /\ answer.lines \in Nat
  BY PlansTyped
<1>2. parsed(answer) \in Seq(Tasks) /\ parsed(answer) # <<>> /\ distinctIds(parsed(answer))
  BY <1>1, ParsedRight DEF Tasks
<1>3. workers(p) \in Seq(By) /\ workers(p) # <<>> /\ NoName \notin ToSet(workers(p))
  BY JobFacts, NotRefused
<1>4. /\ pipeline(parsed(answer), workers(p)) \in Seq(Tasks)
      /\ PlanCarriedOut(parsed(answer), pipeline(parsed(answer), workers(p)), workers(p))
  BY <1>2, <1>3, PipelineRight DEF Tasks
<1>5. QED BY <1>2, <1>4

(* What is to be remembered of a call                                       *)
LEMMA GoodTyped ==
    ASSUME NEW entry \in Seq(Said)
    PROVE  /\ good(entry) \in Seq(Said)
           /\ \A i \in DOMAIN good(entry) :
                 /\ good(entry)[i][1] \in By /\ good(entry)[i][2] \in Texts
                 /\ good(entry)[i][2] # Error
<1> DEFINE S == {a \in ToSet(entry) : a[2] # Error}
           g == keep(entry, S)
<1>1. g \in Seq(Said) /\ ToSet(g) = ToSet(entry) \cap S
  <2> HIDE DEF S
  <2>1. QED BY KeepType, KeepMembers
<1>2. ASSUME NEW i \in DOMAIN g PROVE g[i][1] \in By /\ g[i][2] \in Texts /\ g[i][2] # Error
  <2>1. g[i] \in ToSet(g) /\ g[i] \in Said
    <3> HIDE DEF g
    <3>1. QED BY <1>1 DEF ToSet
  <2>2. g[i] \in S
    BY <1>1, <2>1
  <2> HIDE DEF g
  <2>3. QED BY <2>1, <2>2 DEF Said
<1>3. QED BY <1>1, <1>2 DEF good

LEMMA MessagesTyped ==
    ASSUME NEW p \in Runs, NEW entry \in Seq(Said)
    PROVE  messages(p, entry) \in Seq(Message) /\ \A m \in ToSet(messages(p, entry)) : m.run = p
<1> DEFINE g == good(entry)
           ms == [i \in DOMAIN g |-> message(p, g[i][1], g[i][2])]
<1>1. /\ g \in Seq(Said) /\ DOMAIN g = 1 .. Len(g) /\ Len(g) \in Nat
      /\ \A i \in DOMAIN g : g[i][1] \in By /\ g[i][2] \in Texts
  BY GoodTyped
<1>2. messages(p, entry) = ms
  BY DEF messages
<1> HIDE DEF g
<1>3. ASSUME NEW i \in DOMAIN g PROVE ms[i] \in Message /\ ms[i].run = p
  BY <1>1 DEF message, Message
<1>4. ms \in [1 .. Len(g) -> Message]
  <2> DEFINE t(i) == message(p, g[i][1], g[i][2])
  <2>1. \A i \in 1 .. Len(g) : t(i) \in Message
    BY <1>1, <1>3
  <2> HIDE DEF t
  <2>2. [i \in 1 .. Len(g) |-> t(i)] \in [1 .. Len(g) -> Message]
    BY <2>1
  <2>3. QED BY <1>1, <2>2 DEF t
<1>5. ms \in Seq(Message) /\ DOMAIN ms = DOMAIN g
  <2> HIDE DEF ms
  <2>1. QED BY <1>1, <1>4
<1> HIDE DEF ms
<1>6. QED BY <1>2, <1>3, <1>5 DEF ToSet

LEMMA NotedTyped ==
    ASSUME TypeInv, NEW p \in Runs, NEW entry \in Seq(Said), noted(p, entry)
    PROVE  /\ log' \in [Runs -> Seq(Seq(Said))] /\ queue' \in [Runs -> Seq(Message)]
           /\ waiting' \in [Runs -> BOOLEAN]
           /\ \A q \in Runs \ {p} : queue'[q] = queue[q] /\ log'[q] = log[q]
           /\ queue'[p] = messages(p, entry) /\ log'[p] = Append(log[p], entry)
           /\ \A m \in ToSet(queue'[p]) : m.run = p
<1>1. messages(p, entry) \in Seq(Message) /\ \A m \in ToSet(messages(p, entry)) : m.run = p
  BY MessagesTyped
<1>2. log \in [Runs -> Seq(Seq(Said))] /\ queue \in [Runs -> Seq(Message)] /\ waiting \in [Runs -> BOOLEAN]
  BY DEF TypeInv
<1>3. /\ log' = [log EXCEPT ![p] = Append(log[p], entry)]
      /\ queue' = [queue EXCEPT ![p] = messages(p, entry)]
      /\ waiting' = [waiting EXCEPT ![p] = FALSE]
  BY DEF noted
<1>4. Append(log[p], entry) \in Seq(Seq(Said))
  BY <1>2
<1>5. QED BY <1>1, <1>2, <1>3, <1>4

(* The job of a run stays, and with it what is told from it.                *)
LEMMA SameJob ==
    ASSUME job' = job, NEW p \in Runs
    PROVE  /\ refusal(p)' = refusal(p) /\ order(p)' = order(p) /\ rounds(p)' = rounds(p)
           /\ judge(p)' = judge(p) /\ lead(p)' = lead(p) /\ workers(p)' = workers(p)
  BY DEF refusal, order, rounds, judge, lead, workers

LEMMA RefusalTyped ==
    ASSUME NEW p \in Runs
    PROVE  refusal(p) \in {"StrategyError", "AgentNotFound", NoError}
<1>1. CASE refusal(p) = NoError
  BY <1>1
<1>2. CASE refusal(p) # NoError
  BY <1>2, ZenonT(30) DEF refusal
<1>3. QED BY <1>1, <1>2

(* In which kind of run a stage is                                          *)
LEMMA KindOf ==
    ASSUME TypeInv, StageInv, NEW p \in Runs
    PROVE  /\ stage[p] \in {"plan", "work", "report"} => job[p].kind = "supervisor"
           /\ stage[p] \in {"propose", "vote"} => job[p].kind = "consensus"
           /\ stage[p] = "round" => job[p].kind \in {"broadcast", "debate"}
           /\ stage[p] = "turn" => job[p].kind \in {"sequential", "relay"}
           /\ stage[p] = "judge" => job[p].kind \in {"debate", "consensus"}
<1>1. job[p].kind \in DOMAIN firstStage
  BY JobFacts DEF TypeInv
<1>2. job[p].kind \in {"broadcast", "debate", "sequential", "relay", "consensus", "supervisor"}
  BY <1>1 DEF firstStage
<1>3. stage[p] \notin {"new", "done"} => stage[p] \in stagesOf[job[p].kind]
  BY DEF StageInv
<1>4. QED BY <1>2, <1>3 DEF stagesOf

LEMMA RaiseTyped ==
    ASSUME TypeInv, NEW p \in Runs, NEW e \in Raised, raise(p, e)
    PROVE  /\ stage' \in [Runs -> Stages] /\ stage' = [stage EXCEPT ![p] = "done"]
           /\ final' \in [Runs -> [raised : Raised, text : Text]]
<1>1. stage \in [Runs -> Stages] /\ final \in [Runs -> [raised : Raised, text : Text]]
  BY DEF TypeInv
<1>2. final' = [final EXCEPT ![p] = [final[p] EXCEPT !.raised = e]]
  BY DEF raise
<1>3. [final[p] EXCEPT !.raised = e] \in [raised : Raised, text : Text]
  BY <1>1
<1>4. "done" \in Stages
  BY DEF Stages
<1>5. QED BY <1>1, <1>2, <1>3, <1>4 DEF raise

LEMMA ReturnTyped ==
    ASSUME TypeInv, NEW p \in Runs, NEW t \in Text, return(p, t)
    PROVE  /\ stage' \in [Runs -> Stages] /\ stage' = [stage EXCEPT ![p] = "done"]
           /\ final' \in [Runs -> [raised : Raised, text : Text]]
<1>1. stage \in [Runs -> Stages] /\ final \in [Runs -> [raised : Raised, text : Text]]
  BY DEF TypeInv
<1>2. final' = [final EXCEPT ![p] = [final[p] EXCEPT !.text = t]]
  BY DEF return
<1>3. [final[p] EXCEPT !.text = t] \in [raised : Raised, text : Text]
  BY <1>1
<1>4. "done" \in Stages
  BY DEF Stages
<1>5. QED BY <1>1, <1>2, <1>3, <1>4 DEF return, enter

LEMMA WholeTyped ==
    ASSUME NEW t \in Texts
    PROVE  whole(<<t>>) \in Text
  BY DEF whole, Text

LEMMA TextsTyped ==
    ASSUME NEW entry \in Seq(Said)
    PROVE  textsOf(entry) \in Seq(Texts) /\ Len(textsOf(entry)) = Len(good(entry))
<1> DEFINE g == good(entry)
           ts == [i \in DOMAIN g |-> g[i][2]]
<1>1. /\ g \in Seq(Said) /\ DOMAIN g = 1 .. Len(g) /\ Len(g) \in Nat
      /\ \A i \in DOMAIN g : g[i][1] \in By /\ g[i][2] \in Texts
  BY GoodTyped
<1>2. textsOf(entry) = ts
  BY DEF textsOf
<1> HIDE DEF g
<1>3. ts \in [1 .. Len(g) -> Texts]
  BY <1>1
<1> HIDE DEF ts
<1>4. QED BY <1>1, <1>2, <1>3 DEF g

(* The calls that have answered                                             *)
LEMMA LastTyped ==
    ASSUME TypeInv, NEW p \in Runs, log[p] # <<>>
    PROVE  lastOf(p) \in Seq(Said)
<1>1. log[p] \in Seq(Seq(Said))
  BY DEF TypeInv
<1>2. QED BY <1>1 DEF lastOf

LEMMA JoinedTyped ==
    ASSUME TypeInv, NEW p \in Runs, log[p] # <<>>
    PROVE  joined(p) \in Text
<1> DEFINE parts == textsOf(lastOf(p))
<1>1. parts \in Seq(Texts)
  BY LastTyped, TextsTyped
<1>2. text[p] \in Text
  BY DEF TypeInv
<1>3. joined(p) = IF parts = <<>> THEN text[p] ELSE whole(parts)
  BY DEF joined
<1> HIDE DEF parts
<1>4. whole(parts) \in Text
  BY <1>1 DEF whole, Text
<1>5. QED BY <1>2, <1>3, <1>4

LEMMA FedBackTyped ==
    ASSUME NEW p \in Runs, joined(p) \in Text
    PROVE  \A t \in fedBack(p) : t \in Text
<1> DEFINE s == joined(p)
<1>1. fedBack(p) = IF job[p].limited
                   THEN {[of |-> <<Prompt>> \o s.of, cut |-> c] : c \in {s.cut, TRUE}}
                   ELSE {s}
  BY DEF fedBack
<1>2. s \in Text
  OBVIOUS
<1> HIDE DEF s
<1>3. s.of \in Seq(Texts) /\ s.cut \in BOOLEAN /\ Prompt \in Texts
  BY <1>2 DEF Text, Texts
<1>4. <<Prompt>> \o s.of \in Seq(Texts)
  BY <1>3
<1> DEFINE o == <<Prompt>> \o s.of
<1> HIDE DEF o
<1>5. o \in Seq(Texts)
  BY <1>4 DEF o
<1>6. \A c \in {s.cut, TRUE} : [of |-> o, cut |-> c] \in Text
  BY <1>3, <1>5, Zenon DEF Text
<1>7. QED BY <1>1, <1>2, <1>6, Zenon DEF o

LEMMA LeaderTyped ==
    ASSUME NEW choice
    PROVE  leader(choice) \in ToSet(Names) \cup {NoName}
<1> DEFINE count(c) == Cardinality({n \in DOMAIN choice : choice[n] = c})
           ahead == {c \in ToSet(Names) : count(c) > 0 /\
                        \A d \in ToSet(Names) \ {c} : count(c) > count(d)}
<1>1. leader(choice) = IF ahead = {} THEN NoName ELSE CHOOSE c \in ahead : TRUE
  BY DEF leader
<1>2. ahead \subseteq ToSet(Names)
  OBVIOUS
<1> HIDE DEF ahead
<1>3. QED BY <1>1, <1>2

(* What is taken down of a call                                             *)
LEMMA AllTyped ==
    ASSUME job \in Jobs, NEW p \in Runs, NEW f \in [ToSet(Names) -> Answers \cup {Error}]
    PROVE  [i \in DOMAIN Names |-> <<Names[i], f[Names[i]]>>] \in Seq(Said)
<1> DEFINE t(i) == <<Names[i], f[Names[i]]>>
<1>1. Names \in Seq(By) /\ DOMAIN Names = 1 .. Len(Names) /\ Len(Names) \in Nat
  BY JobFacts
<1>2. ASSUME NEW i \in 1 .. Len(Names) PROVE t(i) \in Said
  <2>1. Names[i] \in ToSet(Names)
    BY <1>1 DEF ToSet
  <2>2. f[Names[i]] \in Texts
    BY <2>1 DEF Texts
  <2>3. QED BY <2>1, <2>2 DEF Said, By
<1> HIDE DEF t
<1>3. [i \in 1 .. Len(Names) |-> t(i)] \in Seq(Said)
  BY <1>1, <1>2
<1>4. QED BY <1>1, <1>3 DEF t

LEMMA OneTyped ==
    ASSUME TypeInv, StageInv, NEW p \in Runs, stage[p] \in {"turn", "judge", "report"},
           NEW a \in Texts
    PROVE  asked(p) \in By /\ <<<<asked(p), a>>>> \in Seq(Said)
<1>1. order(p) \in Seq(By) /\ judge(p) \in By /\ lead(p) \in By
  BY JobFacts DEF TypeInv
<1>2. turn[p] \in 1 .. Len(order(p))
  BY DEF StageInv
<1>3. order(p)[turn[p]] \in By
  BY <1>1, <1>2
<1>4. asked(p) \in By
  BY <1>1, <1>3 DEF asked
<1>5. QED BY <1>4 DEF Said

LEMMA WorkTyped ==
    ASSUME TypeInv, NEW p \in Runs, NEW S
    PROVE  [i \in DOMAIN plan[p].tasks |->
               <<plan[p].tasks[i].agent, IF i \in S THEN "output" ELSE Error>>] \in Seq(Said)
<1> DEFINE tasks == plan[p].tasks
           t(i) == <<tasks[i].agent, IF i \in S THEN "output" ELSE Error>>
<1>1. tasks \in Seq(Tasks)
  BY DEF TypeInv
<1> HIDE DEF tasks
<1>2. DOMAIN tasks = 1 .. Len(tasks) /\ Len(tasks) \in Nat /\ \A i \in DOMAIN tasks : tasks[i] \in Tasks
  BY <1>1
<1>3. ASSUME NEW i \in DOMAIN tasks PROVE t(i) \in Said
  <2>1. tasks[i].agent \in By
    BY <1>2 DEF Tasks, PlanTask
  <2>2. "output" \in Texts /\ Error \in Texts
    BY DEF Texts
  <2>3. QED BY <2>1, <2>2 DEF Said
<1> HIDE DEF t
<1>4. [i \in 1 .. Len(tasks) |-> t(i)] \in Seq(Said)
  BY <1>2, <1>3
<1>5. QED BY <1>2, <1>4 DEF t, tasks

(* The types, step by step                                                  *)
LEMMA TypeStep ==
    ASSUME TypeInv, StageInv, CallInv, NEW p \in Runs, Step(p)
    PROVE  TypeInv'
<1>1. /\ job \in Jobs
      /\ stage \in [Runs -> Stages]
      /\ round \in [Runs -> Nat \ {0}] /\ turn \in [Runs -> Nat \ {0}]
      /\ waiting \in [Runs -> BOOLEAN]
      /\ log \in [Runs -> Seq(Seq(Said))]
      /\ queue \in [Runs -> Seq(Message)] /\ memory \in Seq(Message)
      /\ text \in [Runs -> Text]
      /\ ballot \in [Runs -> [winner : By, meant : By, clear : BOOLEAN]]
      /\ plan \in [Runs -> [answer : PlanAnswers \cup {NoPlan.answer}, tasks : Seq(Tasks)]]
      /\ final \in [Runs -> [raised : Raised, text : Text]]
  BY DEF TypeInv
<1>2. \A s \in {"round", "turn", "judge", "propose", "vote", "plan", "work", "report", "done"} : s \in Stages
  BY DEF Stages
<1>3. NoName \in By /\ Prompt \in Texts /\ Error \in Texts /\ ToSet(Names) \subseteq By
  BY DEF By, Texts
<1>4. /\ stage[p] \notin {"new", "done"} => refusal(p) = NoError /\ stage[p] \in stagesOf[job[p].kind]
      /\ turn[p] \in 1 .. Len(order(p))
      /\ ~waiting[p] => log[p] # <<>> /\ (stage[p] \in {"turn", "judge", "report"} => Len(lastOf(p)) = 1)
      /\ stage[p] = "vote" => log[p] # <<>>
      /\ job[p].kind = "consensus" /\ log[p] # <<>> => listing(log[p][1])
  BY DEF StageInv, CallInv
<1>6. askAgain(p) => waiting' \in [Runs -> BOOLEAN]
  BY <1>1 DEF askAgain
<1>7. ASSUME NEW s \in Stages, enter(p, s) PROVE stage' \in [Runs -> Stages]
  BY <1>1, <1>7 DEF enter
<1>8. ASSUME Len(lastOf(p)) = 1, log[p] # <<>>
      PROVE  lastOf(p)[1][1] \in By /\ lastOf(p)[1][2] \in Texts
  <2>1. lastOf(p) \in Seq(Said)
    BY <1>8, LastTyped
  <2>2. lastOf(p)[1] \in Said
    <3> DEFINE e == lastOf(p)
    <3> HIDE DEF e
    <3>1. e \in Seq(Said) /\ 1 \in 1 .. Len(e)
      BY <1>8, <2>1 DEF e
    <3>2. e[1] \in Said
      BY <3>1, ElementOfSeq
    <3>3. QED BY <3>2 DEF e
  <2>3. QED BY <2>2 DEF Said
<1>9. CASE Start(p)
  <2>1. CASE refusal(p) # NoError
    <3>1. refusal(p) \in Raised
      BY RefusalTyped DEF Raised
    <3>2. raise(p, refusal(p)) /\ UNCHANGED <<job, round, turn, waiting, log, memory, text, ballot, plan, queue>>
      BY <1>9, <2>1 DEF Start
    <3>3. stage' \in [Runs -> Stages] /\ final' \in [Runs -> [raised : Raised, text : Text]]
      BY <3>1, <3>2, RaiseTyped
    <3>4. QED BY <1>1, <3>2, <3>3 DEF TypeInv
  <2>2. CASE refusal(p) = NoError
    <3>1. /\ enter(p, firstStage[job[p].kind])
          /\ queue' = [queue EXCEPT ![p] = <<message(p, NoName, Prompt)>>]
          /\ UNCHANGED <<job, round, turn, waiting, log, memory, text, ballot, plan, final>>
      BY <1>9, <2>2 DEF Start
    <3>2. firstStage[job[p].kind] \in Stages
      <4>1. job[p].kind \in DOMAIN firstStage
        BY <1>1, JobFacts
      <4>2. QED BY <4>1 DEF firstStage, Stages
    <3>3. stage' \in [Runs -> Stages]
      BY <1>7, <3>1, <3>2
    <3>4. message(p, NoName, Prompt) \in Message
      BY <1>3 DEF message, Message
    <3>5. queue' \in [Runs -> Seq(Message)]
      BY <1>1, <3>1, <3>4
    <3>6. QED BY <1>1, <3>1, <3>3, <3>5 DEF TypeInv
  <2>3. QED BY <2>1, <2>2
<1>10. CASE Remember(p)
  <2>1. /\ queue[p] # <<>> /\ queue' = [queue EXCEPT ![p] = Tail(queue[p])]
        /\ UNCHANGED <<job, progress, waiting, log, text, ballot, plan, final>>
    BY <1>10 DEF Remember
  <2> DEFINE longer == Append(memory, Head(queue[p]))
  <2>2. memory' = IF Len(longer) > Capacity
                 THEN SubSeq(longer, Len(longer) - Capacity + 1, Len(longer)) ELSE longer
    BY <1>10 DEF Remember
  <2>3. Head(queue[p]) \in Message /\ Tail(queue[p]) \in Seq(Message)
    <3>1. queue[p] \in Seq(Message)
      BY <1>1
    <3>2. QED BY <2>1, <3>1
  <2>4. longer \in Seq(Message)
    BY <1>1, <2>3
  <2>5. memory' \in Seq(Message)
    <3> HIDE DEF longer
    <3>1. Capacity \in Nat \ {0}
      BY StrategiesAssumption DEF StrategiesAssumption
    <3>2. Len(longer) > Capacity => SubSeq(longer, Len(longer) - Capacity + 1, Len(longer)) \in Seq(Message)
      BY <2>4, <3>1
    <3>3. QED BY <2>2, <2>4, <3>2
  <2>6. queue' \in [Runs -> Seq(Message)]
    BY <1>1, <2>1, <2>3
  <2>7. QED BY <1>1, <2>1, <2>5, <2>6 DEF TypeInv, progress
<1>11. CASE AskAll(p)
  <2>1. PICK f \in [ToSet(Names) -> Answers \cup {Error}] :
           noted(p, [i \in DOMAIN Names |-> <<Names[i], f[Names[i]]>>])
    BY <1>11 DEF AskAll
  <2> DEFINE e == [i \in DOMAIN Names |-> <<Names[i], f[Names[i]]>>]
  <2>2. e \in Seq(Said)
    BY <1>1, AllTyped
  <2>3. /\ log' \in [Runs -> Seq(Seq(Said))] /\ queue' \in [Runs -> Seq(Message)]
        /\ waiting' \in [Runs -> BOOLEAN]
    <3> HIDE DEF e
    <3>1. noted(p, e)
      BY <2>1 DEF e
    <3>2. QED BY <2>2, <3>1, NotedTyped
  <2>4. UNCHANGED <<job, progress, memory, text, ballot, plan, final>>
    BY <1>11 DEF AskAll
  <2>5. QED BY <1>1, <2>3, <2>4 DEF TypeInv, progress
<1>12. CASE AskOne(p)
  <2>1. UNCHANGED <<job, round, turn, memory, text, ballot, plan>>
    BY <1>12 DEF AskOne
  <2>2. CASE ~registered(asked(p)) /\ job[p].kind = "debate"
    <3>1. raise(p, "AgentNotFound") /\ UNCHANGED <<log, queue, waiting>>
      BY <1>12, <2>2 DEF AskOne
    <3>2. stage' \in [Runs -> Stages] /\ final' \in [Runs -> [raised : Raised, text : Text]]
      <4>1. "AgentNotFound" \in Raised /\ "PlanValidationError" \in Raised
        BY DEF Raised
      <4>2. QED BY <3>1, <4>1, RaiseTyped
    <3>3. QED BY <1>1, <2>1, <3>1, <3>2 DEF TypeInv
  <2>3. CASE ~(~registered(asked(p)) /\ job[p].kind = "debate")
    <3>1. UNCHANGED <<stage, final>> /\
          \E a \in (IF registered(asked(p)) THEN Answers ELSE {}) \cup {Error} :
                     noted(p, <<<<asked(p), a>>>>)
      BY <1>12, <2>3 DEF AskOne
    <3>2. PICK a \in Texts : noted(p, <<<<asked(p), a>>>>)
      BY <3>1 DEF Texts
    <3>3. stage[p] \in {"turn", "judge", "report"}
      BY <1>12 DEF AskOne
    <3>4. <<<<asked(p), a>>>> \in Seq(Said)
      BY <3>3, OneTyped
    <3>5. /\ log' \in [Runs -> Seq(Seq(Said))] /\ queue' \in [Runs -> Seq(Message)]
          /\ waiting' \in [Runs -> BOOLEAN]
      BY <3>2, <3>4, NotedTyped
    <3>6. QED BY <1>1, <2>1, <3>1, <3>5 DEF TypeInv
  <2>4. QED BY <2>2, <2>3
<1>13. CASE Abort(p)
  <2>1. PICK e \in {"BudgetExceeded", "RunTimeout", "TaskError"} : raise(p, e)
    BY <1>13 DEF Abort
  <2>2. UNCHANGED <<job, round, turn, waiting, log, queue, memory, text, ballot, plan>>
    BY <1>13 DEF Abort
  <2>3. stage' \in [Runs -> Stages] /\ final' \in [Runs -> [raised : Raised, text : Text]]
    <3>1. e \in Raised
      BY DEF Raised
    <3>2. QED BY <2>1, <3>1, RaiseTyped
  <2>4. QED BY <1>1, <2>2, <2>3 DEF TypeInv
<1>14. CASE BroadcastRound(p)
  <2>1. ~waiting[p] /\ UNCHANGED <<job, turn, log, queue, memory, ballot, plan>>
    BY <1>14 DEF BroadcastRound, proceeds
  <2>2. joined(p) \in Text
    BY <1>4, <2>1, JoinedTyped
  <2>3. CASE round[p] < rounds(p)
    <3>1. /\ round' = [round EXCEPT ![p] = round[p] + 1] /\ askAgain(p)
          /\ \E t \in fedBack(p) : text' = [text EXCEPT ![p] = t]
          /\ UNCHANGED <<stage, final>>
      BY <1>14, <2>3 DEF BroadcastRound
    <3>2. \A t \in fedBack(p) : t \in Text
      BY <2>2, FedBackTyped
    <3>3. text' \in [Runs -> Text]
      BY <1>1, <3>1, <3>2
    <3>4. round' \in [Runs -> Nat \ {0}]
      BY <1>1, <3>1
    <3>5. QED BY <1>1, <1>6, <2>1, <3>1, <3>3, <3>4 DEF TypeInv
  <2>4. CASE ~(round[p] < rounds(p))
    <3>1. return(p, joined(p)) /\ UNCHANGED <<round, waiting, text>>
      BY <1>14, <2>4 DEF BroadcastRound
    <3>2. stage' \in [Runs -> Stages] /\ final' \in [Runs -> [raised : Raised, text : Text]]
      BY <2>2, <3>1, ReturnTyped
    <3>3. QED BY <1>1, <2>1, <3>1, <3>2 DEF TypeInv
  <2>5. QED BY <2>3, <2>4
<1>15. CASE DebateRound(p)
  <2>1. askAgain(p) /\ UNCHANGED <<job, turn, log, queue, memory, text, ballot, plan, final>>
    BY <1>15 DEF DebateRound
  <2>2. stage' \in [Runs -> Stages] /\ round' \in [Runs -> Nat \ {0}]
    <3>1. CASE round[p] < rounds(p)
      <4>1. round' = [round EXCEPT ![p] = round[p] + 1] /\ UNCHANGED stage
        BY <1>15, <3>1 DEF DebateRound
      <4>2. QED BY <1>1, <4>1
    <3>2. CASE ~(round[p] < rounds(p))
      <4>1. enter(p, "judge") /\ UNCHANGED round
        BY <1>15, <3>2 DEF DebateRound
      <4>2. QED BY <1>1, <1>2, <1>7, <4>1
    <3>3. QED BY <3>1, <3>2
  <2>3. QED BY <1>1, <1>6, <2>1, <2>2 DEF TypeInv
<1>16. CASE LastWord(p)
  <2>1. /\ ~waiting[p] /\ stage[p] \in {"judge", "report"} /\ return(p, whole(<<lastOf(p)[1][2]>>))
        /\ UNCHANGED <<job, round, turn, waiting, log, queue, memory, text, ballot, plan>>
    BY <1>16 DEF LastWord, proceeds
  <2>2. whole(<<lastOf(p)[1][2]>>) \in Text
    BY <1>4, <1>8, <2>1, WholeTyped
  <2>3. stage' \in [Runs -> Stages] /\ final' \in [Runs -> [raised : Raised, text : Text]]
    BY <2>1, <2>2, ReturnTyped
  <2>4. QED BY <1>1, <2>1, <2>3 DEF TypeInv
<1>17. CASE SequentialTurn(p)
  <2>1. ~waiting[p] /\ stage[p] = "turn" /\ UNCHANGED <<job, round, log, queue, memory, text, ballot, plan>>
    BY <1>17 DEF SequentialTurn, proceeds
  <2>2. whole(<<lastOf(p)[1][2]>>) \in Text
    BY <1>4, <1>8, <2>1, WholeTyped
  <2>3. CASE turn[p] < Len(order(p))
    <3>1. turn' = [turn EXCEPT ![p] = turn[p] + 1] /\ askAgain(p) /\ UNCHANGED <<stage, final>>
      BY <1>17, <2>3 DEF SequentialTurn
    <3>2. turn' \in [Runs -> Nat \ {0}]
      BY <1>1, <3>1
    <3>3. QED BY <1>1, <1>6, <2>1, <3>1, <3>2 DEF TypeInv
  <2>4. CASE ~(turn[p] < Len(order(p)))
    <3>1. return(p, whole(<<lastOf(p)[1][2]>>)) /\ UNCHANGED <<turn, waiting>>
      BY <1>17, <2>4 DEF SequentialTurn
    <3>2. stage' \in [Runs -> Stages] /\ final' \in [Runs -> [raised : Raised, text : Text]]
      BY <2>2, <3>1, ReturnTyped
    <3>3. QED BY <1>1, <2>1, <3>1, <3>2 DEF TypeInv
  <2>5. QED BY <2>3, <2>4
<1>18. CASE RelayTurn(p)
  <2>1. ~waiting[p] /\ stage[p] = "turn" /\ UNCHANGED <<job, log, queue, memory, ballot, plan>>
    BY <1>18 DEF RelayTurn, proceeds
  <2> DEFINE a == lastOf(p)[1][2]
             draft == IF a = Error THEN text[p] ELSE whole(<<a>>)
             begun == whole(<<latest(p, (round[p] - 1) * Len(order(p)))>>)
  <2>2. draft \in Text
    BY <1>1, <1>4, <1>8, <2>1, WholeTyped
  <2>3. /\ text' = [text EXCEPT ![p] = draft]
        /\ IF turn[p] < Len(order(p))
                 THEN turn' = [turn EXCEPT ![p] = turn[p] + 1] /\ askAgain(p)
                      /\ UNCHANGED <<stage, round, final>>
                 ELSE IF round[p] < rounds(p) /\ draft # begun
                 THEN /\ turn' = [turn EXCEPT ![p] = 1] /\ askAgain(p)
                      /\ round' = [round EXCEPT ![p] = round[p] + 1] /\ UNCHANGED <<stage, final>>
                 ELSE return(p, draft) /\ UNCHANGED <<round, turn, waiting>>
    BY <1>18 DEF RelayTurn
  <2> HIDE DEF draft, begun
  <2>4. text' \in [Runs -> Text]
    BY <1>1, <2>2, <2>3
  <2>5. CASE turn[p] < Len(order(p))
    <3>1. turn' = [turn EXCEPT ![p] = turn[p] + 1] /\ askAgain(p) /\ UNCHANGED <<stage, round, final>>
      BY <2>3, <2>5
    <3>2. turn' \in [Runs -> Nat \ {0}]
      BY <1>1, <3>1
    <3>3. QED BY <1>1, <1>6, <2>1, <2>4, <3>1, <3>2 DEF TypeInv
  <2>6. CASE ~(turn[p] < Len(order(p))) /\ round[p] < rounds(p) /\ draft # begun
    <3>1. /\ turn' = [turn EXCEPT ![p] = 1] /\ askAgain(p)
          /\ round' = [round EXCEPT ![p] = round[p] + 1] /\ UNCHANGED <<stage, final>>
      BY <2>3, <2>6
    <3>2. turn' \in [Runs -> Nat \ {0}] /\ round' \in [Runs -> Nat \ {0}]
      BY <1>1, <3>1
    <3>3. QED BY <1>1, <1>6, <2>1, <2>4, <3>1, <3>2 DEF TypeInv
  <2>7. CASE ~(turn[p] < Len(order(p))) /\ ~(round[p] < rounds(p) /\ draft # begun)
    <3>1. return(p, draft) /\ UNCHANGED <<round, turn, waiting>>
      BY <2>3, <2>7
    <3>2. stage' \in [Runs -> Stages] /\ final' \in [Runs -> [raised : Raised, text : Text]]
      BY <2>2, <3>1, ReturnTyped
    <3>3. QED BY <1>1, <2>1, <2>4, <3>1, <3>2 DEF TypeInv
  <2>8. QED BY <2>5, <2>6, <2>7
<1>19. CASE ToVote(p)
  <2>1. /\ enter(p, "vote") /\ askAgain(p)
        /\ UNCHANGED <<job, round, turn, log, queue, memory, text, ballot, plan, final>>
    BY <1>19 DEF ToVote
  <2>2. stage' \in [Runs -> Stages]
    BY <1>2, <1>7, <2>1
  <2>3. QED BY <1>1, <1>6, <2>1, <2>2 DEF TypeInv
<1>20. CASE Vote(p)
  <2>1. UNCHANGED <<job, round, turn, waiting, log, queue, memory, text, plan>>
    BY <1>20 DEF Vote
  <2>2. PICK f \in [ToSet(Names) -> Votes] :
          LET winner == counted([n \in DOMAIN f |-> parsedVote(f[n])])
              proposal == CHOOSE a \in ToSet(log[p][1]) \cup {<<NoName, Error>>} :
                             a[1] = winner
          IN  /\ ballot' = [ballot EXCEPT ![p] =
                    [winner |-> winner, meant |-> leader([n \in DOMAIN f |-> meant(f[n])]),
                     clear |-> \A n \in DOMAIN f : clearVote(f[n])]]
              /\ IF proposal[2] # Error THEN return(p, whole(<<proposal[2]>>))
                 ELSE enter(p, "judge") /\ UNCHANGED final
    BY <1>20 DEF Vote
  <2> DEFINE winner == counted([n \in DOMAIN f |-> parsedVote(f[n])])
             other == leader([n \in DOMAIN f |-> meant(f[n])])
             clear == \A n \in DOMAIN f : clearVote(f[n])
             proposal == CHOOSE a \in ToSet(log[p][1]) \cup {<<NoName, Error>>} : a[1] = winner
  <2>3. winner \in By /\ other \in By
    <3>1. winner \in ToSet(Names) \cup {NoName} /\ other \in ToSet(Names) \cup {NoName}
      BY LeaderTyped DEF counted
    <3> HIDE DEF winner, other
    <3>2. QED BY <1>3, <3>1
  <2>4. clear \in BOOLEAN
    OBVIOUS
  <2> HIDE DEF winner, other, clear
  <2>5. [winner |-> winner, meant |-> other, clear |-> clear] \in [winner : By, meant : By, clear : BOOLEAN]
    BY <2>3, <2>4
  <2>6. ballot' = [ballot EXCEPT ![p] = [winner |-> winner, meant |-> other, clear |-> clear]]
    BY <2>2 DEF winner, other, clear
  <2>7. ballot' \in [Runs -> [winner : By, meant : By, clear : BOOLEAN]]
    BY <1>1, <2>5, <2>6
  <2>8. IF proposal[2] # Error THEN return(p, whole(<<proposal[2]>>))
        ELSE enter(p, "judge") /\ UNCHANGED final
    BY <2>2 DEF winner
  <2>9. proposal[2] \in Texts
    <3> DEFINE X == ToSet(log[p][1]) \cup {<<NoName, Error>>}
    <3>1. stage[p] = "vote"
      BY <1>20 DEF Vote
    <3>2. log[p] # <<>> /\ listing(log[p][1])
      BY <1>4, <3>1, KindOf
    <3>3. log[p][1] \in Seq(Said)
      <4>1. log[p] \in Seq(Seq(Said))
        BY <1>1
      <4>2. QED BY <3>2, <4>1
    <3>4. X \subseteq Said
      <4>1. ToSet(log[p][1]) \subseteq Said
        BY <3>3, Member
      <4>2. <<NoName, Error>> \in Said
        BY <1>3 DEF Said
      <4>3. QED BY <4>1, <4>2
    <3>5. \E a \in X : a[1] = winner
      <4>1. CASE winner = NoName
        <5>1. <<NoName, Error>> \in X /\ <<NoName, Error>>[1] = NoName
          OBVIOUS
        <5>2. QED BY <4>1, <5>1
      <4>2. CASE winner \in ToSet(Names)
        <5>1. PICK i \in DOMAIN Names : winner = Names[i]
          BY <4>2 DEF ToSet
        <5>2. log[p][1][i] \in ToSet(log[p][1]) /\ log[p][1][i][1] = winner
          BY <3>2, <5>1 DEF listing, ToSet
        <5>3. QED BY <5>2
      <4>3. winner \in ToSet(Names) \cup {NoName}
        BY LeaderTyped DEF winner, counted
      <4>4. QED BY <4>1, <4>2, <4>3
    <3>6. proposal \in X
      <4> HIDE DEF X
      <4>1. proposal = CHOOSE a \in X : a[1] = winner
        BY DEF X
      <4>2. QED BY <3>5, <4>1
    <3> HIDE DEF proposal
    <3>7. QED BY <3>4, <3>6 DEF Said
  <2> HIDE DEF proposal
  <2>10. stage' \in [Runs -> Stages] /\ final' \in [Runs -> [raised : Raised, text : Text]]
    <3>1. CASE proposal[2] # Error
      <4>1. whole(<<proposal[2]>>) \in Text /\ return(p, whole(<<proposal[2]>>))
        BY <2>8, <2>9, <3>1, WholeTyped
      <4>2. QED BY <4>1, ReturnTyped
    <3>2. CASE proposal[2] = Error
      BY <1>1, <1>2, <1>7, <2>8, <3>2
    <3>3. QED BY <3>1, <3>2
  <2>11. QED BY <1>1, <2>1, <2>7, <2>10 DEF TypeInv
<1>21. CASE AskPlan(p)
  <2>1. UNCHANGED <<job, progress, memory, text, ballot, final>>
    BY <1>21 DEF AskPlan
  <2>2. lead(p) \in By
    BY <1>1, JobFacts
  <2>3. \E a \in Texts : noted(p, <<<<lead(p), a>>>>)
    BY <1>21 DEF AskPlan, Texts
  <2>4. PICK a \in Texts : noted(p, <<<<lead(p), a>>>>)
    BY <2>3
  <2>5. <<<<lead(p), a>>>> \in Seq(Said)
    BY <2>2 DEF Said
  <2>6. /\ log' \in [Runs -> Seq(Seq(Said))] /\ queue' \in [Runs -> Seq(Message)]
        /\ waiting' \in [Runs -> BOOLEAN]
    BY <2>4, <2>5, NotedTyped
  <2>7. plan' = plan \/ \E b \in PlanAnswers : plan' = [plan EXCEPT ![p] = [plan[p] EXCEPT !.answer = b]]
    BY <1>21 DEF AskPlan
  <2>8. ASSUME NEW b \in PlanAnswers
        PROVE  [plan[p] EXCEPT !.answer = b] \in [answer : PlanAnswers \cup {NoPlan.answer}, tasks : Seq(Tasks)]
    BY <1>1
  <2>9. plan' \in [Runs -> [answer : PlanAnswers \cup {NoPlan.answer}, tasks : Seq(Tasks)]]
    BY <1>1, <2>7, <2>8
  <2>10. QED BY <1>1, <2>1, <2>6, <2>9 DEF TypeInv, progress
<1>22. CASE Plan(p)
  <2> DEFINE tasks == pipeline(parsed(plan[p].answer), workers(p))
  <2>1. /\ stage[p] = "plan" /\ UNCHANGED <<job, round, turn, log, queue, memory, text, ballot>>
        /\ IF tasks = <<>> THEN raise(p, "PlanValidationError") /\ UNCHANGED <<waiting, plan>>
           ELSE /\ plan' = [plan EXCEPT ![p] = [plan[p] EXCEPT !.tasks = tasks]]
                /\ enter(p, "work") /\ askAgain(p) /\ UNCHANGED final
    BY <1>22 DEF Plan
  <2>2. tasks \in Seq(Tasks)
    <3>1. refusal(p) = NoError /\ job[p].kind = "supervisor"
      <4>1. refusal(p) = NoError /\ "plan" \in stagesOf[job[p].kind] /\ job[p].kind \in DOMAIN firstStage
        BY <1>1, <1>4, <2>1, JobFacts
      <4>2. QED BY <4>1 DEF stagesOf, firstStage
    <3>2. plan[p].answer \in PlanAnswers \cup {NoPlan.answer}
      BY <1>1
    <3>3. QED BY <1>1, <3>1, <3>2, PlanOfRun
  <2> HIDE DEF tasks
  <2>3. CASE tasks = <<>>
    <3>1. raise(p, "PlanValidationError") /\ UNCHANGED <<waiting, plan>>
      BY <2>1, <2>3
    <3>2. stage' \in [Runs -> Stages] /\ final' \in [Runs -> [raised : Raised, text : Text]]
      <4>1. "AgentNotFound" \in Raised /\ "PlanValidationError" \in Raised
        BY DEF Raised
      <4>2. QED BY <3>1, <4>1, RaiseTyped
    <3>3. QED BY <1>1, <2>1, <3>1, <3>2 DEF TypeInv
  <2>4. CASE tasks # <<>>
    <3>1. /\ plan' = [plan EXCEPT ![p] = [plan[p] EXCEPT !.tasks = tasks]]
          /\ enter(p, "work") /\ askAgain(p) /\ UNCHANGED final
      BY <2>1, <2>4
    <3>2. stage' \in [Runs -> Stages]
      BY <1>2, <1>7, <3>1
    <3>3. [plan[p] EXCEPT !.tasks = tasks] \in [answer : PlanAnswers \cup {NoPlan.answer}, tasks : Seq(Tasks)]
      BY <1>1, <2>2
    <3>4. plan' \in [Runs -> [answer : PlanAnswers \cup {NoPlan.answer}, tasks : Seq(Tasks)]]
      BY <1>1, <3>1, <3>3
    <3>5. QED BY <1>1, <1>6, <2>1, <3>1, <3>2, <3>4 DEF TypeInv
  <2>5. QED BY <2>3, <2>4
<1>23. CASE Work(p)
  <2> DEFINE tasks == plan[p].tasks
  <2>1. UNCHANGED <<job, progress, memory, text, ballot, plan, final>>
    BY <1>23 DEF Work
  <2>2. PICK S \in SUBSET (DOMAIN tasks) :
           noted(p, [i \in DOMAIN tasks |-> <<tasks[i].agent, IF i \in S THEN "output" ELSE Error>>])
    BY <1>23 DEF Work
  <2> DEFINE e == [i \in DOMAIN tasks |-> <<tasks[i].agent, IF i \in S THEN "output" ELSE Error>>]
  <2>3. e \in Seq(Said)
    BY WorkTyped
  <2>4. /\ log' \in [Runs -> Seq(Seq(Said))] /\ queue' \in [Runs -> Seq(Message)]
        /\ waiting' \in [Runs -> BOOLEAN]
    <3>1. noted(p, e)
      BY <2>2
    <3> HIDE DEF e
    <3>2. QED BY <2>3, <3>1, NotedTyped
  <2>5. QED BY <1>1, <2>1, <2>4 DEF TypeInv, progress
<1>24. CASE ToReport(p)
  <2>1. /\ enter(p, "report") /\ askAgain(p)
        /\ UNCHANGED <<job, round, turn, log, queue, memory, text, ballot, plan, final>>
    BY <1>24 DEF ToReport
  <2>2. stage' \in [Runs -> Stages]
    BY <1>2, <1>7, <2>1
  <2>3. QED BY <1>1, <1>6, <2>1, <2>2 DEF TypeInv
<1>25. QED BY <1>9, <1>10, <1>11, <1>12, <1>13, <1>14, <1>15, <1>16, <1>17, <1>18, <1>19,
             <1>20, <1>21, <1>22, <1>23, <1>24 DEF Step

-----------------------------------------------------------------------------
(* What a step does to the run that takes it; the other runs keep what they *)
(* have, and only Remember changes the memory.                              *)

LEMMA Others ==
    ASSUME TypeInv, NEW p \in Runs, Step(p), NEW q \in Runs, q # p
    PROVE  /\ stage'[q] = stage[q] /\ round'[q] = round[q] /\ turn'[q] = turn[q]
           /\ waiting'[q] = waiting[q] /\ log'[q] = log[q] /\ queue'[q] = queue[q]
           /\ text'[q] = text[q] /\ ballot'[q] = ballot[q] /\ plan'[q] = plan[q]
           /\ final'[q] = final[q] /\ job' = job /\ (~Remember(p) => memory' = memory)
<1> USE DEF raise, enter, return, noted, askAgain, progress
<1>1. /\ stage \in [Runs -> Stages] /\ round \in [Runs -> Nat \ {0}] /\ turn \in [Runs -> Nat \ {0}]
      /\ waiting \in [Runs -> BOOLEAN] /\ log \in [Runs -> Seq(Seq(Said))]
      /\ queue \in [Runs -> Seq(Message)] /\ text \in [Runs -> Text]
      /\ ballot \in [Runs -> [winner : By, meant : By, clear : BOOLEAN]]
      /\ plan \in [Runs -> [answer : PlanAnswers \cup {NoPlan.answer}, tasks : Seq(Tasks)]]
      /\ final \in [Runs -> [raised : Raised, text : Text]]
  BY DEF TypeInv
<1>2. CASE Start(p)
  BY <1>1, <1>2 DEF Start
<1>3. CASE Remember(p)
  <2>1. queue'[q] = queue[q] /\ UNCHANGED <<job, progress, waiting, log, text, ballot, plan, final>>
    BY <1>1, <1>3 DEF Remember
  <2>2. QED BY <1>3, <2>1
<1>4. CASE AskAll(p)
  BY <1>1, <1>4 DEF AskAll
<1>5. CASE AskOne(p)
  BY <1>1, <1>5 DEF AskOne
<1>6. CASE Abort(p)
  BY <1>1, <1>6 DEF Abort
<1>7. CASE BroadcastRound(p)
  BY <1>1, <1>7 DEF BroadcastRound
<1>8. CASE DebateRound(p)
  BY <1>1, <1>8 DEF DebateRound
<1>9. CASE LastWord(p)
  BY <1>1, <1>9 DEF LastWord
<1>10. CASE SequentialTurn(p)
  BY <1>1, <1>10 DEF SequentialTurn
<1>11. CASE RelayTurn(p)
  BY <1>1, <1>11 DEF RelayTurn
<1>12. CASE ToVote(p)
  BY <1>1, <1>12 DEF ToVote
<1>13. CASE Vote(p)
  BY <1>1, <1>13 DEF Vote
<1>14. CASE AskPlan(p)
  BY <1>1, <1>14 DEF AskPlan
<1>15. CASE Plan(p)
  BY <1>1, <1>15 DEF Plan
<1>16. CASE Work(p)
  BY <1>1, <1>16 DEF Work
<1>17. CASE ToReport(p)
  BY <1>1, <1>17 DEF ToReport
<1>18. QED BY <1>2, <1>3, <1>4, <1>5, <1>6, <1>7, <1>8, <1>9, <1>10, <1>11, <1>12, <1>13,
              <1>14, <1>15, <1>16, <1>17 DEF Step

(* How a run may end, go on, or take down an answer                         *)
Ends(p, e, t) ==
    stage'[p] = "done" /\ final'[p] = [raised |-> e, text |-> t]
Notes(p, entry) ==
    /\ entry \in Seq(Said)
    /\ log'[p] = Append(log[p], entry) /\ queue'[p] = messages(p, entry) /\ waiting'[p] = FALSE

LEMMA Moves ==
    ASSUME TypeInv, NEW p \in Runs
    PROVE  /\ \A e : raise(p, e) => Ends(p, e, final[p].text)
           /\ \A t : return(p, t) => Ends(p, final[p].raised, t)
           /\ \A s : enter(p, s) => stage'[p] = s
           /\ askAgain(p) => waiting'[p] = TRUE
           /\ \A entry \in Seq(Said) : noted(p, entry) => Notes(p, entry)
<1>1. /\ stage \in [Runs -> Stages] /\ waiting \in [Runs -> BOOLEAN] /\ log \in [Runs -> Seq(Seq(Said))]
      /\ queue \in [Runs -> Seq(Message)] /\ final \in [Runs -> [raised : Raised, text : Text]]
  BY DEF TypeInv
<1>2. final[p] = [raised |-> final[p].raised, text |-> final[p].text]
  BY <1>1
<1>3. \A e : [final[p] EXCEPT !.raised = e] = [raised |-> e, text |-> final[p].text]
  BY <1>2
<1>4. \A t : [final[p] EXCEPT !.text = t] = [raised |-> final[p].raised, text |-> t]
  BY <1>2
<1>5. ASSUME NEW e, raise(p, e) PROVE Ends(p, e, final[p].text)
  <2>1. stage' = [stage EXCEPT ![p] = "done"] /\ final' = [final EXCEPT ![p] = [final[p] EXCEPT !.raised = e]]
    BY <1>5 DEF raise
  <2>2. QED BY <1>1, <1>3, <2>1 DEF Ends
<1>6. ASSUME NEW t, return(p, t) PROVE Ends(p, final[p].raised, t)
  <2>1. stage' = [stage EXCEPT ![p] = "done"] /\ final' = [final EXCEPT ![p] = [final[p] EXCEPT !.text = t]]
    BY <1>6 DEF return, enter
  <2>2. QED BY <1>1, <1>4, <2>1 DEF Ends
<1>7. ASSUME NEW s, enter(p, s) PROVE stage'[p] = s
  BY <1>1, <1>7 DEF enter
<1>8. askAgain(p) => waiting'[p] = TRUE
  BY <1>1 DEF askAgain
<1>9. ASSUME NEW entry \in Seq(Said), noted(p, entry) PROVE Notes(p, entry)
  BY <1>1, <1>9 DEF noted, Notes
<1>10. QED BY <1>5, <1>6, <1>7, <1>8, <1>9

(* A step starts the run, remembers, takes down an answer, or leaves both   *)
(* what is answered and what is to be remembered as they are.               *)
taken(p) ==
    /\ queue[p] = <<>> /\ waiting[p] /\ stage[p] \notin {"new", "done"} /\ stage'[p] = stage[p]
    /\ \E entry \in Seq(Said) :
          /\ Notes(p, entry)
          /\ stage[p] \in {"turn", "judge", "report", "plan"} => Len(entry) = 1
          /\ stage[p] \in {"round", "propose"} => listing(entry)
goes(p) ==
    \/ stage'[p] = "done" /\ waiting'[p] = waiting[p]
    \/ /\ waiting'[p] = TRUE
       /\ \/ stage[p] \in {"round", "turn"} /\ stage'[p] = stage[p]
          \/ stage[p] = "round" /\ job[p].kind = "debate" /\ stage'[p] = "judge" /\ ~waiting[p]
          \/ stage[p] = "propose" /\ stage'[p] = "vote" /\ ~waiting[p]
          \/ stage[p] = "vote" /\ stage'[p] = "judge"
          \/ stage[p] = "plan" /\ stage'[p] = "work"
          \/ stage[p] = "work" /\ stage'[p] = "report"
quiet(p) ==
    /\ stage[p] \notin {"new", "done"} /\ goes(p)
    /\ log'[p] = log[p] /\ queue'[p] = queue[p] /\ queue[p] = <<>>

LEMMA StepKinds ==
    ASSUME TypeInv, StageInv, NEW p \in Runs, Step(p)
    PROVE  Start(p) \/ Remember(p) \/ taken(p) \/ quiet(p)
<1> USE DEF progress
<1>1. Prompt \in Texts /\ Error \in Texts /\ Answers \subseteq Texts /\ "plan" \in Texts
  BY DEF Texts
<1>2. ASSUME AskAll(p) PROVE taken(p)
  <2>1. PICK f \in [ToSet(Names) -> Answers \cup {Error}] :
           noted(p, [i \in DOMAIN Names |-> <<Names[i], f[Names[i]]>>])
    BY <1>2 DEF AskAll
  <2>2. [i \in DOMAIN Names |-> <<Names[i], f[Names[i]]>>] \in Seq(Said)
    BY AllTyped DEF TypeInv
  <2> DEFINE e == [i \in DOMAIN Names |-> <<Names[i], f[Names[i]]>>]
  <2>3. Notes(p, e) /\ listing(e)
    BY <2>1, <2>2, Moves DEF listing
  <2>4. stage[p] \in {"round", "propose"}
    BY <1>2 DEF AskAll
  <2> HIDE DEF e
  <2>5. QED BY <1>2, <2>2, <2>3, <2>4 DEF AskAll, taken, ready, e
<1>3. ASSUME AskOne(p) PROVE taken(p) \/ quiet(p)
  <2>1. CASE ~registered(asked(p)) /\ job[p].kind = "debate"
    <3>1. stage'[p] = "done"
      BY <1>3, <2>1, Moves DEF AskOne, Ends
    <3>2. QED BY <1>3, <2>1, <3>1 DEF AskOne, quiet, goes, ready
  <2>2. CASE ~(~registered(asked(p)) /\ job[p].kind = "debate")
    <3>1. PICK a \in Texts : noted(p, <<<<asked(p), a>>>>)
      BY <1>1, <1>3, <2>2 DEF AskOne
    <3>2. <<<<asked(p), a>>>> \in Seq(Said)
      BY <1>3, OneTyped DEF AskOne
    <3>3. Notes(p, <<<<asked(p), a>>>>) /\ Len(<<<<asked(p), a>>>>) = 1
      BY <3>1, <3>2, Moves
    <3>4. stage[p] \in {"turn", "judge", "report"}
      BY <1>3 DEF AskOne
    <3>5. QED BY <1>3, <2>2, <3>2, <3>3, <3>4 DEF AskOne, taken, ready
  <2>3. QED BY <2>1, <2>2
<1>4. ASSUME AskPlan(p) PROVE taken(p)
  <2>1. PICK a \in Texts : noted(p, <<<<lead(p), a>>>>)
    BY <1>1, <1>4 DEF AskPlan
  <2>2. lead(p) \in By
    BY JobFacts DEF TypeInv
  <2>3. <<<<lead(p), a>>>> \in Seq(Said)
    BY <2>2 DEF Said
  <2>4. Notes(p, <<<<lead(p), a>>>>) /\ Len(<<<<lead(p), a>>>>) = 1
    BY <2>1, <2>3, Moves
  <2>5. stage[p] = "plan"
    BY <1>4 DEF AskPlan
  <2>6. QED BY <1>4, <2>3, <2>4, <2>5 DEF AskPlan, taken, ready
<1>5. ASSUME Work(p) PROVE taken(p)
  <2> DEFINE tasks == plan[p].tasks
  <2>1. PICK S \in SUBSET (DOMAIN tasks) :
           noted(p, [i \in DOMAIN tasks |-> <<tasks[i].agent, IF i \in S THEN "output" ELSE Error>>])
    BY <1>5 DEF Work
  <2>2. [i \in DOMAIN tasks |-> <<tasks[i].agent, IF i \in S THEN "output" ELSE Error>>] \in Seq(Said)
    BY WorkTyped
  <2> DEFINE e == [i \in DOMAIN tasks |-> <<tasks[i].agent, IF i \in S THEN "output" ELSE Error>>]
  <2>3. Notes(p, e)
    BY <2>1, <2>2, Moves
  <2>4. stage[p] = "work"
    BY <1>5 DEF Work
  <2> HIDE DEF e
  <2>5. QED BY <1>5, <2>2, <2>3, <2>4 DEF Work, taken, ready, e
<1>6. ASSUME Abort(p) PROVE quiet(p)
  <2>1. stage'[p] = "done"
    BY <1>6, Moves DEF Abort, Ends
  <2>2. QED BY <1>6, <2>1 DEF Abort, quiet, goes, ready
<1>7. ASSUME BroadcastRound(p) PROVE quiet(p)
  <2>1. \/ stage' = stage /\ waiting'[p] = TRUE
        \/ stage'[p] = "done" /\ waiting' = waiting
    BY <1>7, Moves DEF BroadcastRound, Ends
  <2>2. stage[p] = "round"
    BY <1>7 DEF BroadcastRound
  <2>3. QED BY <1>7, <2>1, <2>2 DEF BroadcastRound, quiet, goes, proceeds, ready
<1>8. ASSUME DebateRound(p) PROVE quiet(p)
  <2>1. waiting'[p] = TRUE /\ (stage' = stage \/ stage'[p] = "judge")
    BY <1>8, Moves DEF DebateRound
  <2>2. stage[p] = "round" /\ job[p].kind = "debate" /\ ~waiting[p]
    BY <1>8 DEF DebateRound, proceeds
  <2>3. QED BY <1>8, <2>1, <2>2 DEF DebateRound, quiet, goes, proceeds, ready
<1>9. ASSUME LastWord(p) PROVE quiet(p)
  <2>1. stage'[p] = "done" /\ waiting' = waiting
    BY <1>9, Moves DEF LastWord, Ends
  <2>2. QED BY <1>9, <2>1 DEF LastWord, quiet, goes, proceeds, ready
<1>10. ASSUME SequentialTurn(p) PROVE quiet(p)
  <2>1. \/ stage' = stage /\ waiting'[p] = TRUE
        \/ stage'[p] = "done" /\ waiting' = waiting
    BY <1>10, Moves DEF SequentialTurn, Ends
  <2>2. stage[p] = "turn"
    BY <1>10 DEF SequentialTurn
  <2>3. QED BY <1>10, <2>1, <2>2 DEF SequentialTurn, quiet, goes, proceeds, ready
<1>11. ASSUME RelayTurn(p) PROVE quiet(p)
  <2>1. \/ stage' = stage /\ waiting'[p] = TRUE
        \/ stage'[p] = "done" /\ waiting' = waiting
    BY <1>11, Moves DEF RelayTurn, Ends
  <2>2. stage[p] = "turn"
    BY <1>11 DEF RelayTurn
  <2>3. QED BY <1>11, <2>1, <2>2 DEF RelayTurn, quiet, goes, proceeds, ready
<1>12. ASSUME ToVote(p) PROVE quiet(p)
  <2>1. stage[p] = "propose" /\ stage'[p] = "vote" /\ waiting'[p] = TRUE /\ ~waiting[p]
    BY <1>12, Moves DEF ToVote, proceeds
  <2>2. QED BY <1>12, <2>1 DEF ToVote, quiet, goes, proceeds, ready
<1>13. ASSUME Vote(p) PROVE quiet(p)
  <2>1. stage'[p] \in {"judge", "done"}
    BY <1>13, Moves DEF Vote, Ends
  <2>2. stage[p] = "vote" /\ waiting' = waiting /\ waiting[p] = TRUE
    BY <1>13 DEF Vote, TypeInv
  <2>3. QED BY <1>13, <2>1, <2>2 DEF Vote, quiet, goes, ready
<1>14. ASSUME Plan(p) PROVE quiet(p)
  <2>1. \/ stage'[p] = "work" /\ waiting'[p] = TRUE
        \/ stage'[p] = "done" /\ waiting' = waiting
    BY <1>14, Moves DEF Plan, Ends
  <2>2. stage[p] = "plan"
    BY <1>14 DEF Plan
  <2>3. QED BY <1>14, <2>1, <2>2 DEF Plan, quiet, goes, proceeds, ready
<1>15. ASSUME ToReport(p) PROVE quiet(p)
  <2>1. stage[p] = "work" /\ stage'[p] = "report" /\ waiting'[p] = TRUE
    BY <1>15, Moves DEF ToReport
  <2>2. QED BY <1>15, <2>1 DEF ToReport, quiet, goes, proceeds, ready
<1>16. QED BY <1>2, <1>3, <1>4, <1>5, <1>6, <1>7, <1>8, <1>9, <1>10, <1>11, <1>12, <1>13,
              <1>14, <1>15 DEF Step

LEMMA TurnStep ==
    ASSUME TypeInv, StageInv, NEW p \in Runs, Step(p)
    PROVE  turn'[p] \in 1 .. Len(order(p))
<1> USE DEF progress
<1>1. turn[p] \in 1 .. Len(order(p)) /\ turn \in [Runs -> Nat \ {0}] /\ Len(order(p)) \in Nat \ {0}
  BY JobFacts DEF TypeInv, StageInv
<1>2. CASE turn' = turn
  BY <1>1, <1>2
<1>3. CASE turn[p] < Len(order(p)) /\ turn' = [turn EXCEPT ![p] = @ + 1]
  BY <1>1, <1>3
<1>4. CASE turn' = [turn EXCEPT ![p] = 1]
  BY <1>1, <1>4
<1>5. CASE Start(p) \/ Remember(p) \/ AskAll(p) \/ AskOne(p) \/ Abort(p) \/ BroadcastRound(p)
           \/ DebateRound(p) \/ LastWord(p) \/ ToVote(p) \/ Vote(p) \/ AskPlan(p) \/ Plan(p)
           \/ Work(p) \/ ToReport(p)
  <2>1. turn' = turn
    BY <1>5 DEF Start, Remember, AskAll, AskOne, Abort, BroadcastRound, DebateRound, LastWord,
                ToVote, Vote, AskPlan, Plan, Work, ToReport
  <2>2. QED BY <1>2, <2>1
<1>6. CASE SequentialTurn(p)
  BY <1>2, <1>3, <1>6 DEF SequentialTurn
<1>7. CASE RelayTurn(p)
  <2>1. \/ turn[p] < Len(order(p)) /\ turn' = [turn EXCEPT ![p] = @ + 1]
        \/ turn' = [turn EXCEPT ![p] = 1] \/ turn' = turn
    BY <1>7 DEF RelayTurn
  <2>2. QED BY <1>2, <1>3, <1>4, <2>1
<1>8. QED BY <1>5, <1>6, <1>7 DEF Step

LEMMA StageStep ==
    ASSUME TypeInv, StageInv, NEW p \in Runs, Step(p)
    PROVE  StageInv'
<1>1. SUFFICES ASSUME NEW q \in Runs
               PROVE  /\ stage'[q] \notin {"new", "done"} =>
                            refusal(q)' = NoError /\ stage'[q] \in stagesOf[job'[q].kind]
                      /\ turn'[q] \in 1 .. Len(order(q)')
                      /\ \A m \in ToSet(queue'[q]) : m.run = q
  BY DEF StageInv
<1>2. /\ stage[q] \notin {"new", "done"} =>
            refusal(q) = NoError /\ stage[q] \in stagesOf[job[q].kind]
      /\ turn[q] \in 1 .. Len(order(q))
      /\ \A m \in ToSet(queue[q]) : m.run = q
  BY DEF StageInv
<1>3. job' = job
  BY DEF Step, Start, Remember, AskAll, AskOne, Abort, BroadcastRound, DebateRound, LastWord,
         SequentialTurn, RelayTurn, ToVote, Vote, AskPlan, Plan, Work, ToReport
<1>4. refusal(q)' = refusal(q) /\ order(q)' = order(q)
  BY <1>3, SameJob
<1>5. CASE q # p
  BY <1>2, <1>3, <1>4, <1>5, Others
<1>6. CASE q = p
  <2>1. turn'[p] \in 1 .. Len(order(p))
    BY TurnStep
  <2>2. CASE Start(p)
    <3>1. \/ stage'[p] = "done" /\ queue'[p] = queue[p]
          \/ /\ refusal(p) = NoError /\ stage'[p] = firstStage[job[p].kind]
             /\ queue'[p] = <<message(p, NoName, Prompt)>>
      BY <2>2, Moves DEF Start, Ends, TypeInv
    <3>2. ASSUME queue'[p] = <<message(p, NoName, Prompt)>> PROVE \A m \in ToSet(queue'[p]) : m.run = p
      BY <3>2 DEF ToSet, message
    <3>3. firstStage[job[p].kind] \in stagesOf[job[p].kind]
      <4>1. job[p].kind \in DOMAIN firstStage
        BY JobFacts DEF TypeInv
      <4>2. QED BY <4>1 DEF firstStage, stagesOf
    <3>4. QED BY <1>2, <1>3, <1>4, <1>6, <2>1, <3>1, <3>2, <3>3
  <2>3. CASE Remember(p)
    <3>1. stage' = stage /\ queue'[p] = Tail(queue[p]) /\ queue[p] # <<>>
      BY <2>3 DEF Remember, progress, TypeInv
    <3>2. ToSet(queue'[p]) \subseteq ToSet(queue[p])
      <4> DEFINE s == queue[p]
                 t == queue'[p]
      <4>1. s \in Seq(Message) /\ s # <<>> /\ t = Tail(s)
        BY <3>1 DEF TypeInv
      <4> HIDE DEF s, t
      <4>2. /\ Len(t) \in Nat /\ DOMAIN t = 1 .. Len(t) /\ DOMAIN s = 1 .. Len(t) + 1
            /\ \A i \in 1 .. Len(t) : t[i] = s[i + 1]
        BY <4>1
      <4>3. \A i \in 1 .. Len(t) : i + 1 \in 1 .. Len(t) + 1
        BY <4>2
      <4>4. ToSet(t) \subseteq ToSet(s)
        BY <4>2, <4>3 DEF ToSet
      <4>5. QED BY <4>4 DEF s, t
    <3>3. QED BY <1>2, <1>3, <1>4, <1>6, <2>1, <3>1, <3>2
  <2>4. CASE taken(p)
    <3>1. stage'[p] = stage[p] /\ \A m \in ToSet(queue'[p]) : m.run = p
      BY <2>4, MessagesTyped DEF taken, Notes
    <3>2. QED BY <1>2, <1>3, <1>4, <1>6, <2>1, <3>1
  <2>5. CASE quiet(p)
    <3>1. stage[p] \notin {"new", "done"} /\ goes(p) /\ queue'[p] = queue[p]
      BY <2>5 DEF quiet
    <3>2. stage'[p] = "done" \/ stage'[p] \in stagesOf[job[p].kind]
      <4>1. job[p].kind \in DOMAIN firstStage
        BY JobFacts DEF TypeInv
      <4>2. job[p].kind \in {"broadcast", "debate", "sequential", "relay", "consensus", "supervisor"}
        BY <4>1 DEF firstStage
      <4>3. stage[p] \in stagesOf[job[p].kind]
        BY <1>2, <1>6, <3>1
      <4>4. QED BY <3>1, <4>2, <4>3 DEF goes, stagesOf
    <3>3. QED BY <1>2, <1>3, <1>4, <1>6, <2>1, <3>1, <3>2
  <2>6. QED BY <2>2, <2>3, <2>4, <2>5, StepKinds
<1>7. QED BY <1>5, <1>6

LEMMA CallStep ==
    ASSUME TypeInv, StageInv, CallInv, NEW p \in Runs, Step(p)
    PROVE  CallInv'
<1> DEFINE Right(q) ==
       /\ ~waiting[q] =>
             log[q] # <<>> /\ (stage[q] \in {"turn", "judge", "report"} => Len(lastOf(q)) = 1)
       /\ stage[q] \in {"vote", "judge"} => log[q] # <<>>
       /\ stage[q] = "new" \/ (stage[q] = "propose" /\ waiting[q]) => log[q] = <<>>
       /\ stage[q] = "new" => waiting[q]
       /\ job[q].kind = "consensus" /\ log[q] # <<>> => listing(log[q][1])
<1>1. SUFFICES ASSUME NEW q \in Runs PROVE Right(q)'
  BY DEF CallInv
<1>2. Right(q) /\ Right(p)
  BY DEF CallInv
<1>3. job' = job
  BY DEF Step, Start, Remember, AskAll, AskOne, Abort, BroadcastRound, DebateRound, LastWord,
         SequentialTurn, RelayTurn, ToVote, Vote, AskPlan, Plan, Work, ToReport
<1>4. CASE q # p
  <2>1. stage'[q] = stage[q] /\ waiting'[q] = waiting[q] /\ log'[q] = log[q]
    BY <1>4, Others
  <2>2. QED BY <1>2, <1>3, <2>1 DEF lastOf
<1>5. ASSUME stage'[p] = stage[p], waiting'[p] = waiting[p], log'[p] = log[p] PROVE Right(p)'
  BY <1>2, <1>3, <1>5 DEF lastOf
<1>6. CASE Start(p)
  <2>1. stage[p] = "new" /\ waiting' = waiting /\ log' = log
    BY <1>6 DEF Start
  <2>2. stage'[p] \in {"done", "round", "turn", "propose", "plan"}
    <3>1. job[p].kind \in DOMAIN firstStage
      BY JobFacts DEF TypeInv
    <3>2. firstStage[job[p].kind] \in {"round", "turn", "propose", "plan"}
      BY <3>1 DEF firstStage
    <3>3. stage'[p] = "done" \/ stage'[p] = firstStage[job[p].kind]
      BY <1>6, Moves DEF Start, Ends
    <3>4. QED BY <3>2, <3>3
  <2>3. waiting'[p] = waiting[p] /\ log'[p] = log[p]
    BY <2>1
  <2>4. Right(p)'
    BY <1>2, <1>3, <2>1, <2>2, <2>3 DEF lastOf
  <2> HIDE DEF Right
  <2>5. QED BY <1>4, <2>4
<1>7. CASE Remember(p)
  <2>1. stage' = stage /\ waiting' = waiting /\ log' = log
    BY <1>7 DEF Remember, progress
  <2>2. Right(p)'
    BY <1>5, <2>1
  <2> HIDE DEF Right
  <2>3. QED BY <1>4, <2>2
<1>8. CASE taken(p)
  <2>1. PICK entry \in Seq(Said) :
          /\ Notes(p, entry)
          /\ stage[p] \in {"turn", "judge", "report", "plan"} => Len(entry) = 1
          /\ stage[p] \in {"round", "propose"} => listing(entry)
    BY <1>8 DEF taken
  <2>2. log[p] \in Seq(Seq(Said))
    BY DEF TypeInv
  <2>3. log'[p] = Append(log[p], entry) /\ waiting'[p] = FALSE
        /\ stage'[p] = stage[p] /\ waiting[p] /\ stage[p] \notin {"new", "done"}
    BY <1>8, <2>1 DEF Notes, taken
  <2>4. log'[p] # <<>> /\ lastOf(p)' = entry
    <3> DEFINE s == log[p]
               t == log'[p]
    <3>1. s \in Seq(Seq(Said)) /\ t = Append(s, entry)
      BY <2>2, <2>3
    <3> HIDE DEF s, t
    <3>2. t # <<>> /\ t[Len(t)] = entry
      BY <3>1
    <3>3. QED BY <3>2 DEF s, t, lastOf
  <2>5. log[p] # <<>> => log'[p][1] = log[p][1]
    BY <2>2, <2>3
  <2>6. log[p] = <<>> => log'[p][1] = entry
    BY <2>2, <2>3
  <2>7. job[p].kind = "consensus" => listing(log'[p][1])
    <3>1. CASE log[p] # <<>>
      BY <1>2, <2>5, <3>1
    <3>2. CASE log[p] = <<>>
      <4>1. ASSUME job[p].kind = "consensus" PROVE stage[p] = "propose"
        <5>1. stage[p] \in {"propose", "vote", "judge"}
          <6>1. stage[p] \in stagesOf[job[p].kind]
            BY <2>3 DEF StageInv
          <6>2. QED BY <4>1, <6>1 DEF stagesOf
        <5>2. QED BY <1>2, <3>2, <5>1
      <4>2. QED BY <2>1, <2>6, <3>2, <4>1
    <3>3. QED BY <3>1, <3>2
  <2> HIDE DEF Right
  <2>8. Right(p)'
    BY <1>3, <2>1, <2>3, <2>4, <2>7 DEF Right
  <2>9. QED BY <1>4, <2>8
<1>9. CASE quiet(p)
  <2>1. log'[p] = log[p] /\ goes(p)
    BY <1>9 DEF quiet
  <2>2. ASSUME stage'[p] = "done", waiting'[p] = waiting[p] PROVE Right(p)'
    BY <1>2, <1>3, <2>1, <2>2
  <2>3. ASSUME waiting'[p] = TRUE, stage'[p] \notin {"new", "propose"},
               stage'[p] \in {"vote", "judge"} => log[p] # <<>>
        PROVE  Right(p)'
    BY <1>2, <1>3, <2>1, <2>3
  <2>4. Right(p)'
    <3> HIDE DEF Right
    <3>1. (~waiting[p] => log[p] # <<>>) /\ (stage[p] = "vote" => log[p] # <<>>)
      BY <1>2 DEF Right
    <3>2. QED BY <2>1, <2>2, <2>3, <3>1 DEF goes
  <2> HIDE DEF Right
  <2>5. QED BY <1>4, <2>4
<1>10. QED BY <1>4, <1>6, <1>7, <1>8, <1>9, StepKinds

-----------------------------------------------------------------------------
(* The plan is what the pipeline made of the lead's answer, from the time   *)
(* there is one, and a run that raises a PlanValidationError had none.      *)
PlanInv ==
    \A p \in Runs :
       /\ stage[p] # "done" => final[p] = Unfinished
       /\ stage[p] \in {"new", "plan"} => plan[p].tasks = <<>>
       /\ (plan[p].tasks # <<>> \/ final[p].raised = "PlanValidationError") =>
             /\ job[p].kind = "supervisor" /\ refusal(p) = NoError
             /\ plan[p].tasks = pipeline(parsed(plan[p].answer), workers(p))

(* What an end of the run may raise                                         *)
LEMMA Endings ==
    ASSUME TypeInv, NEW p \in Runs, Step(p)
    PROVE  /\ final'[p] = final[p] \/ stage'[p] = "done"
           /\ ~Plan(p) => final'[p].raised = final[p].raised \/ final'[p].raised # "PlanValidationError"
           /\ ~Plan(p) /\ ~AskPlan(p) => plan' = plan
           /\ stage[p] # "done" \/ stage'[p] = "done"
<1> USE DEF progress
<1>1. stage[p] = "done" => Remember(p)
  BY DEF Step, Start, AskAll, AskOne, Abort, BroadcastRound, DebateRound, LastWord, SequentialTurn,
         RelayTurn, ToVote, Vote, AskPlan, Plan, Work, ToReport, ready, proceeds
<1>2. Remember(p) => stage' = stage
  BY DEF Remember
<1>3. ~Plan(p) /\ ~AskPlan(p) => plan' = plan
  BY DEF Step, Start, Remember, AskAll, AskOne, Abort, BroadcastRound, DebateRound, LastWord,
         SequentialTurn, RelayTurn, ToVote, Vote, Work, ToReport
<1>4. \/ final' = final
      \/ \E t : return(p, t)
      \/ raise(p, "PlanValidationError") /\ Plan(p)
      \/ \E e \in {"StrategyError", "AgentNotFound", "BudgetExceeded", "RunTimeout", "TaskError"} :
            raise(p, e)
  <2>1. CASE Start(p)
    BY <2>1, RefusalTyped DEF Start
  <2>2. CASE AskOne(p)
    BY <2>2 DEF AskOne
  <2>3. CASE Abort(p)
    BY <2>3 DEF Abort
  <2>4. CASE BroadcastRound(p)
    BY <2>4 DEF BroadcastRound
  <2>5. CASE LastWord(p)
    BY <2>5 DEF LastWord
  <2>6. CASE SequentialTurn(p)
    BY <2>6 DEF SequentialTurn
  <2>7. CASE RelayTurn(p)
    BY <2>7 DEF RelayTurn
  <2>8. CASE Vote(p)
    BY <2>8 DEF Vote
  <2>9. CASE Plan(p)
    BY <2>9 DEF Plan
  <2>10. CASE Remember(p) \/ AskAll(p) \/ DebateRound(p) \/ ToVote(p) \/ AskPlan(p) \/ Work(p) \/ ToReport(p)
    BY <2>10 DEF Remember, AskAll, DebateRound, ToVote, AskPlan, Work, ToReport
  <2>11. QED BY <2>1, <2>2, <2>3, <2>4, <2>5, <2>6, <2>7, <2>8, <2>9, <2>10 DEF Step
<1>5. /\ final'[p] = final[p] \/ stage'[p] = "done"
      /\ ~Plan(p) => final'[p].raised = final[p].raised \/ final'[p].raised # "PlanValidationError"
  <2>1. CASE final' = final
    BY <2>1
  <2>2. CASE \E t : return(p, t)
    <3>1. PICK t : Ends(p, final[p].raised, t)
      BY <2>2, Moves
    <3>2. QED BY <3>1 DEF Ends
  <2>3. CASE \E e \in {"StrategyError", "AgentNotFound", "BudgetExceeded", "RunTimeout", "TaskError"} :
                raise(p, e)
    <3>1. PICK e \in {"StrategyError", "AgentNotFound", "BudgetExceeded", "RunTimeout", "TaskError"} :
                Ends(p, e, final[p].text)
      BY <2>3, Moves
    <3>2. QED BY <3>1 DEF Ends
  <2>4. CASE raise(p, "PlanValidationError") /\ Plan(p)
    BY <2>4, Moves DEF Ends
  <2>5. QED BY <1>4, <2>1, <2>2, <2>3, <2>4
<1>6. QED BY <1>1, <1>2, <1>3, <1>5

LEMMA PlanStep ==
    ASSUME TypeInv, StageInv, PlanInv, NEW p \in Runs, Step(p)
    PROVE  PlanInv'
<1> DEFINE Right(q) ==
       /\ stage[q] # "done" => final[q] = Unfinished
       /\ stage[q] \in {"new", "plan"} => plan[q].tasks = <<>>
       /\ (plan[q].tasks # <<>> \/ final[q].raised = "PlanValidationError") =>
             /\ job[q].kind = "supervisor" /\ refusal(q) = NoError
             /\ plan[q].tasks = pipeline(parsed(plan[q].answer), workers(q))
<1>1. SUFFICES ASSUME NEW q \in Runs PROVE Right(q)'
  BY DEF PlanInv
<1>2. Right(q) /\ Right(p)
  BY DEF PlanInv
<1>3. job' = job
  BY DEF Step, Start, Remember, AskAll, AskOne, Abort, BroadcastRound, DebateRound, LastWord,
         SequentialTurn, RelayTurn, ToVote, Vote, AskPlan, Plan, Work, ToReport
<1>4. refusal(q)' = refusal(q) /\ workers(q)' = workers(q)
      /\ refusal(p)' = refusal(p) /\ workers(p)' = workers(p)
  BY <1>3, SameJob
<1>5. CASE q # p
  <2>1. stage'[q] = stage[q] /\ plan'[q] = plan[q] /\ final'[q] = final[q]
    BY <1>5, Others
  <2>2. QED BY <1>2, <1>3, <1>4, <2>1
<1>6. CASE q = p
  <2>1. /\ final'[p] = final[p] \/ stage'[p] = "done"
        /\ stage[p] # "done" \/ stage'[p] = "done"
    BY Endings
  <2>2. stage'[p] # "done" => final'[p] = Unfinished
    BY <1>2, <2>1
  <2>3. CASE Plan(p)
    <3> DEFINE made == pipeline(parsed(plan[p].answer), workers(p))
    <3>1. /\ stage[p] = "plan" /\ plan[p].tasks = <<>>
          /\ job[p].kind = "supervisor" /\ refusal(p) = NoError
      BY <1>2, <2>3, KindOf DEF Plan, StageInv
    <3>2. CASE made = <<>>
      <4>1. plan' = plan /\ stage'[p] = "done"
        BY <2>3, <3>2, Moves DEF Plan, Ends
      <4> HIDE DEF made
      <4>2. plan'[p].tasks = made /\ plan'[p].answer = plan[p].answer /\ plan'[p].tasks = <<>>
        BY <3>1, <3>2, <4>1
      <4>3. QED BY <1>3, <1>4, <1>6, <2>2, <3>1, <4>1, <4>2 DEF made
    <3>3. CASE made # <<>>
      <4>1. plan' = [plan EXCEPT ![p].tasks = made] /\ stage'[p] = "work"
        BY <2>3, <3>3, Moves DEF Plan
      <4>2. plan \in [Runs -> [answer : PlanAnswers \cup {NoPlan.answer}, tasks : Seq(Tasks)]]
        BY DEF TypeInv
      <4> HIDE DEF made
      <4>3. plan'[p].tasks = made /\ plan'[p].answer = plan[p].answer
        BY <4>1, <4>2
      <4>4. QED BY <1>3, <1>4, <1>6, <2>2, <3>1, <4>1, <4>3 DEF made
    <3>4. QED BY <3>2, <3>3
  <2>4. CASE AskPlan(p)
    <3>1. stage' = stage /\ final' = final /\ stage[p] = "plan" /\ plan[p].tasks = <<>>
          /\ final[p] = Unfinished
      BY <1>2, <2>4 DEF AskPlan, progress
    <3>2. plan'[p].tasks = plan[p].tasks
      <4>1. plan' = plan \/ \E a \in PlanAnswers : plan' = [plan EXCEPT ![p].answer = a]
        BY <2>4 DEF AskPlan
      <4>2. plan \in [Runs -> [answer : PlanAnswers \cup {NoPlan.answer}, tasks : Seq(Tasks)]]
        BY DEF TypeInv
      <4>3. QED BY <4>1, <4>2
    <3>3. final'[p].raised # "PlanValidationError"
      BY <3>1 DEF Unfinished, NoError
    <3>4. QED BY <1>6, <2>2, <3>1, <3>2, <3>3
  <2>5. CASE ~Plan(p) /\ ~AskPlan(p)
    <3>1. /\ plan' = plan
          /\ final'[p].raised = final[p].raised \/ final'[p].raised # "PlanValidationError"
      BY <2>5, Endings
    <3>2. stage'[p] \in {"new", "plan"} => stage[p] \in {"new", "plan"}
      <4>1. CASE Start(p)
        BY <4>1 DEF Start
      <4>2. CASE Remember(p)
        BY <4>2 DEF Remember, progress
      <4>3. CASE taken(p)
        BY <4>3 DEF taken
      <4>4. CASE quiet(p)
        BY <4>4 DEF quiet, goes
      <4>5. QED BY <4>1, <4>2, <4>3, <4>4, StepKinds
    <3>3. QED BY <1>2, <1>3, <1>4, <1>6, <2>2, <3>1, <3>2
  <2>6. QED BY <2>3, <2>4, <2>5
<1>7. QED BY <1>5, <1>6

LEMMA PlanFollows ==
    ASSUME TypeInv, PlanInv
    PROVE  PlanRight
<1>1. SUFFICES ASSUME NEW p \in Runs,
                      plan[p].tasks # <<>> \/ final[p].raised = "PlanValidationError"
               PROVE  LET asTold == parsed(plan[p].answer)
                          entries == plan[p].answer.entries
                          described == keep(entries, {e \in ToSet(entries) : ~e.blank})
                      IN  /\ PlanCarriedOut(asTold, plan[p].tasks, workers(p))
                          /\ Cardinality(idsOf(asTold)) = Len(asTold)
                          /\ described # <<>> =>
                                [i \in DOMAIN asTold |-> asTold[i].deps] =
                                   [i \in DOMAIN described |-> described[i].deps]
  BY DEF PlanRight
<1> DEFINE answer == plan[p].answer
<1>2. /\ job[p].kind = "supervisor" /\ refusal(p) = NoError
      /\ plan[p].tasks = pipeline(parsed(answer), workers(p))
  BY <1>1 DEF PlanInv
<1>3. job \in Jobs /\ answer \in PlanAnswers \cup {NoPlan.answer}
  BY DEF TypeInv
<1>4. PlanCarriedOut(parsed(answer), plan[p].tasks, workers(p))
  BY <1>2, <1>3, PlanOfRun
<1>5. EntriesOf(PlanEntries, Tokens, Wants, By, Skill)
      /\ answer.entries \in Seq(PlanEntries) /\ answer.lines \in Nat
  BY <1>3, PlansTyped
<1> HIDE DEF answer
<1>6. QED BY <1>4, <1>5, ParsedRight DEF answer

-----------------------------------------------------------------------------
(* Beginnings and ends of sequences.                                        *)

LEMMA SuffixOf ==
    ASSUME NEW X, NEW u \in Seq(X), NEW s \in Seq(X)
    PROVE  IsSuffix(s, u \o s)
<1> DEFINE t == u \o s
<1>1. /\ Len(u) \in Nat /\ Len(s) \in Nat /\ t \in Seq(X) /\ Len(t) = Len(u) + Len(s)
      /\ \A i \in 1 .. Len(u) + Len(s) : t[i] = IF i <= Len(u) THEN u[i] ELSE s[i - Len(u)]
  BY ConcatProperties
<1> HIDE DEF t
<1> DEFINE n == Len(s)
           m == Len(t)
           b == Reverse(s)
           a == Reverse(t)
<1>2. n \in Nat /\ m \in Nat /\ n <= m
  BY <1>1
<1>3. \A i \in 1 .. n : t[m - i + 1] = s[n - i + 1]
  <2>1. TAKE i \in 1 .. n
  <2>2. m - i + 1 \in 1 .. Len(u) + Len(s) /\ ~(m - i + 1 <= Len(u)) /\ m - i + 1 - Len(u) = n - i + 1
    BY <1>1
  <2>3. QED BY <1>1, <2>2
<1>4. /\ a \in [1 .. m -> X] /\ b \in [1 .. n -> X]
      /\ \A i \in 1 .. n : b[i] = s[n - i + 1]
      /\ \A i \in 1 .. m : a[i] = t[m - i + 1]
  <2>1. ASSUME NEW w \in Seq(X) PROVE Reverse(w) \in [1 .. Len(w) -> X]
                                      /\ \A i \in 1 .. Len(w) : Reverse(w)[i] = w[Len(w) - i + 1]
    <3>1. \A i \in 1 .. Len(w) : Len(w) - i + 1 \in 1 .. Len(w)
      OBVIOUS
    <3>2. \A i \in 1 .. Len(w) : w[Len(w) - i + 1] \in X
      BY <3>1
    <3>3. QED BY <3>2 DEF Reverse
  <2>2. QED BY <1>1, <2>1
<1> HIDE DEF a, b, n, m
<1>5. a \in Seq(X) /\ b \in Seq(X) /\ Len(a) = m /\ Len(b) = n
  BY <1>2, <1>4
<1>6. \A i \in 1 .. n : b[i] = a[i]
  <2>1. \A i \in 1 .. n : i \in 1 .. m
    BY <1>2
  <2>2. QED BY <1>3, <1>4, <2>1
<1>7. SubSeq(b, 1, n) = SubSeq(a, 1, n)
  <2>1. /\ SubSeq(b, 1, n) \in Seq(X) /\ SubSeq(a, 1, n) \in Seq(X)
        /\ Len(SubSeq(b, 1, n)) = n /\ Len(SubSeq(a, 1, n)) = n
        /\ \A i \in 1 .. n : SubSeq(b, 1, n)[i] = b[i] /\ SubSeq(a, 1, n)[i] = a[i]
    <3>1. /\ \A i \in 1 .. n : a[i] \in X /\ b[i] \in X
          /\ 1 \in Int /\ n \in Int
      BY <1>2, <1>4, <1>6
    <3>2. /\ SubSeq(b, 1, n) \in Seq(X)
          /\ Len(SubSeq(b, 1, n)) = IF 1 <= n THEN n - 1 + 1 ELSE 0
          /\ \A i \in 1 .. n - 1 + 1 : SubSeq(b, 1, n)[i] = b[1 + i - 1]
      BY <3>1, SubSeqProperties
    <3>3. /\ SubSeq(a, 1, n) \in Seq(X)
          /\ Len(SubSeq(a, 1, n)) = IF 1 <= n THEN n - 1 + 1 ELSE 0
          /\ \A i \in 1 .. n - 1 + 1 : SubSeq(a, 1, n)[i] = a[1 + i - 1]
      BY <3>1, SubSeqProperties
    <3>4. (IF 1 <= n THEN n - 1 + 1 ELSE 0) = n /\ n - 1 + 1 = n
          /\ \A i \in 1 .. n : 1 + i - 1 = i
      BY <1>2
    <3>5. QED BY <3>2, <3>3, <3>4
  <2> DEFINE c == SubSeq(b, 1, n)
             d == SubSeq(a, 1, n)
  <2> HIDE DEF c, d
  <2>2. c \in Seq(X) /\ d \in Seq(X) /\ Len(c) = n /\ Len(d) = n
        /\ \A i \in 1 .. Len(c) : c[i] = d[i]
    BY <1>6, <2>1 DEF c, d
  <2>3. c = d
    BY <2>2, SeqEqual
  <2>4. QED BY <2>3 DEF c, d
<1>8. IsPrefix(b, a)
  BY <1>2, <1>5, <1>7 DEF IsPrefix
<1>9. QED BY <1>8 DEF IsSuffix, a, b, t

(* What comes before the last of it, and the last of it                     *)
LEMMA Beginning ==
    ASSUME NEW X, NEW s \in Seq(X), NEW t \in Seq(X)
    PROVE  SubSeq(s \o t, 1, Len(s \o t) - Len(t)) = s
<1> DEFINE n == Len(s \o t) - Len(t)
<1>1. n = Len(s) /\ Len(s) \in Nat
  BY ConcatProperties
<1>2. CASE s = <<>>
  <2>1. n < 1 /\ n \in Int
    BY <1>1, <1>2
  <2> HIDE DEF n
  <2>2. SubSeq(s \o t, 1, n) = <<>>
    BY <2>1, SubSeqEmpty
  <2>3. QED BY <1>2, <2>2 DEF n
<1>3. CASE s # <<>>
  <2>1. 1 \in 1 .. Len(s) /\ Len(s) \in 1 .. Len(s)
    BY <1>1, <1>3
  <2>2. SubSeq(s \o t, 1, Len(s)) = SubSeq(s, 1, Len(s))
    BY <2>1, SubSeqOfConcat1
  <2>3. SubSeq(s, 1, Len(s)) = s
    BY SubSeqFull
  <2>4. QED BY <1>1, <2>2, <2>3
<1>4. QED BY <1>2, <1>3

LEMMA Ending ==
    ASSUME NEW X, NEW s \in Seq(X), NEW n \in 0 .. Len(s)
    PROVE  /\ SubSeq(s, Len(s) - n + 1, Len(s)) \in Seq(X)
           /\ Len(SubSeq(s, Len(s) - n + 1, Len(s))) = n
           /\ \E d \in Seq(X) : s = d \o SubSeq(s, Len(s) - n + 1, Len(s))
<1> DEFINE k == Len(s) - n
<1>1. /\ Len(s) \in Nat /\ k \in Nat /\ k \in 1 - 1 .. Len(s) /\ Len(s) \in k .. Len(s)
      /\ 1 \in 1 .. Len(s) + 1 /\ k + 1 \in Int /\ Len(s) \in Int /\ 1 \in Int /\ k \in Int
      /\ Len(s) - n + 1 = k + 1
  OBVIOUS
<1> HIDE DEF k
<1>2. SubSeq(s, 1, k) \o SubSeq(s, k + 1, Len(s)) = SubSeq(s, 1, Len(s))
  BY <1>1, ConcatAdjacentSubSeq
<1>3. SubSeq(s, 1, Len(s)) = s
  BY SubSeqFull
<1>4. SubSeq(s, 1, k) \in Seq(X)
  <2>1. \A i \in 1 .. k : s[i] \in X
    BY <1>1
  <2>2. QED BY <1>1, <2>1, SubSeqProperties
<1>5. /\ SubSeq(s, k + 1, Len(s)) \in Seq(X)
      /\ Len(SubSeq(s, k + 1, Len(s))) = IF k + 1 <= Len(s) THEN Len(s) - (k + 1) + 1 ELSE 0
  <2>1. \A i \in k + 1 .. Len(s) : s[i] \in X
    BY <1>1
  <2>2. QED BY <1>1, <2>1, SubSeqProperties
<1>6. (IF k + 1 <= Len(s) THEN Len(s) - (k + 1) + 1 ELSE 0) = n
  BY <1>1 DEF k
<1> DEFINE e == SubSeq(s, k + 1, Len(s))
<1>7. e \in Seq(X) /\ Len(e) = n /\ \E d \in Seq(X) : s = d \o e
  BY <1>2, <1>3, <1>4, <1>5, <1>6
<1>8. e = SubSeq(s, Len(s) - n + 1, Len(s))
  BY <1>1
<1> HIDE DEF e
<1>9. QED BY <1>7, <1>8

-----------------------------------------------------------------------------
(* What a run says, call after call.                                        *)

spokenBy(p, s, f) ==
    /\ f[0] = <<message(p, NoName, Prompt)>>
    /\ \A k \in 1 .. Len(s) : f[k] = f[k - 1] \o messages(p, s[k])

LEMMA PromptTyped ==
    ASSUME NEW p \in Runs
    PROVE  /\ message(p, NoName, Prompt) \in Message
           /\ <<message(p, NoName, Prompt)>> \in Seq(Message)
           /\ message(p, NoName, Prompt).run = p /\ message(p, NoName, Prompt).by = NoName
  BY DEF message, Message, By, Texts

LEMMA SpokenSteps ==
    ASSUME NEW p \in Runs, NEW s \in Seq(Seq(Said))
    PROVE  \E f \in [0 .. Len(s) -> Seq(Message)] :
              transcript(p, s) = f[Len(s)] /\ spokenBy(p, s, f)
<1>0. Len(s) \in Nat
  OBVIOUS
<1> DEFINE n == Len(s)
           W == Seq(Message)
           x == <<message(p, NoName, Prompt)>>
           stated(k) == messages(p, s[k])
           h == [k \in 1 .. n |-> [t \in W |-> t \o stated(k)]]
           Eq(f) == f = [k \in 0 .. n |-> IF k = 0 THEN x ELSE f[k - 1] \o stated(k)]
<1>1. x \in W /\ \A k \in 1 .. n : stated(k) \in W
  BY PromptTyped, MessagesTyped
<1>2. h \in [1 .. n -> [W -> W]]
  <2> HIDE DEF stated, n, x
  <2>1. \A k \in 1 .. n : \A t \in W : t \o stated(k) \in W
    BY <1>1
  <2> HIDE DEF W
  <2>2. QED BY <2>1
<1>3. PICK g : Iterates(g, n, W, x, h)
  <2> HIDE DEF n, W, x, h
  <2>1. n \in Nat
    BY <1>0 DEF n
  <2>2. QED BY <1>1, <1>2, <2>1, Iterate, Zenon
<1>4. g \in [0 .. n -> W] /\ g[0] = x
  BY <1>3, Zenon DEF Iterates
<1>5. \A k \in 1 .. n : g[k] = g[k - 1] \o stated(k)
  <2>1. TAKE k \in 1 .. n
  <2>2. k - 1 \in 0 .. n
    BY <1>0
  <2>3. g[k - 1] \in W
    <3> HIDE DEF W, n
    <3>1. QED BY <1>4, <2>2
  <2>4. g[k] = h[k][g[k - 1]]
    BY <1>3, Zenon DEF Iterates
  <2>5. QED
    <3> HIDE DEF W, n, stated
    <3>1. QED BY <2>3, <2>4 DEF h
<1>6. Eq(g)
  <2> HIDE DEF W, h, stated, x
  <2>1. n \in Nat /\ \A k \in 0 .. n : k = 0 \/ k \in 1 .. n
    BY <1>0
  <2> HIDE DEF n
  <2>2. QED BY <1>4, <1>5, <2>1
<1> DEFINE f == CHOOSE a : Eq(a)
<1>7. Eq(f)
  BY <1>6, Zenon
<1>8. transcript(p, s) = f[Len(s)]
  BY Zenon DEF transcript
<1> HIDE DEF f
<1>9. f[0] = x /\ \A k \in 1 .. n : f[k] = f[k - 1] \o stated(k)
  <2>1. n \in Nat /\ 0 \in 0 .. n /\ \A k \in 1 .. n : k \in 0 .. n /\ k # 0
    BY <1>0
  <2> HIDE DEF n, stated, x
  <2>2. QED BY <1>7, <2>1
<1>10. f \in [0 .. n -> W]
  <2> DEFINE T == {k \in 0 .. n : f[k] \in W}
  <2> HIDE DEF stated, x
  <2>1. 0 \in T
    BY <1>0, <1>1, <1>9
  <2>2. ASSUME NEW k \in 1 .. n, k - 1 \in T PROVE k \in T
    <3>1. f[k - 1] \in W /\ stated(k) \in W
      BY <1>1, <2>2
    <3>2. f[k] = f[k - 1] \o stated(k)
      BY <1>9
    <3>3. f[k] \in W
      BY <3>1, <3>2
    <3>4. QED BY <3>3
  <2> HIDE DEF T
  <2>3. 0 .. n \subseteq T
    BY <1>0, <2>1, <2>2, UpTo
  <2>4. QED BY <1>7, <2>3 DEF T
<1>11. QED BY <1>8, <1>9, <1>10 DEF spokenBy

LEMMA SpokenStart ==
    ASSUME NEW p \in Runs
    PROVE  transcript(p, <<>>) = <<message(p, NoName, Prompt)>>
<1> DEFINE s == <<>>
<1>1. s \in Seq(Seq(Said)) /\ Len(s) = 0
  OBVIOUS
<1> HIDE DEF s
<1>2. PICK f : transcript(p, s) = f[Len(s)] /\ spokenBy(p, s, f)
  BY <1>1, SpokenSteps
<1>3. QED BY <1>1, <1>2 DEF spokenBy, s

LEMMA SpokenTyped ==
    ASSUME NEW p \in Runs, NEW s \in Seq(Seq(Said))
    PROVE  transcript(p, s) \in Seq(Message)
<1>1. PICK f \in [0 .. Len(s) -> Seq(Message)] : transcript(p, s) = f[Len(s)]
  BY SpokenSteps
<1>2. Len(s) \in 0 .. Len(s)
  OBVIOUS
<1>3. QED BY <1>1, <1>2

LEMMA SpokenNext ==
    ASSUME NEW p \in Runs, NEW s \in Seq(Seq(Said)), NEW e \in Seq(Said)
    PROVE  transcript(p, Append(s, e)) = transcript(p, s) \o messages(p, e)
<1> DEFINE t == Append(s, e)
<1>0. /\ Len(s) \in Nat /\ t \in Seq(Seq(Said)) /\ Len(t) = Len(s) + 1
      /\ \A k \in 1 .. Len(s) : t[k] = s[k]
      /\ t[Len(s) + 1] = e
  OBVIOUS
<1> HIDE DEF t
<1>1. PICK f \in [0 .. Len(t) -> Seq(Message)] : transcript(p, t) = f[Len(t)] /\ spokenBy(p, t, f)
  BY <1>0, SpokenSteps
<1>2. PICK g \in [0 .. Len(s) -> Seq(Message)] : transcript(p, s) = g[Len(s)] /\ spokenBy(p, s, g)
  BY SpokenSteps
<1> DEFINE T == {k \in 0 .. Len(s) : f[k] = g[k]}
<1>3. 0 \in T
  <2>1. f[0] = g[0]
    BY <1>1, <1>2 DEF spokenBy
  <2>2. Len(s) \in Nat
    BY <1>0
  <2>3. QED BY <2>1, <2>2
<1>4. ASSUME NEW k \in 1 .. Len(s), k - 1 \in T PROVE k \in T
  <2>1. f[k - 1] = g[k - 1] /\ t[k] = s[k] /\ k \in 1 .. Len(t)
    BY <1>0, <1>4
  <2>2. f[k] = f[k - 1] \o messages(p, t[k])
    BY <1>1, <2>1 DEF spokenBy
  <2>3. g[k] = g[k - 1] \o messages(p, s[k])
    BY <1>2 DEF spokenBy
  <2>4. f[k] = g[k]
    BY <2>1, <2>2, <2>3
  <2>5. QED BY <2>4
<1> HIDE DEF T
<1>5. Len(s) \in T
  <2>1. 0 .. Len(s) \subseteq T
    BY <1>0, <1>3, <1>4, UpTo
  <2>2. Len(s) \in Nat
    BY <1>0
  <2>3. Len(s) \in 0 .. Len(s)
    BY <2>2
  <2>4. QED BY <2>1, <2>3
<1>6. f[Len(s)] = transcript(p, s)
  BY <1>2, <1>5 DEF T
<1>7. Len(t) \in 1 .. Len(t) /\ Len(t) - 1 = Len(s) /\ t[Len(t)] = e
  BY <1>0
<1>8. f[Len(t)] = f[Len(t) - 1] \o messages(p, t[Len(t)])
  BY <1>1, <1>7 DEF spokenBy
<1>9. QED BY <1>1, <1>6, <1>7, <1>8 DEF t

-----------------------------------------------------------------------------
(* Of what a run under way has said, the end is in the memory or still to   *)
(* be remembered; before that only v is dropped, and nothing before the     *)
(* memory is full.                                                          *)
active(p) == stage[p] # "new" /\ refusal(p) = NoError
theirs(p) == keep(memory, ofRun(p))
dropped(p, v) ==
    /\ transcript(p, log[p]) = v \o (theirs(p) \o queue[p])
    /\ Len(memory) < Capacity => v = <<>>

MemInv ==
    /\ Len(memory) <= Capacity
    /\ \A p \in Runs :
          /\ active(p) => \E v \in Seq(Message) : dropped(p, v)
          /\ ~active(p) => queue[p] = <<>> /\ theirs(p) = <<>>

LEMMA Theirs ==
    ASSUME TypeInv, NEW p \in Runs
    PROVE  /\ theirs(p) \in Seq(Message) /\ remembered(p) = theirs(p)
           /\ \A d \in Seq(Message) : \A h \in Message :
                 keep(Append(memory, h), ofRun(p)) =
                    IF h.run = p THEN Append(theirs(p), h) ELSE theirs(p)
<1>1. memory \in Seq(Message)
  BY DEF TypeInv
<1>2. theirs(p) \in Seq(Message)
  BY <1>1, KeepType DEF theirs
<1>3. remembered(p) = theirs(p)
  <2> DEFINE s == memory
             S == {m \in ToSet(s) : m.run = p}
  <2>1. \A i \in DOMAIN s : s[i] \in S <=> s[i] \in ofRun(p)
    <3>1. \A i \in DOMAIN s : s[i] \in Message /\ s[i] \in ToSet(s)
      BY <1>1 DEF ToSet
    <3> HIDE DEF s
    <3>2. QED BY <3>1 DEF ofRun
  <2>2. s \in Seq(Message)
    BY <1>1
  <2>3. keep(s, S) = keep(s, ofRun(p))
    <3> HIDE DEF s, S
    <3>1. QED BY <2>1, <2>2, KeepSame
  <2>4. QED BY <2>3 DEF remembered, theirs
<1>4. ASSUME NEW h \in Message
      PROVE  keep(Append(memory, h), ofRun(p)) =
                IF h.run = p THEN Append(theirs(p), h) ELSE theirs(p)
  <2>1. keep(Append(memory, h), ofRun(p)) =
           IF h \in ofRun(p) THEN Append(keep(memory, ofRun(p)), h) ELSE keep(memory, ofRun(p))
    BY <1>1, KeepAppend
  <2>2. h \in ofRun(p) <=> h.run = p
    BY DEF ofRun
  <2>3. QED BY <2>1, <2>2 DEF theirs
<1>5. QED BY <1>2, <1>3, <1>4

(* Remembering drops the beginning d of what there is with the new message. *)
LEMMA Remembering ==
    ASSUME TypeInv, MemInv, NEW p \in Runs, Remember(p)
    PROVE  /\ queue[p] # <<>> /\ Head(queue[p]) \in Message
           /\ queue' = [queue EXCEPT ![p] = Tail(queue[p])]
           /\ memory' \in Seq(Message) /\ Len(memory') <= Capacity
           /\ \E d \in Seq(Message) :
                 /\ Append(memory, Head(queue[p])) = d \o memory'
                 /\ Len(memory') < Capacity => d = <<>> /\ Len(memory) < Capacity
<1> DEFINE h == Head(queue[p])
           L == Append(memory, h)
<1>1. /\ memory \in Seq(Message) /\ queue[p] \in Seq(Message) /\ queue[p] # <<>>
      /\ queue' = [queue EXCEPT ![p] = Tail(queue[p])]
      /\ Capacity \in Nat \ {0} /\ Len(memory) <= Capacity
  BY StrategiesAssumption DEF TypeInv, Remember, StrategiesAssumption, MemInv
<1>2. memory' = IF Len(L) > Capacity THEN SubSeq(L, Len(L) - Capacity + 1, Len(L)) ELSE L
  BY DEF Remember
<1>3. h \in Message
  BY <1>1
<1> HIDE DEF h
<1>4. L \in Seq(Message) /\ Len(L) = Len(memory) + 1 /\ Len(memory) \in Nat
  BY <1>1, <1>3
<1> HIDE DEF L
<1>5. /\ memory' \in Seq(Message) /\ Len(memory') <= Capacity
      /\ \E d \in Seq(Message) :
            /\ L = d \o memory'
            /\ Len(memory') < Capacity => d = <<>> /\ Len(memory) < Capacity
  <2>1. CASE Len(L) > Capacity
    <3>1. Capacity \in 0 .. Len(L)
      BY <1>1, <1>4, <2>1
    <3>2. memory' = SubSeq(L, Len(L) - Capacity + 1, Len(L))
      BY <1>2, <2>1
    <3> DEFINE m == SubSeq(L, Len(L) - Capacity + 1, Len(L))
    <3>3. m \in Seq(Message) /\ Len(m) = Capacity /\ \E d \in Seq(Message) : L = d \o m
      <4>1. L \in Seq(Message)
        BY <1>4
      <4>2. QED BY <3>1, <4>1, Ending, Zenon
    <3> HIDE DEF m
    <3>4. ~(Capacity < Capacity) /\ Capacity <= Capacity
      BY <1>1
    <3>5. QED BY <3>2, <3>3, <3>4 DEF m
  <2>2. CASE ~(Len(L) > Capacity)
    <3>1. memory' = L
      BY <1>2, <2>2
    <3>2. << >> \in Seq(Message) /\ L = << >> \o L
      BY <1>4
    <3>3. Len(L) <= Capacity /\ Len(memory) < Capacity
      BY <1>1, <1>4, <2>2
    <3>4. QED BY <1>4, <3>1, <3>2, <3>3
  <2>3. QED BY <2>1, <2>2
<1>6. QED BY <1>1, <1>3, <1>5 DEF h, L

LEMMA MemStep ==
    ASSUME TypeInv, StageInv, CallInv, MemInv, NEW p \in Runs, Step(p)
    PROVE  MemInv'
<1> DEFINE Right(q) ==
       /\ active(q) => \E v \in Seq(Message) : dropped(q, v)
       /\ ~active(q) => queue[q] = <<>> /\ theirs(q) = <<>>
<1>1. SUFFICES ASSUME NEW q \in Runs PROVE (Len(memory) <= Capacity)' /\ Right(q)'
  <2>1. \E q \in Runs : TRUE
    OBVIOUS
  <2>2. QED BY <2>1 DEF MemInv
<1>2. Right(q) /\ Right(p) /\ Len(memory) <= Capacity
  BY DEF MemInv
<1>3. job' = job
  BY DEF Step, Start, Remember, AskAll, AskOne, Abort, BroadcastRound, DebateRound, LastWord,
         SequentialTurn, RelayTurn, ToVote, Vote, AskPlan, Plan, Work, ToReport
<1>4. refusal(q)' = refusal(q) /\ refusal(p)' = refusal(p)
  BY <1>3, SameJob
<1>5. /\ log[q] \in Seq(Seq(Said)) /\ queue[q] \in Seq(Message) /\ theirs(q) \in Seq(Message)
      /\ log[p] \in Seq(Seq(Said)) /\ queue[p] \in Seq(Message) /\ theirs(p) \in Seq(Message)
  BY Theirs DEF TypeInv
<1>6. ASSUME active(q)' = active(q), log'[q] = log[q], queue'[q] = queue[q], memory' = memory
      PROVE  Right(q)'
  BY <1>2, <1>6 DEF dropped, theirs
<1>7. CASE Remember(p)
  <2> DEFINE h == Head(queue[p])
  <2>1. /\ queue[p] # <<>> /\ h \in Message
        /\ queue' = [queue EXCEPT ![p] = Tail(queue[p])]
        /\ memory' \in Seq(Message) /\ Len(memory') <= Capacity
    BY <1>7, Remembering
  <2>2. PICK d \in Seq(Message) :
           /\ Append(memory, h) = d \o memory'
           /\ Len(memory') < Capacity => d = <<>> /\ Len(memory) < Capacity
    BY <1>7, Remembering
  <2>3. stage' = stage /\ log' = log
    BY <1>7 DEF Remember, progress
  <2>4. h.run = p
    <3>1. h \in ToSet(queue[p])
      BY <1>5, <2>1 DEF ToSet
    <3>2. QED BY <3>1 DEF StageInv
  <2> DEFINE kd == keep(d, ofRun(q))
             km == theirs(q)'
  <2>5. kd \in Seq(Message) /\ km \in Seq(Message)
    BY <2>1, KeepType DEF theirs
  <2>6. keep(Append(memory, h), ofRun(q)) = kd \o km
    <3>1. keep(d \o memory', ofRun(q)) = keep(d, ofRun(q)) \o keep(memory', ofRun(q))
      BY <2>1, KeepConcat
    <3>2. QED BY <2>2, <3>1 DEF theirs
  <2>7. keep(Append(memory, h), ofRun(q)) = IF h.run = q THEN Append(theirs(q), h) ELSE theirs(q)
    BY <2>1, Theirs
  <2>8. d = <<>> => kd = <<>>
    BY KeepEmpty
  <2>9. active(q)' = active(q)
    BY <1>4, <2>3 DEF active
  <2>10. CASE ~active(q)
    <3>1. q # p
      BY <1>2, <2>1, <2>10
    <3>2. kd \o km = <<>> /\ queue'[q] = <<>>
      <4>1. queue \in [Runs -> Seq(Message)]
        BY DEF TypeInv
      <4>2. QED BY <1>2, <2>1, <2>4, <2>6, <2>7, <2>10, <3>1, <4>1
    <3> HIDE DEF kd, km
    <3>3. km = <<>>
      BY <2>5, <3>2, ConcatEqualIffEmpty
    <3>4. QED BY <2>1, <2>9, <2>10, <3>2, <3>3 DEF km
  <2>11. CASE active(q)
    <3>1. PICK v \in Seq(Message) : dropped(q, v)
      BY <1>2, <2>11
    <3> DEFINE k == theirs(q)
               t == queue'[q]
    <3>2. k \in Seq(Message) /\ t \in Seq(Message)
      <4>1. queue \in [Runs -> Seq(Message)] /\ Tail(queue[p]) \in Seq(Message)
        BY <1>5, <2>1 DEF TypeInv
      <4>2. QED BY <1>5, <2>1, <4>1
    <3>3. k \o queue[q] = (kd \o km) \o t
      <4>1. CASE q = p
        <5>1. queue[p] = <<h>> \o Tail(queue[p]) /\ t = Tail(queue[p])
          <6>1. t = Tail(queue[p])
            BY <2>1, <4>1 DEF TypeInv
          <6>2. queue[p] = <<h>> \o Tail(queue[p])
            BY <1>5, <2>1
          <6>3. QED BY <6>1, <6>2
        <5>2. kd \o km = Append(k, h)
          BY <2>4, <2>6, <2>7, <4>1
        <5>3. Append(k, h) = k \o <<h>>
          BY <2>1, <3>2, AppendIsConcat
        <5>4. <<h>> \in Seq(Message)
          BY <2>1
        <5> HIDE DEF h, k, t, kd, km
        <5>5. k \o (<<h>> \o t) = (k \o <<h>>) \o t
          BY <3>2, <5>4, ConcatAssociative
        <5>6. QED BY <4>1, <5>1, <5>2, <5>3, <5>5
      <4>2. CASE q # p
        <5>1. t = queue[q]
          BY <2>1, <4>2 DEF TypeInv
        <5>2. kd \o km = k
          BY <2>4, <2>6, <2>7, <4>2
        <5>3. QED BY <5>1, <5>2
      <4>3. QED BY <4>1, <4>2
    <3> DEFINE w == v \o kd
    <3> HIDE DEF k, t, kd, km, h
    <3>4. w \in Seq(Message) /\ transcript(q, log[q]) = w \o (km \o t)
      <4>1. transcript(q, log[q]) = v \o ((kd \o km) \o t)
        BY <3>1, <3>3 DEF dropped, k
      <4>2. (v \o kd) \o (km \o t) = v \o ((kd \o km) \o t)
        <5> HIDE DEF w
        <5>1. km \o t \in Seq(Message) /\ kd \in Seq(Message) /\ km \in Seq(Message) /\ t \in Seq(Message)
          BY <2>5, <3>2
        <5>2. (v \o kd) \o (km \o t) = v \o (kd \o (km \o t))
          <6> DEFINE r == km \o t
          <6>1. v \in Seq(Message) /\ kd \in Seq(Message) /\ r \in Seq(Message)
            BY <5>1
          <6> HIDE DEF r
          <6>2. (v \o kd) \o r = v \o (kd \o r)
            BY ONLY <6>1, ConcatAssociative
          <6>3. QED BY <6>2 DEF r
        <5>3. (kd \o km) \o t = kd \o (km \o t)
          BY <5>1, ConcatAssociative
        <5>4. QED BY <5>2, <5>3
      <4>3. v \o kd \in Seq(Message)
        BY <2>5
      <4>4. QED BY <4>1, <4>2, <4>3
    <3>5. Len(memory') < Capacity => w = <<>>
      <4>1. ASSUME Len(memory') < Capacity PROVE w = <<>>
        <5>1. kd = <<>> /\ v = <<>>
          BY <2>2, <2>8, <3>1, <4>1 DEF dropped
        <5>2. QED BY <5>1
      <4>2. QED BY <4>1
    <3> HIDE DEF w
    <3>6. dropped(q, w)'
      BY <2>3, <3>4, <3>5 DEF dropped, km, t
    <3>7. QED BY <2>1, <2>9, <2>11, <3>4, <3>6
  <2>12. QED BY <2>10, <2>11
<1>8. CASE ~Remember(p)
  <2>1. memory' = memory
    BY <1>8 DEF Step, Start, AskAll, AskOne, Abort, BroadcastRound, DebateRound, LastWord,
                SequentialTurn, RelayTurn, ToVote, Vote, AskPlan, Plan, Work, ToReport
  <2>2. theirs(q)' = theirs(q) /\ theirs(p)' = theirs(p)
    BY <2>1 DEF theirs
  <2>3. CASE q # p
    <3>1. stage'[q] = stage[q] /\ log'[q] = log[q] /\ queue'[q] = queue[q]
      BY <2>3, Others
    <3>2. active(q)' = active(q)
      BY <1>4, <3>1 DEF active
    <3>3. Right(q)'
      BY <1>6, <2>1, <3>1, <3>2
    <3>4. QED BY <1>2, <2>1, <3>3
  <2>4. CASE q = p
    <3>1. CASE Start(p)
      <4>1. stage[p] = "new" /\ log' = log /\ log[p] = <<>> /\ stage'[p] # "new"
        <5>1. stage[p] = "new" /\ log' = log
          BY <3>1 DEF Start
        <5>2. stage'[p] = "done" \/ stage'[p] = firstStage[job[p].kind]
          BY <3>1, Moves DEF Start, Ends
        <5>3. job[p].kind \in DOMAIN firstStage
          BY JobFacts DEF TypeInv
        <5>4. firstStage[job[p].kind] # "new"
          BY <5>3 DEF firstStage
        <5>5. QED BY <5>1, <5>2, <5>4 DEF CallInv
      <4>2. queue[p] = <<>> /\ theirs(p) = <<>>
        BY <1>2, <4>1 DEF active
      <4>3. CASE refusal(p) # NoError
        <5>1. queue' = queue
          BY <3>1, <4>3 DEF Start
        <5>2. ~active(p)'
          BY <1>4, <4>3 DEF active
        <5>3. QED BY <1>2, <2>1, <2>2, <2>4, <4>2, <5>1, <5>2
      <4>4. CASE refusal(p) = NoError
        <5>1. queue'[p] = <<message(p, NoName, Prompt)>>
          BY <3>1, <4>4 DEF Start, TypeInv
        <5>2. log'[p] = <<>> /\ theirs(p)' = <<>>
          BY <2>2, <4>1, <4>2
        <5>3. transcript(p, <<>>) = << >> \o (<< >> \o <<message(p, NoName, Prompt)>>)
          BY SpokenStart
        <5>4. dropped(p, <<>>)'
          BY <5>1, <5>2, <5>3 DEF dropped
        <5>5. << >> \in Seq(Message)
          OBVIOUS
        <5>6. active(p)'
          BY <1>4, <4>1, <4>4 DEF active
        <5>7. QED BY <1>2, <2>1, <2>4, <5>4, <5>5, <5>6
      <4>5. QED BY <4>3, <4>4
    <3>2. CASE taken(p)
      <4>1. PICK e \in Seq(Said) : Notes(p, e)
        BY <3>2 DEF taken
      <4>2. queue[p] = <<>> /\ stage[p] \notin {"new", "done"} /\ stage'[p] = stage[p]
        BY <3>2 DEF taken
      <4>3. active(p) /\ active(p)'
        BY <1>4, <4>2 DEF active, StageInv
      <4>4. PICK v \in Seq(Message) : dropped(p, v)
        BY <1>2, <4>3
      <4> DEFINE k == theirs(p)
                 t == messages(p, e)
      <4>5. k \in Seq(Message) /\ t \in Seq(Message)
        BY <1>5, MessagesTyped
      <4>6. transcript(p, log'[p]) = transcript(p, log[p]) \o t
        BY <1>5, <4>1, SpokenNext DEF Notes
      <4>7. queue'[p] = t
        BY <4>1 DEF Notes
      <4> HIDE DEF k, t
      <4>8. transcript(p, log'[p]) = v \o (k \o t)
        <5>1. transcript(p, log[p]) = v \o (k \o <<>>)
          BY <4>2, <4>4 DEF dropped, k
        <5>2. k \o <<>> = k
          BY <4>5
        <5>3. (v \o k) \o t = v \o (k \o t)
          BY <4>5, ConcatAssociative
        <5>4. QED BY <4>6, <5>1, <5>2, <5>3
      <4>9. dropped(p, v)'
        BY <2>1, <2>2, <4>4, <4>7, <4>8 DEF dropped, k
      <4>10. QED BY <1>2, <2>1, <2>4, <4>3, <4>9
    <3>3. CASE quiet(p)
      <4>1. log'[p] = log[p] /\ queue'[p] = queue[p] /\ stage[p] # "new" /\ stage'[p] # "new"
        BY <3>3 DEF quiet, goes
      <4>2. active(p)' = active(p)
        BY <1>4, <4>1 DEF active
      <4>3. Right(q)'
        BY <1>6, <2>1, <2>4, <4>1, <4>2
      <4>4. QED BY <1>2, <2>1, <4>3
    <3>4. QED BY <1>8, <3>1, <3>2, <3>3, StepKinds
  <2>5. QED BY <2>3, <2>4
<1>9. QED BY <1>7, <1>8

LEMMA SaidByRun ==
    ASSUME TypeInv, MemInv, NEW p \in Runs
    PROVE  /\ said(p) \in Seq(Message) /\ remembered(p) \in Seq(Message)
           /\ \E v \in Seq(Message) : said(p) = v \o remembered(p)
                                       /\ (Len(memory) < Capacity => v = <<>>)
<1>1. remembered(p) = theirs(p) /\ theirs(p) \in Seq(Message) /\ queue[p] \in Seq(Message)
  BY Theirs DEF TypeInv
<1>2. CASE ~active(p)
  <2>1. said(p) = <<>> /\ theirs(p) = <<>>
    BY <1>2 DEF said, active, MemInv
  <2>2. << >> \in Seq(Message) /\ << >> = << >> \o << >>
    OBVIOUS
  <2>3. QED BY <1>1, <2>1, <2>2
<1>3. CASE active(p)
  <2>1. PICK v \in Seq(Message) : dropped(p, v)
    BY <1>3 DEF MemInv
  <2> DEFINE k == theirs(p)
             t == queue[p]
             all == transcript(p, log[p])
  <2>2. all = v \o (k \o t) /\ k \in Seq(Message) /\ t \in Seq(Message)
    BY <1>1, <2>1 DEF dropped
  <2>3. said(p) = SubSeq(all, 1, Len(all) - Len(t))
    BY <1>3 DEF said, active
  <2> HIDE DEF k, t, all
  <2>4. all = (v \o k) \o t /\ v \o k \in Seq(Message)
    <3>1. (v \o k) \o t = v \o (k \o t)
      BY <2>2, ConcatAssociative
    <3>2. v \o k \in Seq(Message)
      BY <2>2
    <3>3. QED BY <2>2, <3>1, <3>2
  <2>5. said(p) = v \o k
    BY <2>2, <2>3, <2>4, Beginning
  <2>6. QED BY <1>1, <2>1, <2>4, <2>5 DEF dropped, k
<1>4. QED BY <1>2, <1>3

LEMMA MemFollows ==
    ASSUME TypeInv, MemInv
    PROVE  MemoryRight
<1>1. StrategiesTypeOK
  BY DEF TypeInv, StrategiesTypeOK, Stages
<1>2. ASSUME NEW p \in Runs
      PROVE  /\ IsSuffix(remembered(p), said(p))
             /\ Len(memory) < Capacity => remembered(p) = said(p)
  <2>1. PICK v \in Seq(Message) : said(p) = v \o remembered(p)
                                   /\ (Len(memory) < Capacity => v = <<>>)
    BY SaidByRun
  <2>2. remembered(p) \in Seq(Message)
    BY SaidByRun
  <2>3. IsSuffix(remembered(p), said(p))
    BY <2>1, <2>2, SuffixOf
  <2>4. QED BY <2>1, <2>2, <2>3
<1>3. QED BY <1>1, <1>2 DEF MemInv, MemoryRight

-----------------------------------------------------------------------------
(* What a debater hears: from the memory without its beginning, without the *)
(* prompts, and if need be without his own statements.                      *)

LEMMA KeepHere ==
    ASSUME NEW X, NEW s \in Seq(X), NEW S, NEW T, T = ToSet(s) \cap S
    PROVE  keep(s, T) = keep(s, S)
<1>1. \A i \in DOMAIN s : s[i] \in T <=> s[i] \in S
  BY DEF ToSet
<1>2. QED BY <1>1, KeepSame

LEMMA KeepNone ==
    ASSUME NEW X, NEW s \in Seq(X), NEW S, \A i \in DOMAIN s : s[i] \notin S
    PROVE  keep(s, S) = <<>>
  BY KeepAll

LEMMA KeepOne ==
    ASSUME NEW X, NEW m \in X, NEW S, m \notin S
    PROVE  keep(<<m>>, S) = <<>>
<1> DEFINE s == <<m>>
<1>1. s \in Seq(X) /\ \A i \in DOMAIN s : s[i] \notin S
  OBVIOUS
<1> HIDE DEF s
<1>2. keep(s, S) = <<>>
  BY <1>1, KeepNone
<1>3. QED BY <1>2 DEF s

LEMMA PromptFirst ==
    ASSUME NEW p \in Runs, NEW s \in Seq(Seq(Said))
    PROVE  message(p, NoName, Prompt) \in ToSet(transcript(p, s))
<1> DEFINE first == message(p, NoName, Prompt)
           W == Seq(Message)
           Y == Seq(Said)
           Good == {t \in Seq(Y) : \E u \in W : transcript(p, t) = <<first>> \o u}
<1>1. first \in Message
  BY PromptTyped
<1> HIDE DEF first
<1>2. << >> \in Good
  <2>1. transcript(p, <<>>) = <<first>> \o <<>>
    BY <1>1, SpokenStart DEF first
  <2>2. << >> \in W /\ << >> \in Seq(Y)
    OBVIOUS
  <2> HIDE DEF W, Y
  <2>3. QED BY <2>1, <2>2
<1>3. ASSUME NEW t \in Seq(Y), NEW e \in Y, t \in Good PROVE Append(t, e) \in Good
  <2>1. PICK u \in W : transcript(p, t) = <<first>> \o u
    BY <1>3
  <2> DEFINE ms == messages(p, e)
             a == <<first>>
  <2>2. ms \in Seq(Message) /\ a \in Seq(Message) /\ u \in Seq(Message)
    BY <1>1, MessagesTyped
  <2>3. transcript(p, Append(t, e)) = (a \o u) \o ms
    BY <2>1, SpokenNext
  <2> HIDE DEF ms, a
  <2>4. (a \o u) \o ms = a \o (u \o ms)
    BY <2>2, ConcatAssociative
  <2>5. u \o ms \in W /\ Append(t, e) \in Seq(Y)
    BY <2>2
  <2> HIDE DEF W, Y
  <2>6. QED BY <2>3, <2>4, <2>5 DEF a
<1>4. s \in Good
  <2>1. << >> \in Good /\ \A t \in Seq(Y) : \A e \in Y : t \in Good => Append(t, e) \in Good
    BY <1>2, <1>3
  <2> HIDE DEF Good
  <2>2. Seq(Y) \subseteq Good
    BY <2>1, ByAppend
  <2>3. QED BY <2>2
<1>5. PICK u \in W : transcript(p, s) = <<first>> \o u
  BY <1>4
<1> DEFINE all == <<first>> \o u
<1>6. 1 \in DOMAIN all /\ all[1] = first
  BY <1>1
<1> HIDE DEF all
<1>7. first \in ToSet(all)
  BY <1>6 DEF ToSet
<1>8. QED BY <1>5, <1>7 DEF all, first

(* The memory, and the end of it that a context is made of                  *)
recentOf(p) ==
    LET prompt == message(p, NoName, Prompt)
        h == IF memory # <<>> /\ memory[1] = prompt THEN Tail(memory) ELSE memory
    IN  IF job[p].window = Unlimited \/ Len(h) <= job[p].window THEN h
        ELSE SubSeq(h, Len(h) - job[p].window + 1, Len(h))

LEMMA RecentPart ==
    ASSUME TypeInv, NEW p \in Runs, job[p].window # NoPolicy
    PROVE  /\ recentOf(p) \in Seq(Message)
           /\ \E a \in Seq(Message), w \in Seq(Message) :
                 /\ memory = a \o (w \o recentOf(p))
                 /\ \A i \in DOMAIN a : a[i] = message(p, NoName, Prompt)
                 /\ job[p].window = Unlimited => w = <<>>
<1> DEFINE first == message(p, NoName, Prompt)
           h == IF memory # <<>> /\ memory[1] = first THEN Tail(memory) ELSE memory
           n == job[p].window
<1>1. memory \in Seq(Message) /\ n \in Nat \cup {Unlimited}
  BY JobsAssumption DEF TypeInv, JobsAssumption
<1>2. h \in Seq(Message) /\ \E a \in Seq(Message) : memory = a \o h /\ \A i \in DOMAIN a : a[i] = first
  <2>1. CASE memory # <<>> /\ memory[1] = first
    <3>1. h = Tail(memory) /\ memory[1] \in Message
      BY <1>1, <2>1
    <3>2. h \in Seq(Message) /\ memory = <<memory[1]>> \o h
      <4>1. Tail(memory) \in Seq(Message)
        BY <1>1, <2>1
      <4>2. memory = <<memory[1]>> \o Tail(memory)
        BY <1>1, <2>1
      <4>3. QED BY <3>1, <4>1, <4>2
    <3> DEFINE a == <<memory[1]>>
    <3>3. a \in Seq(Message) /\ \A i \in DOMAIN a : a[i] = first
      BY <2>1, <3>1
    <3> HIDE DEF h, a
    <3>4. QED BY <3>2, <3>3 DEF a
  <2>2. CASE ~(memory # <<>> /\ memory[1] = first)
    <3>1. h = memory
      BY <2>2
    <3> DEFINE a == <<>>
    <3>2. a \in Seq(Message) /\ memory = a \o memory /\ \A i \in DOMAIN a : a[i] = first
      BY <1>1
    <3> HIDE DEF h, a
    <3>3. QED BY <1>1, <3>1, <3>2
  <2>3. QED BY <2>1, <2>2
<1> DEFINE r == IF n = Unlimited \/ Len(h) <= n THEN h ELSE SubSeq(h, Len(h) - n + 1, Len(h))
<1>3. recentOf(p) = r
  BY DEF recentOf
<1> HIDE DEF h
<1>4. r \in Seq(Message) /\ \E w \in Seq(Message) : h = w \o r /\ (n = Unlimited => w = <<>>)
  <2>1. CASE n = Unlimited \/ Len(h) <= n
    <3>1. << >> \in Seq(Message) /\ h = << >> \o h
      BY <1>2
    <3>2. r = h
      BY <2>1
    <3> HIDE DEF r
    <3>3. QED BY <1>2, <3>1, <3>2
  <2>2. CASE ~(n = Unlimited \/ Len(h) <= n)
    <3>1. n \in Nat /\ n \in 0 .. Len(h) /\ n # Unlimited
      BY <1>1, <1>2, <2>2
    <3>2. r = SubSeq(h, Len(h) - n + 1, Len(h))
      BY <2>2
    <3> HIDE DEF r, n
    <3>3. SubSeq(h, Len(h) - n + 1, Len(h)) \in Seq(Message)
          /\ \E d \in Seq(Message) : h = d \o SubSeq(h, Len(h) - n + 1, Len(h))
      BY <1>2, <3>1, Ending
    <3>4. QED BY <3>1, <3>2, <3>3
  <2>3. QED BY <2>1, <2>2
<1> HIDE DEF r, n, first
<1>5. PICK a \in Seq(Message) : memory = a \o h /\ \A i \in DOMAIN a : a[i] = first
  BY <1>2
<1>6. PICK w \in Seq(Message) : h = w \o r /\ (n = Unlimited => w = <<>>)
  BY <1>4
<1>7. memory = a \o (w \o r)
  BY <1>5, <1>6
<1>8. QED BY <1>3, <1>4, <1>5, <1>6, <1>7 DEF first, n

(* Of what is not a prompt and need not be hidden, the end is heard; all of *)
(* it, without a window.                                                    *)
LEMMA HeardOf ==
    ASSUME TypeInv, NEW p \in Runs, NEW d \in ToSet(Names), NEW S \in SUBSET Message,
           message(p, NoName, Prompt) \notin S
    PROVE  /\ contextFor(p, d) \in Seq(Message)
           /\ (job[p].hide => \A m \in S : m.by # d) =>
                 \E x \in Seq(Message) :
                    /\ keep(memory, S) = x \o keep(contextFor(p, d), S)
                    /\ job[p].window \in {NoPolicy, Unlimited} => x = <<>>
           /\ (job[p].window # NoPolicy /\ job[p].hide /\ \A m \in S : m.by = d) =>
                 keep(contextFor(p, d), S) = <<>>
<1> DEFINE first == message(p, NoName, Prompt)
           heard == contextFor(p, d)
           V == {m \in Message : ~(job[p].hide /\ m.by = d)}
<1>1. memory \in Seq(Message) /\ first \in Message /\ <<first>> \in Seq(Message)
  BY PromptTyped DEF TypeInv
<1>2. CASE job[p].window = NoPolicy
  <2>1. heard = memory
    BY <1>2 DEF contextFor
  <2>2. << >> \in Seq(Message) /\ keep(memory, S) \in Seq(Message)
    BY <1>1, KeepType
  <2>3. keep(memory, S) = << >> \o keep(memory, S)
    BY <2>2
  <2> HIDE DEF heard
  <2>4. QED BY <1>1, <1>2, <2>1, <2>2, <2>3 DEF heard
<1>3. CASE job[p].window # NoPolicy
  <2> DEFINE r == recentOf(p)
             T == {m \in ToSet(r) : ~(job[p].hide /\ m.by = d)}
  <2>1. r \in Seq(Message)
    BY <1>3, RecentPart
  <2>2. heard = <<first>> \o keep(r, T)
    BY <1>3, Zenon DEF contextFor, recentOf
  <2>3. keep(r, T) = keep(r, V)
    <3>1. T = ToSet(r) \cap V
      <4>1. ToSet(r) \subseteq Message
        <5> HIDE DEF r
        <5>1. QED BY <2>1 DEF ToSet
      <4> HIDE DEF r
      <4>2. QED BY <4>1
    <3> HIDE DEF T, V, r
    <3>2. QED BY <2>1, <3>1, KeepHere
  <2> HIDE DEF T, V, r, heard, first
  <2>4. keep(r, V) \in Seq(Message) /\ heard \in Seq(Message)
    <3>1. keep(r, V) \in Seq(Message)
      BY <2>1, KeepType
    <3>2. QED BY <1>1, <2>2, <2>3, <3>1
  <2>5. keep(heard, S) = keep(r, V \cap S)
    <3>1. keep(<<first>> \o keep(r, V), S) = keep(<<first>>, S) \o keep(keep(r, V), S)
      <4> DEFINE a == <<first>>
                 b == keep(r, V)
      <4>1. a \in Seq(Message) /\ b \in Seq(Message)
        BY <1>1, <2>4
      <4> HIDE DEF a, b
      <4>2. keep(a \o b, S) = keep(a, S) \o keep(b, S)
        BY <4>1, KeepConcat
      <4>3. QED BY <4>2 DEF a, b
    <3>2. keep(<<first>>, S) = <<>>
      BY <1>1, KeepOne DEF first
    <3>3. keep(keep(r, V), S) = keep(r, V \cap S)
      BY <2>1, KeepTwice
    <3>4. keep(r, V \cap S) \in Seq(Message)
      BY <2>1, KeepType
    <3>5. << >> \o keep(r, V \cap S) = keep(r, V \cap S)
      BY <3>4
    <3>6. QED BY <2>2, <2>3, <3>1, <3>2, <3>3, <3>5
  <2>6. ASSUME job[p].hide => \A m \in S : m.by # d
        PROVE  \E x \in Seq(Message) :
                  /\ keep(memory, S) = x \o keep(heard, S)
                  /\ job[p].window \in {NoPolicy, Unlimited} => x = <<>>
    <3>1. V \cap S = S
      BY <2>6 DEF V
    <3>2. PICK a \in Seq(Message), w \in Seq(Message) :
             /\ memory = a \o (w \o r)
             /\ \A i \in DOMAIN a : a[i] = first
             /\ job[p].window = Unlimited => w = <<>>
      BY <1>3, RecentPart DEF r, first
    <3>3. keep(a, S) = <<>>
      <4>1. \A i \in DOMAIN a : a[i] \notin S
        BY <3>2 DEF first
      <4>2. QED BY <4>1, KeepNone
    <3>4. keep(memory, S) = keep(a, S) \o keep(w \o r, S)
      <4>1. w \o r \in Seq(Message)
        BY <2>1
      <4> DEFINE b == w \o r
      <4>2. a \in Seq(Message) /\ b \in Seq(Message)
        BY <4>1
      <4> HIDE DEF b
      <4>3. keep(a \o b, S) = keep(a, S) \o keep(b, S)
        BY <4>2, KeepConcat
      <4>4. QED BY <3>2, <4>3 DEF b
    <3>5. keep(w \o r, S) = keep(w, S) \o keep(r, S)
      BY <2>1, KeepConcat
    <3>6. keep(w, S) \in Seq(Message) /\ keep(r, S) \in Seq(Message)
      BY <2>1, KeepType
    <3>7. keep(memory, S) = keep(w, S) \o keep(heard, S)
      <4>1. keep(heard, S) = keep(r, S)
        BY <2>5, <3>1
      <4>2. << >> \o (keep(w, S) \o keep(r, S)) = keep(w, S) \o keep(r, S)
        BY <3>6
      <4>3. QED BY <3>3, <3>4, <3>5, <4>1, <4>2
    <3>8. job[p].window \in {NoPolicy, Unlimited} => keep(w, S) = <<>>
      BY <1>3, <3>2, KeepEmpty
    <3>9. QED BY <3>6, <3>7, <3>8
  <2>7. ASSUME job[p].hide, \A m \in S : m.by = d PROVE keep(heard, S) = <<>>
    <3>1. V \cap S = {}
      BY <2>7 DEF V
    <3>2. keep(r, {}) = <<>>
      BY <2>1, KeepNone
    <3>3. QED BY <2>5, <3>1, <3>2
  <2>8. QED BY <2>4, <2>6, <2>7 DEF heard
<1>4. QED BY <1>2, <1>3

(* What a run remembers of a part of what it says                           *)
LEMMA PartOfSaid ==
    ASSUME TypeInv, MemInv, NEW p \in Runs, NEW S \in SUBSET ofRun(p)
    PROVE  /\ keep(memory, S) \in Seq(Message) /\ keep(said(p), S) \in Seq(Message)
           /\ remembered(p) = said(p) => keep(said(p), S) = keep(memory, S)
           /\ \E v \in Seq(Message) : keep(said(p), S) = v \o keep(memory, S)
<1>1. memory \in Seq(Message) /\ said(p) \in Seq(Message) /\ remembered(p) \in Seq(Message)
      /\ remembered(p) = keep(memory, ofRun(p))
  BY Theirs, SaidByRun DEF TypeInv, theirs
<1>2. keep(remembered(p), S) = keep(memory, S)
  <2>1. keep(keep(memory, ofRun(p)), S) = keep(memory, ofRun(p) \cap S)
    BY <1>1, KeepTwice
  <2>2. ofRun(p) \cap S = S
    OBVIOUS
  <2>3. QED BY <1>1, <2>1, <2>2
<1>3. PICK v \in Seq(Message) : said(p) = v \o remembered(p)
  BY SaidByRun
<1>4. keep(said(p), S) = keep(v, S) \o keep(remembered(p), S)
  <2>1. keep(v \o remembered(p), S) = keep(v, S) \o keep(remembered(p), S)
    <3> DEFINE b == remembered(p)
    <3>1. v \in Seq(Message) /\ b \in Seq(Message)
      BY <1>1
    <3> HIDE DEF b
    <3>2. keep(v \o b, S) = keep(v, S) \o keep(b, S)
      BY <3>1, KeepConcat
    <3>3. QED BY <3>2 DEF b
  <2>2. QED BY <1>3, <2>1
<1>5. keep(v, S) \in Seq(Message) /\ keep(memory, S) \in Seq(Message) /\ keep(said(p), S) \in Seq(Message)
  BY <1>1, KeepType
<1>6. QED BY <1>2, <1>4, <1>5

LEMMA HeardFollows ==
    ASSUME TypeInv, StageInv, MemInv
    PROVE  DebateHeard
<1>1. SUFFICES
        ASSUME NEW p \in Runs, NEW d \in ToSet(Names),
               stage[p] = "round" /\ job[p].kind = "debate" /\ ready(p) /\ waiting[p]
        PROVE  LET heard == contextFor(p, d)
                   others(s) == keep(s, {m \in ToSet(s) : m.run = p /\ m.by \notin {NoName, d}})
                   own(s) == keep(s, {m \in ToSet(s) : m.run = p /\ m.by = d})
                   all == /\ remembered(p) = said(p)
                          /\ job[p].window \in {NoPolicy, Unlimited}
               IN  /\ IsSuffix(others(heard), others(said(p)))
                   /\ all => others(heard) = others(said(p))
                   /\ all => own(heard) = IF job[p].hide THEN <<>> ELSE own(said(p))
                   /\ all => message(p, NoName, Prompt) \in ToSet(heard)
  BY Zenon DEF DebateHeard
<1> DEFINE heard == contextFor(p, d)
           others(s) == keep(s, {m \in ToSet(s) : m.run = p /\ m.by \notin {NoName, d}})
           own(s) == keep(s, {m \in ToSet(s) : m.run = p /\ m.by = d})
           all == /\ remembered(p) = said(p)
                  /\ job[p].window \in {NoPolicy, Unlimited}
           first == message(p, NoName, Prompt)
           O == {m \in Message : m.run = p /\ m.by \notin {NoName, d}}
           W == {m \in Message : m.run = p /\ m.by = d}
<1>2. /\ O \in SUBSET Message /\ W \in SUBSET Message
      /\ O \in SUBSET ofRun(p) /\ W \in SUBSET ofRun(p)
      /\ first \in Message /\ first \notin O /\ first \notin W
  <2>1. NoName \notin ToSet(Names)
    BY JobFacts DEF TypeInv
  <2>2. d # NoName
    BY <2>1
  <2>3. QED BY <2>2, PromptTyped DEF ofRun
<1>3. memory \in Seq(Message) /\ said(p) \in Seq(Message) /\ heard \in Seq(Message)
  BY <1>2, SaidByRun, HeardOf DEF TypeInv
<1>4. ASSUME NEW s \in Seq(Message) PROVE others(s) = keep(s, O) /\ own(s) = keep(s, W)
  <2>1. ToSet(s) \subseteq Message
    BY DEF ToSet
  <2> DEFINE Os == {m \in ToSet(s) : m.run = p /\ m.by \notin {NoName, d}}
             Ws == {m \in ToSet(s) : m.run = p /\ m.by = d}
  <2>2. Os = ToSet(s) \cap O /\ Ws = ToSet(s) \cap W
    BY <2>1
  <2> HIDE DEF Os, Ws, O, W
  <2>3. keep(s, Os) = keep(s, O) /\ keep(s, Ws) = keep(s, W)
    BY <2>2, KeepHere
  <2>4. QED BY <2>3 DEF Os, Ws
<1>5. PICK x \in Seq(Message) :
         /\ keep(memory, O) = x \o keep(heard, O)
         /\ job[p].window \in {NoPolicy, Unlimited} => x = <<>>
  <2>1. job[p].hide => \A m \in O : m.by # d
    OBVIOUS
  <2> HIDE DEF O
  <2>2. QED BY <1>2, <2>1, HeardOf
<1>6. all => keep(heard, O) = keep(said(p), O)
  <2>1. ASSUME all PROVE keep(heard, O) = keep(said(p), O)
    <3>1. keep(said(p), O) = keep(memory, O)
      BY <1>2, <2>1, PartOfSaid
    <3>2. keep(heard, O) \in Seq(Message)
      BY <1>3, KeepType
    <3>3. << >> \o keep(heard, O) = keep(heard, O)
      BY <3>2
    <3>4. x = <<>>
      BY <1>5, <2>1
    <3>5. QED BY <1>5, <3>1, <3>3, <3>4
  <2>2. QED BY <2>1
<1>7. IsSuffix(keep(heard, O), keep(said(p), O))
  <2>1. PICK v \in Seq(Message) : keep(said(p), O) = v \o keep(memory, O)
    BY <1>2, PartOfSaid
  <2> DEFINE k == keep(heard, O)
  <2>2. k \in Seq(Message)
    BY <1>3, KeepType
  <2>3. keep(said(p), O) = v \o (x \o k)
    BY <1>5, <2>1
  <2> HIDE DEF k
  <2>4. (v \o x) \o k = v \o (x \o k) /\ v \o x \in Seq(Message)
    BY <2>2, ConcatAssociative
  <2>5. IsSuffix(k, (v \o x) \o k)
    BY <2>2, <2>4, SuffixOf
  <2>6. QED BY <2>3, <2>4, <2>5 DEF k
<1>8. all => keep(heard, W) = IF job[p].hide THEN <<>> ELSE keep(said(p), W)
  <2>1. ASSUME all PROVE keep(heard, W) = IF job[p].hide THEN <<>> ELSE keep(said(p), W)
    <3>1. CASE job[p].hide
      <4>1. job[p].window # NoPolicy
        BY <3>1, JobsAssumption DEF JobsAssumption, TypeInv
      <4>2. \A m \in W : m.by = d
        OBVIOUS
      <4> HIDE DEF W
      <4>3. keep(heard, W) = <<>>
        BY <1>2, <3>1, <4>1, <4>2, HeardOf
      <4>4. QED BY <3>1, <4>3
    <3>2. CASE ~job[p].hide
      <4> HIDE DEF W
      <4>1. PICK y \in Seq(Message) :
               /\ keep(memory, W) = y \o keep(heard, W)
               /\ job[p].window \in {NoPolicy, Unlimited} => y = <<>>
        BY <1>2, <3>2, HeardOf
      <4>2. keep(said(p), W) = keep(memory, W)
        BY <1>2, <2>1, PartOfSaid
      <4>3. keep(heard, W) \in Seq(Message)
        BY <1>3, KeepType
      <4>4. << >> \o keep(heard, W) = keep(heard, W)
        BY <4>3
      <4>5. y = <<>>
        BY <2>1, <4>1
      <4>6. QED BY <3>2, <4>1, <4>2, <4>4, <4>5
    <3>3. QED BY <3>1, <3>2
  <2>2. QED BY <2>1
<1>9. all => first \in ToSet(heard)
  <2>1. ASSUME all PROVE first \in ToSet(heard)
    <3>1. CASE job[p].window = NoPolicy
      <4>1. heard = memory
        BY <3>1 DEF contextFor
      <4>2. said(p) = transcript(p, log[p])
        <5> DEFINE t == transcript(p, log[p])
        <5>1. queue[p] = <<>> /\ stage[p] # "new" /\ refusal(p) = NoError
          BY <1>1 DEF ready, StageInv
        <5>2. t \in Seq(Message)
          BY SpokenTyped DEF TypeInv
        <5>3. said(p) = SubSeq(t, 1, Len(t) - Len(queue[p]))
          BY <5>1 DEF said
        <5> HIDE DEF t
        <5>4. Len(t) - Len(queue[p]) = Len(t)
          BY <5>1, <5>2
        <5>5. SubSeq(t, 1, Len(t)) = t
          BY <5>2, SubSeqFull
        <5>6. QED BY <5>3, <5>4, <5>5 DEF t
      <4>3. first \in ToSet(said(p))
        BY <4>2, PromptFirst DEF TypeInv
      <4>4. remembered(p) = keep(memory, ofRun(p))
        BY Theirs DEF theirs
      <4>5. ToSet(keep(memory, ofRun(p))) = ToSet(memory) \cap ofRun(p)
        BY <1>3, KeepMembers
      <4>6. QED BY <2>1, <4>1, <4>3, <4>4, <4>5
    <3>2. CASE job[p].window # NoPolicy
      <4> DEFINE r == recentOf(p)
                 T == {m \in ToSet(r) : ~(job[p].hide /\ m.by = d)}
                 k == keep(r, T)
      <4>1. heard = <<first>> \o k
        BY <3>2, Zenon DEF contextFor, recentOf
      <4>2. r \in Seq(Message)
        BY <3>2, RecentPart
      <4> HIDE DEF r, T
      <4>3. k \in Seq(Message)
        BY <4>2, KeepType
      <4> HIDE DEF k, heard, first
      <4>4. 1 \in DOMAIN heard /\ heard[1] = first
        BY <1>2, <4>1, <4>3
      <4>5. QED BY <4>4 DEF ToSet
    <3>3. QED BY <3>1, <3>2
  <2>2. QED BY <2>1
<1>10. /\ others(heard) = keep(heard, O) /\ others(said(p)) = keep(said(p), O)
       /\ own(heard) = keep(heard, W) /\ own(said(p)) = keep(said(p), W)
  <2> HIDE DEF heard, others, own, O, W
  <2>1. QED BY <1>3, <1>4
<1>11. /\ IsSuffix(others(heard), others(said(p)))
       /\ all => others(heard) = others(said(p))
       /\ all => own(heard) = IF job[p].hide THEN <<>> ELSE own(said(p))
       /\ all => first \in ToSet(heard)
  <2> HIDE DEF heard, others, own, O, W, all, first
  <2>1. QED BY <1>6, <1>7, <1>8, <1>9, <1>10
<1>12. QED BY <1>11, Zenon

-----------------------------------------------------------------------------
(* What a run hands out, as long as it is under way and in the end.         *)

lastIn(S) == CHOOSE i \in S : \A j \in S : j <= i

(* What n rounds make of a text: what the last one with answers said, and   *)
(* under a max_chars the prompt for each that was fed back since; and what  *)
(* is handed on to the next.  The draft after n turns                       *)
answered(l, n) == {i \in 1 .. n : good(l[i]) # <<>>}
newest(l, n) == IF answered(l, n) = {} THEN 1 ELSE lastIn(answered(l, n))
handed(l, n, limited) ==
    repeated(Prompt, IF limited THEN n - newest(l, n) ELSE 0) \o
        (IF answered(l, n) = {} THEN <<Prompt>> ELSE textsOf(l[newest(l, n)]))
carried(l, n, limited) ==
    IF n = 0 THEN <<Prompt>>
    ELSE IF limited THEN <<Prompt>> \o handed(l, n, limited) ELSE handed(l, n, limited)
drafted(l, n) == {i \in 1 .. n : l[i][1][2] # Error}
draft(l, n) == IF drafted(l, n) = {} THEN Prompt ELSE l[lastIn(drafted(l, n))][1][2]

(* A broadcast of R rounds in round r, a relay of L turns in turn u, and a  *)
(* consensus: l is the log, w whether the next answer is waited for, t the  *)
(* text handed on.                                                          *)
broadcastOn(l, R, limited, r, w, t) ==
    /\ r \in 1 .. R /\ Len(l) = IF w THEN r - 1 ELSE r
    /\ t.of = carried(l, r - 1, limited) /\ (t.cut => limited /\ r > 1)
relayOn(l, L, R, r, u, w, t) ==
    /\ r \in 1 .. R /\ Len(l) = (r - 1) * L + (IF w THEN u - 1 ELSE u)
    /\ t = whole(<<draft(l, (r - 1) * L + u - 1)>>)
    /\ \A k \in 1 .. r - 1 : draft(l, k * L) # draft(l, (k - 1) * L)
consensusOn(l, s, w) ==
    /\ s = "propose" => Len(l) = IF w THEN 0 ELSE 1
    /\ s = "vote" => w /\ Len(l) = 1
    /\ s = "judge" => Len(l) = IF w THEN 1 ELSE 2

(* And the result                                                           *)
broadcastResult(l, R, limited, result) ==
    LET n == Len(l) IN
    /\ n = R
    /\ result.of = handed(l, n, limited)
    /\ result.cut => limited /\ n > 1 /\ n \notin answered(l, n)
relayResult(l, L, R, r, result) ==
    /\ Len(l) = r * L /\ r \in 1 .. R
    /\ result = whole(<<draft(l, r * L)>>)
    /\ \A k \in 1 .. r - 1 : draft(l, k * L) # draft(l, (k - 1) * L)
    /\ r < R => draft(l, r * L) = draft(l, (r - 1) * L)
voteResult(l, winner, result) ==
    \E i \in DOMAIN Names : /\ Names[i] = winner
                             /\ l[1][i][2] # Error
                             /\ result = whole(<<l[1][i][2]>>)
rightResult(kind, l, L, R, limited, r, winner, result) ==
    CASE kind = "broadcast" -> broadcastResult(l, R, limited, result)
      [] kind = "relay" -> relayResult(l, L, R, r, result)
      [] kind = "consensus" /\ Len(l) = 1 -> voteResult(l, winner, result)
      [] OTHER -> result = whole(<<l[Len(l)][1][2]>>)

runRight(p) ==
    /\ stage[p] = "new" => round[p] = 1 /\ turn[p] = 1 /\ text[p] = whole(<<Prompt>>)
    /\ (job[p].kind = "broadcast" /\ stage[p] = "round") =>
          broadcastOn(log[p], rounds(p), job[p].limited, round[p], waiting[p], text[p])
    /\ (job[p].kind = "relay" /\ stage[p] = "turn") =>
          relayOn(log[p], Len(order(p)), rounds(p), round[p], turn[p], waiting[p], text[p])
    /\ job[p].kind = "consensus" => consensusOn(log[p], stage[p], waiting[p])
    /\ (stage[p] = "done" /\ final[p].raised = NoError) =>
          rightResult(job[p].kind, log[p], Len(order(p)), rounds(p), job[p].limited, round[p],
                      ballot[p].winner, final[p].text)
    /\ ballot[p].clear => ballot[p].winner = ballot[p].meant
ResultInv == \A p \in Runs : runRight(p)

(* A round, and a turn, more                                                *)
LEMMA OneMore ==
    ASSUME NEW S, NEW n \in Nat \ {0}, S \subseteq 1 .. n, n \in S
    PROVE  lastIn(S) = n
<1> DEFINE Greatest(i) == i \in S /\ \A j \in S : j <= i
<1>1. Greatest(n)
  OBVIOUS
<1>2. ASSUME NEW i, Greatest(i) PROVE i = n
  BY <1>2
<1>3. lastIn(S) = CHOOSE i : Greatest(i)
  BY DEF lastIn
<1> HIDE DEF Greatest
<1>4. Greatest(CHOOSE i : Greatest(i))
  BY <1>1, Zenon
<1>5. QED BY <1>2, <1>3, <1>4

LEMMA Repeated ==
    ASSUME NEW x, NEW n \in Nat
    PROVE  /\ repeated(x, 0) = <<>>
           /\ repeated(x, n) \in Seq({x})
           /\ repeated(x, n + 1) = <<x>> \o repeated(x, n)
<1>1. repeated(x, 0) = <<>>
  BY DEF repeated
<1>2. repeated(x, n) \in Seq({x}) /\ Len(repeated(x, n)) = n
  BY DEF repeated
<1>3. repeated(x, n + 1) \in Seq({x}) /\ Len(repeated(x, n + 1)) = n + 1
  BY DEF repeated
<1>4. \A m \in Nat : \A i \in 1 .. m : repeated(x, m)[i] = x
  BY DEF repeated
<1> DEFINE a == repeated(x, n)
           b == repeated(x, n + 1)
<1>5. a \in Seq({x}) /\ Len(a) = n /\ b \in Seq({x}) /\ Len(b) = n + 1
  BY <1>2, <1>3
<1>6. (\A i \in 1 .. n : a[i] = x) /\ \A i \in 1 .. n + 1 : b[i] = x
  BY <1>4
<1> HIDE DEF a, b
<1>7. b = <<x>> \o a
  <2>1. <<x>> \o a \in Seq({x}) /\ Len(<<x>> \o a) = n + 1
    BY <1>5
  <2>2. \A i \in 1 .. n + 1 : (<<x>> \o a)[i] = x
    BY <1>5, <1>6
  <2>3. \A i \in 1 .. n + 1 : b[i] = (<<x>> \o a)[i]
    BY <1>6, <2>2
  <2>4. QED BY <1>5, <2>1, <2>3, SeqEqual
<1>8. QED BY <1>1, <1>2, <1>7 DEF a, b

(* The last round with answers is one of them.                              *)
LEMMA Newest ==
    ASSUME NEW l \in Seq(Seq(Said))
    PROVE  \A n \in 0 .. Len(l) : answered(l, n) # {} => lastIn(answered(l, n)) \in 1 .. n
<1> DEFINE S == {n \in 0 .. Len(l) : answered(l, n) # {} => lastIn(answered(l, n)) \in 1 .. n}
<1>1. Len(l) \in Nat
  OBVIOUS
<1>2. 0 \in S
  <2>1. answered(l, 0) = {}
    BY DEF answered
  <2>2. QED BY <1>1, <2>1
<1>3. ASSUME NEW n \in 1 .. Len(l), n - 1 \in S PROVE n \in S
  <2>1. n \in Nat \ {0} /\ n \in 1 .. n /\ 1 .. n = (1 .. n - 1) \cup {n} /\ n \in 0 .. Len(l)
    BY <1>1
  <2>2. CASE good(l[n]) # <<>>
    <3>1. n \in answered(l, n) /\ answered(l, n) \subseteq 1 .. n
      BY <2>1, <2>2 DEF answered
    <3>2. lastIn(answered(l, n)) = n
      BY <2>1, <3>1, OneMore
    <3>3. QED BY <2>1, <3>2
  <2>3. CASE good(l[n]) = <<>>
    <3>1. answered(l, n) = answered(l, n - 1)
      BY <2>1, <2>3 DEF answered
    <3>2. answered(l, n - 1) # {} => lastIn(answered(l, n - 1)) \in 1 .. n - 1
      BY <1>3
    <3>3. QED BY <2>1, <3>1, <3>2
  <2>4. QED BY <2>2, <2>3
<1> HIDE DEF S
<1>4. 0 .. Len(l) \subseteq S
  BY <1>1, <1>2, <1>3, UpTo
<1>5. QED BY <1>4 DEF S

LEMMA Carried ==
    ASSUME NEW l \in Seq(Seq(Said)), NEW limited \in BOOLEAN
    PROVE  /\ carried(l, 0, limited) = <<Prompt>>
           /\ \A n \in 1 .. Len(l) :
                 /\ handed(l, n, limited) = IF good(l[n]) # <<>> THEN textsOf(l[n])
                                            ELSE carried(l, n - 1, limited)
                 /\ carried(l, n, limited) = IF limited THEN <<Prompt>> \o handed(l, n, limited)
                                             ELSE handed(l, n, limited)
<1>1. carried(l, 0, limited) = <<Prompt>>
  BY DEF carried
<1>2. ASSUME NEW n \in 1 .. Len(l)
      PROVE  handed(l, n, limited) = IF good(l[n]) # <<>> THEN textsOf(l[n])
                                     ELSE carried(l, n - 1, limited)
  <2>1. /\ n \in Nat \ {0} /\ n - 1 \in Nat /\ n - 1 \in 0 .. Len(l)
        /\ n \in 1 .. n /\ 1 .. n = (1 .. n - 1) \cup {n}
    OBVIOUS
  <2>2. repeated(Prompt, 0) = <<>>
    BY Repeated
  <2>3. CASE good(l[n]) # <<>>
    <3>1. n \in answered(l, n) /\ answered(l, n) \subseteq 1 .. n
      BY <2>1, <2>3 DEF answered
    <3>2. newest(l, n) = n /\ answered(l, n) # {}
      BY <2>1, <3>1, OneMore DEF newest
    <3>3. (IF limited THEN n - newest(l, n) ELSE 0) = 0
      BY <2>1, <3>2
    <3>4. handed(l, n, limited) = <<>> \o textsOf(l[n])
      BY <2>2, <3>2, <3>3 DEF handed
    <3>5. l[n] \in Seq(Said)
      OBVIOUS
    <3>6. textsOf(l[n]) \in Seq(Texts)
      BY <3>5, TextsTyped
    <3> DEFINE s == textsOf(l[n])
    <3> HIDE DEF s
    <3>7. s \in Seq(Texts) /\ handed(l, n, limited) = <<>> \o s
      BY <3>4, <3>6 DEF s
    <3>8. <<>> \o s = s
      BY <3>7
    <3>9. QED BY <2>3, <3>7, <3>8 DEF s
  <2>4. CASE good(l[n]) = <<>>
    <3>1. answered(l, n) = answered(l, n - 1) /\ newest(l, n) = newest(l, n - 1)
      BY <2>1, <2>4 DEF answered, newest
    <3> DEFINE rest == IF answered(l, n) = {} THEN <<Prompt>> ELSE textsOf(l[newest(l, n)])
               m == n - 1 - newest(l, n)
    <3>2. n - 1 # 0 => newest(l, n) \in 1 .. n - 1
      <4>1. answered(l, n - 1) # {} => lastIn(answered(l, n - 1)) \in 1 .. n - 1
        BY <2>1, Newest
      <4>2. n - 1 # 0 => 1 \in 1 .. n - 1
        BY <2>1
      <4>3. newest(l, n) = IF answered(l, n - 1) = {} THEN 1 ELSE lastIn(answered(l, n - 1))
        BY <3>1 DEF newest
      <4>4. QED BY <4>1, <4>2, <4>3
    <3>3. rest \in Seq(Texts)
      <4>1. CASE answered(l, n) = {}
        <5>1. Prompt \in Texts
          BY DEF Texts
        <5>2. QED BY <4>1, <5>1
      <4>2. CASE answered(l, n) # {}
        <5>1. newest(l, n) \in 1 .. n
          BY <4>2, <2>1, Newest DEF newest
        <5>2. l[newest(l, n)] \in Seq(Said)
          BY <5>1
        <5>3. QED BY <4>2, <5>2, TextsTyped
      <4>3. QED BY <4>1, <4>2
    <3>4. /\ handed(l, n, limited) = repeated(Prompt, IF limited THEN n - newest(l, n) ELSE 0) \o rest
          /\ handed(l, n - 1, limited) = repeated(Prompt, IF limited THEN m ELSE 0) \o rest
      BY <3>1 DEF handed
    <3>5. CASE n - 1 = 0
      <4>1. answered(l, n) = {}
        BY <3>1, <3>5 DEF answered
      <4>2. rest = <<Prompt>> /\ newest(l, n) = 1 /\ n = 1
        BY <2>1, <3>5, <4>1 DEF newest
      <4>3. (IF limited THEN n - newest(l, n) ELSE 0) = 0
        BY <4>2
      <4>4. handed(l, n, limited) = <<>> \o <<Prompt>>
        BY <2>2, <3>4, <4>2, <4>3
      <4>5. QED BY <2>4, <3>5, <4>4 DEF carried
    <3>6. CASE n - 1 # 0 /\ ~limited
      BY <2>4, <3>4, <3>6 DEF carried
    <3>7. CASE n - 1 # 0 /\ limited
      <4>1. m \in Nat /\ n - newest(l, n) = m + 1
        <5>1. newest(l, n) \in 1 .. n - 1 /\ n \in Nat
          BY <2>1, <3>2, <3>7
        <5>2. \A i \in 1 .. n - 1 : n - 1 - i \in Nat /\ n - i = (n - 1 - i) + 1
          BY <2>1
        <5>3. QED BY <5>1, <5>2
      <4> HIDE DEF m
      <4> DEFINE a == repeated(Prompt, m)
                 b == repeated(Prompt, m + 1)
      <4>2. a \in Seq({Prompt}) /\ b = <<Prompt>> \o a
        BY <4>1, Repeated
      <4>3. handed(l, n, limited) = b \o rest /\ handed(l, n - 1, limited) = a \o rest
        BY <3>4, <3>7, <4>1
      <4> HIDE DEF a, b, rest
      <4>4. a \in Seq(Texts \cup {Prompt}) /\ rest \in Seq(Texts \cup {Prompt})
        BY <3>3, <4>2, SeqMonotonic
      <4>5. (<<Prompt>> \o a) \o rest = <<Prompt>> \o (a \o rest)
        <5>1. <<Prompt>> \in Seq(Texts \cup {Prompt})
          OBVIOUS
        <5>2. QED BY <4>4, <5>1, ConcatAssociative
      <4>6. carried(l, n - 1, limited) = <<Prompt>> \o handed(l, n - 1, limited)
        BY <3>7, Zenon DEF carried
      <4>7. QED BY <2>4, <4>2, <4>3, <4>5, <4>6
    <3>8. QED BY <3>5, <3>6, <3>7
  <2>5. QED BY <2>3, <2>4
<1>3. ASSUME NEW n \in 1 .. Len(l)
      PROVE  carried(l, n, limited) = IF limited THEN <<Prompt>> \o handed(l, n, limited)
                                      ELSE handed(l, n, limited)
  <2>1. n # 0
    OBVIOUS
  <2>2. QED BY <2>1, Zenon DEF carried
<1>4. QED BY <1>1, <1>2, <1>3

LEMMA Drafted ==
    ASSUME NEW l \in Seq(Seq(Said))
    PROVE  /\ draft(l, 0) = Prompt
           /\ \A n \in 1 .. Len(l) :
                 draft(l, n) = IF l[n][1][2] # Error THEN l[n][1][2] ELSE draft(l, n - 1)
<1>1. drafted(l, 0) = {}
  BY DEF drafted
<1>2. draft(l, 0) = Prompt
  BY <1>1 DEF draft
<1>3. ASSUME NEW n \in 1 .. Len(l)
      PROVE  draft(l, n) = IF l[n][1][2] # Error THEN l[n][1][2] ELSE draft(l, n - 1)
  <2>1. n \in Nat \ {0} /\ n \in 1 .. n /\ 1 .. n = (1 .. n - 1) \cup {n}
    OBVIOUS
  <2>2. CASE l[n][1][2] # Error
    <3>1. n \in drafted(l, n) /\ drafted(l, n) \subseteq 1 .. n
      BY <2>1, <2>2 DEF drafted
    <3>2. lastIn(drafted(l, n)) = n
      BY <2>1, <3>1, OneMore
    <3>3. QED BY <2>2, <3>1, <3>2 DEF draft
  <2>3. CASE l[n][1][2] = Error
    <3>1. drafted(l, n) = drafted(l, n - 1)
      BY <2>1, <2>3 DEF drafted
    <3>2. QED BY <2>3, <3>1 DEF draft
  <2>4. QED BY <2>2, <2>3
<1>4. QED BY <1>2, <1>3

(* One more answer leaves what came before as it was.                       *)
LEMMA AppendKeeps ==
    ASSUME NEW l \in Seq(Seq(Said)), NEW e \in Seq(Said), NEW n \in 0 .. Len(l),
           NEW limited \in BOOLEAN
    PROVE  /\ carried(Append(l, e), n, limited) = carried(l, n, limited)
           /\ draft(Append(l, e), n) = draft(l, n)
<1> DEFINE t == Append(l, e)
           T == {k \in 0 .. n : /\ carried(t, k, limited) = carried(l, k, limited)
                               /\ draft(t, k) = draft(l, k)}
<1>1. /\ t \in Seq(Seq(Said)) /\ Len(t) = Len(l) + 1 /\ Len(l) \in Nat /\ n \in Nat /\ n <= Len(l)
      /\ \A k \in 1 .. Len(l) : t[k] = l[k]
  OBVIOUS
<1> HIDE DEF t
<1>2. 0 \in T
  <2>1. carried(t, 0, limited) = carried(l, 0, limited) /\ draft(t, 0) = draft(l, 0)
    BY <1>1, Carried, Drafted
  <2>2. 0 \in 0 .. n
    BY <1>1
  <2>3. QED BY <2>1, <2>2
<1>3. ASSUME NEW k \in 1 .. n, k - 1 \in T PROVE k \in T
  <2>1. k \in 0 .. n /\ k \in 1 .. Len(l) /\ k \in 1 .. Len(t) /\ t[k] = l[k]
    <3>1. Len(t) = Len(l) + 1 /\ Len(l) \in Nat /\ n \in Nat /\ n <= Len(l)
      BY <1>1
    <3>2. k \in 0 .. n /\ k \in 1 .. Len(l) /\ k \in 1 .. Len(t)
      BY <3>1
    <3>3. QED BY <1>1, <3>2
  <2>2. carried(t, k - 1, limited) = carried(l, k - 1, limited) /\ draft(t, k - 1) = draft(l, k - 1)
    BY <1>3
  <2>3. /\ handed(t, k, limited) = IF good(t[k]) # <<>> THEN textsOf(t[k])
                                     ELSE carried(t, k - 1, limited)
        /\ carried(t, k, limited) = IF limited THEN <<Prompt>> \o handed(t, k, limited)
                                      ELSE handed(t, k, limited)
        /\ draft(t, k) = IF t[k][1][2] # Error THEN t[k][1][2] ELSE draft(t, k - 1)
    BY <1>1, <2>1, Carried, Drafted
  <2>4. /\ handed(l, k, limited) = IF good(l[k]) # <<>> THEN textsOf(l[k])
                                     ELSE carried(l, k - 1, limited)
        /\ carried(l, k, limited) = IF limited THEN <<Prompt>> \o handed(l, k, limited)
                                      ELSE handed(l, k, limited)
        /\ draft(l, k) = IF l[k][1][2] # Error THEN l[k][1][2] ELSE draft(l, k - 1)
    BY <2>1, Carried, Drafted
  <2>5. handed(t, k, limited) = handed(l, k, limited) /\ draft(t, k) = draft(l, k)
    BY <2>1, <2>2, <2>3, <2>4
  <2>6. carried(t, k, limited) = carried(l, k, limited)
    BY <2>3, <2>4, <2>5
  <2>7. QED BY <2>1, <2>5, <2>6
<1> HIDE DEF T
<1>4. 0 .. n \subseteq T
  BY <1>1, <1>2, <1>3, UpTo
<1>5. n \in 0 .. n
  BY <1>1
<1>6. QED BY <1>4, <1>5 DEF T, t

(* r rounds of L turns are a round more than r - 1.                         *)
LEMMA RoundMore ==
    ASSUME NEW r \in Nat \ {0}, NEW L \in Nat \ {0}
    PROVE  /\ (r - 1) * L \in Nat /\ r * L \in Nat /\ r * L = (r - 1) * L + L
           /\ (1 - 1) * L = 0 /\ (r + 1 - 1) * L = r * L
<1>1. \A a \in Nat : \A b \in Nat : a * b \in Nat
  OBVIOUS
<1>2. \A a \in Nat : \A b \in Nat : (a + 1) * b = a * b + b
  OBVIOUS
<1>3. r - 1 \in Nat /\ r = (r - 1) + 1 /\ r + 1 - 1 = r
  OBVIOUS
<1>4. (r - 1) * L \in Nat /\ r * L \in Nat
  BY <1>1, <1>3
<1>5. r * L = (r - 1) * L + L
  <2> DEFINE a == r - 1
  <2>1. a \in Nat /\ r = a + 1
    BY <1>3
  <2> HIDE DEF a
  <2>2. (a + 1) * L = a * L + L
    BY <1>2, <2>1
  <2>3. QED BY <2>1, <2>2 DEF a
<1>6. QED BY <1>3, <1>4, <1>5

LEMMA TextsEmpty ==
    ASSUME NEW e \in Seq(Said)
    PROVE  textsOf(e) = <<>> <=> good(e) = <<>>
<1>1. textsOf(e) \in Seq(Texts) /\ Len(textsOf(e)) = Len(good(e)) /\ good(e) \in Seq(Said)
  BY TextsTyped, GoodTyped
<1>2. ASSUME NEW X, NEW s \in Seq(X) PROVE s = <<>> <=> Len(s) = 0
  OBVIOUS
<1>3. QED BY <1>1, <1>2

-----------------------------------------------------------------------------
(* A clear vote is for the candidate it was meant for, and the votes for a  *)
(* candidate decide who leads.                                              *)

LEMMA ClearVote ==
    ASSUME NEW v \in Votes, clearVote(v), NEW c \in ToSet(Names)
    PROVE  parsedVote(v) = c <=> meant(v) = c
<1> DEFINE found(d) == \E m \in v.named : m = d \/ (~v.exact /\ <<d, m>> \in StartOf)
           places == {i \in DOMAIN Names : found(Names[i])}
<1>1. /\ NoName \notin ToSet(Names) /\ IsFiniteSet(v.named)
      /\ \A i, j \in DOMAIN Names : Names[i] = Names[j] => i = j
      /\ DOMAIN Names = 1 .. Len(Names)
  <2>1. Names \in Seq(ToSet(Names))
    BY StrategiesAssumption DEF StrategiesAssumption, isSeq
  <2>2. DOMAIN Names = 1 .. Len(Names)
    BY <2>1
  <2>3. QED BY <2>2, StrategiesAssumption, AnswersAssumption DEF StrategiesAssumption, AnswersAssumption
<1>2. \A d \in ToSet(Names) : found(d) <=> d \in v.named
  BY DEF clearVote
<1>3. \A i \in DOMAIN Names : Names[i] \in ToSet(Names)
  BY DEF ToSet
<1>4. parsedVote(v) = IF places = {} THEN NoName
                      ELSE Names[CHOOSE i \in places : \A j \in places : i <= j]
  BY DEF parsedVote
<1>5. v.named = {} \/ \E m : v.named = {m}
  <2> DEFINE S == v.named
  <2>1. IsFiniteSet(S) /\ Cardinality(S) <= 1
    BY <1>1 DEF clearVote
  <2> HIDE DEF S
  <2>2. Cardinality(S) \in Nat /\ (Cardinality(S) = 0 => S = {})
    BY <2>1, FS_CardinalityType, FS_EmptySet
  <2>3. Cardinality(S) = 1 => \E m : S = {m}
    BY <2>1, FS_Singleton
  <2>4. S = {} \/ \E m : S = {m}
    BY <2>1, <2>2, <2>3
  <2>5. QED BY <2>4 DEF S
<1>6. CASE v.named = {}
  <2>1. places = {}
    BY <1>2, <1>3, <1>6
  <2>2. Cardinality({}) = 0
    BY FS_EmptySet
  <2>3. meant(v) = NoName
    BY <1>6, <2>2 DEF meant
  <2> HIDE DEF places
  <2>4. parsedVote(v) = NoName
    BY <1>4, <2>1
  <2>5. QED BY <2>3, <2>4
<1>7. ASSUME NEW m, v.named = {m} PROVE parsedVote(v) = c <=> meant(v) = c
  <2>1. meant(v) = m
    <3>1. Cardinality({m}) = 1
      BY FS_Singleton
    <3>2. (CHOOSE n \in v.named : TRUE) = m
      BY <1>7
    <3>3. QED BY <1>7, <3>1, <3>2 DEF meant
  <2>2. \A i \in DOMAIN Names : i \in places <=> Names[i] = m
    BY <1>2, <1>3, <1>7
  <2>3. places \subseteq DOMAIN Names
    OBVIOUS
  <2> HIDE DEF places, found
  <2>4. CASE m \in ToSet(Names)
    <3>1. PICK k \in DOMAIN Names : Names[k] = m
      BY <2>4 DEF ToSet
    <3>2. places = {k}
      BY <1>1, <2>2, <2>3, <3>1
    <3> DEFINE First(i) == i \in places /\ \A j \in places : i <= j
    <3>3. First(k)
      BY <1>1, <3>1, <3>2
    <3>4. (CHOOSE i \in places : \A j \in places : i <= j) = CHOOSE i : First(i)
      OBVIOUS
    <3>5. \A i : First(i) => i = k
      BY <3>2
    <3> HIDE DEF First
    <3>6. First(CHOOSE i : First(i))
      BY <3>3, Zenon
    <3>7. (CHOOSE i \in places : \A j \in places : i <= j) = k
      BY <3>4, <3>5, <3>6
    <3>8. parsedVote(v) = m
      BY <1>4, <3>1, <3>2, <3>7
    <3>9. QED BY <2>1, <3>8
  <2>5. CASE m \notin ToSet(Names)
    <3>1. places = {}
      BY <1>3, <2>2, <2>3, <2>5
    <3>2. parsedVote(v) = NoName
      BY <1>4, <3>1
    <3>3. QED BY <1>1, <2>1, <2>5, <3>2
  <2>6. QED BY <2>4, <2>5
<1>8. QED BY <1>5, <1>6, <1>7

LEMMA SameLeader ==
    ASSUME NEW a, NEW b, DOMAIN a = DOMAIN b,
           \A n \in DOMAIN a : \A c \in ToSet(Names) : a[n] = c <=> b[n] = c
    PROVE  leader(a) = leader(b)
<1> DEFINE count(f, c) == Cardinality({n \in DOMAIN f : f[n] = c})
           ahead(f) == {c \in ToSet(Names) : count(f, c) > 0 /\
                           \A d \in ToSet(Names) \ {c} : count(f, c) > count(f, d)}
<1>1. \A c \in ToSet(Names) : count(a, c) = count(b, c)
  <2>1. TAKE c \in ToSet(Names)
  <2>2. {n \in DOMAIN a : a[n] = c} = {n \in DOMAIN b : b[n] = c}
    OBVIOUS
  <2>3. QED BY <2>2
<1>2. leader(a) = IF ahead(a) = {} THEN NoName ELSE CHOOSE c \in ahead(a) : TRUE
  BY DEF leader
<1>3. leader(b) = IF ahead(b) = {} THEN NoName ELSE CHOOSE c \in ahead(b) : TRUE
  BY DEF leader
<1>4. ahead(a) = ahead(b)
  <2> HIDE DEF count
  <2>1. QED BY <1>1
<1> HIDE DEF ahead
<1>5. QED BY <1>2, <1>3, <1>4

LEMMA VoteClear ==
    ASSUME NEW f \in [ToSet(Names) -> Votes], \A n \in DOMAIN f : clearVote(f[n])
    PROVE  counted([n \in DOMAIN f |-> parsedVote(f[n])]) = leader([n \in DOMAIN f |-> meant(f[n])])
<1> DEFINE a == [n \in DOMAIN f |-> parsedVote(f[n])]
           b == [n \in DOMAIN f |-> meant(f[n])]
<1>1. \A n \in DOMAIN f : f[n] \in Votes
  OBVIOUS
<1>2. ASSUME NEW n \in DOMAIN f, NEW c \in ToSet(Names) PROVE a[n] = c <=> b[n] = c
  <2>1. a[n] = parsedVote(f[n]) /\ b[n] = meant(f[n])
    OBVIOUS
  <2>2. parsedVote(f[n]) = c <=> meant(f[n]) = c
    BY <1>1, ClearVote
  <2>3. QED BY <2>1, <2>2
<1>3. DOMAIN a = DOMAIN f /\ DOMAIN b = DOMAIN f
  OBVIOUS
<1> HIDE DEF a, b
<1>4. leader(a) = leader(b)
  BY <1>2, <1>3, SameLeader
<1>5. QED BY <1>4 DEF counted, a, b

-----------------------------------------------------------------------------
(* The result, action by action.                                            *)

LEMMA ResultSame ==
    ASSUME job' = job, NEW p \in Runs, runRight(p),
           stage'[p] = stage[p], round'[p] = round[p], turn'[p] = turn[p],
           waiting'[p] = waiting[p], log'[p] = log[p], text'[p] = text[p],
           ballot'[p] = ballot[p], final'[p] = final[p]
    PROVE  runRight(p)'
<1>1. rounds(p)' = rounds(p) /\ order(p)' = order(p)
  BY SameJob
<1>2. QED BY <1>1 DEF runRight

(* Without a result there is nothing to show of it.                         *)
LEMMA RaisedRight ==
    ASSUME TypeInv, NEW p \in Runs, runRight(p), job' = job, NEW e \in Raised \ {NoError},
           raise(p, e), ballot'[p] = ballot[p]
    PROVE  runRight(p)'
<1>1. stage'[p] = "done" /\ final'[p].raised # NoError
  <2>1. Ends(p, e, final[p].text)
    BY Moves
  <2>2. QED BY <2>1 DEF Ends
<1>2. QED BY <1>1 DEF runRight, consensusOn

LEMMA Returned ==
    ASSUME TypeInv, PlanInv, NEW p \in Runs, runRight(p), job' = job, stage[p] # "done", NEW t,
           return(p, t), ballot'[p].clear => ballot'[p].winner = ballot'[p].meant,
           rightResult(job[p].kind, log'[p], Len(order(p)), rounds(p), job[p].limited, round'[p],
                       ballot'[p].winner, t)
    PROVE  runRight(p)'
<1>1. stage'[p] = "done" /\ final'[p].text = t
  <2>1. Ends(p, final[p].raised, t)
    BY Moves
  <2>2. QED BY <2>1 DEF Ends
<1>2. rounds(p)' = rounds(p) /\ order(p)' = order(p)
  BY SameJob
<1>3. QED BY <1>1, <1>2 DEF runRight, consensusOn

(* A run of another kind than these has only its ballot to show.            *)
LEMMA GoesOn ==
    ASSUME NEW p \in Runs, runRight(p), job' = job, ballot'[p] = ballot[p],
           stage'[p] \notin {"new", "done"},
           job[p].kind \notin {"broadcast", "relay", "consensus"}
    PROVE  runRight(p)'
  BY DEF runRight

LEMMA FinalStart ==
    ASSUME TypeInv, CallInv, NEW p \in Runs, runRight(p), job' = job, Start(p)
    PROVE  runRight(p)'
<1>1. /\ stage[p] = "new" /\ log'[p] = <<>> /\ waiting'[p] = TRUE /\ round'[p] = 1 /\ turn'[p] = 1
      /\ text'[p] = whole(<<Prompt>>) /\ ballot'[p] = ballot[p]
  <2>1. stage[p] = "new" /\ UNCHANGED <<log, waiting, round, turn, text, ballot>>
    BY DEF Start
  <2>2. log[p] = <<>> /\ waiting[p] = TRUE
    BY <2>1 DEF CallInv, TypeInv
  <2>3. QED BY <2>1, <2>2 DEF runRight
<1>2. CASE refusal(p) # NoError
  <2>1. raise(p, refusal(p)) /\ refusal(p) \in Raised \ {NoError}
    BY <1>2, RefusalTyped DEF Start, Raised
  <2>2. QED BY <1>1, <2>1, RaisedRight
<1>3. CASE refusal(p) = NoError
  <2>1. stage'[p] = firstStage[job[p].kind] /\ job[p].kind \in DOMAIN firstStage
    BY <1>3, Moves, JobFacts DEF Start, TypeInv
  <2>2. rounds(p) \in Nat \ {0} /\ Len(order(p)) \in Nat \ {0}
    BY JobFacts DEF TypeInv
  <2>3. rounds(p)' = rounds(p) /\ order(p)' = order(p)
    BY SameJob
  <2> DEFINE l == log'[p]
             L == Len(order(p))
             R == rounds(p)
             limited == job[p].limited
             t == text'[p]
  <2>4. l \in Seq(Seq(Said)) /\ Len(l) = 0
    BY <1>1
  <2>5. limited \in BOOLEAN
    BY JobsAssumption DEF TypeInv, JobsAssumption
  <2> HIDE DEF limited
  <2>6. carried(l, 0, limited) = <<Prompt>> /\ t = whole(<<Prompt>>) /\ t = whole(<<draft(l, 0)>>)
    BY <1>1, <2>4, <2>5, Carried, Drafted
  <2>16. t.of = <<Prompt>> /\ t.cut = FALSE
    BY <2>6 DEF whole
  <2> HIDE DEF l, L, R, t
  <2>7. R \in Nat \ {0} /\ L \in Nat \ {0}
    BY <2>2 DEF L, R
  <2>8. broadcastOn(l, R, limited, 1, TRUE, t)
    <3>1. 1 \in 1 .. R /\ Len(l) = 1 - 1 /\ 1 - 1 = 0
      BY <2>4, <2>7
    <3>2. QED BY <2>6, <2>16, <3>1 DEF broadcastOn
  <2>9. relayOn(l, L, R, 1, 1, TRUE, t)
    <3>1. 1 \in 1 .. R /\ (1 - 1) * L = 0
      BY <2>7, RoundMore
    <3>2. Len(l) = (1 - 1) * L + (1 - 1) /\ (1 - 1) * L + 1 - 1 = 0
      BY <2>4, <3>1
    <3>3. \A k \in 1 .. 1 - 1 : FALSE
      OBVIOUS
    <3>4. QED BY <2>6, <3>1, <3>2, <3>3 DEF relayOn
  <2>10. consensusOn(l, "propose", TRUE)
    BY <2>4 DEF consensusOn
  <2>11. /\ stage'[p] \notin {"new", "done"}
         /\ job[p].kind = "consensus" => stage'[p] = "propose"
    BY <2>1 DEF firstStage
  <2>12. /\ broadcastOn(log'[p], rounds(p)', job'[p].limited, round'[p], waiting'[p], text'[p])
         /\ relayOn(log'[p], Len(order(p)'), rounds(p)', round'[p], turn'[p], waiting'[p], text'[p])
    BY <1>1, <2>3, <2>8, <2>9 DEF l, L, R, limited, t
  <2>13. job[p].kind = "consensus" => consensusOn(log'[p], stage'[p], waiting'[p])
    BY <1>1, <2>10, <2>11 DEF l
  <2>14. ballot'[p].clear => ballot'[p].winner = ballot'[p].meant
    BY <1>1 DEF runRight
  <2>15. QED BY <2>11, <2>12, <2>13, <2>14 DEF runRight
<1>4. QED BY <1>2, <1>3

(* An answer is taken down.                                                 *)
LEMMA FinalAnswer ==
    ASSUME TypeInv, StageInv, CallInv, NEW p \in Runs, runRight(p), job' = job,
           stage'[p] = stage[p], round'[p] = round[p], turn'[p] = turn[p],
           stage[p] \notin {"new", "done", "vote"}, waiting[p], waiting'[p] = FALSE,
           NEW e \in Seq(Said), log'[p] = Append(log[p], e), text'[p] = text[p],
           ballot'[p] = ballot[p]
    PROVE  runRight(p)'
<1> DEFINE l == log[p]
           n == Append(l, e)
           L == Len(order(p))
           R == rounds(p)
           r == round[p]
           u == turn[p]
           t == text[p]
           limited == job[p].limited
<1>1. /\ l \in Seq(Seq(Said)) /\ r \in Nat \ {0} /\ u \in Nat \ {0}
      /\ L \in Nat \ {0} /\ R \in Nat \ {0} /\ u \in 1 .. L
  BY JobFacts DEF TypeInv, StageInv
<1>2. rounds(p)' = rounds(p) /\ order(p)' = order(p)
  BY SameJob
<1>11. limited \in BOOLEAN
  BY JobsAssumption DEF TypeInv, JobsAssumption
<1> HIDE DEF l, L, R, r, u, t, limited
<1>3. n \in Seq(Seq(Said)) /\ Len(n) = Len(l) + 1 /\ Len(l) \in Nat
  BY <1>1
<1> HIDE DEF n
<1>4. ASSUME broadcastOn(l, R, limited, r, TRUE, t) PROVE broadcastOn(n, R, limited, r, FALSE, t)
  <2>1. /\ r \in 1 .. R /\ Len(l) = r - 1
        /\ t.of = carried(l, r - 1, limited) /\ (t.cut => limited /\ r > 1)
    BY <1>4 DEF broadcastOn
  <2>2. r - 1 \in 0 .. Len(l) /\ Len(n) = r
    BY <1>1, <1>3, <2>1
  <2>3. carried(n, r - 1, limited) = carried(l, r - 1, limited)
    BY <1>1, <1>11, <2>2, AppendKeeps DEF n
  <2>4. QED BY <2>1, <2>2, <2>3 DEF broadcastOn
<1>5. ASSUME relayOn(l, L, R, r, u, TRUE, t) PROVE relayOn(n, L, R, r, u, FALSE, t)
  <2> DEFINE b == (r - 1) * L
  <2>1. /\ r \in 1 .. R /\ Len(l) = b + (u - 1) /\ t = whole(<<draft(l, b + u - 1)>>)
        /\ \A k \in 1 .. r - 1 : draft(l, k * L) # draft(l, (k - 1) * L)
    BY <1>5 DEF relayOn
  <2>2. b \in Nat
    BY <1>1, RoundMore
  <2>3. ASSUME NEW k \in 1 .. r - 1
        PROVE  k * L \in 0 .. Len(l) /\ (k - 1) * L \in 0 .. Len(l)
    <3>1. k \in Nat \ {0} /\ r - 1 \in Nat /\ k <= r - 1
      BY <1>1
    <3>2. k * L \in Nat /\ (k - 1) * L \in Nat /\ k * L = (k - 1) * L + L
      BY <1>1, <3>1, RoundMore
    <3>3. k * L <= b
      <4> DEFINE a == r - 1
      <4>1. a \in Nat /\ k \in Nat /\ L \in Nat /\ k <= a
        BY <1>1, <3>1
      <4> HIDE DEF a
      <4>2. k * L <= a * L
        BY <4>1
      <4>3. QED BY <4>2 DEF a
    <3> HIDE DEF b
    <3>4. QED BY <1>1, <2>1, <2>2, <3>2, <3>3
  <2> HIDE DEF b
  <2>4. b + u - 1 \in 0 .. Len(l) /\ Len(n) = b + u
    BY <1>1, <1>3, <2>1, <2>2
  <2>5. \A k \in 0 .. Len(l) : draft(n, k) = draft(l, k)
    BY <1>1, <1>11, AppendKeeps DEF n
  <2>6. \A k \in 1 .. r - 1 : draft(n, k * L) # draft(n, (k - 1) * L)
    BY <2>1, <2>3, <2>5
  <2>7. draft(n, b + u - 1) = draft(l, b + u - 1)
    BY <2>4, <2>5
  <2>8. QED BY <2>1, <2>4, <2>6, <2>7 DEF relayOn, b
<1>6. ASSUME NEW s, s # "vote", consensusOn(l, s, TRUE) PROVE consensusOn(n, s, FALSE)
  <2>1. (s = "propose" => Len(l) = 0) /\ (s = "judge" => Len(l) = 1)
    BY <1>6 DEF consensusOn
  <2>2. Len(n) = Len(l) + 1 /\ 0 + 1 = 1 /\ 1 + 1 = 2
    BY <1>3
  <2> DEFINE i == Len(l)
             j == Len(n)
  <2> HIDE DEF i, j
  <2>3. (s = "propose" => j = 1) /\ (s = "judge" => j = 2)
    BY <2>1, <2>2 DEF i, j
  <2>4. QED BY <1>6, <2>3 DEF consensusOn, j
<1>7. waiting[p] = TRUE
  BY DEF TypeInv
<1>8. /\ (job[p].kind = "broadcast" /\ stage'[p] = "round") =>
            broadcastOn(log'[p], rounds(p)', job'[p].limited, round'[p], waiting'[p], text'[p])
      /\ (job[p].kind = "relay" /\ stage'[p] = "turn") =>
            relayOn(log'[p], Len(order(p)'), rounds(p)', round'[p], turn'[p], waiting'[p], text'[p])
      /\ job[p].kind = "consensus" => consensusOn(log'[p], stage'[p], waiting'[p])
  <2>1. ASSUME job[p].kind = "broadcast", stage[p] = "round"
        PROVE  broadcastOn(n, R, limited, r, FALSE, t)
    BY <1>4, <1>7, <2>1 DEF runRight, l, L, R, r, t, limited
  <2>2. ASSUME job[p].kind = "relay", stage[p] = "turn"
        PROVE  relayOn(n, L, R, r, u, FALSE, t)
    BY <1>5, <1>7, <2>2 DEF runRight, l, L, R, r, u, t
  <2>3. ASSUME job[p].kind = "consensus" PROVE consensusOn(n, stage[p], FALSE)
    BY <1>6, <1>7, <2>3 DEF runRight, l
  <2>4. QED BY <1>2, <2>1, <2>2, <2>3 DEF l, n, L, R, r, u, t, limited
<1>9. ballot'[p].clear => ballot'[p].winner = ballot'[p].meant
  BY DEF runRight
<1>10. QED BY <1>8, <1>9 DEF runRight

LEMMA LastOne ==
    ASSUME TypeInv, CallInv, NEW p \in Runs, ~waiting[p]
    PROVE  /\ log[p] \in Seq(Seq(Said)) /\ Len(log[p]) \in Nat \ {0}
           /\ lastOf(p) = log[p][Len(log[p])]
<1>1. log[p] \in Seq(Seq(Said)) /\ log[p] # <<>>
  BY DEF TypeInv, CallInv
<1>2. QED BY <1>1 DEF lastOf

LEMMA FinalBroadcast ==
    ASSUME TypeInv, StageInv, CallInv, PlanInv, NEW p \in Runs, runRight(p), job' = job,
           BroadcastRound(p)
    PROVE  runRight(p)'
<1> DEFINE l == log[p]
           R == rounds(p)
           r == round[p]
           t == text[p]
           limited == job[p].limited
           e == l[r]
           x == joined(p)
<1>1. /\ stage[p] = "round" /\ job[p].kind = "broadcast" /\ waiting[p] = FALSE
      /\ UNCHANGED <<turn, log, ballot>>
  BY DEF BroadcastRound, proceeds, TypeInv
<1>2. rounds(p)' = rounds(p) /\ order(p)' = order(p)
  BY SameJob
<1>3. l \in Seq(Seq(Said)) /\ R \in Nat \ {0} /\ r \in Nat \ {0} /\ lastOf(p) = l[Len(l)]
      /\ limited \in BOOLEAN
  BY <1>1, JobFacts, LastOne, JobsAssumption DEF TypeInv, JobsAssumption
<1>4. broadcastOn(l, R, limited, r, FALSE, t)
  BY <1>1 DEF runRight
<1>5. x = IF textsOf(lastOf(p)) = <<>> THEN t ELSE whole(textsOf(lastOf(p)))
  BY DEF joined
<1> HIDE DEF l, R, r, t, limited, x
<1>6. /\ r \in 1 .. R /\ Len(l) = r
      /\ t.of = carried(l, r - 1, limited) /\ (t.cut => limited /\ r > 1)
  BY <1>4 DEF broadcastOn
<1>7. r \in 1 .. Len(l) /\ e \in Seq(Said)
  BY <1>3, <1>6
<1>8. x = IF good(e) = <<>> THEN t ELSE whole(textsOf(e))
  BY <1>3, <1>5, <1>6, <1>7, TextsEmpty
<1>9. /\ handed(l, r, limited) = IF good(e) # <<>> THEN textsOf(e) ELSE carried(l, r - 1, limited)
      /\ carried(l, r, limited) = IF limited THEN <<Prompt>> \o handed(l, r, limited)
                                  ELSE handed(l, r, limited)
  BY <1>3, <1>7, Carried
<1> HIDE DEF e
<1>10. ballot'[p].clear => ballot'[p].winner = ballot'[p].meant
  BY <1>1 DEF runRight
<1>14. x.of = handed(l, r, limited) /\ (x.cut => limited /\ r > 1 /\ good(e) = <<>>)
  <2>1. CASE good(e) = <<>>
    BY <1>6, <1>8, <1>9, <2>1
  <2>2. CASE good(e) # <<>>
    <3>1. whole(textsOf(e)).of = textsOf(e) /\ whole(textsOf(e)).cut = FALSE
      BY DEF whole
    <3>2. QED BY <1>8, <1>9, <2>2, <3>1
  <2>3. QED BY <2>1, <2>2
<1>11. CASE round[p] < rounds(p)
  <2>1. /\ stage'[p] = "round" /\ round'[p] = r + 1 /\ waiting'[p] = TRUE
        /\ text'[p] \in fedBack(p)
    <3>1. /\ round' = [round EXCEPT ![p] = round[p] + 1] /\ askAgain(p) /\ stage' = stage
          /\ \E y \in fedBack(p) : text' = [text EXCEPT ![p] = y]
      BY <1>11 DEF BroadcastRound
    <3>2. waiting'[p] = TRUE
      BY <3>1, Moves
    <3>3. round \in [Runs -> Nat \ {0}] /\ text \in [Runs -> Text]
      BY DEF TypeInv
    <3>4. QED BY <1>1, <3>1, <3>2, <3>3 DEF r
  <2>2. fedBack(p) = IF limited
                     THEN {[of |-> <<Prompt>> \o x.of, cut |-> c] : c \in {x.cut, TRUE}}
                     ELSE {x}
    BY DEF fedBack, limited, x
  <2>3. text'[p].of = carried(l, r, limited) /\ (text'[p].cut => limited)
    <3>1. CASE limited
      <4>1. PICK c : text'[p] = [of |-> <<Prompt>> \o x.of, cut |-> c]
        BY <2>1, <2>2, <3>1
      <4>2. text'[p].of = <<Prompt>> \o x.of
        BY <4>1
      <4>3. QED BY <1>9, <1>14, <3>1, <4>2
    <3>2. CASE ~limited
      <4>1. text'[p] = x
        BY <2>1, <2>2, <3>2
      <4>2. QED BY <1>9, <1>14, <3>2, <4>1
    <3>3. QED BY <3>1, <3>2
  <2>4. broadcastOn(l, R, limited, r + 1, TRUE, text'[p])
    <3>1. r + 1 \in 1 .. R /\ Len(l) = r + 1 - 1 /\ r + 1 > 1 /\ r + 1 - 1 = r
      BY <1>3, <1>6, <1>11 DEF r, R
    <3>2. QED BY <2>3, <3>1 DEF broadcastOn
  <2>5. broadcastOn(log'[p], rounds(p)', job'[p].limited, round'[p], waiting'[p], text'[p])
    BY <1>1, <1>2, <2>1, <2>4 DEF l, R, limited
  <2>6. QED BY <1>1, <1>10, <2>1, <2>5 DEF runRight
<1>12. CASE ~(round[p] < rounds(p))
  <2>1. return(p, x) /\ round' = round
    BY <1>12 DEF BroadcastRound, x
  <2>2. r = R
    BY <1>3, <1>6, <1>12 DEF r, R
  <2>3. r \in answered(l, r) <=> good(e) # <<>>
    <3>1. r \in 1 .. r
      BY <1>3
    <3>2. QED BY <3>1 DEF answered, e
  <2>4. broadcastResult(l, R, limited, x)
    BY <1>6, <1>14, <2>2, <2>3, Zenon DEF broadcastResult
  <2>5. rightResult("broadcast", l, Len(order(p)), R, limited, r, ballot'[p].winner, x)
    BY <2>4 DEF rightResult
  <2>6. rightResult(job[p].kind, log'[p], Len(order(p)), rounds(p), job[p].limited, round'[p],
                    ballot'[p].winner, x)
    BY <1>1, <2>1, <2>5 DEF l, R, limited, r
  <2>7. QED BY <1>1, <1>10, <2>1, <2>6, Returned
<1>13. QED BY <1>11, <1>12

LEMMA FinalRelay ==
    ASSUME TypeInv, StageInv, CallInv, PlanInv, NEW p \in Runs, runRight(p), job' = job,
           RelayTurn(p)
    PROVE  runRight(p)'
<1> DEFINE l == log[p]
           L == Len(order(p))
           R == rounds(p)
           r == round[p]
           u == turn[p]
           t == text[p]
           b == (r - 1) * L
           n == b + u
           a == lastOf(p)[1][2]
           new == IF a = Error THEN t ELSE whole(<<a>>)
           begun == whole(<<latest(p, b)>>)
<1>1. /\ stage[p] = "turn" /\ job[p].kind = "relay" /\ waiting[p] = FALSE
      /\ UNCHANGED <<log, ballot>>
  BY DEF RelayTurn, proceeds, TypeInv
<1>2. rounds(p)' = rounds(p) /\ order(p)' = order(p)
  BY SameJob
<1>3. /\ l \in Seq(Seq(Said)) /\ R \in Nat \ {0} /\ r \in Nat \ {0} /\ u \in 1 .. L
      /\ L \in Nat \ {0} /\ lastOf(p) = l[Len(l)]
  BY <1>1, JobFacts, LastOne DEF TypeInv, StageInv
<1>4. relayOn(l, L, R, r, u, FALSE, t)
  BY <1>1 DEF runRight
<1>5. /\ text' = [text EXCEPT ![p] = new]
      /\ \/ /\ u < L /\ turn' = [turn EXCEPT ![p] = u + 1] /\ askAgain(p)
            /\ stage' = stage /\ round' = round
         \/ /\ ~(u < L) /\ r < R /\ new # begun
            /\ turn' = [turn EXCEPT ![p] = 1] /\ askAgain(p)
            /\ round' = [round EXCEPT ![p] = r + 1] /\ stage' = stage
         \/ ~(u < L) /\ ~(r < R /\ new # begun) /\ return(p, new) /\ round' = round
  BY DEF RelayTurn
<1>6. latest(p, b) = draft(l, b)
  BY Zenon DEF latest, draft, drafted, lastIn
<1>7. round \in [Runs -> Nat \ {0}] /\ turn \in [Runs -> Nat \ {0}] /\ text \in [Runs -> Text]
  BY DEF TypeInv
<1> HIDE DEF l, L, R, r, u, t, b, n, a, new, begun
<1>8. /\ r \in 1 .. R /\ Len(l) = n /\ t = whole(<<draft(l, n - 1)>>)
      /\ \A k \in 1 .. r - 1 : draft(l, k * L) # draft(l, (k - 1) * L)
  <2>1. b \in Nat
    BY <1>3, RoundMore DEF b
  <2>2. b + u - 1 = n - 1 /\ b + u = n
    BY <1>3, <2>1 DEF n
  <2>3. QED BY <1>4, <2>2 DEF relayOn, b
<1>9. /\ b \in Nat /\ r * L \in Nat /\ r * L = b + L /\ (1 - 1) * L = 0 /\ (r + 1 - 1) * L = r * L
  BY <1>3, RoundMore DEF b
<1>10. n \in Nat \ {0} /\ n \in 1 .. Len(l)
  BY <1>3, <1>8, <1>9 DEF n
<1>11. new = whole(<<draft(l, n)>>)
  <2>1. a = l[n][1][2]
    BY <1>3, <1>8 DEF a
  <2>2. draft(l, n) = IF l[n][1][2] # Error THEN l[n][1][2] ELSE draft(l, n - 1)
    BY <1>3, <1>10, Drafted
  <2>3. QED BY <1>8, <2>1, <2>2 DEF new
<1>12. ballot'[p].clear => ballot'[p].winner = ballot'[p].meant
  BY <1>1 DEF runRight
<1>13. text'[p] = new
  BY <1>5, <1>7
<1>14. ASSUME relayOn(l, L, R, round'[p], turn'[p], TRUE, new), askAgain(p), stage' = stage
       PROVE  runRight(p)'
  <2>1. waiting'[p] = TRUE
    BY <1>14, Moves
  <2>2. relayOn(log'[p], Len(order(p)'), rounds(p)', round'[p], turn'[p], waiting'[p], text'[p])
    BY <1>1, <1>2, <1>13, <1>14, <2>1 DEF l, L, R
  <2>3. QED BY <1>1, <1>12, <1>14, <2>2 DEF runRight
<1>15. CASE u < L /\ turn' = [turn EXCEPT ![p] = u + 1] /\ askAgain(p)
            /\ stage' = stage /\ round' = round
  <2>1. turn'[p] = u + 1 /\ round'[p] = r
    BY <1>7, <1>15 DEF r
  <2>2. Len(l) = (r - 1) * L + (u + 1 - 1) /\ (r - 1) * L + (u + 1) - 1 = n
    BY <1>3, <1>8, <1>9 DEF n, b
  <2>3. relayOn(l, L, R, r, u + 1, TRUE, new)
    BY <1>8, <1>11, <2>2 DEF relayOn
  <2>4. QED BY <1>14, <1>15, <2>1, <2>3
<1>16. CASE ~(u < L)
  <2>1. u = L /\ n = r * L
    BY <1>3, <1>9, <1>16 DEF n
  <2>2. new = begun <=> draft(l, r * L) = draft(l, (r - 1) * L)
    <3>1. ASSUME NEW x, NEW y PROVE whole(<<x>>) = whole(<<y>>) <=> x = y
      <4>1. whole(<<x>>).of = <<x>> /\ whole(<<y>>).of = <<y>>
        BY DEF whole
      <4>2. <<x>>[1] = x /\ <<y>>[1] = y
        OBVIOUS
      <4>3. QED BY <4>1, <4>2
    <3>2. QED BY <1>6, <1>11, <2>1, <3>1 DEF begun, b
  <2>3. CASE /\ r < R /\ new # begun
             /\ turn' = [turn EXCEPT ![p] = 1] /\ askAgain(p)
             /\ round' = [round EXCEPT ![p] = r + 1] /\ stage' = stage
    <3>1. turn'[p] = 1 /\ round'[p] = r + 1
      BY <1>7, <2>3
    <3>2. r + 1 \in 1 .. R /\ \A k \in 1 .. r : k = r \/ k \in 1 .. r - 1
      BY <1>3, <1>8, <2>3
    <3>3. Len(l) = r * L /\ r * L \in Nat
      BY <1>8, <1>9, <2>1
    <3>4. relayOn(l, L, R, r + 1, 1, TRUE, new)
      <4> DEFINE v == r + 1
                 w == 1
      <4>1. v \in 1 .. R /\ v - 1 = r /\ w - 1 = 0
        BY <1>3, <3>2
      <4>2. \A k \in 1 .. v - 1 : draft(l, k * L) # draft(l, (k - 1) * L)
        BY <1>8, <2>2, <2>3, <3>2, <4>1
      <4> HIDE DEF v, w
      <4> DEFINE m == (v - 1) * L
      <4>3. m = r * L
        BY <4>1
      <4> HIDE DEF m
      <4>4. Len(l) = m + (w - 1) /\ m + w - 1 = n
        BY <2>1, <3>3, <4>1, <4>3
      <4>5. relayOn(l, L, R, v, w, TRUE, new)
        BY <1>11, <4>1, <4>2, <4>4, Zenon DEF relayOn, m
      <4>6. QED BY <4>5 DEF v, w
    <3>5. QED BY <1>14, <2>3, <3>1, <3>4
  <2>4. CASE ~(r < R /\ new # begun) /\ return(p, new) /\ round' = round
    <3>1. relayResult(l, L, R, r, new)
      BY <1>8, <1>11, <2>1, <2>2, <2>4 DEF relayResult
    <3>2. rightResult("relay", l, L, R, job[p].limited, r, ballot'[p].winner, new)
      BY <3>1 DEF rightResult
    <3>3. rightResult(job[p].kind, log'[p], Len(order(p)), rounds(p), job[p].limited, round'[p],
                      ballot'[p].winner, new)
      BY <1>1, <2>4, <3>2 DEF l, L, R, r
    <3>4. QED BY <1>1, <1>12, <2>4, <3>3, Returned
  <2>5. QED BY <1>5, <1>16, <2>3, <2>4
<1>17. QED BY <1>5, <1>15, <1>16

(* The other actions that go on or hand out a result                        *)
LEMMA FinalLast ==
    ASSUME TypeInv, StageInv, CallInv, PlanInv, NEW p \in Runs, runRight(p), job' = job,
           LastWord(p) \/ SequentialTurn(p)
    PROVE  runRight(p)'
<1>1. /\ waiting[p] = FALSE /\ UNCHANGED <<log, ballot>> /\ stage[p] \in {"turn", "judge", "report"}
      /\ stage[p] = "turn" => job[p].kind = "sequential"
  BY DEF LastWord, SequentialTurn, proceeds, TypeInv
<1>2. ballot'[p].clear => ballot'[p].winner = ballot'[p].meant
  BY <1>1 DEF runRight
<1>3. /\ job[p].kind \in {"sequential", "debate", "consensus", "supervisor"}
      /\ job[p].kind = "consensus" => stage[p] = "judge"
  BY <1>1, KindOf
<1>4. CASE return(p, whole(<<lastOf(p)[1][2]>>))
  <2> DEFINE x == whole(<<lastOf(p)[1][2]>>)
             l == log[p]
  <2>1. lastOf(p) = l[Len(l)] /\ Len(l) \in Nat
    BY <1>1, LastOne
  <2>2. job[p].kind = "consensus" => Len(l) = 2
    BY <1>1, <1>3 DEF runRight, consensusOn
  <2>3. x = whole(<<l[Len(l)][1][2]>>)
    BY <2>1
  <2> HIDE DEF l, x
  <2>4. job[p].kind # "broadcast" /\ job[p].kind # "relay" /\ ~(job[p].kind = "consensus" /\ Len(l) = 1)
    BY <1>3, <2>2
  <2>5. rightResult(job[p].kind, l, Len(order(p)), rounds(p), job[p].limited, round'[p],
                    ballot'[p].winner, x)
    BY <2>3, <2>4, Zenon DEF rightResult
  <2>6. l = log'[p]
    BY <1>1 DEF l
  <2>7. QED BY <1>1, <1>2, <1>4, <2>5, <2>6, Returned DEF x
<1>5. CASE SequentialTurn(p) /\ stage' = stage
  <2>1. job[p].kind = "sequential" /\ stage[p] = "turn"
    BY <1>5 DEF SequentialTurn
  <2>2. QED BY <1>1, <1>5, <2>1, GoesOn
<1>6. QED BY <1>4, <1>5 DEF LastWord, SequentialTurn

LEMMA FinalVote ==
    ASSUME TypeInv, StageInv, CallInv, PlanInv, NEW p \in Runs, runRight(p), job' = job, Vote(p)
    PROVE  runRight(p)'
<1>1. /\ stage[p] = "vote" /\ waiting[p] = TRUE /\ job[p].kind = "consensus"
      /\ log' = log /\ waiting' = waiting /\ round' = round
  BY KindOf DEF Vote, TypeInv
<1> DEFINE l == log[p]
           proposal(w) == CHOOSE a \in ToSet(l[1]) \cup {<<NoName, Error>>} : a[1] = w
           won(f) == counted([n \in DOMAIN f |-> parsedVote(f[n])])
           cast(f) == [winner |-> won(f), meant |-> leader([n \in DOMAIN f |-> meant(f[n])]),
                       clear |-> \A n \in DOMAIN f : clearVote(f[n])]
<1>2. PICK f \in [ToSet(Names) -> Votes] :
         /\ ballot' = [ballot EXCEPT ![p] = cast(f)]
         /\ \/ proposal(won(f))[2] # Error /\ return(p, whole(<<proposal(won(f))[2]>>))
            \/ enter(p, "judge")
  BY DEF Vote
<1> DEFINE w == won(f)
           a == proposal(w)
<1>3. ballot'[p] = cast(f)
  BY <1>2 DEF TypeInv
<1>4. ballot'[p].clear => ballot'[p].winner = ballot'[p].meant
  <2>1. (\A n \in DOMAIN f : clearVote(f[n])) => won(f) = leader([n \in DOMAIN f |-> meant(f[n])])
    BY VoteClear
  <2>2. /\ ballot'[p].winner = won(f) /\ ballot'[p].meant = leader([n \in DOMAIN f |-> meant(f[n])])
        /\ ballot'[p].clear = \A n \in DOMAIN f : clearVote(f[n])
    <3> DEFINE A == won(f)
               B == leader([n \in DOMAIN f |-> meant(f[n])])
               C == \A n \in DOMAIN f : clearVote(f[n])
    <3>1. ballot'[p] = [winner |-> A, meant |-> B, clear |-> C]
      BY <1>3
    <3> HIDE DEF A, B, C
    <3>2. ballot'[p].winner = A /\ ballot'[p].meant = B /\ ballot'[p].clear = C
      BY <3>1
    <3>3. QED BY <3>2 DEF A, B, C
  <2>3. QED BY <2>1, <2>2, Zenon
<1>5. ballot'[p].winner = w
  BY <1>3
<1>6. w \in ToSet(Names) \cup {NoName} /\ NoName \notin ToSet(Names)
  BY LeaderTyped, JobFacts DEF counted, TypeInv
<1>7. /\ l \in Seq(Seq(Said)) /\ Len(l) = 1 /\ l # <<>> /\ listing(l[1])
      /\ l[1] \in Seq(Said)
  <2>1. l \in Seq(Seq(Said)) /\ Len(l) = 1
    BY <1>1 DEF TypeInv, runRight, consensusOn
  <2>2. l # <<>> /\ l[1] \in Seq(Said)
    <3> DEFINE X == Seq(Said)
    <3> HIDE DEF l, X
    <3>1. l \in Seq(X) /\ Len(l) = 1
      BY <2>1 DEF X
    <3>2. l # <<>> /\ l[1] \in X
      BY <3>1
    <3>3. QED BY <3>2 DEF X
  <2>3. listing(l[1])
    BY <1>1, <2>2 DEF CallInv
  <2>4. l[1] \in Seq(Said)
    BY <2>2
  <2>5. QED BY <2>1, <2>2, <2>3, <2>4
<1> HIDE DEF w
<1>8. CASE a[2] # Error /\ return(p, whole(<<a[2]>>))
  <2> DEFINE e == l[1]
             All == ToSet(e) \cup {<<NoName, Error>>}
             Fits(x) == x \in All /\ x[1] = w
  <2>1. DOMAIN e = DOMAIN Names /\ \A i \in DOMAIN Names : e[i][1] = Names[i]
    BY <1>7 DEF listing
  <2> HIDE DEF e
  <2>2. ToSet(e) = {e[i] : i \in DOMAIN Names}
    BY <2>1 DEF ToSet
  <2>3. \E x : Fits(x)
    <3>1. CASE w = NoName
      <4>1. Fits(<<NoName, Error>>)
        BY <3>1
      <4>2. QED BY <4>1
    <3>2. CASE w # NoName
      <4>1. PICK i \in DOMAIN Names : Names[i] = w
        BY <1>6, <3>2 DEF ToSet
      <4>2. Fits(e[i])
        BY <2>1, <2>2, <4>1
      <4>3. QED BY <4>2
    <3>3. QED BY <3>1, <3>2
  <2>4. a = CHOOSE x : Fits(x)
    BY DEF e
  <2> HIDE DEF Fits
  <2>5. Fits(a)
    BY <2>3, <2>4, Zenon
  <2> HIDE DEF a
  <2>6. a \in All /\ a[1] = w
    BY <2>5 DEF Fits
  <2>7. a \in ToSet(e)
    <3>1. <<NoName, Error>>[2] = Error
      OBVIOUS
    <3>2. a # <<NoName, Error>>
      BY <1>8, <3>1
    <3>3. QED BY <2>6, <3>2
  <2>8. PICK i \in DOMAIN Names : a = e[i]
    BY <2>2, <2>7
  <2>9. voteResult(l, w, whole(<<a[2]>>))
    <3>1. Names[i] = w /\ e[i][2] # Error /\ whole(<<a[2]>>) = whole(<<e[i][2]>>)
      BY <1>8, <2>1, <2>6, <2>8
    <3>2. QED BY <3>1 DEF voteResult, e
  <2> DEFINE x == whole(<<a[2]>>)
  <2> HIDE DEF l, x
  <2>10. rightResult("consensus", l, Len(order(p)), rounds(p), job[p].limited, round'[p], w, x)
    BY <1>7, <2>9, Zenon DEF rightResult, x
  <2>11. rightResult(job[p].kind, log'[p], Len(order(p)), rounds(p), job[p].limited, round'[p],
                    ballot'[p].winner, x)
    BY <1>1, <1>5, <2>10 DEF l
  <2>12. QED BY <1>1, <1>4, <1>8, <2>11, Returned DEF x
<1>9. CASE enter(p, "judge")
  <2>1. stage'[p] = "judge"
    BY <1>9, Moves
  <2>2. consensusOn(log'[p], stage'[p], waiting'[p])
    BY <1>1, <1>7, <2>1 DEF consensusOn
  <2>3. QED BY <1>1, <1>4, <2>1, <2>2 DEF runRight
<1>10. QED BY <1>2, <1>8, <1>9 DEF w

LEMMA FinalToVote ==
    ASSUME TypeInv, StageInv, NEW p \in Runs, runRight(p), job' = job, ToVote(p)
    PROVE  runRight(p)'
<1>1. /\ stage[p] = "propose" /\ waiting[p] = FALSE /\ job[p].kind = "consensus"
      /\ log' = log /\ ballot' = ballot /\ stage'[p] = "vote" /\ waiting'[p] = TRUE
  BY KindOf, Moves DEF ToVote, proceeds, TypeInv
<1>2. Len(log[p]) = 1
  BY <1>1 DEF runRight, consensusOn
<1>3. consensusOn(log'[p], "vote", TRUE)
  BY <1>1, <1>2 DEF consensusOn
<1>4. ballot'[p].clear => ballot'[p].winner = ballot'[p].meant
  BY <1>1 DEF runRight
<1>5. QED BY <1>1, <1>3, <1>4 DEF runRight

LEMMA FinalWork ==
    ASSUME TypeInv, StageInv, NEW p \in Runs, runRight(p), job' = job,
           DebateRound(p) \/ Plan(p) \/ ToReport(p) \/ Abort(p) \/ (AskOne(p) /\ log' = log)
    PROVE  runRight(p)'
<1>1. ballot'[p] = ballot[p]
  BY DEF DebateRound, Plan, ToReport, Abort, AskOne
<1>2. CASE DebateRound(p)
  <2>1. job[p].kind = "debate" /\ (stage'[p] = "judge" \/ stage'[p] = "round")
    BY <1>2, Moves DEF DebateRound
  <2>2. QED BY <1>1, <2>1, GoesOn
<1>3. CASE Plan(p)
  <2>1. job[p].kind = "supervisor"
    BY <1>3, KindOf DEF Plan
  <2>2. CASE raise(p, "PlanValidationError")
    <3>1. "PlanValidationError" \in Raised \ {NoError}
      BY DEF Raised, NoError
    <3>2. QED BY <1>1, <2>2, <3>1, RaisedRight
  <2>3. CASE enter(p, "work")
    <3>1. stage'[p] = "work"
      BY <2>3, Moves
    <3>2. QED BY <1>1, <2>1, <3>1, GoesOn
  <2>4. QED BY <1>3, <2>2, <2>3 DEF Plan
<1>4. CASE ToReport(p)
  <2>1. job[p].kind = "supervisor" /\ stage'[p] = "report"
    BY <1>4, KindOf, Moves DEF ToReport
  <2>2. QED BY <1>1, <2>1, GoesOn
<1>5. CASE Abort(p)
  <2>1. PICK e \in {"BudgetExceeded", "RunTimeout", "TaskError"} : raise(p, e)
    BY <1>5 DEF Abort
  <2>2. e \in Raised \ {NoError}
    BY DEF Raised, NoError
  <2>3. QED BY <1>1, <2>1, <2>2, RaisedRight
<1>6. CASE AskOne(p) /\ log' = log
  <2>1. raise(p, "AgentNotFound")
    <3>1. CASE ~registered(asked(p)) /\ job[p].kind = "debate"
      BY <1>6, <3>1 DEF AskOne
    <3>2. CASE ~(~registered(asked(p)) /\ job[p].kind = "debate")
      <4>1. PICK a : noted(p, <<<<asked(p), a>>>>)
        BY <1>6, <3>2 DEF AskOne
      <4>2. log'[p] = Append(log[p], <<<<asked(p), a>>>>) /\ log[p] \in Seq(Seq(Said))
        BY <4>1 DEF noted, TypeInv
      <4>3. Len(log'[p]) = Len(log[p]) + 1 /\ Len(log[p]) \in Nat
        BY <4>2
      <4>4. QED BY <1>6, <4>3
    <3>3. QED BY <3>1, <3>2
  <2>2. "AgentNotFound" \in Raised \ {NoError}
    BY DEF Raised, NoError
  <2>3. QED BY <1>1, <2>1, <2>2, RaisedRight
<1>7. QED BY <1>2, <1>3, <1>4, <1>5, <1>6

(* What an answer leaves alone                                              *)
LEMMA FinalTaken ==
    ASSUME TypeInv, StageInv, CallInv, NEW p \in Runs, runRight(p), job' = job, taken(p),
           AskAll(p) \/ AskOne(p) \/ AskPlan(p) \/ Work(p)
    PROVE  runRight(p)'
<1>1. PICK e \in Seq(Said) : Notes(p, e)
  BY DEF taken
<1>2. /\ stage[p] \notin {"new", "done"} /\ waiting[p] /\ stage'[p] = stage[p]
      /\ log'[p] = Append(log[p], e) /\ waiting'[p] = FALSE
  BY <1>1 DEF taken, Notes
<1>3. UNCHANGED <<round, turn, text, ballot>> /\ stage[p] # "vote"
  BY DEF AskAll, AskOne, AskPlan, Work, progress
<1>4. round'[p] = round[p] /\ turn'[p] = turn[p] /\ text'[p] = text[p] /\ ballot'[p] = ballot[p]
  BY <1>3
<1>5. QED BY <1>2, <1>3, <1>4, FinalAnswer

LEMMA ResultStep ==
    ASSUME TypeInv, StageInv, CallInv, PlanInv, ResultInv, NEW p \in Runs, Step(p)
    PROVE  ResultInv'
<1>1. SUFFICES ASSUME NEW q \in Runs PROVE runRight(q)'
  BY DEF ResultInv
<1>2. runRight(p) /\ runRight(q)
  BY DEF ResultInv
<1>3. job' = job
  BY DEF Step, Start, Remember, AskAll, AskOne, Abort, BroadcastRound, DebateRound, LastWord,
         SequentialTurn, RelayTurn, ToVote, Vote, AskPlan, Plan, Work, ToReport
<1>4. CASE q # p
  <2>1. /\ stage'[q] = stage[q] /\ round'[q] = round[q] /\ turn'[q] = turn[q]
        /\ waiting'[q] = waiting[q] /\ log'[q] = log[q]
        /\ text'[q] = text[q] /\ ballot'[q] = ballot[q] /\ final'[q] = final[q]
    BY <1>4, Others
  <2>2. QED BY <1>2, <1>3, <2>1, ResultSame
<1>5. ASSUME runRight(p)' PROVE runRight(q)'
  BY <1>4, <1>5
<1>6. CASE Start(p)
  BY <1>2, <1>3, <1>5, <1>6, FinalStart
<1>7. CASE Remember(p)
  <2>1. UNCHANGED <<progress, waiting, log, text, ballot, final>>
    BY <1>7 DEF Remember
  <2>2. runRight(p)'
    BY <1>2, <1>3, <2>1, ResultSame DEF progress
  <2>3. QED BY <1>5, <2>2
<1>8. CASE BroadcastRound(p)
  BY <1>2, <1>3, <1>5, <1>8, FinalBroadcast
<1>9. CASE RelayTurn(p)
  BY <1>2, <1>3, <1>5, <1>9, FinalRelay
<1>10. CASE LastWord(p) \/ SequentialTurn(p)
  BY <1>2, <1>3, <1>5, <1>10, FinalLast
<1>11. CASE Vote(p)
  BY <1>2, <1>3, <1>5, <1>11, FinalVote
<1>12. CASE ToVote(p)
  BY <1>2, <1>3, <1>5, <1>12, FinalToVote
<1>13. CASE DebateRound(p) \/ Plan(p) \/ ToReport(p) \/ Abort(p)
  BY <1>2, <1>3, <1>5, <1>13, FinalWork
<1>14. CASE AskAll(p) \/ AskOne(p) \/ AskPlan(p) \/ Work(p)
  <2>1. CASE taken(p)
    BY <1>2, <1>3, <1>5, <1>14, <2>1, FinalTaken
  <2>2. CASE ~taken(p)
    <3>1. ~Start(p) /\ ~Remember(p)
      <4>1. stage[p] # "new" /\ queue[p] = <<>>
        BY <1>14 DEF AskAll, AskOne, AskPlan, Work, ready
      <4>2. QED BY <4>1 DEF Start, Remember
    <3>2. log'[p] = log[p]
      BY <2>2, <3>1, StepKinds DEF quiet
    <3>3. AskOne(p) /\ log' = log
      <4>1. ASSUME NEW e, noted(p, e) PROVE FALSE
        <5>1. log'[p] = Append(log[p], e) /\ log[p] \in Seq(Seq(Said))
          BY <4>1 DEF noted, TypeInv
        <5>2. Len(log'[p]) = Len(log[p]) + 1 /\ Len(log[p]) \in Nat
          BY <5>1
        <5>3. QED BY <3>2, <5>2
      <4>2. \A e : ~noted(p, e)
        BY <4>1
      <4>3. ~AskAll(p) /\ ~AskPlan(p) /\ ~Work(p)
        BY <4>2 DEF AskAll, AskPlan, Work
      <4>4. AskOne(p)
        BY <1>14, <4>3
      <4>5. log' = log
        BY <4>2, <4>4 DEF AskOne
      <4>6. QED BY <4>4, <4>5
    <3>4. QED BY <1>2, <1>3, <1>5, <3>3, FinalWork
  <2>3. QED BY <2>1, <2>2
<1>15. QED BY <1>6, <1>7, <1>8, <1>9, <1>10, <1>11, <1>12, <1>13, <1>14 DEF Step

LEMMA ResultFollows ==
    ASSUME ResultInv
    PROVE  ResultRight
<1>1. VoteRight
  BY DEF VoteRight, ResultInv, runRight
<1>2. FinalRight
  <2>1. ASSUME NEW p \in Runs, stage[p] = "done", final[p].raised = NoError
        PROVE  LET result == final[p].text
                   n == Len(log[p])
                   answeredRounds == {i \in 1 .. n : good(log[p][i]) # <<>>}
                   k == IF answeredRounds = {} THEN 1
                        ELSE CHOOSE i \in answeredRounds : \A j \in answeredRounds : j <= i
                   drafts(i) == latest(p, i * Len(order(p)))
               IN  CASE job[p].kind = "broadcast" ->
                          /\ n = rounds(p)
                          /\ result.of =
                                repeated(Prompt, IF job[p].limited THEN n - k ELSE 0) \o
                                (IF answeredRounds = {} THEN <<Prompt>> ELSE textsOf(log[p][k]))
                          /\ result.cut => job[p].limited /\ n > 1 /\ n \notin answeredRounds
                     [] job[p].kind = "relay" ->
                          /\ n = round[p] * Len(order(p)) /\ round[p] \in 1 .. rounds(p)
                          /\ result = whole(<<drafts(round[p])>>)
                          /\ \A i \in 1 .. round[p] - 1 : drafts(i) # drafts(i - 1)
                          /\ round[p] < rounds(p) => drafts(round[p]) = drafts(round[p] - 1)
                     [] job[p].kind = "consensus" /\ n = 1 ->
                          \E i \in DOMAIN Names : /\ Names[i] = ballot[p].winner
                                                   /\ log[p][1][i][2] # Error
                                                   /\ result = whole(<<log[p][1][i][2]>>)
                     [] OTHER -> result = whole(<<log[p][n][1][2]>>)
    <3>1. rightResult(job[p].kind, log[p], Len(order(p)), rounds(p), job[p].limited, round[p],
                      ballot[p].winner, final[p].text)
      BY <2>1 DEF ResultInv, runRight
    <3>2. \A k : latest(p, k) = draft(log[p], k)
      BY Zenon DEF latest, draft, drafted, lastIn
    <3>3. CASE job[p].kind = "broadcast"
      <4>1. broadcastResult(log[p], rounds(p), job[p].limited, final[p].text)
        BY <3>1, <3>3 DEF rightResult
      <4>2. QED BY <3>3, <4>1, Zenon DEF broadcastResult, handed, newest, answered, lastIn
    <3>4. CASE job[p].kind = "relay"
      <4>1. relayResult(log[p], Len(order(p)), rounds(p), round[p], final[p].text)
        BY <3>1, <3>4 DEF rightResult
      <4>2. QED BY <3>2, <3>4, <4>1, Zenon DEF relayResult
    <3>5. CASE job[p].kind = "consensus" /\ Len(log[p]) = 1
      <4>1. voteResult(log[p], ballot[p].winner, final[p].text)
        BY <3>1, <3>5 DEF rightResult
      <4>2. QED BY <3>5, <4>1, Zenon DEF voteResult
    <3>6. CASE ~(job[p].kind = "broadcast") /\ ~(job[p].kind = "relay")
               /\ ~(job[p].kind = "consensus" /\ Len(log[p]) = 1)
      <4>1. final[p].text = whole(<<log[p][Len(log[p])][1][2]>>)
        BY <3>1, <3>6, Zenon DEF rightResult
      <4>2. QED BY <3>6, <4>1, Zenon
    <3>7. QED BY <3>3, <3>4, <3>5, <3>6
  <2>2. QED BY <2>1 DEF FinalRight
<1>3. QED BY <1>1, <1>2 DEF ResultRight

-----------------------------------------------------------------------------
(* The inductive invariant                                                  *)
StrategiesInv == TypeInv /\ StageInv /\ CallInv /\ PlanInv /\ MemInv /\ ResultInv

LEMMA StrategiesBegin ==
    StrategiesInit => StrategiesInv
<1>1. SUFFICES ASSUME StrategiesInit PROVE StrategiesInv
  OBVIOUS
<1>2. /\ job \in Jobs /\ memory = <<>>
      /\ stage = [p \in Runs |-> "new"] /\ round = [p \in Runs |-> 1]
      /\ turn = [p \in Runs |-> 1] /\ waiting = [p \in Runs |-> TRUE]
      /\ log = [p \in Runs |-> <<>>] /\ queue = [p \in Runs |-> <<>>]
      /\ text = [p \in Runs |-> whole(<<Prompt>>)]
      /\ ballot = [p \in Runs |-> Nobody] /\ plan = [p \in Runs |-> NoPlan]
      /\ final = [p \in Runs |-> Unfinished]
  BY <1>1 DEF StrategiesInit
<1>3. ASSUME NEW p \in Runs
      PROVE  /\ stage[p] = "new" /\ round[p] = 1 /\ turn[p] = 1 /\ waiting[p] = TRUE
             /\ log[p] = <<>> /\ queue[p] = <<>> /\ text[p] = whole(<<Prompt>>)
             /\ ballot[p] = Nobody /\ plan[p] = NoPlan /\ final[p] = Unfinished
  BY <1>2
<1>4. TypeInv
  <2>1. /\ stage \in [Runs -> Stages] /\ round \in [Runs -> Nat \ {0}] /\ turn \in [Runs -> Nat \ {0}]
        /\ waiting \in [Runs -> BOOLEAN]
    BY <1>2 DEF Stages
  <2>2. log \in [Runs -> Seq(Seq(Said))] /\ queue \in [Runs -> Seq(Message)] /\ memory \in Seq(Message)
    <3>1. << >> \in Seq(Seq(Said)) /\ << >> \in Seq(Message)
      OBVIOUS
    <3>2. QED BY <1>2, <3>1
  <2>3. text \in [Runs -> Text]
    <3>1. whole(<<Prompt>>) \in Text
      BY WholeTyped DEF Texts
    <3>2. QED BY <1>2, <3>1
  <2>4. ballot \in [Runs -> [winner : By, meant : By, clear : BOOLEAN]]
    <3>1. Nobody \in [winner : By, meant : By, clear : BOOLEAN]
      BY DEF Nobody, By
    <3>2. QED BY <1>2, <3>1
  <2>5. plan \in [Runs -> [answer : PlanAnswers \cup {NoPlan.answer}, tasks : Seq(Tasks)]]
    <3> DEFINE a == [entries |-> <<>>, lines |-> 1]
    <3>1. NoPlan = [answer |-> a, tasks |-> <<>>]
      BY DEF NoPlan
    <3> HIDE DEF a
    <3>2. NoPlan.answer = a /\ << >> \in Seq(Tasks)
      BY <3>1
    <3>3. NoPlan \in [answer : PlanAnswers \cup {NoPlan.answer}, tasks : Seq(Tasks)]
      BY <3>1, <3>2
    <3>4. QED BY <1>2, <3>3
  <2>6. final \in [Runs -> [raised : Raised, text : Text]]
    <3>1. NoError \in Raised /\ whole(<<>>) \in Text
      BY DEF Raised, whole, Text
    <3>2. Unfinished \in [raised : Raised, text : Text]
      BY <3>1 DEF Unfinished
    <3>3. QED BY <1>2, <3>2
  <2>7. QED BY <1>2, <2>1, <2>2, <2>3, <2>4, <2>5, <2>6 DEF TypeInv
<1>5. StageInv
  <2>1. ASSUME NEW p \in Runs
        PROVE  turn[p] \in 1 .. Len(order(p)) /\ \A m \in ToSet(queue[p]) : m.run = p
    <3>1. Len(order(p)) \in Nat \ {0}
      BY <1>2, JobFacts
    <3>2. 1 \in 1 .. Len(order(p))
      BY <3>1
    <3>3. ToSet(<<>>) = {}
      BY DEF ToSet
    <3>4. QED BY <1>3, <3>2, <3>3
  <2>2. QED BY <1>3, <2>1 DEF StageInv
<1>6. CallInv
  BY <1>3 DEF CallInv
<1>7. PlanInv
  <2>1. NoPlan.tasks = <<>> /\ Unfinished.raised = NoError
    BY DEF NoPlan, Unfinished
  <2>2. QED BY <1>3, <2>1 DEF PlanInv, NoError
<1>8. MemInv
  <2>1. Len(memory) <= Capacity
    BY <1>2, StrategiesAssumption DEF StrategiesAssumption
  <2>2. ASSUME NEW p \in Runs PROVE ~active(p) /\ queue[p] = <<>> /\ theirs(p) = <<>>
    BY <1>2, <1>3, KeepEmpty DEF active, theirs
  <2>3. QED BY <2>1, <2>2 DEF MemInv
<1>9. ResultInv
  <2>1. ASSUME NEW p \in Runs PROVE runRight(p)
    <3>1. ballot[p].winner = ballot[p].meant
      <4>1. Nobody.winner = NoName /\ Nobody.meant = NoName
        BY DEF Nobody
      <4>2. ballot[p] = Nobody
        BY <1>3
      <4>3. QED BY <4>1, <4>2
    <3>2. consensusOn(log[p], stage[p], waiting[p])
      BY <1>3 DEF consensusOn
    <3>3. QED BY <1>3, <3>1, <3>2 DEF runRight
  <2>2. QED BY <2>1 DEF ResultInv
<1>10. QED BY <1>4, <1>5, <1>6, <1>7, <1>8, <1>9 DEF StrategiesInv

LEMMA StrategiesKeeps ==
    StrategiesInv /\ [StrategiesNext]_strategiesVars => StrategiesInv'
<1>1. SUFFICES ASSUME StrategiesInv, [StrategiesNext]_strategiesVars PROVE StrategiesInv'
  OBVIOUS
<1>2. TypeInv /\ StageInv /\ CallInv /\ PlanInv /\ MemInv /\ ResultInv
  BY <1>1 DEF StrategiesInv
<1>3. ASSUME NEW p \in Runs, Step(p) PROVE StrategiesInv'
  <2>1. TypeInv'
    BY <1>2, <1>3, TypeStep
  <2>2. StageInv' /\ CallInv' /\ PlanInv'
    BY <1>2, <1>3, StageStep, CallStep, PlanStep
  <2>3. MemInv'
    BY <1>2, <1>3, MemStep
  <2>4. ResultInv'
    BY <1>2, <1>3, ResultStep
  <2>5. QED BY <2>1, <2>2, <2>3, <2>4 DEF StrategiesInv
<1>4. CASE UNCHANGED strategiesVars
  <2>1. /\ job' = job /\ stage' = stage /\ round' = round /\ turn' = turn /\ waiting' = waiting
        /\ log' = log /\ queue' = queue /\ memory' = memory /\ text' = text
        /\ ballot' = ballot /\ plan' = plan /\ final' = final
    BY <1>4 DEF strategiesVars, progress
  <2>2. ASSUME NEW p \in Runs
        PROVE  /\ refusal(p)' = refusal(p) /\ order(p)' = order(p) /\ rounds(p)' = rounds(p)
               /\ workers(p)' = workers(p)
    BY <2>1, SameJob
  <2>3. TypeInv'
    BY <1>2, <2>1 DEF TypeInv
  <2>4. StageInv'
    BY <1>2, <2>1, <2>2 DEF StageInv
  <2>5. CallInv'
    BY <1>2, <2>1, <2>2 DEF CallInv, lastOf
  <2>6. PlanInv'
    BY <1>2, <2>1, <2>2 DEF PlanInv
  <2>7. MemInv'
    BY <1>2, <2>1, <2>2 DEF MemInv, active, theirs, dropped
  <2>8. ResultInv'
    BY <1>2, <2>1, ResultSame DEF ResultInv
  <2>9. QED BY <2>3, <2>4, <2>5, <2>6, <2>7, <2>8 DEF StrategiesInv
<1>5. QED BY <1>1, <1>3, <1>4 DEF StrategiesNext, AllOver

(* It holds however the runs of a coordinator are interleaved.              *)
THEOREM StrategiesInvariant ==
    StrategiesSpec => []StrategiesInv
  BY StrategiesBegin, StrategiesKeeps, PTL DEF StrategiesSpec

(* However the runs of a coordinator are interleaved, its memory is never   *)
(* over its capacity and has of each run the last things it said, each once *)
(* and in order; all of them until something is dropped (memory.py:14-22,   *)
(* :36-52).                                                                 *)
THEOREM MemorySafe ==
    StrategiesSpec => []MemoryRight
<1>1. StrategiesInv => MemoryRight
  BY MemFollows DEF StrategiesInv
<1>2. QED BY <1>1, StrategiesInvariant, PTL

(* A debater hears the end of what the others said in this run, his own     *)
(* statements unless they are to be hidden, and everything as long as       *)
(* nothing was dropped and there is no window (context.py:94-103,           *)
(* strategies.py:354-377).                                                  *)
THEOREM DebateSafe ==
    StrategiesSpec => []DebateHeard
<1>1. StrategiesInv => DebateHeard
  BY HeardFollows DEF StrategiesInv
<1>2. QED BY <1>1, StrategiesInvariant, PTL

(* Whatever the lead answers, a plan is carried out if and only if its      *)
(* dependencies can be resolved, with all its tasks and on the right        *)
(* workers (supervisor.py:10-20, :56-79, :164-181, :276-290).               *)
THEOREM PlanSafe ==
    StrategiesSpec => []PlanRight
<1>1. StrategiesInv => PlanRight
  BY PlanFollows DEF StrategiesInv
<1>2. QED BY <1>1, StrategiesInvariant, PTL

(* The result of a run is what its agents answered and voted for, after any *)
(* number of rounds and turns (strategies.py:277-303, :334-339, :394-403,   *)
(* :538-581, :587-607, :641-661).                                           *)
THEOREM ResultSafe ==
    StrategiesSpec => []ResultRight
<1>1. StrategiesInv => ResultRight
  BY ResultFollows DEF StrategiesInv
<1>2. QED BY <1>1, StrategiesInvariant, PTL

-----------------------------------------------------------------------------
(* The agents that a coordinator calls                                      *)
USE ProviderAssumption DEF ProviderAssumption

-----------------------------------------------------------------------------
(* A sequence without repetitions is what a cache, and the ghost beside it, *)
(* keep.                                                                    *)
Distinct(s) == \A i, j \in 1 .. Len(s) : s[i] = s[j] => i = j

(* What a cache keeps of the keys it was used with                          *)
Latest(s, r) ==
    /\ s \in Seq(Keys) /\ r \in Seq(Keys) /\ Distinct(r)
    /\ Len(s) = IF Len(r) < CacheSize THEN Len(r) ELSE CacheSize
    /\ \A i \in 1 .. Len(s) : s[i] = r[Len(r) - Len(s) + i]

(* The caches keep the latest keys; an agent without one has used none, and *)
(* no request that is under way has taken one from it.                      *)
inCall(t) == ~at(t, "idle") /\ ~at(t, "enter")
CacheInv ==
    /\ cached \in [Backends -> Seq(Keys)] /\ recent \in [Backends -> Seq(Keys)]
    /\ \A b \in Backends : /\ Latest(cached[b], recent[b])
                           /\ ~hasCache[b] => recent[b] = <<>>
    /\ \A t \in Threads :
          /\ at(t, "look") \/ at(t, "hit") => hasCache[frame[t].backend]
          /\ inCall(t) /\ frame[t].caching => hasCache[frame[t].backend]

(* What a call found the counter of its backend at was not beyond it.  Each *)
(* answer that was counted but not absorbed is one of the calls in between, *)
(* whose difference it makes.                                               *)
toAbsorb == {t \in Threads : at(t, "absorb") /\ frame[t].usage < usage[frame[t].backend]}
CountInv ==
    /\ spent \in [usage : Nat, hits : Nat]
    /\ \A t \in Threads :
          /\ inCall(t) => frame[t].usage <= usage[frame[t].backend]
          /\ at(t, "absorb") \/ at(t, "absorbHits") => forFront(t)
    /\ spent.usage <= usage[front] + Cardinality(toAbsorb)

(* With one call at a time, how far the fallback agent's counters lag       *)
(* behind is what the call has yet to take over.                            *)
owedUsage(t) == IF at(t, "absorb") THEN usage[frame[t].backend] - frame[t].usage ELSE 0
owedHits(t) ==
    IF at(t, "absorb") THEN hits[frame[t].backend] - frame[t].hits
    ELSE IF at(t, "absorbHits")
    THEN frame[t].hitsRead + hits[frame[t].backend] - frame[t].hits - hits[front]
    ELSE 0
ExactInv ==
    ~overlapped =>
        /\ \A t, u \in Threads : t # u => at(t, "idle") \/ at(u, "idle")
        /\ (\A t \in Threads : at(t, "idle")) =>
              usage[front] = spent.usage /\ hits[front] = spent.hits
        /\ \A t \in Threads : ~at(t, "idle") =>
              /\ usage[front] + owedUsage(t) = spent.usage
              /\ hits[front] + owedHits(t) = spent.hits
              /\ inCall(t) /\ forFront(t) /\ ~at(t, "absorb") /\ ~at(t, "absorbHits") =>
                    /\ frame[t].usage = usage[frame[t].backend]
                    /\ frame[t].hits = hits[frame[t].backend]

IInv == TypeOK /\ CacheInv /\ CountInv /\ ExactInv

-----------------------------------------------------------------------------
(* What moving a key to the end of a sequence does: without repetitions the *)
(* others keep their order.                                                 *)
LEMMA Without ==
    ASSUME NEW s \in Seq(Keys), NEW i \in 1 .. Len(s), Distinct(s)
    PROVE  without(s, s[i]) = [j \in 1 .. Len(s) - 1 |-> s[IF j < i THEN j ELSE j + 1]]
<1>1. s[i] \in Range(s) /\ DOMAIN s = 1 .. Len(s)
  BY DEF Range
<1>2. (CHOOSE j \in DOMAIN s : s[j] = s[i]) = i
  BY <1>1 DEF Distinct
<1> QED
  BY <1>1, <1>2, Zenon DEF without

LEMMA MovedToEnd ==
    ASSUME NEW s \in Seq(Keys), NEW i \in 1 .. Len(s), Distinct(s)
    PROVE  LET e == toEnd(s, s[i]) IN
           /\ e \in Seq(Keys) /\ Len(e) = Len(s) /\ Distinct(e)
           /\ e[Len(s)] = s[i]
           /\ \A j \in 1 .. Len(s) - 1 : e[j] = s[IF j < i THEN j ELSE j + 1]
<1> DEFINE w == [j \in 1 .. Len(s) - 1 |-> s[IF j < i THEN j ELSE j + 1]]
           e == Append(w, s[i])
<1>1. toEnd(s, s[i]) = e
  BY Without DEF toEnd
<1>2. Len(s) \in Nat /\ Len(s) >= 1 /\ s[i] \in Keys
  OBVIOUS
<1>3. \A j \in 1 .. Len(s) - 1 : (IF j < i THEN j ELSE j + 1) \in 1 .. Len(s)
  BY <1>2
<1>4. \A j \in 1 .. Len(s) - 1 : s[IF j < i THEN j ELSE j + 1] \in Keys
  BY <1>3
<1>5. w \in Seq(Keys) /\ Len(w) = Len(s) - 1
  BY <1>2, <1>4
<1>6. \A j \in 1 .. Len(s) - 1 : w[j] = s[IF j < i THEN j ELSE j + 1]
  OBVIOUS
<1> HIDE DEF w
<1>7. /\ e \in Seq(Keys) /\ Len(e) = Len(s) /\ e[Len(s)] = s[i]
      /\ \A j \in 1 .. Len(s) - 1 : e[j] = w[j]
  BY <1>2, <1>5
<1> HIDE DEF e
<1> DEFINE from(j) == IF j = Len(s) THEN i ELSE IF j < i THEN j ELSE j + 1
<1>8. \A j \in 1 .. Len(s) : from(j) \in 1 .. Len(s) /\ e[j] = s[from(j)]
  BY <1>2, <1>3, <1>6, <1>7
<1>9. \A j, k \in 1 .. Len(s) : from(j) = from(k) => j = k
  BY <1>2
<1> HIDE DEF from
<1>10. Distinct(e)
  BY <1>7, <1>8, <1>9 DEF Distinct
<1> QED
  BY <1>1, <1>6, <1>7, <1>10

LEMMA NewAtEnd ==
    ASSUME NEW s \in Seq(Keys), NEW k \in Keys, k \notin Range(s), Distinct(s)
    PROVE  LET e == toEnd(s, k) IN
           /\ e \in Seq(Keys) /\ Len(e) = Len(s) + 1 /\ Distinct(e)
           /\ e[Len(s) + 1] = k
           /\ \A j \in 1 .. Len(s) : e[j] = s[j]
<1>1. toEnd(s, k) = Append(s, k)
  BY Zenon DEF toEnd, without
<1>2. \A j \in 1 .. Len(s) : s[j] # k
  BY DEF Range
<1>3. /\ Append(s, k) \in Seq(Keys) /\ Len(Append(s, k)) = Len(s) + 1
      /\ Append(s, k)[Len(s) + 1] = k
      /\ \A j \in 1 .. Len(s) : Append(s, k)[j] = s[j]
  OBVIOUS
<1>4. \A j \in 1 .. Len(s) + 1 : j \in 1 .. Len(s) \/ j = Len(s) + 1
  OBVIOUS
<1>5. Distinct(Append(s, k))
  BY <1>2, <1>3, <1>4 DEF Distinct
<1> QED
  BY <1>1, <1>3, <1>5

LEMMA Indexed ==
    ASSUME NEW s \in Seq(Keys), NEW k \in Range(s)
    PROVE  \E i \in 1 .. Len(s) : s[i] = k
  BY DEF Range

(* A hit                                                                    *)
LEMMA LatestGot ==
    ASSUME NEW s, NEW r, NEW k \in Range(s), Latest(s, r)
    PROVE  Latest(get(s, k), toEnd(r, k)) /\ toEnd(r, k) # <<>>
<1>t. s \in Seq(Keys) /\ r \in Seq(Keys) /\ Distinct(r)
  BY DEF Latest
<1>1. PICK i \in 1 .. Len(s) : s[i] = k
  BY <1>t, Indexed
<1> DEFINE m == Len(r) - Len(s)
<1>3. /\ Len(s) = IF Len(r) < CacheSize THEN Len(r) ELSE CacheSize
      /\ Len(s) \in Nat /\ Len(r) \in Nat
  BY <1>t DEF Latest
<1>m. m \in Nat /\ Len(r) = m + Len(s)
  BY <1>3
<1>s. \A j \in 1 .. Len(s) : s[j] = r[m + j]
  BY DEF Latest
<1> HIDE DEF m
<1>r. \A j \in 1 .. Len(s) : m + j \in 1 .. Len(r)
  BY <1>3, <1>m
<1>2. /\ Len(s) \in Nat /\ Len(r) \in Nat /\ m \in Nat
      /\ \A j \in 1 .. Len(s) : m + j \in 1 .. Len(r) /\ s[j] = r[m + j]
  BY <1>3, <1>m, <1>s, <1>r
<1>4. Distinct(s)
  BY <1>t, <1>2 DEF Distinct
<1> DEFINE e == toEnd(s, k)
           f == toEnd(r, k)
<1>5. /\ e \in Seq(Keys) /\ Len(e) = Len(s) /\ e[Len(s)] = k
      /\ \A j \in 1 .. Len(s) - 1 : e[j] = s[IF j < i THEN j ELSE j + 1]
  BY <1>t, <1>1, <1>4, MovedToEnd
<1>6. r[m + i] = k /\ m + i \in 1 .. Len(r)
  BY <1>1, <1>2
<1>7. /\ f \in Seq(Keys) /\ Len(f) = Len(r) /\ Distinct(f) /\ f[Len(r)] = k
      /\ \A j \in 1 .. Len(r) - 1 : f[j] = r[IF j < m + i THEN j ELSE j + 1]
  BY <1>t, <1>6, MovedToEnd
<1> HIDE DEF e, f
<1>8. Len(r) = m + Len(s)
  BY <1>2 DEF m
<1>9. \A j \in 1 .. Len(s) : e[j] = f[m + j]
  <2> SUFFICES ASSUME NEW j \in 1 .. Len(s) PROVE e[j] = f[m + j]
    OBVIOUS
  <2>1. CASE j = Len(s)
    BY <1>2, <1>5, <1>7, <1>8, <2>1
  <2>2. CASE j # Len(s)
    <3>1. j \in 1 .. Len(s) - 1 /\ m + j \in 1 .. Len(r) - 1
      BY <1>2, <1>8, <2>2
    <3>2. e[j] = s[IF j < i THEN j ELSE j + 1]
      BY <1>5, <3>1
    <3>3. f[m + j] = r[IF m + j < m + i THEN m + j ELSE (m + j) + 1]
      BY <1>7, <3>1
    <3>4. CASE j < i
      <4>1. m + j < m + i
        BY <1>2, <3>4
      <4> QED BY <1>2, <3>2, <3>3, <3>4, <4>1
    <3>5. CASE ~(j < i)
      <4>1. ~(m + j < m + i) /\ (m + j) + 1 = m + (j + 1) /\ j + 1 \in 1 .. Len(s)
        BY <1>2, <3>1, <3>5
      <4> QED BY <1>2, <3>2, <3>3, <3>5, <4>1
    <3> QED BY <3>4, <3>5
  <2> QED BY <2>1, <2>2
<1>10. f # <<>>
  BY <1>6, <1>7
<1>11. Latest(e, f)
  <2>1. Len(f) - Len(e) = m
    BY <1>2, <1>5, <1>7, <1>8
  <2> QED BY <1>3, <1>5, <1>7, <1>9, <2>1 DEF Latest
<1> QED
  BY <1>10, <1>11 DEF e, f, get

(* An answer that is put                                                    *)
LEMMA LatestPut ==
    ASSUME NEW s, NEW r, NEW k \in Keys, Latest(s, r)
    PROVE  Latest(put(s, k), toEnd(r, k))
<1>t. /\ s \in Seq(Keys) /\ r \in Seq(Keys) /\ Distinct(r)
      /\ Len(s) = IF Len(r) < CacheSize THEN Len(r) ELSE CacheSize
      /\ Len(s) \in Nat /\ Len(r) \in Nat /\ Len(s) <= CacheSize /\ CacheSize \in Nat \ {0}
  BY DEF Latest
<1> DEFINE m == Len(r) - Len(s)
<1>m. m \in Nat /\ Len(r) = m + Len(s) /\ (m # 0 => Len(s) = CacheSize)
  BY <1>t
<1>s. \A j \in 1 .. Len(s) : m + j \in 1 .. Len(r) /\ s[j] = r[m + j]
  <2>1. \A i \in 1 .. Len(s) : s[i] = r[Len(r) - Len(s) + i]
    BY DEF Latest
  <2>2. \A j \in 1 .. Len(s) : m + j \in 1 .. Len(r) /\ Len(r) - Len(s) + j = m + j
    BY <1>t
  <2>3. QED BY <2>1, <2>2
<1> HIDE DEF m
<1>1. CASE k \in Range(s)
  <2>1. Latest(toEnd(s, k), toEnd(r, k))
    BY <1>1, LatestGot DEF get
  <2>2. Len(toEnd(s, k)) <= CacheSize /\ Len(toEnd(s, k)) \in Nat
    BY <2>1, <1>t DEF Latest
  <2>3. put(s, k) = toEnd(s, k)
    BY <2>2, <1>t DEF put
  <2> QED BY <2>1, <2>3
<1>2. CASE k \notin Range(s)
  <2> DEFINE e == toEnd(s, k)
             f == toEnd(r, k)
  <2>1. Distinct(s)
    BY <1>t, <1>s, <1>m DEF Distinct
  <2>2. /\ e \in Seq(Keys) /\ Len(e) = Len(s) + 1 /\ e[Len(s) + 1] = k
        /\ \A j \in 1 .. Len(s) : e[j] = s[j]
    BY <1>t, <1>2, <2>1, NewAtEnd
  <2>3. /\ f \in Seq(Keys) /\ Distinct(f) /\ Len(f) \in Nat /\ Len(f) >= 1 /\ f[Len(f)] = k
        /\ Len(f) = Len(r) + 1 \/ (Len(f) = Len(r) /\ Len(s) = CacheSize)
        /\ \A j \in 1 .. Len(s) : Len(f) - Len(s) - 1 + j \in Nat
        /\ \A j \in 1 .. Len(s) : Len(f) - Len(s) - 1 + j >= 1 =>
              f[Len(f) - Len(s) - 1 + j] = s[j]
    <3>1. CASE k \notin Range(r)
      <4>1. /\ f \in Seq(Keys) /\ Len(f) = Len(r) + 1 /\ Distinct(f) /\ f[Len(r) + 1] = k
            /\ \A j \in 1 .. Len(r) : f[j] = r[j]
        BY <1>t, <3>1, NewAtEnd
      <4> HIDE DEF f
      <4>a. Len(f) = Len(r) + 1
        BY <4>1
      <4>b. Len(r) = m + Len(s) /\ m \in Nat /\ Len(s) \in Nat
        BY <1>m, <1>t
      <4>0. Len(f) \in Nat /\ Len(f) >= 1 /\ Len(f) - Len(s) - 1 = m
        BY ONLY <4>a, <4>b
      <4>2. \A j \in 1 .. Len(s) : Len(f) - Len(s) - 1 + j = m + j /\ m + j \in Nat
        BY ONLY <4>0, <4>b
      <4>3. \A j \in 1 .. Len(s) : f[m + j] = s[j]
        BY <4>1, <1>s
      <4> QED BY <4>0, <4>1, <4>2, <4>3
    <3>2. CASE k \in Range(r)
      <4>1. PICK i \in 1 .. Len(r) : r[i] = k
        BY <1>t, <3>2, Indexed
      <4>2. i <= m
        <5>1. ASSUME i > m PROVE FALSE
          <6>1. i - m \in 1 .. Len(s) /\ m + (i - m) = i
            BY <5>1, <1>m, <1>t
          <6>2. s[i - m] = k
            BY <6>1, <4>1, <1>s
          <6>3. k \in Range(s)
            BY <6>1, <6>2, <1>t DEF Range
          <6> QED BY <6>3, <1>2
        <5> QED BY <5>1, <1>m
      <4>3. /\ f \in Seq(Keys) /\ Len(f) = Len(r) /\ Distinct(f) /\ f[Len(r)] = k
            /\ \A j \in 1 .. Len(r) - 1 : f[j] = r[IF j < i THEN j ELSE j + 1]
        BY <1>t, <4>1, MovedToEnd
      <4> HIDE DEF f
      <4>4. Len(s) = CacheSize /\ m >= 1 /\ Len(r) >= 1
        BY <4>1, <4>2, <1>m, <1>t
      <4>5. ASSUME NEW j \in 1 .. Len(s), Len(f) - Len(s) - 1 + j >= 1
            PROVE  f[Len(f) - Len(s) - 1 + j] = s[j]
        <5>1. /\ Len(f) - Len(s) - 1 + j = m + j - 1
              /\ m + j - 1 \in 1 .. Len(r) - 1 /\ ~(m + j - 1 < i) /\ (m + j - 1) + 1 = m + j
          BY <4>2, <4>3, <4>4, <4>5, <1>m, <1>t
        <5>2. f[m + j - 1] = r[m + j]
          BY <5>1, <4>3
        <5> QED BY <5>1, <5>2, <1>s
      <4>6. \A j \in 1 .. Len(s) : Len(f) - Len(s) - 1 + j \in Nat
        BY <4>3, <4>4, <1>m, <1>t
      <4> QED BY <4>3, <4>4, <4>5, <4>6
    <3> QED BY <3>1, <3>2
  <2> HIDE DEF e, f
  <2>4. CASE Len(s) < CacheSize
    <3>1. put(s, k) = e /\ Len(f) = Len(r) + 1 /\ m = 0
      BY <2>2, <2>3, <2>4, <1>t, <1>m DEF put, e
    <3>2. Len(f) - Len(e) = 0 /\ Len(e) = IF Len(f) < CacheSize THEN Len(f) ELSE CacheSize
      BY <3>1, <2>2, <2>3, <2>4, <1>t, <1>m
    <3>3. \A j \in 1 .. Len(e) : e[j] = f[Len(f) - Len(e) + j]
      <4> SUFFICES ASSUME NEW j \in 1 .. Len(e) PROVE e[j] = f[j]
        <5>1. \A j \in 1 .. Len(e) : Len(f) - Len(e) + j = j
          BY <3>2
        <5> QED BY <5>1
      <4>0. Len(e) \in Nat /\ Len(f) = Len(e) /\ Len(e) = Len(s) + 1
        BY <3>2, <2>2, <2>3, <1>t
      <4>1. CASE j = Len(s) + 1
        BY <4>1, <3>1, <3>2, <2>2, <2>3, <1>m
      <4>2. CASE j # Len(s) + 1
        <5>1. j \in 1 .. Len(s) /\ Len(f) - Len(s) - 1 + j = j
          BY <4>0, <4>2, <1>t
        <5>2. e[j] = s[j]
          BY <5>1, <2>2
        <5>3. /\ j >= 1
              /\ Len(f) - Len(s) - 1 + j >= 1 => f[Len(f) - Len(s) - 1 + j] = s[j]
          BY <5>1, <2>3
        <5> QED BY <5>1, <5>2, <5>3
      <4> QED BY <4>1, <4>2
    <3> QED BY <3>1, <3>2, <3>3, <2>2, <2>3 DEF Latest, f
  <2>5. CASE Len(s) = CacheSize
    <3>1. put(s, k) = Tail(e)
      BY <2>2, <2>5, <1>t DEF put, e
    <3>2. /\ Tail(e) \in Seq(Keys) /\ Len(Tail(e)) = Len(s)
          /\ \A j \in 1 .. Len(s) : Tail(e)[j] = e[j + 1]
      BY <2>2, <2>5, <1>t
    <3>3. Len(f) >= CacheSize /\ Len(f) - Len(s) \in Nat
      BY <2>3, <2>5, <1>t, <1>m
    <3>4. \A j \in 1 .. Len(s) : e[j + 1] = f[Len(f) - Len(s) + j]
      <4> SUFFICES ASSUME NEW j \in 1 .. Len(s) PROVE e[j + 1] = f[Len(f) - Len(s) + j]
        OBVIOUS
      <4>1. CASE j = Len(s)
        <5>1. Len(f) - Len(s) + j = Len(f)
          BY <4>1, <1>t, <2>3
        <5> QED BY <4>1, <5>1, <2>2, <2>3
      <4>2. CASE j # Len(s)
        <5>1. /\ j + 1 \in 1 .. Len(s)
              /\ Len(f) - Len(s) - 1 + (j + 1) = Len(f) - Len(s) + j
              /\ Len(f) - Len(s) + j >= 1
          BY <4>2, <1>t, <3>3, <2>3
        <5>2. e[j + 1] = s[j + 1]
          BY <5>1, <2>2
        <5>3. /\ Len(f) - Len(s) - 1 + (j + 1) >= 1
              /\ f[Len(f) - Len(s) - 1 + (j + 1)] = s[j + 1]
          BY <5>1, <2>3
        <5> QED BY <5>1, <5>2, <5>3
      <4> QED BY <4>1, <4>2
    <3> HIDE DEF e
    <3>5. \A j \in 1 .. Len(Tail(e)) : Tail(e)[j] = f[Len(f) - Len(Tail(e)) + j]
      BY <3>2, <3>4
    <3> QED BY <3>1, <3>2, <3>3, <3>5, <2>3, <2>5 DEF Latest, f
  <2> QED BY <2>4, <2>5, <1>t
<1> QED
  BY <1>1, <1>2

-----------------------------------------------------------------------------
LEMMA Sizes ==
    /\ front \notin Backends /\ front \in Agents /\ Backends \subseteq Agents
    /\ Backends \subseteq Int /\ 1 \in Backends
  BY DEF front, Agents, Backends

Phases == {"enter", "look", "hit", "post", "put", "putOdd", "count", "absorb", "absorbHits"}

(* A step of a thread leaves it in the same call, or takes it on to the     *)
(* next backend, or out of the call.                                        *)
framed(t) ==
    /\ frame'[t] \in Frames
    /\ frame'[t].called = frame[t].called /\ frame'[t].backend = frame[t].backend
    /\ frame'[t].key = frame[t].key /\ frame'[t].caching = frame[t].caching
    /\ frame'[t].usage = frame[t].usage /\ frame'[t].hits = frame[t].hits
only(t) == frame' = [frame EXCEPT ![t] = frame'[t]]
toNext(t) ==
    /\ frame'[t] \in Frames /\ frame'[t].phase = "enter"
    /\ frame'[t].called = frame[t].called /\ forFront(t)

LEMMA InFrameOf ==
    ASSUME TypeOK PROVE \A t \in Threads : ~at(t, "idle") => frame[t] \in Frames
  BY DEF TypeOK, at, idle

LEMMA Goes ==
    ASSUME TypeOK, NEW t \in Threads, ~at(t, "idle"), NEW p \in Phases, goto(t, p)
    PROVE  only(t) /\ framed(t) /\ frame'[t].phase = p
<1>1. frame[t] \in Frames /\ frame \in [Threads -> Frames \cup {idle}]
  BY DEF TypeOK, at, idle
<1>2. frame'[t] = [frame[t] EXCEPT !.phase = p]
  BY <1>1 DEF goto
<1>3. [frame[t] EXCEPT !.phase = p] \in Frames
  BY <1>1 DEF Frames, Phases
<1>4. only(t)
  BY <1>1, <1>2 DEF goto, only
<1> QED
  BY <1>1, <1>2, <1>3, <1>4 DEF framed, Frames

LEMMA Leaves ==
    ASSUME TypeOK, NEW t \in Threads, leave(t)
    PROVE  only(t) /\ frame'[t] = idle
<1>1. DOMAIN frame = Threads
  BY DEF TypeOK
<1> QED
  BY <1>1 DEF leave, only

LEMMA Raises ==
    ASSUME TypeOK, NEW t \in Threads, ~at(t, "idle"), raises(t)
    PROVE  only(t) /\ (frame'[t] = idle \/ toNext(t))
<1>1. frame[t] \in Frames /\ frame \in [Threads -> Frames \cup {idle}]
  BY DEF TypeOK, at, idle
<1>2. CASE forFront(t) /\ frame[t].backend < N
  <2>1. frame[t].backend + 1 \in Backends
    BY <1>1, <1>2 DEF Frames, Backends
  <2>2. frame'[t] = [frame[t] EXCEPT !.phase = "enter", !.backend = frame[t].backend + 1]
    BY <1>1, <1>2 DEF raises
  <2>3. [frame[t] EXCEPT !.phase = "enter", !.backend = frame[t].backend + 1] \in Frames
    BY <1>1, <2>1 DEF Frames
  <2>4. only(t)
    BY <1>1, <1>2, <2>2 DEF raises, only
  <2> QED BY <1>1, <1>2, <2>2, <2>3, <2>4 DEF toNext, Frames
<1>3. CASE ~(forFront(t) /\ frame[t].backend < N)
  BY <1>3, Leaves DEF raises
<1> QED
  BY <1>2, <1>3

LEMMA Succeeds ==
    ASSUME TypeOK, NEW t \in Threads, ~at(t, "idle"), succeeds(t)
    PROVE  /\ only(t)
           /\ \/ forFront(t) /\ framed(t) /\ frame'[t].phase = "absorb"
              \/ ~forFront(t) /\ frame'[t] = idle
<1>1. "absorb" \in Phases
  BY DEF Phases
<1> QED
  BY <1>1, Goes, Leaves DEF succeeds

LEMMA Retried ==
    ASSUME TypeOK, NEW t \in Threads, ~at(t, "idle"), retry(t)
    PROVE  only(t) /\ framed(t) /\ frame'[t].phase = frame[t].phase
<1>1. frame[t] \in Frames /\ frame \in [Threads -> Frames \cup {idle}]
  BY DEF TypeOK, at, idle
<1>2. frame'[t] = [frame[t] EXCEPT !.attempt = frame[t].attempt + 1]
  BY <1>1 DEF retry
<1>3. [frame[t] EXCEPT !.attempt = frame[t].attempt + 1] \in Frames
  BY <1>1 DEF Frames
<1>4. only(t)
  BY <1>1, <1>2 DEF retry, only
<1> QED
  BY <1>1, <1>2, <1>3, <1>4 DEF framed, Frames

LEMMA Enters ==
    ASSUME TypeOK, NEW t \in Threads, Enter(t)
    PROVE  LET b == frame[t].backend IN
           /\ only(t) /\ frame[t] \in Frames /\ frame'[t] \in Frames
           /\ frame'[t].phase \in {"look", "post"}
           /\ frame'[t].phase = "look" => hasCache[b]
           /\ frame'[t].called = frame[t].called /\ frame'[t].backend = b
           /\ frame'[t].caching = hasCache[b]
           /\ forFront(t) => frame'[t].usage = usage[b] /\ frame'[t].hits = hits[b]
           /\ frame'[t].usage <= usage[b]
<1> DEFINE b == frame[t].backend
<1>1. /\ frame[t] \in Frames /\ frame \in [Threads -> Frames \cup {idle}]
      /\ hits \in [Agents -> Int] /\ usage \in [Agents -> Nat]
      /\ hasCache \in [Backends -> BOOLEAN]
  BY DEF TypeOK, at, idle, Enter
<1>2. b \in Backends /\ b \in Agents
  BY <1>1, Sizes DEF Frames
<1> DEFINE u == IF forFront(t) THEN usage[b] ELSE 0
           h == IF forFront(t) THEN hits[b] ELSE 0
           p == IF hasCache[b] THEN "look" ELSE "post"
           f == [frame[t] EXCEPT !.phase = p, !.caching = hasCache[b], !.attempt = 0,
                                 !.usage = u, !.hits = h]
<1>3. u \in Nat /\ h \in Int /\ hasCache[b] \in BOOLEAN /\ p \in {"look", "post"}
      /\ u <= usage[b] /\ (p = "look" => hasCache[b])
      /\ (forFront(t) => u = usage[b] /\ h = hits[b])
  BY <1>1, <1>2
<1>4. frame' = [frame EXCEPT ![t] = f]
  BY DEF Enter, entered
<1> HIDE DEF u, h, p
<1>5. f \in Frames /\ f.phase = p /\ f.caching = hasCache[b] /\ f.usage = u /\ f.hits = h
      /\ f.called = frame[t].called /\ f.backend = b
  BY <1>1, <1>3 DEF Frames
<1> HIDE DEF f
<1>6. frame'[t] = f /\ only(t)
  BY <1>1, <1>4 DEF only
<1> QED
  BY <1>1, <1>3, <1>5, <1>6

(* Every step of a call, in these terms                                     *)
LEMMA CallMoves ==
    ASSUME TypeOK, NEW t \in Threads, Handle(t)
    PROVE  /\ only(t) /\ frame[t] \in Frames /\ ~at(t, "idle")
           /\ Enter(t) \/ framed(t) \/ toNext(t) \/ frame'[t] = idle
           /\ frame'[t] \in Frames \cup {idle}
<1>0. ~at(t, "idle")
  BY DEF Handle, Enter, Look, CountHit, Post, Put, CountUsage, Absorb, AbsorbHits, at
<1>1. frame[t] \in Frames
  BY <1>0 DEF TypeOK, at, idle
<1>p. {"hit", "post", "put", "putOdd", "count", "absorbHits"} \subseteq Phases
  BY DEF Phases
<1>2. CASE Enter(t)
  BY <1>0, <1>1, <1>2, Enters
<1>3. CASE Look(t)
  <2>1. goto(t, "hit") \/ goto(t, "post")
    BY <1>3 DEF Look
  <2>2. only(t) /\ framed(t)
    BY <1>0, <1>p, <2>1, Goes
  <2> QED BY <1>0, <1>1, <2>2 DEF framed
<1>4. CASE CountHit(t) \/ CountUsage(t)
  <2>1. succeeds(t)
    BY <1>4 DEF CountHit, CountUsage
  <2> QED BY <1>0, <1>1, <2>1, Succeeds DEF framed
<1>5. CASE Post(t)
  <2>1. goto(t, "put") \/ goto(t, "putOdd") \/ retry(t) \/ raises(t)
    BY <1>5 DEF Post
  <2>2. only(t) /\ (framed(t) \/ toNext(t) \/ frame'[t] = idle)
    BY <1>0, <1>p, <2>1, Goes, Retried, Raises
  <2> QED BY <1>0, <1>1, <2>2 DEF framed, toNext
<1>6. CASE Put(t)
  <2>1. raises(t) \/ goto(t, "count")
    BY <1>6 DEF Put
  <2>2. only(t) /\ (framed(t) \/ toNext(t) \/ frame'[t] = idle)
    BY <1>0, <1>p, <2>1, Goes, Raises
  <2> QED BY <1>0, <1>1, <2>2 DEF framed, toNext
<1>7. CASE Absorb(t)
  <2> DEFINE f == [frame[t] EXCEPT !.phase = "absorbHits", !.hitsRead = hits[front]]
  <2>1. frame' = [frame EXCEPT ![t] = f] /\ hits[front] \in Int
    BY <1>7, Sizes DEF Absorb, TypeOK
  <2>2. f \in Frames /\ f.called = frame[t].called /\ f.backend = frame[t].backend
        /\ f.key = frame[t].key /\ f.caching = frame[t].caching
        /\ f.usage = frame[t].usage /\ f.hits = frame[t].hits
    BY <1>1, <2>1 DEF Frames
  <2> HIDE DEF f
  <2>3. frame'[t] = f /\ only(t)
    BY <2>1 DEF only, TypeOK
  <2> QED BY <1>0, <1>1, <2>2, <2>3 DEF framed
<1>8. CASE AbsorbHits(t)
  <2>1. leave(t)
    BY <1>8 DEF AbsorbHits
  <2> QED BY <1>0, <1>1, <2>1, Leaves
<1> QED
  BY <1>2, <1>3, <1>4, <1>5, <1>6, <1>7, <1>8 DEF Handle

LEMMA Begins ==
    ASSUME TypeOK, NEW t \in Threads, Begin(t)
    PROVE  only(t) /\ frame'[t] \in Frames /\ frame'[t].phase = "enter"
<1>1. PICK a \in {front} \cup Registered, k \in Keys :
          frame' = [frame EXCEPT ![t] =
              [phase |-> "enter", called |-> a, backend |-> IF a = front THEN 1 ELSE a,
               key |-> k, caching |-> FALSE, attempt |-> 0, usage |-> 0, hits |-> 0,
               hitsRead |-> 0]]
  BY DEF Begin
<1> DEFINE f == [phase |-> "enter", called |-> a, backend |-> IF a = front THEN 1 ELSE a,
                 key |-> k, caching |-> FALSE, attempt |-> 0, usage |-> 0, hits |-> 0,
                 hitsRead |-> 0]
<1>2. a \in Agents /\ (IF a = front THEN 1 ELSE a) \in Backends
  BY Sizes
<1>3. f \in Frames /\ f.phase = "enter"
  BY <1>2 DEF Frames
<1> HIDE DEF f
<1>4. frame'[t] = f /\ only(t)
  BY <1>1 DEF f, only, TypeOK
<1> QED
  BY <1>3, <1>4

-----------------------------------------------------------------------------
LEMMA InitInv == Init => IInv
<1> SUFFICES ASSUME Init PROVE IInv
  OBVIOUS
<1> USE DEF Init
<1>1. TypeOK
  BY DEF TypeOK
<1>2. \A t \in Threads : at(t, "idle")
  BY DEF at, idle
<1>3. CacheInv
  <2>1. Latest(<<>>, <<>>)
    BY DEF Latest, Distinct
  <2> QED BY <1>2, <2>1 DEF CacheInv, inCall, at, idle
<1>4. CountInv
  <2>1. toAbsorb = {}
    BY <1>2 DEF toAbsorb, at, idle
  <2> QED BY <1>2, <2>1, Sizes, FS_EmptySet DEF CountInv, inCall, at, idle
<1>5. ExactInv
  BY <1>2, Sizes DEF ExactInv
<1> QED
  BY <1>1, <1>3, <1>4, <1>5 DEF IInv

LEMMA ProviderTypeStep == IInv /\ [Next]_vars => TypeOK'
<1> SUFFICES ASSUME IInv, [Next]_vars PROVE TypeOK'
  OBVIOUS
<1> USE DEF caches, counters, limits, ghosts
<1>t. /\ TypeOK /\ CountInv
      /\ cache \in [Backends -> BOOLEAN] /\ hasCache \in [Backends -> BOOLEAN]
      /\ usage \in [Agents -> Nat] /\ hits \in [Agents -> Int]
      /\ frame \in [Threads -> Frames \cup {idle}]
  BY DEF IInv, TypeOK
<1>1. ASSUME NEW t \in Threads, Begin(t) PROVE TypeOK'
  <2>1. frame' \in [Threads -> Frames \cup {idle}]
    BY <1>t, <1>1, Begins DEF only
  <2> QED BY <1>t, <1>1, <2>1 DEF Begin, TypeOK
<1>2. ASSUME NEW t \in Threads, Handle(t) PROVE TypeOK'
  <2>1. /\ frame' \in [Threads -> Frames \cup {idle}] /\ frame[t] \in Frames
        /\ frame[t].backend \in Agents /\ frame[t].usage \in Nat /\ frame[t].hits \in Int
        /\ frame[t].hitsRead \in Int
    BY <1>t, <1>2, CallMoves, Sizes DEF only, Frames
  <2>2. UNCHANGED <<cache, hasCache>>
    BY <1>2 DEF Handle, Enter, Look, CountHit, Post, Put, CountUsage, Absorb, AbsorbHits
  <2>3. usage' \in [Agents -> Nat]
    <3>1. CASE CountUsage(t)
      BY <1>t, <2>1, <3>1 DEF CountUsage
    <3>2. CASE Absorb(t)
      <4>1. usage[frame[t].backend] - frame[t].usage \in Nat
        BY <1>t, <2>1, <3>2 DEF CountInv, Absorb, inCall, at
      <4>2. usage' = [usage EXCEPT ![front] =
                         @ + (usage[frame[t].backend] - frame[t].usage)]
        BY <1>t, <2>1, <3>2, Sizes DEF Absorb
      <4> QED BY <1>t, <4>1, <4>2, Sizes
    <3> QED BY <1>t, <1>2, <3>1, <3>2
            DEF Handle, Enter, Look, CountHit, Post, Put, AbsorbHits
  <2>4. hits' \in [Agents -> Int]
    <3>1. CASE CountHit(t)
      BY <1>t, <2>1, <3>1 DEF CountHit
    <3>2. CASE AbsorbHits(t)
      <4>1. frame[t].hitsRead + hits[frame[t].backend] - frame[t].hits \in Int
        BY <1>t, <2>1
      <4>2. hits' = [hits EXCEPT ![front] =
                        frame[t].hitsRead + hits[frame[t].backend] - frame[t].hits]
        BY <3>2 DEF AbsorbHits
      <4> QED BY <1>t, <4>1, <4>2
    <3> QED BY <1>t, <1>2, <3>1, <3>2
            DEF Handle, Enter, Look, CountUsage, Post, Put, Absorb
  <2> QED BY <1>t, <2>1, <2>2, <2>3, <2>4 DEF TypeOK
<1>3. CASE ApplyCache
  <2>1. PICK enabled \in BOOLEAN :
          /\ cache' = [b \in Backends |-> IF b \in Registered THEN enabled ELSE cache[b]]
          /\ hasCache' = [b \in Backends |-> hasCache[b] \/ (b \in Registered /\ enabled)]
    BY <1>3 DEF ApplyCache
  <2>2. cache' \in [Backends -> BOOLEAN] /\ hasCache' \in [Backends -> BOOLEAN]
    BY <1>t, <2>1
  <2> QED BY <1>t, <1>3, <2>2 DEF ApplyCache, TypeOK
<1>4. CASE UNCHANGED vars
  BY <1>t, <1>4 DEF vars, TypeOK
<1> QED
  BY <1>1, <1>2, <1>3, <1>4 DEF Next, Over

(* The caches                                                               *)
LEMMA CacheStep == IInv /\ [Next]_vars => CacheInv'
<1> SUFFICES ASSUME IInv, [Next]_vars PROVE CacheInv'
  OBVIOUS
<1> USE DEF caches, counters, limits, ghosts
<1>t. /\ TypeOK /\ CacheInv
      /\ hasCache \in [Backends -> BOOLEAN]
      /\ frame \in [Threads -> Frames \cup {idle}]
  BY DEF IInv, TypeOK
<1> DEFINE Stored == cached \in [Backends -> Seq(Keys)] /\ recent \in [Backends -> Seq(Keys)]
<1>s. Stored
  BY <1>t DEF CacheInv
<1> DEFINE Kept(b) == Latest(cached[b], recent[b]) /\ (~hasCache[b] => recent[b] = <<>>)
           Had(t) == /\ at(t, "look") \/ at(t, "hit") => hasCache[frame[t].backend]
                     /\ inCall(t) /\ frame[t].caching => hasCache[frame[t].backend]
<1>d. Stored' /\ (\A b \in Backends : Kept(b)') /\ (\A t \in Threads : Had(t)') => CacheInv'
  BY DEF CacheInv
<1>e. (\A b \in Backends : Kept(b)) /\ (\A t \in Threads : Had(t))
  BY <1>t DEF CacheInv
<1>u. UNCHANGED <<cached, recent, hasCache>> => Stored' /\ \A b \in Backends : Kept(b)'
  BY <1>e, <1>s
<1>1. ASSUME NEW t \in Threads, Begin(t) PROVE CacheInv'
  <2>1. UNCHANGED <<cached, recent, hasCache>>
    BY <1>1 DEF Begin
  <2>2. only(t) /\ frame'[t].phase = "enter"
    BY <1>1, <1>t, Begins
  <2>3. \A u \in Threads : Had(u)'
    <3> SUFFICES ASSUME NEW u \in Threads PROVE Had(u)'
      OBVIOUS
    <3>1. CASE u = t
      BY <2>2, <3>1 DEF inCall, at
    <3>2. CASE u # t
      <4>1. frame'[u] = frame[u]
        BY <2>2, <3>2, <1>t DEF only
      <4>2. Had(u)
        BY <1>e
      <4> QED BY <2>1, <4>1, <4>2 DEF inCall, at
    <3> QED BY <3>1, <3>2
  <2> QED BY <2>1, <2>3, <1>d, <1>u
<1>2. ASSUME NEW t \in Threads, Handle(t) PROVE CacheInv'
  <2>h. UNCHANGED hasCache
    BY <1>2 DEF Handle, Enter, Look, CountHit, Post, Put, CountUsage, Absorb, AbsorbHits
  <2>m. /\ only(t) /\ frame[t] \in Frames
        /\ Enter(t) \/ framed(t) \/ toNext(t) \/ frame'[t] = idle
        /\ frame[t].backend \in Backends /\ frame[t].key \in Keys
    BY <1>2, <1>t, CallMoves DEF Frames
  <2>k. Stored' /\ \A b \in Backends : Kept(b)'
    <3> DEFINE b == frame[t].backend
               k == frame[t].key
    <3>1. CASE Look(t) /\ k \in Range(cached[b])
      <4>1. /\ hasCache[b] /\ Latest(cached[b], recent[b])
            /\ cached' = [cached EXCEPT ![b] = get(@, k)]
            /\ recent' = [recent EXCEPT ![b] = toEnd(@, k)]
        BY <3>1, <1>e, <2>m DEF Look, use
      <4>2. Latest(get(cached[b], k), toEnd(recent[b], k))
        BY <3>1, <4>1, LatestGot
      <4>3. ASSUME NEW c \in Backends PROVE Kept(c)'
        <5>0. Kept(c)
          BY <1>e
        <5>1. CASE c = b
          <6>1. Latest(cached'[b], recent'[b])
            BY <4>1, <4>2, <2>m, <1>s
          <6> QED BY <5>1, <6>1, <4>1, <2>h
        <5>2. CASE c # b
          <6>1. cached'[c] = cached[c] /\ recent'[c] = recent[c]
            BY <4>1, <5>2
          <6> QED BY <5>0, <6>1, <2>h
        <5> QED BY <5>1, <5>2
      <4>4. Stored'
        BY <4>1, <4>2, <1>s DEF Latest
      <4> QED BY <4>3, <4>4
    <3>2. CASE Put(t) /\ frame[t].caching
      <4>1. inCall(t)
        BY <3>2 DEF Put, inCall, at
      <4>2. /\ hasCache[b] /\ Latest(cached[b], recent[b])
            /\ cached' = [cached EXCEPT ![b] = put(@, k)]
            /\ recent' = [recent EXCEPT ![b] = toEnd(@, k)]
        BY <3>2, <4>1, <1>e, <2>m DEF Put, use
      <4>3. Latest(put(cached[b], k), toEnd(recent[b], k))
        BY <2>m, <4>2, LatestPut
      <4>4. ASSUME NEW c \in Backends PROVE Kept(c)'
        <5>0. Kept(c)
          BY <1>e
        <5>1. CASE c = b
          <6>1. Latest(cached'[b], recent'[b])
            BY <4>2, <4>3, <2>m, <1>s
          <6> QED BY <5>1, <6>1, <4>2, <2>h
        <5>2. CASE c # b
          <6>1. cached'[c] = cached[c] /\ recent'[c] = recent[c]
            BY <4>2, <5>2
          <6> QED BY <5>0, <6>1, <2>h
        <5> QED BY <5>1, <5>2
      <4>5. Stored'
        BY <4>2, <4>3, <1>s DEF Latest
      <4> QED BY <4>4, <4>5
    <3>3. CASE ~(Look(t) /\ k \in Range(cached[b])) /\ ~(Put(t) /\ frame[t].caching)
      <4>1. UNCHANGED <<cached, recent>>
        BY <3>3, <1>2
           DEF Handle, Enter, Look, CountHit, Post, Put, CountUsage, Absorb, AbsorbHits
      <4> QED BY <4>1, <2>h, <1>u
    <3> QED BY <3>1, <3>2, <3>3
  <2>f. \A u \in Threads : Had(u)'
    <3> SUFFICES ASSUME NEW u \in Threads PROVE Had(u)'
      OBVIOUS
    <3>0. Had(u)
      BY <1>e
    <3>1. CASE u # t
      <4>1. frame'[u] = frame[u]
        BY <2>m, <3>1, <1>t DEF only
      <4> QED BY <2>h, <3>0, <4>1 DEF inCall, at
    <3>2. CASE u = t /\ Enter(t)
      BY <3>2, <2>h, <1>t, Enters DEF inCall, at
    <3>3. CASE u = t /\ (toNext(t) \/ frame'[t] = idle)
      BY <3>3 DEF toNext, inCall, at, idle
    <3>4. CASE u = t /\ framed(t) /\ ~Enter(t)
      <4>1. inCall(t)
        BY <1>2, <3>4
           DEF Handle, Look, CountHit, Post, Put, CountUsage, Absorb, AbsorbHits, inCall, at
      <4>2. at(t, "look")' \/ at(t, "hit")' => hasCache[frame[t].backend]
        <5> SUFFICES ASSUME at(t, "look")' \/ at(t, "hit")'
                     PROVE  hasCache[frame[t].backend]
          OBVIOUS
        <5>p. {"hit", "post", "put", "putOdd", "count", "absorbHits"} \subseteq Phases
          BY DEF Phases
        <5>n. ~at(t, "idle")
          BY <4>1 DEF inCall
        <5>i. frame'[t] # idle
          BY DEF at, idle
        <5>1. CASE Look(t)
          BY <5>1, <3>0, <3>4 DEF Look
        <5>2. CASE CountHit(t) \/ CountUsage(t)
          <6>1. frame'[t].phase = "absorb"
            BY <5>2, <5>n, <5>i, <1>t, Succeeds DEF CountHit, CountUsage
          <6> QED BY <6>1 DEF at
        <5>3. CASE Post(t)
          <6>1. /\ frame[t].phase = "post"
                /\ goto(t, "put") \/ goto(t, "putOdd") \/ retry(t) \/ raises(t)
            BY <5>3 DEF Post, at
          <6>2. frame'[t].phase \in {"put", "putOdd", "post", "enter"}
            BY <6>1, <5>n, <5>i, <5>p, <1>t, Goes, Retried, Raises DEF toNext
          <6> QED BY <6>2 DEF at
        <5>4. CASE Put(t)
          <6>1. raises(t) \/ goto(t, "count")
            BY <5>4 DEF Put
          <6>2. frame'[t].phase \in {"count", "enter"}
            BY <6>1, <5>n, <5>i, <5>p, <1>t, Goes, Raises DEF toNext
          <6> QED BY <6>2 DEF at
        <5>5. CASE Absorb(t)
          <6>1. frame'[t].phase = "absorbHits"
            BY <5>5, <1>t, <2>m DEF Absorb, Frames
          <6> QED BY <6>1 DEF at
        <5>6. CASE AbsorbHits(t)
          BY <5>6, <5>i, <1>t, Leaves DEF AbsorbHits
        <5> QED BY <1>2, <3>4, <5>1, <5>2, <5>3, <5>4, <5>5, <5>6 DEF Handle
      <4> QED BY <2>h, <3>0, <3>4, <4>1, <4>2 DEF framed
    <3> QED BY <2>m, <3>1, <3>2, <3>3, <3>4
  <2> QED BY <2>k, <2>f, <1>d
<1>3. CASE ApplyCache
  <2>1. UNCHANGED <<cached, recent, frame>> /\ \A b \in Backends : hasCache[b] => hasCache'[b]
    BY <1>3 DEF ApplyCache
  <2>2. \A t \in Threads : frame[t] # idle => frame[t].backend \in Backends
    BY <1>t DEF Frames
  <2>3. \A t \in Threads : Had(t)'
    <3> SUFFICES ASSUME NEW t \in Threads PROVE Had(t)'
      OBVIOUS
    <3>1. Had(t)
      BY <1>e
    <3>2. CASE frame[t] = idle
      BY <2>1, <3>2 DEF inCall, at, idle
    <3>3. CASE frame[t] # idle
      BY <2>1, <2>2, <3>1, <3>3 DEF inCall, at
    <3> QED BY <3>2, <3>3
  <2>4. Stored' /\ \A b \in Backends : Kept(b)'
    BY <2>1, <1>e, <1>s
  <2> QED BY <2>3, <2>4, <1>d
<1>4. CASE UNCHANGED vars
  <2>1. UNCHANGED <<frame, cached, recent, hasCache>>
    BY <1>4 DEF vars
  <2>2. \A t \in Threads : Had(t)'
    BY <2>1, <1>e DEF inCall, at
  <2> QED BY <2>1, <2>2, <1>d, <1>u
<1> QED
  BY <1>1, <1>2, <1>3, <1>4 DEF Next, Over

(* The fallback agent's usage, whatever overlaps                            *)
LEMMA CountStep == IInv /\ [Next]_vars => CountInv'
<1> SUFFICES ASSUME IInv, [Next]_vars PROVE CountInv'
  OBVIOUS
<1> USE DEF caches, counters, limits, ghosts
<1>t. /\ TypeOK /\ CountInv
      /\ usage \in [Agents -> Nat] /\ frame \in [Threads -> Frames \cup {idle}]
      /\ spent \in [usage : Nat, hits : Nat]
  BY DEF IInv, TypeOK, CountInv
<1>i. \A f \in Frames : /\ f.phase # "idle" /\ f # idle /\ f.backend \in Backends
                        /\ f.backend \in Agents /\ f.backend # front /\ f.usage \in Nat
  <2> SUFFICES ASSUME NEW f \in Frames
               PROVE  /\ f.phase # "idle" /\ f # idle /\ f.backend \in Backends
                      /\ f.backend \in Agents /\ f.backend # front /\ f.usage \in Nat
    OBVIOUS
  <2>1. f.phase # "idle" /\ f.backend \in Backends /\ f.usage \in Nat
    BY DEF Frames
  <2>2. idle.phase = "idle"
    BY DEF idle
  <2> QED BY <2>1, <2>2, Sizes
<1>j. \A t \in Threads : ~at(t, "idle") => frame[t] \in Frames
  BY <1>t, InFrameOf
<1> DEFINE Noted(t) == /\ inCall(t) => frame[t].usage <= usage[frame[t].backend]
                       /\ at(t, "absorb") \/ at(t, "absorbHits") => forFront(t)
<1>e. \A t \in Threads : Noted(t)
  BY <1>t DEF CountInv
<1>f. /\ IsFiniteSet(toAbsorb) /\ Cardinality(toAbsorb) \in Nat
      /\ IsFiniteSet(toAbsorb') /\ Cardinality(toAbsorb') \in Nat
  <2>1. toAbsorb \subseteq Threads /\ toAbsorb' \subseteq Threads
    BY DEF toAbsorb
  <2> QED BY <2>1, FS_Subset, FS_CardinalityType
<1>b. spent.usage <= usage[front] + Cardinality(toAbsorb)
  BY <1>t DEF CountInv
<1>g. ASSUME toAbsorb \subseteq toAbsorb', spent' \in [usage : Nat, hits : Nat],
             spent'.usage = spent.usage, usage'[front] = usage[front],
             \A t \in Threads : Noted(t)'
      PROVE  CountInv'
  <2>1. Cardinality(toAbsorb) <= Cardinality(toAbsorb')
    BY <1>f, <1>g, FS_Subset
  <2>2. spent'.usage <= usage'[front] + Cardinality(toAbsorb)'
    BY <1>b, <1>f, <1>g, <1>t, <2>1, Sizes
  <2> QED BY <1>g, <2>2 DEF CountInv
<1>1. ASSUME NEW t \in Threads, Begin(t) PROVE CountInv'
  <2>1. UNCHANGED <<usage, spent>> /\ at(t, "idle")
    BY <1>1 DEF Begin
  <2>2. only(t) /\ frame'[t] \in Frames /\ frame'[t].phase = "enter"
    BY <1>1, <1>t, Begins
  <2>3. \A u \in Threads : u # t => frame'[u] = frame[u]
    BY <2>2, <1>t DEF only
  <2>4. \A u \in Threads : Noted(u)'
    BY <2>1, <2>2, <2>3, <1>e DEF inCall, at, forFront
  <2>5. toAbsorb \subseteq toAbsorb'
    BY <2>1, <2>2, <2>3 DEF toAbsorb, at
  <2> QED BY <2>1, <2>4, <2>5, <1>g, <1>t
<1>2. ASSUME NEW t \in Threads, Handle(t) PROVE CountInv'
  <2> DEFINE b == frame[t].backend
  <2>m. /\ only(t) /\ frame[t] \in Frames /\ ~at(t, "idle")
        /\ Enter(t) \/ framed(t) \/ toNext(t) \/ frame'[t] = idle
        /\ b \in Backends /\ b \in Agents /\ b # front /\ frame[t].usage \in Nat
    BY <1>2, <1>t, <1>i, CallMoves
  <2>o. \A u \in Threads : u # t => frame'[u] = frame[u]
    BY <2>m, <1>t DEF only
  <2>1. CASE Absorb(t)
    <3>1. /\ at(t, "absorb") /\ inCall(t) /\ UNCHANGED spent /\ forFront(t)
          /\ usage' = [usage EXCEPT ![front] = @ + usage[b] - frame[t].usage]
      BY <2>1, <1>e DEF Absorb, at, inCall
    <3>2. frame'[t].phase = "absorbHits" /\ frame'[t].called = frame[t].called
          /\ frame'[t].backend = b /\ frame'[t].usage = frame[t].usage
      BY <2>1, <2>m, <1>t DEF Absorb, Frames
    <3>3. frame[t].usage <= usage[b] /\ usage[b] \in Nat
      BY <3>1, <2>m, <1>e, <1>t
    <3>4. usage'[front] = usage[front] + (usage[b] - frame[t].usage)
          /\ \A a \in Backends : usage'[a] = usage[a]
      BY <3>1, <3>3, <2>m, <1>t, Sizes
    <3>5. \A u \in Threads : Noted(u)'
      <4> SUFFICES ASSUME NEW u \in Threads PROVE Noted(u)'
        OBVIOUS
      <4>1. CASE u = t
        BY <3>1, <3>2, <3>3, <3>4, <2>m, <4>1 DEF inCall, at, forFront
      <4>2. CASE u # t
        BY <2>o, <3>4, <4>2, <1>e, <1>i, <1>j DEF inCall, at, forFront
      <4> QED BY <4>1, <4>2
    <3>6. toAbsorb' = toAbsorb \ {t}
      <4>1. \A u \in Threads : u \in toAbsorb' <=> u \in toAbsorb /\ u # t
        BY <2>o, <3>2, <3>4, <1>i, <1>j DEF toAbsorb, at
      <4> QED BY <4>1 DEF toAbsorb
    <3>7. t \in toAbsorb => usage[b] - frame[t].usage >= 1
      BY <3>3, <2>m DEF toAbsorb
    <3>8. /\ t \in toAbsorb => Cardinality(toAbsorb') = Cardinality(toAbsorb) - 1
          /\ t \notin toAbsorb => Cardinality(toAbsorb') = Cardinality(toAbsorb)
      <4>1. CASE t \in toAbsorb
        BY <1>f, <3>6, <4>1, FS_RemoveElement
      <4>2. CASE t \notin toAbsorb
        <5>1. toAbsorb' = toAbsorb
          BY <3>6, <4>2
        <5> QED BY <4>2, <5>1
      <4> QED BY <4>1, <4>2
    <3>9. spent'.usage <= usage'[front] + Cardinality(toAbsorb')
      BY <1>b, <1>f, <1>t, <3>1, <3>3, <3>4, <3>7, <3>8, <2>m, Sizes
    <3> QED BY <1>t, <3>1, <3>5, <3>9 DEF CountInv
  <2>2. CASE CountUsage(t)
    <3>1. /\ at(t, "count") /\ inCall(t) /\ succeeds(t)
          /\ usage' = [usage EXCEPT ![b] = @ + 1]
          /\ spent' = IF forFront(t) THEN [spent EXCEPT !.usage = @ + 1] ELSE spent
      BY <2>2 DEF CountUsage, got, at, inCall
    <3>2. \/ forFront(t) /\ framed(t) /\ frame'[t].phase = "absorb"
          \/ ~forFront(t) /\ frame'[t] = idle
      BY <3>1, <2>m, <1>t, Succeeds
    <3>3. /\ usage'[front] = usage[front] /\ usage'[b] = usage[b] + 1
          /\ \A a \in Backends : usage'[a] >= usage[a]
          /\ \A a \in Backends : usage'[a] \in Nat /\ usage[a] \in Nat
      BY <3>1, <2>m, <1>t, Sizes
    <3>4. frame[t].usage <= usage[b]
      BY <3>1, <1>e
    <3>5. \A u \in Threads : Noted(u)'
      <4> SUFFICES ASSUME NEW u \in Threads PROVE Noted(u)'
        OBVIOUS
      <4>1. CASE u = t /\ frame'[t] = idle
        BY <4>1 DEF inCall, at, idle
      <4>2. CASE u = t /\ forFront(t) /\ framed(t)
        BY <4>2, <3>3, <3>4, <2>m DEF framed, forFront
      <4>3. CASE u # t
        <5>1. inCall(u) => frame[u] \in Frames /\ frame[u].usage <= usage[frame[u].backend]
          BY <1>e, <1>j DEF inCall
        <5>2. inCall(u) => frame[u].usage <= usage'[frame[u].backend]
          BY <5>1, <3>3, <1>i
        <5> QED BY <2>o, <5>2, <4>3, <1>e DEF inCall, at, forFront
      <4> QED BY <3>2, <4>1, <4>2, <4>3
    <3>6. t \notin toAbsorb
      BY <3>1 DEF toAbsorb, at
    <3>7. toAbsorb \subseteq toAbsorb'
      <4>1. ASSUME NEW u \in toAbsorb PROVE u \in toAbsorb'
        <5>1. u \in Threads /\ u # t /\ at(u, "absorb") /\ frame[u] \in Frames
              /\ frame[u].usage < usage[frame[u].backend]
          BY <4>1, <3>6, <1>j DEF toAbsorb, at
        <5>2. frame[u].usage < usage'[frame[u].backend]
          BY <5>1, <3>3, <1>i
        <5> QED BY <5>1, <5>2, <2>o DEF toAbsorb, at
      <4> QED BY <4>1
    <3>8. CASE forFront(t)
      <4>1. t \in toAbsorb'
        BY <3>2, <3>3, <3>4, <3>8, <2>m DEF framed, toAbsorb, at
      <4>2. Cardinality(toAbsorb \cup {t}) = Cardinality(toAbsorb) + 1
        BY <1>f, <3>6, FS_AddElement
      <4>3. Cardinality(toAbsorb \cup {t}) <= Cardinality(toAbsorb')
        BY <1>f, <3>7, <4>1, FS_Subset
      <4>4. spent' \in [usage : Nat, hits : Nat] /\ spent'.usage = spent.usage + 1
        BY <3>1, <3>8, <1>t
      <4>5. usage[front] \in Nat /\ spent.usage \in Nat
        BY <1>t, Sizes
      <4>6. spent'.usage <= usage'[front] + Cardinality(toAbsorb')
        BY <1>b, <1>f, <3>3, <4>2, <4>3, <4>4, <4>5
      <4> QED BY <3>5, <4>4, <4>6 DEF CountInv
    <3>9. CASE ~forFront(t)
      <4>1. spent' = spent
        BY <3>1, <3>9
      <4> QED BY <4>1, <3>3, <3>5, <3>7, <1>g, <1>t
    <3> QED BY <3>8, <3>9
  <2>3. CASE ~Absorb(t) /\ ~CountUsage(t)
    <3>1. UNCHANGED usage
      BY <1>2, <2>3 DEF Handle, Enter, Look, CountHit, Post, Put, AbsorbHits
    <3>2. spent' \in [usage : Nat, hits : Nat] /\ spent'.usage = spent.usage
      <4>1. UNCHANGED spent \/ spent' = [spent EXCEPT !.hits = @ + 1]
        BY <1>2, <2>3 DEF Handle, Enter, Look, CountHit, got, Post, Put, AbsorbHits
      <4> QED BY <4>1, <1>t
    <3>3. at(t, "absorb") => FALSE
      BY <1>2, <2>3 DEF Handle, Enter, Look, CountHit, Post, Put, AbsorbHits, at
    <3>4. toAbsorb \subseteq toAbsorb'
      BY <3>1, <3>3, <2>o DEF toAbsorb, at
    <3>5. \A u \in Threads : Noted(u)'
      <4> SUFFICES ASSUME NEW u \in Threads PROVE Noted(u)'
        OBVIOUS
      <4>1. CASE u # t
        BY <2>o, <3>1, <4>1, <1>e DEF inCall, at, forFront
      <4>2. CASE u = t /\ Enter(t)
        BY <3>1, <4>2, <1>t, Enters DEF inCall, at, forFront
      <4>3. CASE u = t /\ (toNext(t) \/ frame'[t] = idle)
        BY <4>3 DEF toNext, inCall, at, idle
      <4>4. CASE u = t /\ framed(t) /\ ~Enter(t)
        <5>1. inCall(t)
          BY <1>2, <2>3, <4>4 DEF Handle, Look, CountHit, Post, Put, AbsorbHits, inCall, at
        <5>2. inCall(t)' => frame'[t].usage <= usage'[frame'[t].backend]
          BY <5>1, <3>1, <4>4, <1>e DEF framed
        <5>3. at(t, "absorb")' \/ at(t, "absorbHits")' => forFront(t)
          <6>1. CASE CountHit(t)
            <7>1. succeeds(t)
              BY <6>1 DEF CountHit
            <7> QED BY <7>1, <2>m, <1>t, Succeeds DEF at, idle
          <6>p. {"hit", "post", "put", "putOdd", "count"} \subseteq Phases
            BY DEF Phases
          <6>2. CASE Look(t) \/ Post(t) \/ Put(t)
            <7>1. \/ \E p \in {"hit", "post", "put", "putOdd", "count"} : goto(t, p)
                  \/ at(t, "post") /\ retry(t)
                  \/ raises(t)
              BY <6>2 DEF Look, Post, Put
            <7>2. frame'[t].phase \in {"hit", "post", "put", "putOdd", "count", "enter", "idle"}
              BY <7>1, <6>p, <2>m, <1>t, Goes, Retried, Raises DEF toNext, at, idle
            <7> QED BY <7>2 DEF at
          <6>3. CASE AbsorbHits(t)
            BY <6>3, <1>t, Leaves DEF AbsorbHits, at, idle
          <6> QED BY <1>2, <2>3, <4>4, <6>1, <6>2, <6>3 DEF Handle
        <5> QED BY <4>4, <5>2, <5>3 DEF framed, forFront
      <4> QED BY <2>m, <4>1, <4>2, <4>3, <4>4
    <3> QED BY <3>1, <3>2, <3>4, <3>5, <1>g
  <2> QED BY <2>1, <2>2, <2>3
<1>3. CASE ApplyCache \/ UNCHANGED vars
  <2>1. UNCHANGED <<usage, spent, frame>>
    BY <1>3 DEF ApplyCache, vars
  <2>2. \A t \in Threads : Noted(t)'
    BY <2>1, <1>e DEF inCall, at, forFront
  <2>3. toAbsorb \subseteq toAbsorb'
    BY <2>1 DEF toAbsorb, at
  <2> QED BY <2>1, <2>2, <2>3, <1>g, <1>t
<1> QED
  BY <1>1, <1>2, <1>3 DEF Next, Over

(* The fallback agent's counters, with one call at a time                   *)
LEMMA ExactStep == IInv /\ [Next]_vars => ExactInv'
<1> SUFFICES ASSUME IInv, [Next]_vars, ~overlapped' PROVE ExactInv'
  BY DEF ExactInv
<1> USE DEF caches, counters, limits, ghosts
<1>t. /\ TypeOK
      /\ usage \in [Agents -> Nat] /\ hits \in [Agents -> Int]
      /\ frame \in [Threads -> Frames \cup {idle}]
      /\ spent \in [usage : Nat, hits : Nat]
  BY DEF IInv, TypeOK, CountInv
<1>o. ~overlapped
  BY DEF Next, Over, Begin, Handle, Enter, Look, CountHit, Post, Put, CountUsage, Absorb,
         AbsorbHits, ApplyCache, vars
<1>e. ExactInv
  BY DEF IInv
<1> DEFINE Lags(t) == /\ usage[front] + owedUsage(t) = spent.usage
                      /\ hits[front] + owedHits(t) = spent.hits
           Noted(t) == inCall(t) /\ forFront(t) /\ ~at(t, "absorb") /\ ~at(t, "absorbHits") =>
                          /\ frame[t].usage = usage[frame[t].backend]
                          /\ frame[t].hits = hits[frame[t].backend]
<1>k. \A t \in Threads : ~at(t, "idle") =>
          /\ frame[t] \in Frames /\ frame[t].backend \in Backends /\ frame[t].backend \in Agents
          /\ frame[t].backend # front /\ frame[t].usage \in Nat /\ frame[t].hits \in Int
          /\ frame[t].hitsRead \in Int
  BY <1>t, InFrameOf, Sizes DEF Frames
<1>a. \A t \in Threads : at(t, "idle") => owedUsage(t) = 0 /\ owedHits(t) = 0
  BY DEF owedUsage, owedHits, at
<1>n. usage[front] \in Nat /\ hits[front] \in Int /\ spent.usage \in Nat /\ spent.hits \in Nat
  BY <1>t, Sizes
<1>1. ASSUME NEW t \in Threads, Begin(t) PROVE ExactInv'
  <2>1. /\ UNCHANGED <<usage, hits, spent>> /\ at(t, "idle")
        /\ \A u \in Threads : u # t => at(u, "idle")
    BY <1>1 DEF Begin
  <2>2. usage[front] = spent.usage /\ hits[front] = spent.hits
    BY <2>1, <1>e, <1>o DEF ExactInv
  <2>3. only(t) /\ frame'[t].phase = "enter"
    BY <1>1, <1>t, Begins
  <2>4. \A u \in Threads : u # t => frame'[u] = frame[u]
    BY <2>3, <1>t DEF only
  <2>5. Lags(t)'
    BY <2>1, <2>2, <2>3, <1>n DEF owedUsage, owedHits, at
  <2>6. \A u \in Threads : u # t => at(u, "idle")'
    BY <2>1, <2>4 DEF at
  <2>7. ~inCall(t)' /\ ~at(t, "idle")'
    BY <2>3 DEF inCall, at
  <2> QED BY <2>5, <2>6, <2>7 DEF ExactInv
<1>2. ASSUME NEW t \in Threads, Handle(t) PROVE ExactInv'
  <2> DEFINE b == frame[t].backend
  <2>m. /\ only(t) /\ frame[t] \in Frames /\ ~at(t, "idle")
        /\ Enter(t) \/ framed(t) \/ toNext(t) \/ frame'[t] = idle
    BY <1>2, <1>t, CallMoves
  <2>f. /\ b \in Backends /\ b \in Agents /\ b # front /\ frame[t].usage \in Nat
        /\ frame[t].hits \in Int /\ frame[t].hitsRead \in Int
        /\ usage[b] \in Nat /\ hits[b] \in Int
    BY <2>m, <1>k, <1>t
  <2>o. \A u \in Threads : u # t => at(u, "idle") /\ frame'[u] = frame[u]
    BY <2>m, <1>t, <1>e, <1>o DEF only, ExactInv
  <2>l. Lags(t) /\ Noted(t)
    BY <2>m, <1>e, <1>o DEF ExactInv
  <2>q. ASSUME Lags(t)', Noted(t)' PROVE ExactInv'
    <3>1. \A u \in Threads : u # t => at(u, "idle")'
      BY <2>o DEF at
    <3>2. at(t, "idle")' => usage'[front] = spent'.usage /\ hits'[front] = spent'.hits
      <4>1. usage'[front] \in Nat /\ hits'[front] \in Int
        <5>1. TypeOK'
          BY ProviderTypeStep
        <5> QED BY <5>1, Sizes DEF TypeOK
      <4> QED BY <2>q, <4>1 DEF owedUsage, owedHits, at
    <3> QED BY <2>q, <3>1, <3>2 DEF ExactInv
  <2>p. {"hit", "post", "put", "putOdd", "count"} \subseteq Phases
    BY DEF Phases
  <2>1. CASE Enter(t)
    <3>1. UNCHANGED <<usage, hits, spent>> /\ at(t, "enter")
      BY <2>1 DEF Enter
    <3>2. /\ frame'[t].phase \in {"look", "post"} /\ frame'[t].called = frame[t].called
          /\ frame'[t].backend = b
          /\ forFront(t) => frame'[t].usage = usage[b] /\ frame'[t].hits = hits[b]
      BY <2>1, <1>t, Enters
    <3>3. Lags(t)'
      BY <3>1, <3>2, <2>l, <1>n DEF owedUsage, owedHits, at
    <3>4. Noted(t)'
      BY <3>1, <3>2 DEF forFront
    <3> QED BY <3>3, <3>4, <2>q
  <2>2. CASE Look(t) \/ Post(t) \/ Put(t)
    <3>1. UNCHANGED <<usage, hits, spent>> /\ inCall(t) /\ ~at(t, "absorb") /\ ~at(t, "absorbHits")
      BY <2>2 DEF Look, Post, Put, inCall, at
    <3>2. \/ \E p \in {"hit", "post", "put", "putOdd", "count"} : goto(t, p)
          \/ at(t, "post") /\ retry(t)
          \/ raises(t)
      BY <2>2 DEF Look, Post, Put
    <3>3. /\ frame'[t].phase \in {"hit", "post", "put", "putOdd", "count", "enter", "idle"}
          /\ framed(t) \/ toNext(t) \/ frame'[t] = idle
      BY <3>2, <2>p, <2>m, <1>t, Goes, Retried, Raises DEF toNext, at, idle
    <3>4. Lags(t)'
      BY <3>1, <3>3, <2>l, <1>n DEF owedUsage, owedHits, at
    <3>5. Noted(t)'
      BY <3>1, <3>3, <2>l DEF framed, toNext, forFront, inCall, at, idle
    <3> QED BY <3>4, <3>5, <2>q
  <2>3. CASE CountHit(t) \/ CountUsage(t)
    <3>1. succeeds(t) /\ inCall(t) /\ ~at(t, "absorb") /\ ~at(t, "absorbHits")
      BY <2>3 DEF CountHit, CountUsage, inCall, at
    <3>2. \/ forFront(t) /\ framed(t) /\ frame'[t].phase = "absorb"
          \/ ~forFront(t) /\ frame'[t] = idle
      BY <3>1, <2>m, <1>t, Succeeds
    <3>3. /\ usage'[front] = usage[front] /\ hits'[front] = hits[front]
          /\ usage'[b] \in Nat /\ hits'[b] \in Int
      <4>1. CASE CountHit(t)
        <5>1. hits' = [hits EXCEPT ![b] = hits[b] + 1] /\ usage' = usage
          BY <4>1 DEF CountHit
        <5> QED BY <5>1, <2>f, <1>t, <1>n, Sizes
      <4>2. CASE CountUsage(t)
        <5>1. usage' = [usage EXCEPT ![b] = usage[b] + 1] /\ hits' = hits
          BY <4>2 DEF CountUsage
        <5> QED BY <5>1, <2>f, <1>t, <1>n, Sizes
      <4> QED BY <2>3, <4>1, <4>2
    <3>4. usage[front] = spent.usage /\ hits[front] = spent.hits
      BY <3>1, <2>l, <1>n DEF owedUsage, owedHits
    <3>5. CASE ~forFront(t)
      <4>1. spent' = spent /\ frame'[t] = idle
        BY <2>3, <3>2, <3>5 DEF CountHit, CountUsage, got
      <4>2. Lags(t)'
        BY <4>1, <3>3, <3>4, <1>n DEF owedUsage, owedHits, at, idle
      <4>3. Noted(t)'
        BY <4>1 DEF inCall, at, idle
      <4> QED BY <4>2, <4>3, <2>q
    <3>6. CASE forFront(t)
      <4>1. /\ frame'[t].phase = "absorb" /\ frame'[t].usage = usage[b]
            /\ frame'[t].hits = hits[b] /\ frame'[t].backend = b
        BY <3>1, <3>2, <3>6, <2>l DEF framed
      <4>2. usage'[b] - usage[b] = spent'.usage - spent.usage
            /\ hits'[b] - hits[b] = spent'.hits - spent.hits
            /\ spent'.usage \in Nat /\ spent'.hits \in Nat
        <5>1. CASE CountHit(t)
          BY <5>1, <3>6, <2>f, <1>t DEF CountHit, got
        <5>2. CASE CountUsage(t)
          BY <5>2, <3>6, <2>f, <1>t DEF CountUsage, got
        <5> QED BY <2>3, <5>1, <5>2
      <4>3. owedUsage(t)' = usage'[b] - usage[b] /\ owedHits(t)' = hits'[b] - hits[b]
        BY <4>1 DEF owedUsage, owedHits, at
      <4>4. Lags(t)'
        BY <4>2, <4>3, <3>3, <3>4, <2>f, <1>n
      <4>5. Noted(t)'
        BY <4>1 DEF at
      <4> QED BY <4>4, <4>5, <2>q
    <3> QED BY <3>5, <3>6
  <2>4. CASE Absorb(t)
    <3>1. /\ at(t, "absorb") /\ UNCHANGED <<hits, spent>>
          /\ usage' = [usage EXCEPT ![front] = @ + usage[b] - frame[t].usage]
      BY <2>4 DEF Absorb
    <3>2. /\ frame'[t].phase = "absorbHits" /\ frame'[t].hitsRead = hits[front]
          /\ frame'[t].backend = b /\ frame'[t].hits = frame[t].hits
      BY <2>4, <2>m, <1>t DEF Absorb, Frames
    <3>3. usage'[front] = spent.usage
      BY <3>1, <2>l, <2>f, <1>t, <1>n, Sizes DEF owedUsage
    <3>4. owedUsage(t)' = 0 /\ owedHits(t)' = owedHits(t)
      <4>1. owedHits(t) = hits[b] - frame[t].hits
        BY <3>1 DEF owedHits
      <4>2. owedUsage(t)' = 0
        BY <3>2 DEF owedUsage, at
      <4>3. owedHits(t)' = hits[front] + hits[b] - frame[t].hits - hits[front]
        BY <3>1, <3>2 DEF owedHits, at
      <4> QED BY <4>1, <4>2, <4>3, <2>f, <1>n
    <3>5. Lags(t)'
      BY <3>1, <3>3, <3>4, <2>l, <1>n
    <3>6. Noted(t)'
      BY <3>2 DEF at
    <3> QED BY <3>5, <3>6, <2>q
  <2>5. CASE AbsorbHits(t)
    <3>1. /\ at(t, "absorbHits") /\ UNCHANGED <<usage, spent>> /\ leave(t)
          /\ hits' = [hits EXCEPT ![front] = frame[t].hitsRead + hits[b] - frame[t].hits]
      BY <2>5 DEF AbsorbHits
    <3>2. frame'[t] = idle
      BY <3>1, <1>t, Leaves
    <3>3. owedUsage(t) = 0 /\ owedHits(t) = frame[t].hitsRead + hits[b] - frame[t].hits - hits[front]
      BY <3>1 DEF owedUsage, owedHits, at
    <3>4. hits'[front] = spent.hits /\ usage'[front] = spent.usage
      BY <3>1, <3>3, <2>l, <2>f, <1>t, <1>n, Sizes
    <3>5. Lags(t)'
      BY <3>1, <3>2, <3>4, <1>n DEF owedUsage, owedHits, at, idle
    <3>6. Noted(t)'
      BY <3>2 DEF inCall, at, idle
    <3> QED BY <3>5, <3>6, <2>q
  <2> QED BY <1>2, <2>1, <2>2, <2>3, <2>4, <2>5 DEF Handle
<1>3. CASE ApplyCache \/ UNCHANGED vars
  <2>1. UNCHANGED <<usage, hits, spent, frame>>
    BY <1>3 DEF ApplyCache, vars
  <2> QED BY <2>1, <1>e, <1>o DEF ExactInv, owedUsage, owedHits, inCall, forFront, at
<1> QED
  BY <1>1, <1>2, <1>3 DEF Next, Over

-----------------------------------------------------------------------------
(* The inductive invariant of the agents.                                   *)
THEOREM Invariance == Spec => []IInv
<1>1. IInv /\ [Next]_vars => IInv'
  BY ProviderTypeStep, CacheStep, CountStep, ExactStep DEF IInv
<1> QED
  BY <1>1, InitInv, PTL DEF Spec

(* The fallback agent's counters are never short of the tokens its calls    *)
(* used, however the calls overlap, and exact, hits too, for calls made one *)
(* after another (_absorb_usage, agents.py:406-430).                        *)
THEOREM UsageIsAbsorbed == Spec => []AbsorbedRight
<1>1. IInv => AbsorbedRight
  <2> SUFFICES ASSUME IInv, \A t \in Threads : at(t, "idle")
               PROVE  /\ usage[front] >= spent.usage
                      /\ ~overlapped => usage[front] = spent.usage /\ hits[front] = spent.hits
    BY DEF AbsorbedRight
  <2>1. toAbsorb = {}
    BY DEF toAbsorb, at
  <2>2. Cardinality(toAbsorb) = 0
    BY <2>1, FS_EmptySet
  <2>3. spent.usage <= usage[front] + 0 /\ spent.usage \in Nat /\ usage[front] \in Nat
    BY <2>2, Sizes DEF IInv, CountInv, TypeOK
  <2> QED BY <2>3 DEF IInv, ExactInv
<1> QED
  BY <1>1, Invariance, PTL

(* Each cache holds the keys it was used with last, in the order of their   *)
(* last use, and an agent without one keeps none (ResponseCache.get and     *)
(* put, cache.py:45-68).                                                    *)
THEOREM CachesAreRight == Spec => []CacheRight
<1>1. IInv => CacheRight
  <2> SUFFICES ASSUME IInv, NEW b \in Backends
               PROVE
          /\ cached[b] = SubSeq(recent[b], Len(recent[b]) - Len(cached[b]) + 1, Len(recent[b]))
          /\ Len(cached[b]) = (IF Len(recent[b]) < CacheSize THEN Len(recent[b]) ELSE CacheSize)
          /\ ~hasCache[b] => cached[b] = <<>>
    BY DEF IInv, CacheRight
  <2> DEFINE s == cached[b]
             r == recent[b]
  <2>1. Latest(s, r) /\ (~hasCache[b] => r = <<>>)
    BY DEF IInv, CacheInv
  <2> HIDE DEF s, r
  <2>2. /\ s \in Seq(Keys) /\ r \in Seq(Keys) /\ Len(s) \in Nat /\ Len(r) \in Nat
        /\ Len(s) = (IF Len(r) < CacheSize THEN Len(r) ELSE CacheSize)
        /\ \A i \in 1 .. Len(s) : s[i] = r[Len(r) - Len(s) + i]
    <3>1. s \in Seq(Keys) /\ r \in Seq(Keys)
      BY <2>1 DEF Latest
    <3>2. Len(s) \in Nat /\ Len(r) \in Nat
      BY <3>1
    <3>3. Len(s) = (IF Len(r) < CacheSize THEN Len(r) ELSE CacheSize)
      BY <2>1 DEF Latest
    <3>4. \A i \in 1 .. Len(s) : s[i] = r[Len(r) - Len(s) + i]
      BY <2>1, Zenon DEF Latest
    <3> QED BY <3>1, <3>2, <3>3, <3>4
  <2>3. s = SubSeq(r, Len(r) - Len(s) + 1, Len(r))
    <3> DEFINE m == Len(r) - Len(s) + 1
               n == Len(r)
               q == SubSeq(r, m, n)
    <3>1. /\ m \in Int /\ n \in Int /\ m >= 1 /\ n - m + 1 = Len(s)
          /\ \A i \in m .. n : r[i] \in Keys
      BY <2>2
    <3>2. q \in Seq(Keys) /\ Len(q) = Len(s)
      BY <2>2, <3>1
    <3> HIDE DEF m, n
    <3>3. \A i \in 1 .. n - m + 1 : SubSeq(r, m, n)[i] = r[m + i - 1]
      BY ONLY <3>1, SubSeqProperties, SMT
    <3>4. \A i \in 1 .. Len(s) : q[i] = r[Len(r) - Len(s) + i]
      <4> SUFFICES ASSUME NEW i \in 1 .. Len(s)
                   PROVE  q[i] = r[Len(r) - Len(s) + i]
        OBVIOUS
      <4>1. q[i] = r[m + i - 1]
        BY <3>1, <3>3
      <4>2. m + i - 1 = Len(r) - Len(s) + i
        BY <2>2 DEF m
      <4> QED BY <4>1, <4>2
    <3> HIDE DEF q
    <3>5. \A i \in 1 .. Len(s) : q[i] = s[i]
      BY <2>2, <3>4
    <3>6. q = s
      BY <2>2, <3>2, <3>5, SeqEqual
    <3> QED BY <3>6 DEF q, m, n
  <2>4. ~hasCache[b] => s = <<>>
    BY <2>1, <2>2
  <2> QED BY <2>2, <2>3, <2>4 DEF s, r
<1> QED
  BY <1>1, Invariance, PTL
=============================================================================
