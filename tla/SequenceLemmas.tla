--------------------------- MODULE SequenceLemmas ---------------------------
(***************************************************************************)
(* Induction and recursion over the natural numbers, and what the proofs   *)
(* need of Pick, FlattenSeq, ToSet and Cardinality.                        *)
(*                                                                         *)
(* The induction theorems of the library take the claim as an operator.    *)
(* Here the claim is a set of numbers, and a recursive function is built   *)
(* from a step that is a function.                                         *)
(***************************************************************************)
EXTENDS Subsequences, SequencesExt, FiniteSetTheorems, SequenceTheorems, TLAPS

\* Of a set of natural numbers there is a least one: the intervals from 1 to
\* each of them are finite sets, and inclusion is well founded on those.
LEMMA LeastNat ==
  ASSUME NEW T \in SUBSET Nat, T # {}
  PROVE  \E n \in T : \A m \in T : n <= m
<1> DEFINE U == {1 .. n : n \in T}
<1>1. U \subseteq FiniteSubsetsOf(Nat)
  <2>1. ASSUME NEW n \in T PROVE IsFiniteSet(1 .. n) /\ 1 .. n \subseteq Nat
      BY FS_Interval
  <2> QED
      BY <2>1 DEF FiniteSubsetsOf
<1>2. U # {}
    OBVIOUS
<1>3. PICK u \in U : \A v \in U : <<v, u>> \notin StrictSubsetOrdering(Nat)
  <2> HIDE DEF U
  <2> QED
      BY <1>1, <1>2, FS_StrictSubsetOrderingWellFounded, WFMin
<1>4. PICK n \in T : u = 1 .. n
    OBVIOUS
<1>5. ASSUME NEW m \in T, m < n PROVE FALSE
  <2>1. 1 .. m \in U
      OBVIOUS
  <2>2. 1 .. m \subseteq 1 .. n /\ n \in 1 .. n /\ n \notin 1 .. m
      BY <1>5
  <2>3. 1 .. m \in SUBSET Nat /\ 1 .. n \in SUBSET Nat
      OBVIOUS
  <2>4. <<1 .. m, u>> \in StrictSubsetOrdering(Nat)
      BY <2>2, <2>3, <1>4 DEF StrictSubsetOrdering
  <2> QED
      BY <1>3, <2>1, <2>4
<1> QED
    BY <1>5

\* Induction: a set with 0 and every successor of its numbers has them all.
LEMMA NatSetInduction ==
  ASSUME NEW S, 0 \in S, \A n \in Nat : n \in S => n + 1 \in S
  PROVE  Nat \subseteq S
<1> SUFFICES ASSUME Nat \ S # {} PROVE FALSE
    OBVIOUS
<1>1. PICK n \in Nat \ S : \A m \in Nat \ S : n <= m
    BY LeastNat
<1>2. n # 0 /\ n - 1 \in Nat
    BY <1>1
<1>3. n - 1 \in S
    BY <1>1, <1>2
<1> QED
    BY <1>1, <1>2, <1>3

\* Induction up to a bound.
LEMMA UpTo ==
  ASSUME NEW N \in Nat, NEW S, 0 \in S, \A n \in 1 .. N : n - 1 \in S => n \in S
  PROVE  0 .. N \subseteq S
<1> DEFINE U == {n \in Nat : n <= N => n \in S}
<1>1. 0 \in U
    OBVIOUS
<1>2. ASSUME NEW n \in Nat, n \in U PROVE n + 1 \in U
  <2>1. n + 1 <= N => n + 1 \in 1 .. N /\ (n + 1) - 1 = n
      OBVIOUS
  <2> QED
      BY <1>2, <2>1
<1> HIDE DEF U
<1>3. Nat \subseteq U
    BY <1>1, <1>2, NatSetInduction
<1> QED
    BY <1>3 DEF U

\* f goes from a first value, step by step, up to a bound.
Steps(f, N, first, G) ==
    f[0] = first /\ \A n \in 1 .. N : f[n] = G[<<n, f[n - 1]>>]

\* Recursion: there is such a function for every step G.
LEMMA StepFunction ==
  ASSUME NEW N \in Nat, NEW V, NEW first \in V, NEW G \in [(1 .. N) \X V -> V]
  PROVE  \E f \in [0 .. N -> V] : Steps(f, N, first, G)
<1> DEFINE
      Good(f, m) == f[0] = first /\ \A n \in 1 .. m : f[n] = G[<<n, f[n - 1]>>]
      S == {m \in 0 .. N : \E f \in [0 .. m -> V] : Good(f, m)}
<1>1. 0 \in S
  <2> DEFINE g == [i \in 0 .. 0 |-> first]
  <2>1. g \in [0 .. 0 -> V] /\ g[0] = first /\ 0 \in 0 .. N /\ 1 .. 0 = {}
      OBVIOUS
  <2>2. Good(g, 0)
      BY <2>1
  <2> QED
      BY <2>1, <2>2
<1>2. ASSUME NEW n \in 1 .. N, n - 1 \in S PROVE n \in S
  <2>1. PICK f \in [0 .. n - 1 -> V] : Good(f, n - 1)
      BY <1>2
  <2> DEFINE g == [i \in 0 .. n |-> IF i = n THEN G[<<n, f[n - 1]>>] ELSE f[i]]
  <2>2. n - 1 \in 0 .. n - 1 /\ f[n - 1] \in V
      OBVIOUS
  <2>3. <<n, f[n - 1]>> \in (1 .. N) \X V
      BY <2>2
  <2>4. G[<<n, f[n - 1]>>] \in V
      BY <2>3
  <2>5. g \in [0 .. n -> V]
    <3>1. ASSUME NEW i \in 0 .. n PROVE g[i] \in V
      <4>1. CASE i = n
          BY <4>1, <2>4
      <4>2. CASE i # n
        <5>1. i \in 0 .. n - 1
            BY <4>2
        <5> QED
            BY <5>1, <4>2
      <4> QED
          BY <4>1, <4>2
    <3> QED
        BY <3>1
  <2>6. g[0] = first
      BY <2>1
  <2>7. ASSUME NEW k \in 1 .. n PROVE g[k] = G[<<k, g[k - 1]>>]
    <3>1. CASE k = n
      <4>1. n - 1 \in 0 .. n /\ n - 1 # n /\ n \in 0 .. n
          OBVIOUS
      <4>2. g[n - 1] = f[n - 1] /\ g[n] = G[<<n, f[n - 1]>>]
          BY <4>1
      <4> QED
          BY <4>2, <3>1
    <3>2. CASE k # n
      <4>1. k \in 1 .. n - 1 /\ k \in 0 .. n /\ k - 1 \in 0 .. n /\ k - 1 # n
          BY <3>2
      <4>2. g[k] = f[k] /\ g[k - 1] = f[k - 1] /\ f[k] = G[<<k, f[k - 1]>>]
          BY <4>1, <3>2, <2>1
      <4> QED
          BY <4>2
    <3> QED
        BY <3>1, <3>2
  <2>8. n \in 0 .. N
      OBVIOUS
  <2> QED
      BY <2>5, <2>6, <2>7, <2>8
<1> HIDE DEF S
<1>3. N \in 0 .. N /\ 0 .. N \subseteq S
    BY <1>1, <1>2, UpTo
<1> QED
    BY <1>3 DEF S, Steps

\* Where the elements of a concatenation come from.
LEMMA ConcatAt ==
  ASSUME NEW A, NEW s \in Seq(A), NEW t \in Seq(A)
  PROVE  /\ s \o t \in Seq(A) /\ DOMAIN (s \o t) = 1 .. Len(s) + Len(t)
         /\ \A i \in DOMAIN s : i \in DOMAIN (s \o t) /\ (s \o t)[i] = s[i]
         /\ \A i \in DOMAIN t :
              i + Len(s) \in DOMAIN (s \o t) /\ (s \o t)[i + Len(s)] = t[i]
         /\ \A k \in DOMAIN (s \o t) :
              \/ k \in DOMAIN s /\ (s \o t)[k] = s[k]
              \/ \E j \in DOMAIN t : k = j + Len(s) /\ (s \o t)[k] = t[j]
<1>1. /\ s \o t \in Seq(A) /\ Len(s \o t) = Len(s) + Len(t)
      /\ DOMAIN s = 1 .. Len(s) /\ DOMAIN t = 1 .. Len(t)
      /\ Len(s) \in Nat /\ Len(t) \in Nat
      /\ \A i \in 1 .. Len(s) : (s \o t)[i] = s[i]
      /\ \A i \in 1 .. Len(t) : (s \o t)[i + Len(s)] = t[i]
    OBVIOUS
<1>2. ASSUME NEW k \in 1 .. Len(s) + Len(t), k \notin 1 .. Len(s)
      PROVE  \E j \in 1 .. Len(t) : k = j + Len(s)
  <2>1. k - Len(s) \in 1 .. Len(t) /\ k = (k - Len(s)) + Len(s)
      BY <1>1, <1>2
  <2> QED
      BY <2>1
<1>3. DOMAIN (s \o t) = 1 .. Len(s) + Len(t)
    BY <1>1
<1>4. \A i \in DOMAIN s : i \in DOMAIN (s \o t) /\ (s \o t)[i] = s[i]
    BY <1>1, <1>3
<1>5. \A i \in DOMAIN t :
         i + Len(s) \in DOMAIN (s \o t) /\ (s \o t)[i + Len(s)] = t[i]
    BY <1>1, <1>3
<1>6. \A k \in DOMAIN (s \o t) :
         \/ k \in DOMAIN s /\ (s \o t)[k] = s[k]
         \/ \E j \in DOMAIN t : k = j + Len(s) /\ (s \o t)[k] = t[j]
  <2> TAKE k \in DOMAIN (s \o t)
  <2>1. CASE k \in DOMAIN s
      BY <2>1, <1>4
  <2>2. CASE k \notin DOMAIN s
    <3>1. PICK j \in DOMAIN t : k = j + Len(s)
        BY <2>2, <1>1, <1>2, <1>3, Zenon
    <3> QED
        BY <3>1, <1>5
  <2> QED
      BY <2>1, <2>2
<1> QED
    BY <1>1, <1>3, <1>4, <1>5, <1>6

\* The elements of a concatenation.
LEMMA ToSetConcat ==
  ASSUME NEW A, NEW s \in Seq(A), NEW t \in Seq(A)
  PROVE  ToSet(s \o t) = ToSet(s) \union ToSet(t)
<1>1. \A k \in DOMAIN (s \o t) : (s \o t)[k] \in ToSet(s) \union ToSet(t)
    BY ConcatAt DEF ToSet
<1>2. \A i \in DOMAIN s : s[i] \in ToSet(s \o t)
    BY ConcatAt DEF ToSet
<1>3. ASSUME NEW i \in DOMAIN t PROVE t[i] \in ToSet(s \o t)
  <2>1. i + Len(s) \in DOMAIN (s \o t) /\ (s \o t)[i + Len(s)] = t[i]
      BY ConcatAt
  <2> QED
      BY <2>1, Zenon DEF ToSet
<1> QED
    BY <1>1, <1>2, <1>3 DEF ToSet

\* The elements of a sequence with one more.
LEMMA ToSetAppend ==
  ASSUME NEW A, NEW s \in Seq(A), NEW x \in A
  PROVE  ToSet(Append(s, x)) = ToSet(s) \union {x}
<1>1. /\ Len(Append(s, x)) = Len(s) + 1
      /\ \A i \in 1 .. Len(s) : Append(s, x)[i] = s[i]
      /\ Append(s, x)[Len(s) + 1] = x
      /\ Append(s, x) \in Seq(A)
    OBVIOUS
<1>2. DOMAIN Append(s, x) = DOMAIN s \union {Len(s) + 1}
    BY <1>1
<1> QED
    BY <1>1, <1>2 DEF ToSet

\* The elements of a sequence: those of its head and its tail.
LEMMA ToSetFacts ==
  ASSUME NEW A, NEW s \in Seq(A)
  PROVE  /\ ToSet(<<>>) = {}
         /\ ToSet(s) \subseteq A /\ IsFiniteSet(ToSet(s))
         /\ s # <<>> => ToSet(s) = {Head(s)} \union ToSet(Tail(s))
         /\ ToSet(s) = {} <=> s = <<>>
<1>1. ToSet(<<>>) = {} /\ ToSet(s) \subseteq A
    BY DEF ToSet
<1>2. IsFiniteSet(ToSet(s))
  <2>1. IsFiniteSet(DOMAIN s)
      BY FS_Interval
  <2>2. s \in Surjection(DOMAIN s, ToSet(s))
      BY DEF ToSet, Surjection
  <2> QED
      BY <2>1, <2>2, FS_Surjection
<1>3. s # <<>> => ToSet(s) = {Head(s)} \union ToSet(Tail(s))
  <2> SUFFICES ASSUME s # <<>> PROVE ToSet(s) = {Head(s)} \union ToSet(Tail(s))
      OBVIOUS
  <2>1. /\ Tail(s) \in Seq(A) /\ Len(Tail(s)) = Len(s) - 1
        /\ Head(s) = s[1] /\ Len(s) \in Nat \ {0}
        /\ \A i \in 1 .. Len(s) - 1 : Tail(s)[i] = s[i + 1]
      OBVIOUS
  <2>2. ASSUME NEW i \in DOMAIN s PROVE s[i] \in {Head(s)} \union ToSet(Tail(s))
    <3>1. CASE i = 1
        BY <3>1, <2>1
    <3>2. CASE i # 1
      <4>1. i - 1 \in 1 .. Len(s) - 1 /\ (i - 1) + 1 = i /\ i - 1 \in DOMAIN Tail(s)
          BY <3>2, <2>1
      <4>2. Tail(s)[i - 1] = s[i]
          BY <4>1, <2>1
      <4> QED
          BY <4>1, <4>2 DEF ToSet
    <3> QED
        BY <3>1, <3>2
  <2>3. ASSUME NEW i \in DOMAIN Tail(s) PROVE Tail(s)[i] \in ToSet(s)
    <3>1. i + 1 \in DOMAIN s /\ Tail(s)[i] = s[i + 1]
        BY <2>1
    <3> QED
        BY <3>1 DEF ToSet
  <2>4. Head(s) \in ToSet(s)
      BY <2>1 DEF ToSet
  <2> QED
      BY <2>2, <2>3, <2>4 DEF ToSet
<1>4. ToSet(s) = {} <=> s = <<>>
  <2>1. s # <<>> => s[1] \in ToSet(s)
      BY DEF ToSet
  <2> QED
      BY <2>1, <1>1
<1> QED
    BY <1>1, <1>2, <1>3, <1>4

\* The elements of a sequence are at most as many as its length.
LEMMA CardToSet ==
  ASSUME NEW A, NEW s \in Seq(A)
  PROVE  Cardinality(ToSet(s)) \in Nat /\ Cardinality(ToSet(s)) <= Len(s)
<1>1. IsFiniteSet(1 .. Len(s)) /\ Cardinality(1 .. Len(s)) = Len(s)
  <2>1. Len(s) \in Nat /\ 1 \in Int
      OBVIOUS
  <2>2. Cardinality(1 .. Len(s)) = IF 1 > Len(s) THEN 0 ELSE Len(s) - 1 + 1
      BY <2>1, FS_Interval
  <2> QED
      BY <2>1, <2>2, FS_Interval
<1>2. ToSet(s) = {s[i] : i \in 1 .. Len(s)}
    BY DEF ToSet
<1>3. s \in Surjection(1 .. Len(s), ToSet(s))
    BY <1>2 DEF Surjection
<1> QED
    BY <1>1, <1>3, FS_Surjection, FS_CardinalityType

\* A concatenation repeats nothing if neither part does and they are disjoint.
LEMMA InjectiveConcat ==
  ASSUME NEW A, NEW s \in Seq(A), NEW t \in Seq(A)
  PROVE  IsInjective(s \o t) <=>
            /\ IsInjective(s) /\ IsInjective(t)
            /\ ToSet(s) \intersect ToSet(t) = {}
<1>1. /\ s \o t \in Seq(A) /\ Len(s \o t) = Len(s) + Len(t)
      /\ Len(s) \in Nat /\ Len(t) \in Nat
      /\ DOMAIN s = 1 .. Len(s) /\ DOMAIN t = 1 .. Len(t)
      /\ DOMAIN (s \o t) = 1 .. Len(s) + Len(t)
      /\ \A i \in 1 .. Len(s) : (s \o t)[i] = s[i]
      /\ \A i \in 1 .. Len(t) : (s \o t)[i + Len(s)] = t[i]
    BY ConcatAt
<1>2. ASSUME IsInjective(s \o t)
      PROVE  IsInjective(s) /\ IsInjective(t) /\ ToSet(s) \intersect ToSet(t) = {}
  <2>1. \A i, j \in 1 .. Len(s) + Len(t) : (s \o t)[i] = (s \o t)[j] => i = j
      BY <1>1, <1>2, Zenon DEF IsInjective
  <2>0. \A i \in 1 .. Len(t) : i + Len(s) \in 1 .. Len(s) + Len(t)
      BY <1>1
  <2>2. IsInjective(s)
    <3>1. \A i \in 1 .. Len(s) : i \in 1 .. Len(s) + Len(t)
        BY <1>1
    <3> QED
        BY <1>1, <2>1, <3>1 DEF IsInjective
  <2>3. IsInjective(t)
    <3> SUFFICES ASSUME NEW i \in 1 .. Len(t), NEW j \in 1 .. Len(t), t[i] = t[j] PROVE i = j
        BY <1>1 DEF IsInjective
    <3>1. (s \o t)[i + Len(s)] = (s \o t)[j + Len(s)]
        BY <1>1
    <3>2. i + Len(s) = j + Len(s)
        BY <2>0, <2>1, <3>1, Zenon
    <3> QED
        BY <3>2, <1>1
  <2>4. ASSUME NEW i \in 1 .. Len(s), NEW j \in 1 .. Len(t), s[i] = t[j] PROVE FALSE
    <3>1. (s \o t)[i] = (s \o t)[j + Len(s)]
        BY <1>1, <2>4
    <3>2. i \in 1 .. Len(s) + Len(t)
        BY <1>1
    <3>3. i = j + Len(s)
        BY <2>0, <2>1, <3>1, <3>2, Zenon
    <3> QED
        BY <1>1, <3>3
  <2> QED
      BY <2>2, <2>3, <2>4 DEF ToSet
<1>3. ASSUME IsInjective(s), IsInjective(t), ToSet(s) \intersect ToSet(t) = {},
             NEW i \in 1 .. Len(s) + Len(t), NEW j \in 1 .. Len(s) + Len(t),
             (s \o t)[i] = (s \o t)[j], i < j
      PROVE  FALSE
  <2>1. CASE j <= Len(s)
      BY <1>1, <1>3, <2>1 DEF IsInjective
  <2>2. CASE i > Len(s)
    <3>1. i - Len(s) \in 1 .. Len(t) /\ j - Len(s) \in 1 .. Len(t)
          /\ (i - Len(s)) + Len(s) = i /\ (j - Len(s)) + Len(s) = j
        BY <1>3, <2>2
    <3>2. t[i - Len(s)] = t[j - Len(s)]
        BY <1>1, <1>3, <3>1
    <3>3. i - Len(s) = j - Len(s)
        BY <1>3, <3>1, <3>2 DEF IsInjective
    <3> QED
        BY <1>3, <3>3
  <2>3. CASE i <= Len(s) /\ j > Len(s)
    <3>1. j - Len(s) \in 1 .. Len(t) /\ (j - Len(s)) + Len(s) = j /\ i \in 1 .. Len(s)
        BY <1>3, <2>3
    <3>2. s[i] = t[j - Len(s)]
        BY <1>1, <1>3, <3>1
    <3>3. s[i] \in ToSet(s) /\ t[j - Len(s)] \in ToSet(t)
        BY <3>1 DEF ToSet
    <3> QED
        BY <3>2, <3>3, <1>3
  <2> QED
      BY <1>3, <2>1, <2>2, <2>3
<1>4. ASSUME IsInjective(s), IsInjective(t), ToSet(s) \intersect ToSet(t) = {}
      PROVE  IsInjective(s \o t)
  <2> SUFFICES ASSUME NEW i \in 1 .. Len(s) + Len(t), NEW j \in 1 .. Len(s) + Len(t),
                      (s \o t)[i] = (s \o t)[j]
               PROVE  i = j
      BY <1>1 DEF IsInjective
  <2> QED
      BY <1>3, <1>4
<1> QED
    BY <1>2, <1>4
\* What Pick computes, step by step.
LEMMA PickSteps ==
  ASSUME NEW A, NEW s \in Seq(A), NEW T
  PROVE  \E f \in [0 .. Len(s) -> Seq(A)] :
           /\ Pick(s, T) = f[Len(s)]
           /\ f[0] = <<>>
           /\ \A n \in 1 .. Len(s) :
                f[n] = IF s[n] \in T THEN Append(f[n - 1], s[n]) ELSE f[n - 1]
<1> DEFINE
      N == Len(s)
      Eq(f) == f = [n \in 0 .. N |->
                      IF n = 0 THEN <<>>
                      ELSE IF s[n] \in T THEN Append(f[n - 1], s[n])
                      ELSE f[n - 1]]
      G == [p \in (1 .. N) \X Seq(A) |->
              IF s[p[1]] \in T THEN Append(p[2], s[p[1]]) ELSE p[2]]
<1>0. <<>> \in Seq(A) /\ N \in Nat
    OBVIOUS
<1>1. G \in [(1 .. N) \X Seq(A) -> Seq(A)]
    OBVIOUS
<1>2. PICK f \in [0 .. N -> Seq(A)] : Steps(f, N, <<>>, G)
  <2> DEFINE V == Seq(A)   e == <<>>
  <2>0. e \in V /\ N \in Nat /\ G \in [(1 .. N) \X V -> V]
      BY <1>0, <1>1
  <2> HIDE DEF G, N, V, e
  <2>1. \E f \in [0 .. N -> V] : Steps(f, N, e, G)
      BY <2>0, StepFunction
  <2> QED
      BY <2>1 DEF V, e
<1>3. ASSUME NEW n \in 1 .. N
      PROVE  f[n] = IF s[n] \in T THEN Append(f[n - 1], s[n]) ELSE f[n - 1]
  <2>1. n - 1 \in 0 .. N
      BY <1>0
  <2>2. <<n, f[n - 1]>> \in (1 .. N) \X Seq(A)
      BY <2>1
  <2> QED
      BY <1>2, <2>2 DEF Steps
<1>4. Eq(f)
  <2>1. \A n \in 0 .. N : n # 0 => n \in 1 .. N
      OBVIOUS
  <2> QED
      BY <1>2, <1>3, <2>1 DEF Steps
<1> DEFINE g == CHOOSE h : Eq(h)
<1>5. Eq(g)
    BY <1>4
<1>6. Pick(s, T) = g[N]
    BY DEF Pick
<1> HIDE DEF g, G, N
<1>7. ASSUME NEW n \in 0 .. N
      PROVE  g[n] = IF n = 0 THEN <<>>
                    ELSE IF s[n] \in T THEN Append(g[n - 1], s[n])
                    ELSE g[n - 1]
    BY <1>5
<1>8. g[0] = <<>>
  <2>1. 0 \in 0 .. N
      BY <1>0
  <2> QED
      BY <1>7, <2>1
<1>9. ASSUME NEW n \in 1 .. N
      PROVE  g[n] = IF s[n] \in T THEN Append(g[n - 1], s[n]) ELSE g[n - 1]
  <2>1. n \in 0 .. N /\ n # 0
      BY <1>0
  <2> QED
      BY <1>7, <2>1
<1>10. \A n \in 0 .. N : g[n] \in Seq(A)
  <2> DEFINE S == {n \in 0 .. N : g[n] \in Seq(A)}
  <2>1. 0 \in S
    <3>1. g[0] \in Seq(A)
        BY <1>0, <1>8, Zenon
    <3> QED
        BY <1>0, <3>1
  <2>2. ASSUME NEW n \in 1 .. N, n - 1 \in S PROVE n \in S
    <3>1. s[n] \in A /\ g[n - 1] \in Seq(A) /\ n \in 0 .. N
        BY <2>2, <1>0 DEF N
    <3>2. Append(g[n - 1], s[n]) \in Seq(A)
        BY <3>1
    <3> QED
        BY <3>1, <3>2, <1>9
  <2> HIDE DEF S
  <2>3. 0 .. N \subseteq S
      BY <1>0, <2>1, <2>2, UpTo
  <2> QED
      BY <2>3 DEF S
<1>11. g \in [0 .. N -> Seq(A)]
  <2>1. g = [n \in 0 .. N |-> g[n]]
      BY <1>5
  <2> QED
      BY <2>1, <1>10
<1> QED
    BY <1>6, <1>8, <1>9, <1>11 DEF N

\* Pick is a subsequence: it has the elements of s that are in T and no other,
\* in their order.
LEMMA PickProperties ==
  ASSUME NEW A, NEW s \in Seq(A), NEW T
  PROVE  /\ Pick(s, T) \in Seq(A)
         /\ ToSet(Pick(s, T)) = ToSet(s) \intersect T
         /\ \A i, j \in DOMAIN Pick(s, T) : i < j =>
              \E a, b \in DOMAIN s :
                a < b /\ Pick(s, T)[i] = s[a] /\ Pick(s, T)[j] = s[b]
<1> DEFINE
      N == Len(s)
      Before(p, n) == \A i, j \in DOMAIN p : i < j =>
                        \E a, b \in 1 .. n : a < b /\ p[i] = s[a] /\ p[j] = s[b]
      Has(p, n) == ToSet(p) = {s[i] : i \in 1 .. n} \intersect T
<1>1. PICK f \in [0 .. N -> Seq(A)] :
         /\ Pick(s, T) = f[N]
         /\ f[0] = <<>>
         /\ \A n \in 1 .. N :
              f[n] = IF s[n] \in T THEN Append(f[n - 1], s[n]) ELSE f[n - 1]
    BY PickSteps
<1> DEFINE S == {n \in 0 .. N : Has(f[n], n) /\ Before(f[n], n)}
<1>2. N \in Nat
    OBVIOUS
<1>3. 0 \in S
  <2>1. Has(f[0], 0)
      BY <1>1 DEF ToSet
  <2>2. Before(f[0], 0)
      BY <1>1
  <2> QED
      BY <1>2, <2>1, <2>2
<1>4. ASSUME NEW n \in 1 .. N, n - 1 \in S PROVE n \in S
  <2> DEFINE p == f[n - 1]   q == f[n]   x == s[n]
  <2>1. /\ p \in Seq(A) /\ x \in A /\ Has(p, n - 1) /\ Before(p, n - 1)
        /\ n - 1 \in 0 .. N /\ n \in 0 .. N
        /\ q = IF x \in T THEN Append(p, x) ELSE p
    <3>1. n - 1 \in 0 .. N /\ n \in 0 .. N /\ x \in A
        BY <1>2
    <3>2. p \in Seq(A) /\ q = IF x \in T THEN Append(p, x) ELSE p
        BY <1>1, <3>1
    <3>3. Has(p, n - 1) /\ Before(p, n - 1)
        BY <1>4, Zenon
    <3> QED
        BY <3>1, <3>2, <3>3
  <2>2. 1 .. n = (1 .. n - 1) \union {n}
      BY <1>2
  <2>3. {s[i] : i \in 1 .. n} = {s[i] : i \in 1 .. n - 1} \union {x}
      BY <2>2
  <2> HIDE DEF p, q, N, S
  <2>4. CASE x \notin T
    <3>1. q = p
        BY <2>1, <2>4
    <3>2. Has(q, n)
        BY <2>1, <2>3, <2>4, <3>1 DEF x
    <3>3. Before(q, n)
      <4>1. \A a \in 1 .. n - 1 : a \in 1 .. n
          BY <2>2
      <4> QED
          BY <2>1, <3>1, <4>1
    <3> QED
        BY <2>1, <3>2, <3>3 DEF S, q
  <2>5. CASE x \in T
    <3>1. q = Append(p, x)
        BY <2>1, <2>5
    <3>2. ToSet(q) = ToSet(p) \union {x}
        BY <2>1, <3>1, ToSetAppend
    <3>3. Has(q, n)
        BY <2>1, <2>3, <2>5, <3>2
    <3>4. ASSUME NEW i \in DOMAIN q, NEW j \in DOMAIN q, i < j
          PROVE  \E a, b \in 1 .. n : a < b /\ q[i] = s[a] /\ q[j] = s[b]
      <4>1. /\ DOMAIN q = 1 .. Len(p) + 1 /\ Len(p) \in Nat /\ DOMAIN p = 1 .. Len(p)
            /\ q[Len(p) + 1] = x
            /\ \A k \in 1 .. Len(p) : q[k] = p[k]
          BY <2>1, <3>1
      <4>2. i \in DOMAIN p /\ q[i] = p[i]
          BY <3>4, <4>1
      <4>3. CASE j = Len(p) + 1
        <5>1. q[i] \in ToSet(p)
            BY <4>2, Zenon DEF ToSet
        <5>2. PICK a \in 1 .. n - 1 : q[i] = s[a]
            BY <2>1, <5>1
        <5>3. a \in 1 .. n /\ n \in 1 .. n /\ a < n /\ q[j] = s[n]
            BY <4>1, <4>3, <1>2 DEF x
        <5> QED
            BY <5>2, <5>3
      <4>4. CASE j # Len(p) + 1
        <5>1. j \in DOMAIN p /\ q[j] = p[j]
            BY <4>1, <4>4
        <5>2. PICK a \in 1 .. n - 1, b \in 1 .. n - 1 : a < b /\ p[i] = s[a] /\ p[j] = s[b]
            BY <2>1, <3>4, <4>2, <5>1
        <5>3. a \in 1 .. n /\ b \in 1 .. n
            BY <2>2
        <5> QED
            BY <4>2, <5>1, <5>2, <5>3
      <4> QED
          BY <4>3, <4>4
    <3> QED
        BY <2>1, <3>3, <3>4 DEF S, q
  <2> QED
      BY <2>4, <2>5
<1> HIDE DEF S
<1>5. N \in S
  <2>1. 0 .. N \subseteq S
      BY <1>2, <1>3, <1>4, UpTo
  <2> QED
      BY <1>2, <2>1
<1> DEFINE p == Pick(s, T)
<1>6. p \in Seq(A) /\ Has(p, N) /\ Before(p, N)
    BY <1>1, <1>2, <1>5 DEF S
<1>7. ToSet(p) = ToSet(s) \intersect T
    BY <1>6 DEF ToSet
<1> QED
    BY <1>6, <1>7

\* What is picked in strictly increasing order, or without repetition, stays so.
LEMMA PickInjective ==
  ASSUME NEW A, NEW s \in Seq(A), NEW T, IsInjective(s)
  PROVE  IsInjective(Pick(s, T))
<1> DEFINE p == Pick(s, T)
<1>1. /\ p \in Seq(A)
      /\ \A i, j \in DOMAIN p : i < j =>
           \E a, b \in DOMAIN s : a < b /\ p[i] = s[a] /\ p[j] = s[b]
    BY PickProperties
<1> HIDE DEF p
<1>2. ASSUME NEW i \in DOMAIN p, NEW j \in DOMAIN p, i < j, p[i] = p[j] PROVE FALSE
  <2>1. PICK a \in DOMAIN s, b \in DOMAIN s : a < b /\ p[i] = s[a] /\ p[j] = s[b]
      BY <1>1, <1>2
  <2>2. a = b
      BY <1>2, <2>1 DEF IsInjective
  <2> QED
      BY <2>1, <2>2
<1> SUFFICES ASSUME NEW i \in DOMAIN p, NEW j \in DOMAIN p, p[i] = p[j] PROVE i = j
    BY DEF IsInjective, p
<1> QED
    BY <1>1, <1>2

\* What FlattenSeq computes, step by step.
LEMMA FlattenSteps ==
  ASSUME NEW A, NEW ss \in Seq(Seq(A))
  PROVE  \E f \in [0 .. Len(ss) -> Seq(A)] :
           /\ FlattenSeq(ss) = f[Len(ss)]
           /\ f[0] = <<>>
           /\ \A n \in 1 .. Len(ss) : f[n] = f[n - 1] \o ss[n]
<1> DEFINE
      N == Len(ss)
      Eq(f) == f = [i \in 1 .. N |-> IF i = 1 THEN ss[i] ELSE f[i - 1] \o ss[i]]
      G == [p \in (1 .. N) \X Seq(A) |-> p[2] \o ss[p[1]]]
      e == <<>>
<1>0. e \in Seq(A) /\ N \in Nat
    OBVIOUS
<1>1. G \in [(1 .. N) \X Seq(A) -> Seq(A)]
    OBVIOUS
<1>2. PICK f \in [0 .. N -> Seq(A)] : Steps(f, N, e, G)
  <2> DEFINE V == Seq(A)
  <2>0. e \in V /\ N \in Nat /\ G \in [(1 .. N) \X V -> V]
      BY <1>0, <1>1
  <2> HIDE DEF G, N, V, e
  <2>1. \E f \in [0 .. N -> V] : Steps(f, N, e, G)
      BY <2>0, StepFunction
  <2> QED
      BY <2>1 DEF V
<1>3. ASSUME NEW n \in 1 .. N
      PROVE  n - 1 \in 0 .. N /\ n \in 0 .. N /\ ss[n] \in Seq(A) /\ f[n] = f[n - 1] \o ss[n]
  <2>1. n - 1 \in 0 .. N /\ n \in 0 .. N /\ ss[n] \in Seq(A)
      BY <1>0
  <2>2. <<n, f[n - 1]>> \in (1 .. N) \X Seq(A)
      BY <2>1
  <2> QED
      BY <1>2, <2>1, <2>2 DEF Steps
<1> DEFINE h == [i \in 1 .. N |-> f[i]]
<1>4. Eq(h)
  <2>1. ASSUME NEW i \in 1 .. N
        PROVE  h[i] = IF i = 1 THEN ss[i] ELSE h[i - 1] \o ss[i]
    <3>1. CASE i = 1
      <4>1. f[0] = <<>> /\ i - 1 = 0
          BY <1>2, <3>1 DEF Steps
      <4>2. f[i] = <<>> \o ss[i] /\ ss[i] \in Seq(A)
          BY <1>3, <4>1
      <4> QED
          BY <4>2, <3>1
    <3>2. CASE i # 1
      <4>1. i - 1 \in 1 .. N
          BY <1>0, <3>2
      <4> QED
          BY <1>3, <3>2, <4>1
    <3> QED
        BY <3>1, <3>2
  <2> HIDE DEF N
  <2> QED
      BY <2>1
<1> DEFINE g == CHOOSE x : Eq(x)
<1>5. Eq(g)
    BY <1>4
<1>6. N # 0 => FlattenSeq(ss) = g[N]
    BY DEF FlattenSeq
<1>7. N = 0 => FlattenSeq(ss) = <<>>
    BY DEF FlattenSeq
<1> HIDE DEF g, h, G, N
<1>8. ASSUME NEW i \in 1 .. N
      PROVE  g[i] = IF i = 1 THEN ss[i] ELSE g[i - 1] \o ss[i]
    BY <1>5
<1> DEFINE k == [n \in 0 .. N |-> IF n = 0 THEN <<>> ELSE g[n]]
<1>9. k[0] = <<>> /\ \A n \in 1 .. N : k[n] = g[n]
    BY <1>0
<1> HIDE DEF k
<1>10. ASSUME NEW n \in 1 .. N PROVE k[n] = k[n - 1] \o ss[n]
  <2>1. CASE n = 1
    <3>1. k[n] = ss[n] /\ k[n - 1] = <<>>
        BY <2>1, <1>8, <1>9
    <3> QED
        BY <3>1, <1>3
  <2>2. CASE n # 1
    <3>1. n - 1 \in 1 .. N
        BY <1>0, <2>2
    <3> QED
        BY <3>1, <2>2, <1>8, <1>9
  <2> QED
      BY <2>1, <2>2
<1>11. \A n \in 0 .. N : k[n] \in Seq(A)
  <2> DEFINE S == {n \in 0 .. N : k[n] \in Seq(A)}
  <2>1. 0 \in S
    <3>1. k[0] \in Seq(A)
        BY <1>9
    <3> QED
        BY <1>0, <3>1
  <2>2. ASSUME NEW n \in 1 .. N, n - 1 \in S PROVE n \in S
    <3>1. k[n - 1] \in Seq(A) /\ ss[n] \in Seq(A) /\ n \in 0 .. N
        BY <2>2, <1>3
    <3>2. k[n - 1] \o ss[n] \in Seq(A)
        BY <3>1
    <3>3. k[n] \in Seq(A)
        BY <3>2, <1>10, Zenon
    <3> QED
        BY <3>1, <3>3
  <2> HIDE DEF S
  <2>3. 0 .. N \subseteq S
      BY <1>0, <2>1, <2>2, UpTo
  <2> QED
      BY <2>3 DEF S
<1>12. k \in [0 .. N -> Seq(A)]
    BY <1>11 DEF k
<1>13. FlattenSeq(ss) = k[N]
  <2>1. CASE N = 0
      BY <2>1, <1>7, <1>9
  <2>2. CASE N # 0
    <3>1. N \in 1 .. N
        BY <1>0, <2>2
    <3> QED
        BY <3>1, <2>2, <1>6, <1>9
  <2> QED
      BY <2>1, <2>2
<1> QED
    BY <1>9, <1>10, <1>12, <1>13 DEF N

\* FlattenSeq has the elements of all the sequences, and none twice if they
\* have none twice and share none.
LEMMA FlattenProperties ==
  ASSUME NEW A, NEW ss \in Seq(Seq(A))
  PROVE  /\ FlattenSeq(ss) \in Seq(A)
         /\ ToSet(FlattenSeq(ss)) = UNION {ToSet(ss[i]) : i \in DOMAIN ss}
         /\ /\ \A i \in DOMAIN ss : IsInjective(ss[i])
            /\ \A i, j \in DOMAIN ss : i # j => ToSet(ss[i]) \intersect ToSet(ss[j]) = {}
            => IsInjective(FlattenSeq(ss))
<1> DEFINE
      N == Len(ss)
      Has(p, n) == \A x : x \in ToSet(p) <=> \E i \in 1 .. n : x \in ToSet(ss[i])
<1>1. PICK f \in [0 .. N -> Seq(A)] :
         /\ FlattenSeq(ss) = f[N]
         /\ f[0] = <<>>
         /\ \A n \in 1 .. N : f[n] = f[n - 1] \o ss[n]
    BY FlattenSteps
<1>2. N \in Nat /\ DOMAIN ss = 1 .. N
    OBVIOUS
<1> DEFINE S == {n \in 0 .. N : Has(f[n], n)}
<1>3. 0 \in S
  <2>1. Has(f[0], 0)
      BY <1>1 DEF ToSet
  <2> QED
      BY <1>2, <2>1
<1>4. ASSUME NEW n \in 1 .. N
      PROVE  /\ n - 1 \in 0 .. N /\ n \in 0 .. N
             /\ f[n - 1] \in Seq(A) /\ ss[n] \in Seq(A)
             /\ ToSet(f[n]) = ToSet(f[n - 1]) \union ToSet(ss[n])
  <2>1. n - 1 \in 0 .. N /\ n \in 0 .. N
      BY <1>2
  <2>2. f[n - 1] \in Seq(A) /\ ss[n] \in Seq(A)
    <3>1. \A i \in 0 .. N : f[i] \in Seq(A)
        OBVIOUS
    <3>2. \A i \in 1 .. N : ss[i] \in Seq(A)
        OBVIOUS
    <3> QED
        BY <2>1, <3>1, <3>2, Zenon
  <2>3. f[n] = f[n - 1] \o ss[n]
      BY <1>1
  <2> HIDE DEF N
  <2> QED
      BY <2>1, <2>2, <2>3, ToSetConcat
<1>5. ASSUME NEW n \in 1 .. N, n - 1 \in S PROVE n \in S
  <2>1. 1 .. n = (1 .. n - 1) \union {n}
      BY <1>2
  <2>2. Has(f[n - 1], n - 1)
      BY <1>5, Zenon
  <2>3. Has(f[n], n)
      BY <1>4, <2>1, <2>2
  <2> QED
      BY <2>3, <1>4
<1> HIDE DEF S
<1>6. 0 .. N \subseteq S
    BY <1>2, <1>3, <1>5, UpTo
<1>7. \A n \in 0 .. N : Has(f[n], n)
    BY <1>6 DEF S
<1>8. ASSUME \A i \in DOMAIN ss : IsInjective(ss[i]),
             \A i, j \in DOMAIN ss : i # j => ToSet(ss[i]) \intersect ToSet(ss[j]) = {}
      PROVE  IsInjective(f[N])
  <2> DEFINE I == {n \in 0 .. N : IsInjective(f[n])}
  <2>1. 0 \in I
    <3>1. IsInjective(f[0])
        BY <1>1 DEF IsInjective
    <3> QED
        BY <3>1, <1>2
  <2>2. ASSUME NEW n \in 1 .. N, n - 1 \in I PROVE n \in I
    <3>1. ToSet(f[n - 1]) \intersect ToSet(ss[n]) = {}
      <4>1. \A i \in 1 .. n - 1 : i \in DOMAIN ss /\ n \in DOMAIN ss /\ i # n
          BY <1>2
      <4>2. Has(f[n - 1], n - 1)
          BY <1>7, <1>4
      <4> QED
          BY <4>1, <4>2, <1>8
    <3>2. IsInjective(f[n - 1]) /\ IsInjective(ss[n])
        BY <2>2, <1>8
    <3>3. IsInjective(f[n - 1] \o ss[n])
        BY <3>1, <3>2, <1>4, InjectiveConcat
    <3> QED
        BY <3>3, <1>1, <1>4
  <2> HIDE DEF I
  <2>3. 0 .. N \subseteq I
      BY <1>2, <2>1, <2>2, UpTo
  <2> QED
      BY <2>3, <1>2 DEF I
<1>9. FlattenSeq(ss) \in Seq(A)
  <2>1. N \in 0 .. N
      BY <1>2
  <2> QED
      BY <2>1, <1>1
<1>10. ToSet(FlattenSeq(ss)) = UNION {ToSet(ss[i]) : i \in DOMAIN ss}
  <2>1. N \in 0 .. N
      BY <1>2
  <2>2. Has(f[N], N)
      BY <2>1, <1>7, Zenon
  <2> QED
      BY <2>2, <1>1, <1>2
<1> QED
    BY <1>1, <1>8, <1>9, <1>10

\* A set that is no larger.
LEMMA CardSub ==
  ASSUME NEW S, IsFiniteSet(S), NEW T, T \subseteq S
  PROVE  /\ IsFiniteSet(T) /\ Cardinality(T) \in Nat /\ Cardinality(S) \in Nat
         /\ Cardinality(T) <= Cardinality(S)
  BY FS_Subset, FS_CardinalityType

\* A set with one more element.
LEMMA CardAdd ==
  ASSUME NEW S, IsFiniteSet(S), NEW x, NEW T, T \subseteq S \union {x}
  PROVE  Cardinality(T) <= Cardinality(S) + 1
<1>1. /\ IsFiniteSet(S \union {x})
      /\ Cardinality(S \union {x}) <= Cardinality(S) + 1
  <2>1. Cardinality(S \union {x}) =
           IF x \in S THEN Cardinality(S) ELSE Cardinality(S) + 1
      BY FS_AddElement
  <2> QED
      BY <2>1, FS_AddElement, FS_CardinalityType
<1> QED
    BY <1>1, CardSub, FS_CardinalityType

\* A set with one element less.
LEMMA CardRemove ==
  ASSUME NEW S, IsFiniteSet(S), NEW x \in S, NEW T, T \subseteq S \ {x}
  PROVE  Cardinality(T) <= Cardinality(S) - 1
<1>1. IsFiniteSet(S \ {x}) /\ Cardinality(S \ {x}) = Cardinality(S) - 1
    BY FS_RemoveElement
<1> QED
    BY <1>1, CardSub, FS_CardinalityType

\* A bounded set of natural numbers has a greatest one: the least bound.
LEMMA MaxOfBounded ==
  ASSUME NEW N \in Nat, NEW S \in SUBSET (0 .. N), S # {}
  PROVE  Max(S) \in S /\ \A x \in S : x <= Max(S)
<1> DEFINE T == {n \in Nat : \A x \in S : x <= n}
<1>1. N \in T /\ T \in SUBSET Nat
    OBVIOUS
<1>2. PICK m \in T : \A n \in T : m <= n
  <2> HIDE DEF T
  <2> QED
      BY <1>1, LeastNat
<1>3. m \in S
  <2> SUFFICES ASSUME m \notin S PROVE FALSE
      OBVIOUS
  <2>1. \A x \in S : x \in Nat /\ x <= m /\ x # m
      OBVIOUS
  <2>2. m # 0
    <3>1. PICK x \in S : TRUE
        OBVIOUS
    <3> QED
        BY <3>1, <2>1
  <2>3. m - 1 \in Nat /\ \A x \in S : x <= m - 1
      BY <2>1, <2>2
  <2> QED
      BY <1>2, <2>3
<1>4. m \in S /\ \A y \in S : m >= y
    BY <1>3
<1>5. Max(S) \in S /\ \A y \in S : Max(S) >= y
    BY <1>4 DEF Max
<1> QED
    BY <1>5

\* A finite set of natural numbers has an upper bound.
LEMMA FiniteBounded ==
  ASSUME NEW S \in SUBSET Nat, IsFiniteSet(S)
  PROVE  \E N \in Nat : S \subseteq 0 .. N
<1>1. PICK n \in Nat : ExistsSurjection(1 .. n, S)
    BY FS_NatSurjection
<1>2. PICK f \in Surjection(1 .. n, S) : TRUE
    BY <1>1 DEF ExistsSurjection
<1>3. f \in [1 .. n -> S] /\ \A x \in S : \E i \in 1 .. n : f[i] = x
    BY <1>2 DEF Surjection
<1> DEFINE T == {m \in 0 .. n : \E N \in Nat : \A i \in 1 .. m : f[i] <= N}
<1>4. 0 \in T
    BY <1>1
<1>5. ASSUME NEW m \in 1 .. n, m - 1 \in T PROVE m \in T
  <2>1. PICK N \in Nat : \A i \in 1 .. m - 1 : f[i] <= N
      BY <1>5
  <2>2. f[m] \in Nat
      BY <1>3
  <2> DEFINE M == IF f[m] <= N THEN N ELSE f[m]
  <2>3. M \in Nat /\ N <= M /\ f[m] <= M
      BY <2>2
  <2>4. ASSUME NEW i \in 1 .. m PROVE f[i] <= M
    <3>1. i \in 1 .. n
        OBVIOUS
    <3>2. f[i] \in Nat
        BY <1>3, <3>1
    <3> HIDE DEF M
    <3>3. i = m \/ i \in 1 .. m - 1
        OBVIOUS
    <3> QED
        BY <2>1, <2>3, <3>2, <3>3
  <2> HIDE DEF M
  <2>5. m \in 0 .. n
      OBVIOUS
  <2> QED
      BY <2>3, <2>4, <2>5
<1> HIDE DEF T
<1>6. n \in T
  <2>1. 0 .. n \subseteq T
      BY <1>4, <1>5, UpTo
  <2> QED
      BY <2>1
<1>7. PICK N \in Nat : \A i \in 1 .. n : f[i] <= N
    BY <1>6 DEF T
<1>8. ASSUME NEW x \in S PROVE x \in 0 .. N
  <2>1. PICK i \in 1 .. n : f[i] = x
      BY <1>3
  <2> QED
      BY <1>7, <2>1
<1> QED
    BY <1>8

\* The elements of FlattenSeq come in the order of the sequences they are of.
LEMMA FlattenOrder ==
  ASSUME NEW A, NEW ss \in Seq(Seq(A))
  PROVE  \A i, j \in DOMAIN FlattenSeq(ss) : i < j =>
            \E a, b \in DOMAIN ss :
               /\ a <= b
               /\ FlattenSeq(ss)[i] \in ToSet(ss[a])
               /\ FlattenSeq(ss)[j] \in ToSet(ss[b])
<1> DEFINE
      N == Len(ss)
      Ordered(p, n) ==
        \A i, j \in DOMAIN p : i <= j =>
          \E a, b \in 1 .. n : a <= b /\ p[i] \in ToSet(ss[a]) /\ p[j] \in ToSet(ss[b])
<1>1. PICK f \in [0 .. N -> Seq(A)] :
         /\ FlattenSeq(ss) = f[N]
         /\ f[0] = <<>>
         /\ \A n \in 1 .. N : f[n] = f[n - 1] \o ss[n]
    BY FlattenSteps
<1>2. N \in Nat /\ DOMAIN ss = 1 .. N
    OBVIOUS
<1> DEFINE S == {n \in 0 .. N : Ordered(f[n], n)}
<1>3. 0 \in S
  <2>1. DOMAIN f[0] = {}
      BY <1>1
  <2> QED
      BY <1>2, <2>1
<1>4. ASSUME NEW n \in 1 .. N, n - 1 \in S PROVE n \in S
  <2>1. n - 1 \in 0 .. N /\ n \in 0 .. N
      BY <1>2
  <2>2. Ordered(f[n - 1], n - 1)
      BY <1>4, Zenon
  <2> DEFINE p == f[n - 1]
             q == ss[n]
             m == Len(p)
  <2>3. p \in Seq(A) /\ q \in Seq(A)
    <3>1. \A i \in 0 .. N : f[i] \in Seq(A)
        OBVIOUS
    <3>2. \A i \in 1 .. N : ss[i] \in Seq(A)
        OBVIOUS
    <3> QED
        BY <2>1, <3>1, <3>2, Zenon
  <2>4. f[n] = p \o q
      BY <1>1
  <2> HIDE DEF p, q, N
  <2>5. /\ DOMAIN (p \o q) = 1 .. m + Len(q) /\ m \in Nat /\ Len(q) \in Nat
        /\ \A i \in 1 .. m : (p \o q)[i] = p[i] /\ i \in DOMAIN p
        /\ \A i \in 1 .. m + Len(q) : i > m => (p \o q)[i] = q[i - m] /\ i - m \in DOMAIN q
      BY <2>3
  <2> HIDE DEF m
  <2>6. ASSUME NEW i \in 1 .. m + Len(q), NEW j \in 1 .. m + Len(q), i <= j
        PROVE  \E a, b \in 1 .. n : /\ a <= b
                                    /\ (p \o q)[i] \in ToSet(ss[a])
                                    /\ (p \o q)[j] \in ToSet(ss[b])
    <3>1. CASE j <= m
      <4>1. i \in 1 .. m /\ j \in 1 .. m
          BY <2>5, <2>6, <3>1
      <4>2. PICK a, b \in 1 .. n - 1 : a <= b /\ p[i] \in ToSet(ss[a]) /\ p[j] \in ToSet(ss[b])
          BY <2>2, <2>5, <2>6, <4>1 DEF p
      <4>3. a \in 1 .. n /\ b \in 1 .. n
          OBVIOUS
      <4> QED
          BY <2>5, <4>1, <4>2, <4>3
    <3>2. CASE i <= m /\ j > m
      <4>1. i \in 1 .. m
          BY <2>5, <2>6, <3>2
      <4>2. PICK a \in 1 .. n - 1 : p[i] \in ToSet(ss[a])
          BY <2>2, <2>5, <4>1 DEF p
      <4>3. (p \o q)[j] \in ToSet(ss[n])
          BY <2>5, <3>2 DEF ToSet, q
      <4>4. a \in 1 .. n /\ n \in 1 .. n /\ a <= n
          BY <1>2
      <4> QED
          BY <2>5, <4>1, <4>2, <4>3, <4>4
    <3>3. CASE i > m
      <4>1. j > m
          BY <2>5, <2>6, <3>3
      <4>2. (p \o q)[i] \in ToSet(ss[n]) /\ (p \o q)[j] \in ToSet(ss[n])
          BY <2>5, <3>3, <4>1 DEF ToSet, q
      <4>3. n \in 1 .. n /\ n <= n
          BY <1>2
      <4> QED
          BY <4>2, <4>3
    <3>4. j <= m \/ (i <= m /\ j > m) \/ i > m
        BY <2>5
    <3> QED
        BY <3>1, <3>2, <3>3, <3>4, Zenon
  <2>7. Ordered(f[n], n)
      BY <2>4, <2>5, <2>6
  <2> QED
      BY <2>1, <2>7
<1> HIDE DEF S
<1>5. 0 .. N \subseteq S
    BY <1>2, <1>3, <1>4, UpTo
<1>6. Ordered(f[N], N)
  <2>1. N \in S
      BY <1>2, <1>5
  <2> QED
      BY <2>1 DEF S
<1> QED
  <2>1. \A i, j \in DOMAIN f[N] : i < j => i <= j
    <3>1. f[N] \in Seq(A)
        BY <1>1, <1>2
    <3> QED
        BY <3>1
  <2> QED
      BY <1>1, <1>2, <1>6, <2>1

\* FlattenSeq over the first n sequences, step by step.
FlattenTo(F, n) == FlattenSeq([p \in 1 .. n |-> F[p]])

LEMMA FlattenPrefixes ==
  ASSUME NEW A, NEW N \in Nat, NEW F \in [1 .. N -> Seq(A)]
  PROVE  /\ \A n \in 0 .. N : FlattenTo(F, n) \in Seq(A)
         /\ FlattenTo(F, 0) = <<>>
         /\ \A n \in 1 .. N : FlattenTo(F, n) = FlattenTo(F, n - 1) \o F[n]
<1> DEFINE ss(n) == [p \in 1 .. n |-> F[p]]
<1>1. ASSUME NEW n \in 0 .. N
      PROVE  /\ ss(n) \in Seq(Seq(A)) /\ Len(ss(n)) = n
             /\ FlattenSeq(ss(n)) \in Seq(A)
  <2>1. ss(n) \in Seq(Seq(A)) /\ Len(ss(n)) = n
      OBVIOUS
  <2> HIDE DEF ss
  <2> QED
      BY <2>1, FlattenProperties
<1>2. FlattenSeq(ss(0)) = <<>>
  <2>1. Len(ss(0)) = 0 /\ ss(0) = <<>>
      OBVIOUS
  <2> QED
      BY <2>1 DEF FlattenSeq
<1>3. ASSUME NEW n \in 1 .. N PROVE FlattenSeq(ss(n)) = FlattenSeq(ss(n - 1)) \o F[n]
  <2>1. n \in 0 .. N /\ n - 1 \in 0 .. N /\ n - 1 \in Nat /\ n \in 1 .. n
      OBVIOUS
  <2>2. \A i \in 1 .. n : ss(n)[i] = F[i]
      OBVIOUS
  <2>3. \A i \in 1 .. n - 1 : i \in 1 .. n /\ ss(n - 1)[i] = F[i]
      OBVIOUS
  <2> HIDE DEF ss
  <2>4. PICK f \in [0 .. n -> Seq(A)] :
           /\ FlattenSeq(ss(n)) = f[n]
           /\ f[0] = <<>>
           /\ \A i \in 1 .. n : f[i] = f[i - 1] \o ss(n)[i]
    <3>1. ss(n) \in Seq(Seq(A)) /\ Len(ss(n)) = n
        BY <1>1, <2>1
    <3>2. \E f \in [0 .. Len(ss(n)) -> Seq(A)] :
             /\ FlattenSeq(ss(n)) = f[Len(ss(n))]
             /\ f[0] = <<>>
             /\ \A i \in 1 .. Len(ss(n)) : f[i] = f[i - 1] \o ss(n)[i]
        BY <3>1, FlattenSteps
    <3> QED
        BY <3>1, <3>2
  <2>5. PICK g \in [0 .. n - 1 -> Seq(A)] :
           /\ FlattenSeq(ss(n - 1)) = g[n - 1]
           /\ g[0] = <<>>
           /\ \A i \in 1 .. n - 1 : g[i] = g[i - 1] \o ss(n - 1)[i]
    <3>1. ss(n - 1) \in Seq(Seq(A)) /\ Len(ss(n - 1)) = n - 1
        BY <1>1, <2>1
    <3>2. \E g \in [0 .. Len(ss(n - 1)) -> Seq(A)] :
             /\ FlattenSeq(ss(n - 1)) = g[Len(ss(n - 1))]
             /\ g[0] = <<>>
             /\ \A i \in 1 .. Len(ss(n - 1)) : g[i] = g[i - 1] \o ss(n - 1)[i]
        BY <3>1, FlattenSteps
    <3> QED
        BY <3>1, <3>2
  <2> DEFINE S == {i \in 0 .. n - 1 : f[i] = g[i]}
  <2>6. 0 \in S
      BY <2>1, <2>4, <2>5
  <2>7. ASSUME NEW i \in 1 .. n - 1, i - 1 \in S PROVE i \in S
    <3>1. i \in 0 .. n - 1 /\ f[i - 1] = g[i - 1]
        BY <2>7
    <3>2. f[i] = f[i - 1] \o ss(n)[i] /\ g[i] = g[i - 1] \o ss(n - 1)[i]
        BY <2>3, <2>4, <2>5
    <3>3. ss(n)[i] = ss(n - 1)[i]
        BY <2>2, <2>3
    <3> QED
        BY <3>1, <3>2, <3>3
  <2> HIDE DEF S
  <2>8. 0 .. n - 1 \subseteq S
      BY <2>1, <2>6, <2>7, UpTo
  <2>9. f[n - 1] = g[n - 1]
    <3>1. n - 1 \in S
        BY <2>1, <2>8
    <3> QED
        BY <3>1 DEF S
  <2> QED
      BY <2>1, <2>2, <2>4, <2>5, <2>9
<1> QED
    BY <1>1, <1>2, <1>3 DEF FlattenTo

\* Empty sequences add nothing.
LEMMA FlattenEmpty ==
  ASSUME NEW A, NEW N \in Nat, NEW F \in [1 .. N -> Seq(A)], NEW m \in 0 .. N, NEW q \in 0 .. N,
         m <= q, \A p \in m + 1 .. q : F[p] = <<>>
  PROVE  FlattenTo(F, q) = FlattenTo(F, m)
<1> DEFINE P(n) == FlattenTo(F, n)
           S == {k \in 0 .. q - m : P(m + k) = P(m)}
<1>1. 0 \in S /\ q - m \in Nat
  <2>1. m + 0 = m /\ q - m \in Nat
      OBVIOUS
  <2>2. P(m + 0) = P(m)
      BY <2>1
  <2> QED
      BY <2>1, <2>2
<1>2. ASSUME NEW k \in 1 .. q - m, k - 1 \in S PROVE k \in S
  <2>1. m + k \in 1 .. N /\ m + k \in m + 1 .. q /\ (m + k) - 1 = m + (k - 1) /\ k \in 0 .. q - m
      OBVIOUS
  <2>2. P(m + k) = P((m + k) - 1) \o F[m + k] /\ P((m + k) - 1) \in Seq(A)
    <3>1. (m + k) - 1 \in 0 .. N
        BY <2>1
    <3> QED
        BY <2>1, <3>1, FlattenPrefixes
  <2>3. F[m + k] = <<>>
      BY <2>1
  <2>4. P(m + (k - 1)) = P(m)
      BY <1>2
  <2> HIDE DEF P
  <2>5. P(m + k) = P(m)
      BY <2>1, <2>2, <2>3, <2>4
  <2> QED
      BY <2>1, <2>5
<1> HIDE DEF S
<1>3. q - m \in S
  <2>1. 0 .. q - m \subseteq S
      BY <1>1, <1>2, UpTo
  <2> QED
      BY <1>1, <2>1
<1>4. P(m + (q - m)) = P(m) /\ m + (q - m) = q
    BY <1>3 DEF S
<1> QED
    BY <1>4

\* The first m sequences, and then the others.
LEMMA FlattenConcat ==
  ASSUME NEW A, NEW N \in Nat, NEW F \in [1 .. N -> Seq(A)], NEW m \in 0 .. N
  PROVE  FlattenSeq(F) = FlattenTo(F, m) \o FlattenSeq([p \in 1 .. N - m |-> F[m + p]])
<1> DEFINE G == [p \in 1 .. N - m |-> F[m + p]]
           P(n) == FlattenTo(F, n)
           Q(n) == FlattenTo(G, n)
           S == {k \in 0 .. N - m : P(m + k) = P(m) \o Q(k)}
<1>1. N - m \in Nat /\ G \in [1 .. N - m -> Seq(A)]
    OBVIOUS
<1>2. \A p \in 1 .. N - m : G[p] = F[m + p]
    OBVIOUS
<1> HIDE DEF G
<1>3. /\ \A n \in 0 .. N : P(n) \in Seq(A)
      /\ \A n \in 1 .. N : P(n) = P(n - 1) \o F[n]
    BY FlattenPrefixes
<1>4. /\ \A n \in 0 .. N - m : Q(n) \in Seq(A)
      /\ Q(0) = <<>>
      /\ \A n \in 1 .. N - m : Q(n) = Q(n - 1) \o G[n]
    BY <1>1, FlattenPrefixes
<1>5. [p \in 1 .. N |-> F[p]] = F /\ [p \in 1 .. N - m |-> G[p]] = G
    BY <1>1
<1>6. P(N) = FlattenSeq(F) /\ Q(N - m) = FlattenSeq(G)
    BY <1>5 DEF FlattenTo
<1> HIDE DEF P, Q
<1>7. 0 \in S
  <2>1. m + 0 = m /\ P(m) \in Seq(A) /\ Q(0) = <<>> /\ 0 \in 0 .. N - m
      BY <1>1, <1>3, <1>4
  <2>2. P(m) \o <<>> = P(m)
      BY <2>1
  <2> QED
      BY <2>1, <2>2
<1>8. ASSUME NEW k \in 1 .. N - m, k - 1 \in S PROVE k \in S
  <2>1. /\ m + k \in 1 .. N /\ (m + k) - 1 = m + (k - 1) /\ k \in 0 .. N - m
        /\ k - 1 \in 0 .. N - m
      OBVIOUS
  <2>2. P(m + (k - 1)) = P(m) \o Q(k - 1)
      BY <1>8
  <2>3. P(m + k) = (P(m) \o Q(k - 1)) \o F[m + k]
      BY <1>3, <2>1, <2>2
  <2>4. Q(k) = Q(k - 1) \o F[m + k]
      BY <1>2, <1>4
  <2>5. P(m) \in Seq(A) /\ Q(k - 1) \in Seq(A) /\ F[m + k] \in Seq(A)
      BY <1>3, <1>4, <2>1
  <2>6. (P(m) \o Q(k - 1)) \o F[m + k] = P(m) \o (Q(k - 1) \o F[m + k])
    <3>1. \A s, t, u \in Seq(A) : (s \o t) \o u = s \o (t \o u)
        BY ConcatAssociative
    <3> QED
        BY <2>5, <3>1
  <2> QED
      BY <2>1, <2>3, <2>4, <2>6
<1> HIDE DEF S
<1>9. N - m \in S
  <2>1. 0 .. N - m \subseteq S
      BY <1>1, <1>7, <1>8, UpTo
  <2> QED
      BY <1>1, <2>1
<1>10. P(m + (N - m)) = P(m) \o Q(N - m) /\ m + (N - m) = N
    BY <1>9 DEF S
<1>11. FlattenSeq(F) = P(m) \o FlattenSeq(G)
    BY <1>6, <1>10
<1> QED
    BY <1>11 DEF P, G
=============================================================================
