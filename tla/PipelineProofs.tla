--------------------------- MODULE PipelineProofs ---------------------------
(***************************************************************************)
(* Proofs about Pipeline: types; that a checksum compares all rows of its  *)
(* table with one reading of the collection, whatever cursors, statements  *)
(* and attempts failed; that the verdict of the report is founded on such  *)
(* readings; and that it has no warnings when what was loaded agrees with  *)
(* the documents and these do not change.                                  *)
(*                                                                         *)
(* The inductive invariant (IInv) keeps stages, phases and retries in      *)
(* their ranges (Control), the plan and the load those of one collection   *)
(* (Placed), and what has been read of the table the part of a reading     *)
(* that ends with the last `_id`, and the rows up to the last key (Read).  *)
(***************************************************************************)
EXTENDS Pipeline, SequenceLemmas

(***************************************************************************)
(* Places of keys.                                                         *)
(***************************************************************************)
\* Where a key is in a sequence of keys.
PlacesAt(keys, x) == Pick([i \in DOMAIN keys |-> i], {i \in DOMAIN keys : keys[i] = x})

\* The places of one key.
LEMMA PlacesAtProperties ==
  ASSUME NEW K, NEW keys \in Seq(K), NEW x
  PROVE  /\ PlacesAt(keys, x) \in Seq(DOMAIN keys)
         /\ IsInjective(PlacesAt(keys, x))
         /\ ToSet(PlacesAt(keys, x)) = {i \in DOMAIN keys : keys[i] = x}
<1> DEFINE s == [i \in DOMAIN keys |-> i]
           T == {i \in DOMAIN keys : keys[i] = x}
<1>1. s \in Seq(DOMAIN keys) /\ DOMAIN s = DOMAIN keys /\ \A i \in DOMAIN keys : s[i] = i
    OBVIOUS
<1>2. IsInjective(s) /\ ToSet(s) = DOMAIN keys /\ T \subseteq DOMAIN keys
    BY <1>1 DEF IsInjective, ToSet
<1> HIDE DEF s, T
<1>3. /\ Pick(s, T) \in Seq(DOMAIN keys)
      /\ ToSet(Pick(s, T)) = ToSet(s) \intersect T
    BY <1>1, PickProperties
<1>4. IsInjective(Pick(s, T))
    BY <1>1, <1>2, PickInjective
<1>5. ToSet(Pick(s, T)) = T
    BY <1>2, <1>3
<1> QED
    BY <1>3, <1>4, <1>5 DEF PlacesAt, s, T

\* Places puts the places of the keys one after another.
LEMMA PlacesIs ==
  ASSUME NEW K, NEW keys \in Seq(K), NEW O, NEW order \in Seq(O)
  PROVE  /\ [k \in 1 .. Len(order) |-> PlacesAt(keys, order[k])]
               \in [1 .. Len(order) -> Seq(DOMAIN keys)]
         /\ [k \in 1 .. Len(order) |-> PlacesAt(keys, order[k])] \in Seq(Seq(DOMAIN keys))
         /\ Places(keys, order) = FlattenSeq([k \in 1 .. Len(order) |-> PlacesAt(keys, order[k])])
<1>1. \A k \in 1 .. Len(order) : PlacesAt(keys, order[k]) \in Seq(DOMAIN keys)
    BY PlacesAtProperties
<1>2. DOMAIN order = 1 .. Len(order) /\ Len(order) \in Nat
    OBVIOUS
<1>3. Places(keys, order) = FlattenSeq([k \in 1 .. Len(order) |-> PlacesAt(keys, order[k])])
    BY <1>2 DEF Places, PlacesAt
<1> QED
    BY <1>1, <1>2, <1>3

\* Every place whose key is in the order comes once, in that order.
LEMMA PlacesProperties ==
  ASSUME NEW K, NEW keys \in Seq(K), NEW O, NEW order \in Seq(O), IsInjective(order)
  PROVE  /\ Places(keys, order) \in Seq(DOMAIN keys)
         /\ IsInjective(Places(keys, order))
         /\ ToSet(Places(keys, order)) = {i \in DOMAIN keys : keys[i] \in Range(order)}
         /\ \A i, j \in DOMAIN Places(keys, order) : i < j =>
              \E a, b \in DOMAIN order : /\ a <= b
                                         /\ keys[Places(keys, order)[i]] = order[a]
                                         /\ keys[Places(keys, order)[j]] = order[b]
<1> DEFINE ss == [k \in 1 .. Len(order) |-> PlacesAt(keys, order[k])]
<1>1. ss \in Seq(Seq(DOMAIN keys)) /\ Places(keys, order) = FlattenSeq(ss)
    BY PlacesIs
<1>2. DOMAIN ss = DOMAIN order
    OBVIOUS
<1>3. ASSUME NEW k \in DOMAIN order
      PROVE  /\ IsInjective(ss[k])
             /\ ToSet(ss[k]) = {i \in DOMAIN keys : keys[i] = order[k]}
  <2>1. ss[k] = PlacesAt(keys, order[k])
      OBVIOUS
  <2> HIDE DEF ss
  <2> QED
      BY <2>1, PlacesAtProperties
<1> HIDE DEF ss
<1>4. \A i, j \in DOMAIN ss : i # j => ToSet(ss[i]) \intersect ToSet(ss[j]) = {}
    BY <1>2, <1>3 DEF IsInjective
<1>5. /\ FlattenSeq(ss) \in Seq(DOMAIN keys)
      /\ ToSet(FlattenSeq(ss)) = UNION {ToSet(ss[i]) : i \in DOMAIN ss}
      /\ IsInjective(FlattenSeq(ss))
    BY <1>1, <1>2, <1>3, <1>4, FlattenProperties
<1>6. ToSet(FlattenSeq(ss)) = {i \in DOMAIN keys : keys[i] \in Range(order)}
  <2>1. \A i : i \in ToSet(FlattenSeq(ss)) <=> \E k \in DOMAIN order : i \in ToSet(ss[k])
      BY <1>2, <1>5
  <2>2. \A i : i \in ToSet(FlattenSeq(ss)) <=>
               \E k \in DOMAIN order : i \in DOMAIN keys /\ keys[i] = order[k]
      BY <1>3, <2>1
  <2> QED
      BY <2>2 DEF Range
<1>7. ASSUME NEW i \in DOMAIN FlattenSeq(ss), NEW j \in DOMAIN FlattenSeq(ss), i < j
      PROVE  \E a, b \in DOMAIN order : /\ a <= b
                                        /\ keys[FlattenSeq(ss)[i]] = order[a]
                                        /\ keys[FlattenSeq(ss)[j]] = order[b]
  <2>1. PICK a \in DOMAIN ss, b \in DOMAIN ss :
           /\ a <= b
           /\ FlattenSeq(ss)[i] \in ToSet(ss[a])
           /\ FlattenSeq(ss)[j] \in ToSet(ss[b])
    <3>1. \E a, b \in DOMAIN ss :
             /\ a <= b
             /\ FlattenSeq(ss)[i] \in ToSet(ss[a])
             /\ FlattenSeq(ss)[j] \in ToSet(ss[b])
        BY <1>1, <1>7, FlattenOrder
    <3> QED
        BY <3>1
  <2> QED
      BY <1>2, <1>3, <2>1
<1> QED
    BY <1>1, <1>5, <1>6, <1>7

\* What is before an element of a sequence, and what is behind it.
LEMMA AroundParts ==
  ASSUME NEW A, NEW s \in Seq(A), NEW i \in 1 .. Len(s)
  PROVE  /\ SubSeq(s, 1, i - 1) \in Seq(A) /\ Len(SubSeq(s, 1, i - 1)) = i - 1
         /\ \A j \in 1 .. i - 1 : SubSeq(s, 1, i - 1)[j] = s[j]
         /\ SubSeq(s, i + 1, Len(s)) \in Seq(A) /\ Len(SubSeq(s, i + 1, Len(s))) = Len(s) - i
         /\ \A j \in 1 .. Len(s) - i : SubSeq(s, i + 1, Len(s))[j] = s[i + j]
<1>1. /\ SubSeq(s, 1, i - 1) \in Seq(A) /\ Len(SubSeq(s, 1, i - 1)) = i - 1
      /\ \A j \in 1 .. i - 1 : SubSeq(s, 1, i - 1)[j] = s[j]
    OBVIOUS
<1>2. /\ SubSeq(s, i + 1, Len(s)) \in Seq(A) /\ Len(SubSeq(s, i + 1, Len(s))) = Len(s) - i
      /\ \A j \in 1 .. Len(s) - i : SubSeq(s, i + 1, Len(s))[j] = s[i + j]
    OBVIOUS
<1> QED
    BY <1>1, <1>2

\* Of two sequences, one behind the other: the last element, those of the first
\* and what is behind the first.
LEMMA ConcatParts ==
  ASSUME NEW A, NEW s \in Seq(A), NEW t \in Seq(A)
  PROVE  /\ t # <<>> => /\ Len(s \o t) \in DOMAIN (s \o t) /\ Len(t) \in DOMAIN t
                        /\ (s \o t)[Len(s \o t)] = t[Len(t)]
         /\ \A i \in DOMAIN s : i \in DOMAIN (s \o t) /\ (s \o t)[i] = s[i]
         /\ SubSeq(s \o t, Len(s) + 1, Len(s \o t)) = t
<1>1. s \o t \in Seq(A) /\ Len(s \o t) = Len(s) + Len(t) /\ Len(s) \in Nat /\ Len(t) \in Nat
    OBVIOUS
<1>2. \A i \in 1 .. Len(t) : (s \o t)[Len(s) + i] = t[i]
    OBVIOUS
<1>3. t # <<>> => Len(t) \in 1 .. Len(t)
    OBVIOUS
<1>4. \A i \in DOMAIN s : i \in DOMAIN (s \o t) /\ (s \o t)[i] = s[i]
    OBVIOUS
<1> DEFINE u == SubSeq(s \o t, Len(s) + 1, Len(s \o t))
<1>5. u \in Seq(A) /\ Len(u) = Len(t) /\ \A i \in 1 .. Len(t) : u[i] = (s \o t)[Len(s) + i]
    BY <1>1
<1>6. u = t
    BY <1>2, <1>5
<1>7. t # <<>> => /\ Len(s \o t) \in DOMAIN (s \o t) /\ Len(t) \in DOMAIN t
                  /\ (s \o t)[Len(s \o t)] = t[Len(t)]
    BY <1>1, <1>2, <1>3
<1> QED
    BY <1>4, <1>6, <1>7

\* Behind the place of a key come the places of the keys behind it, if the keys
\* differ.
LEMMA PlacesSuffix ==
  ASSUME NEW K, NEW keys \in Seq(K), IsInjective(keys),
         NEW O, NEW order \in Seq(O), IsInjective(order),
         NEW n \in DOMAIN Places(keys, order), NEW q \in DOMAIN order,
         keys[Places(keys, order)[n]] = order[q]
  PROVE  Places(keys, SubSeq(order, q + 1, Len(order))) =
           SubSeq(Places(keys, order), n + 1, Len(Places(keys, order)))
<1> DEFINE
      N == Len(order)
      F == [k \in 1 .. N |-> PlacesAt(keys, order[k])]
      at == Places(keys, order)
      rest == SubSeq(order, q + 1, N)
      G == [k \in 1 .. N - q |-> F[q + k]]
      P(m) == FlattenTo(F, m)
<1>1. N \in Nat /\ DOMAIN order = 1 .. N /\ q \in 1 .. N /\ q - 1 \in 0 .. N /\ q \in 0 .. N
    OBVIOUS
<1>2. F \in [1 .. N -> Seq(DOMAIN keys)] /\ at = FlattenSeq(F)
    BY PlacesIs
<1>3. at \in Seq(DOMAIN keys) /\ IsInjective(at)
    BY PlacesProperties
<1>4. rest \in Seq(O) /\ Len(rest) = N - q /\ \A k \in 1 .. N - q : rest[k] = order[q + k]
    BY <1>1
<1>5. G = [k \in 1 .. Len(rest) |-> PlacesAt(keys, rest[k])]
  <2>1. \A k \in 1 .. N - q : q + k \in 1 .. N
      BY <1>1
  <2>2. \A k \in 1 .. N - q : G[k] = PlacesAt(keys, rest[k])
      BY <1>4, <2>1
  <2> QED
      BY <1>4, <2>2
<1>6. Places(keys, rest) = FlattenSeq(G)
  <2> HIDE DEF G, rest
  <2> QED
      BY <1>4, <1>5, PlacesIs
<1>7. F[q] = PlacesAt(keys, order[q])
    BY <1>1
<1> HIDE DEF F, at, rest, N
<1>8. at = P(q) \o FlattenSeq(G)
  <2>1. FlattenSeq(F) = FlattenTo(F, q) \o FlattenSeq([p \in 1 .. N - q |-> F[q + p]])
      BY <1>1, <1>2, FlattenConcat
  <2> QED
      BY <1>2, <2>1
<1>9. P(q) = P(q - 1) \o F[q] /\ P(q) \in Seq(DOMAIN keys) /\ P(q - 1) \in Seq(DOMAIN keys)
    BY <1>1, <1>2, FlattenPrefixes
<1>10. FlattenSeq(G) \in Seq(DOMAIN keys)
  <2>1. G \in Seq(Seq(DOMAIN keys))
    <3>1. \A k \in 1 .. N - q : q + k \in 1 .. N /\ N - q \in Nat
        BY <1>1
    <3>2. N - q \in Nat
        BY <1>1
    <3> QED
        BY <1>2, <3>1, <3>2
  <2> HIDE DEF G
  <2> QED
      BY <2>1, FlattenProperties
<1> HIDE DEF G, P
\* The key is the last of those up to it.
<1>11. n \in DOMAIN at /\ at[n] \in DOMAIN keys /\ keys[at[n]] = order[q]
    BY <1>3 DEF at
<1>12. F[q] \in Seq(DOMAIN keys) /\ F[q] # <<>> /\ ToSet(F[q]) = {at[n]}
  <2>1. F[q] \in Seq(DOMAIN keys) /\ ToSet(F[q]) = {i \in DOMAIN keys : keys[i] = order[q]}
      BY <1>7, PlacesAtProperties
  <2>2. ToSet(F[q]) = {at[n]}
      BY <1>11, <2>1 DEF IsInjective
  <2>3. F[q] # <<>>
      BY <2>1, <2>2, ToSetFacts
  <2> QED
      BY <2>1, <2>2, <2>3
<1> DEFINE
      m == Len(P(q))
      Parts(s, t) ==
        /\ t # <<>> => /\ Len(s \o t) \in DOMAIN (s \o t) /\ Len(t) \in DOMAIN t
                       /\ (s \o t)[Len(s \o t)] = t[Len(t)]
        /\ \A i \in DOMAIN s : i \in DOMAIN (s \o t) /\ (s \o t)[i] = s[i]
        /\ SubSeq(s \o t, Len(s) + 1, Len(s \o t)) = t
<1>p. Parts(P(q - 1), F[q]) /\ Parts(P(q), FlattenSeq(G))
  <2>1. \A s, t \in Seq(DOMAIN keys) : Parts(s, t)
      BY ConcatParts
  <2> HIDE DEF Parts
  <2> QED
      BY <1>9, <1>10, <1>12, <2>1
<1>13. m \in DOMAIN at /\ at[m] = at[n]
  <2>1. m \in DOMAIN P(q) /\ P(q)[m] = F[q][Len(F[q])] /\ Len(F[q]) \in DOMAIN F[q]
      BY <1>9, <1>12, <1>p
  <2>2. F[q][Len(F[q])] = at[n]
      BY <1>12, <2>1 DEF ToSet
  <2>3. m \in DOMAIN at /\ at[m] = P(q)[m]
      BY <1>8, <1>9, <1>10, <2>1, <1>p
  <2> QED
      BY <2>1, <2>2, <2>3
<1>14. m = n
    BY <1>3, <1>11, <1>13 DEF IsInjective
<1>15. FlattenSeq(G) = SubSeq(at, m + 1, Len(at))
    BY <1>8, <1>9, <1>10, <1>p
<1> QED
    BY <1>6, <1>14, <1>15 DEF at, rest, N

(***************************************************************************)
(* What a statement returns.                                               *)
(***************************************************************************)

\* The position of a member of an order without repetitions.
LEMMA PositionOf ==
  ASSUME NEW O, NEW order \in Seq(O), IsInjective(order), NEW q \in DOMAIN order
  PROVE  Position(order, order[q]) = q
<1>1. \A i \in DOMAIN order : order[i] = order[q] => i = q
    BY DEF IsInjective
<1> QED
    BY <1>1 DEF Position

\* Every member has a position.
LEMMA PositionIn ==
  ASSUME NEW O, NEW order \in Seq(O), NEW x \in Range(order)
  PROVE  Position(order, x) \in DOMAIN order /\ order[Position(order, x)] = x
  BY DEF Range, Position

\* The keys of the rows of a table.
RowKeys(t, rows) == [i \in DOMAIN rows |-> Key(t, rows[i])]

\* The order of the keys has no repetitions.
LEMMA Orders == TextOrder \in Seq(Range(TextOrder)) /\ IsInjective(TextOrder)
  BY PipelineAssumption DEF PipelineAssumption

\* A first statement returns every row once.
LEMMA SelectedFirst ==
  ASSUME NEW t, NEW rows, Tabular(t, rows)
  PROVE  \E at \in Seq(DOMAIN rows) :
            /\ IsInjective(at) /\ ToSet(at) = DOMAIN rows
            /\ Selected(t, rows, None) = [k \in DOMAIN at |-> rows[at[k]]]
<1>1. rows \in Seq(Range(rows))
    BY DEF Tabular
<1>2. CASE ResumeColumn(t) = None
  <2> DEFINE at == [i \in DOMAIN rows |-> i]
  <2>1. at \in Seq(DOMAIN rows) /\ DOMAIN at = DOMAIN rows /\ \A i \in DOMAIN rows : at[i] = i
      BY <1>1
  <2>2. Selected(t, rows, None) = rows
      BY <1>2 DEF Selected
  <2>3. rows = [k \in DOMAIN at |-> rows[at[k]]]
      BY <1>1, <2>1
  <2>4. IsInjective(at) /\ ToSet(at) = DOMAIN rows
      BY <2>1 DEF IsInjective, ToSet
  <2> HIDE DEF at
  <2> QED
      BY <2>1, <2>2, <2>3, <2>4
<1>3. CASE ResumeColumn(t) # None
  <2> DEFINE keys == RowKeys(t, rows)
             at == Places(keys, TextOrder)
  <2>1. keys \in Seq(Range(TextOrder)) /\ DOMAIN keys = DOMAIN rows
    <3>1. \A i \in DOMAIN rows : Key(t, rows[i]) \in Range(TextOrder)
        BY <1>3 DEF Tabular
    <3> QED
        BY <1>1, <3>1 DEF RowKeys
  <2>2. \A i \in DOMAIN keys : keys[i] \in Range(TextOrder)
      BY <2>1
  <2>3. Selected(t, rows, None) = [k \in DOMAIN at |-> rows[at[k]]]
      BY <1>3 DEF Selected, ByKey, RowKeys
  <2> HIDE DEF keys
  <2>4. /\ at \in Seq(DOMAIN keys) /\ IsInjective(at)
        /\ ToSet(at) = {i \in DOMAIN keys : keys[i] \in Range(TextOrder)}
      BY <2>1, Orders, PlacesProperties
  <2> QED
      BY <2>1, <2>2, <2>3, <2>4
<1> QED
    BY <1>2, <1>3

\* A statement that is resumed returns the rows behind the last one, if it can
\* be resumed at all.
LEMMA SelectedRest ==
  ASSUME NEW t, NEW rows, Tabular(t, rows), Resumable(t, rows),
         NEW n \in DOMAIN Selected(t, rows, None)
  PROVE  Selected(t, rows, Some(Key(t, Selected(t, rows, None)[n]))) =
            SubSeq(Selected(t, rows, None), n + 1, Len(Selected(t, rows, None)))
<1> DEFINE
      keys == RowKeys(t, rows)
      at == Places(keys, TextOrder)
      S == Selected(t, rows, None)
<1>1. ResumeColumn(t) # None /\ rows \in Seq(Range(rows)) /\ IsInjective(keys)
    BY DEF Resumable, Tabular, RowKeys
<1>2. keys \in Seq(Range(TextOrder)) /\ DOMAIN keys = DOMAIN rows
      /\ \A i \in DOMAIN rows : keys[i] = Key(t, rows[i])
  <2>1. \A i \in DOMAIN rows : Key(t, rows[i]) \in Range(TextOrder)
      BY <1>1 DEF Tabular
  <2> QED
      BY <1>1, <2>1 DEF RowKeys
<1>3. S = ByKey(t, rows, TextOrder)
    BY <1>1 DEF Selected
<1>4. \A order : ByKey(t, rows, order) =
                 [k \in DOMAIN Places(keys, order) |-> rows[Places(keys, order)[k]]]
    BY DEF ByKey, RowKeys
<1>5. S = [k \in DOMAIN at |-> rows[at[k]]]
    BY <1>3, <1>4
<1> HIDE DEF keys
<1>6. at \in Seq(DOMAIN keys)
    BY <1>2, Orders, PlacesProperties
<1>7. n \in DOMAIN at /\ S[n] = rows[at[n]] /\ at[n] \in DOMAIN rows
    BY <1>2, <1>5, <1>6
<1> DEFINE x == Key(t, S[n])
           q == Position(TextOrder, x)
<1>8. x = keys[at[n]] /\ x \in Range(TextOrder)
    BY <1>2, <1>7
<1>9. q \in DOMAIN TextOrder /\ TextOrder[q] = keys[at[n]]
    BY <1>8, Orders, PositionIn
<1>10. Selected(t, rows, Some(x)) = ByKey(t, rows, SubSeq(TextOrder, q + 1, Len(TextOrder)))
  <2>1. Some(x) # None /\ Some(x)[1] = x
      BY DEF Some, None
  <2> QED
      BY <1>1, <2>1 DEF Selected
<1> HIDE DEF S, x, q
<1>11. Places(keys, SubSeq(TextOrder, q + 1, Len(TextOrder))) = SubSeq(at, n + 1, Len(at))
    BY <1>1, <1>2, <1>7, <1>9, Orders, PlacesSuffix
<1> HIDE DEF at
<1>12. Selected(t, rows, Some(x)) =
         [k \in DOMAIN SubSeq(at, n + 1, Len(at)) |-> rows[SubSeq(at, n + 1, Len(at))[k]]]
  <2> DEFINE o == SubSeq(TextOrder, q + 1, Len(TextOrder))
  <2>1. Selected(t, rows, Some(x)) = ByKey(t, rows, o)
      BY <1>10
  <2>2. Places(keys, o) = SubSeq(at, n + 1, Len(at))
      BY <1>11
  <2> HIDE DEF o
  <2>3. ByKey(t, rows, o) = [k \in DOMAIN Places(keys, o) |-> rows[Places(keys, o)[k]]]
      BY <1>4
  <2> QED
      BY <2>1, <2>2, <2>3
<1>13. S \in Seq(Range(rows)) /\ Len(S) = Len(at)
    BY <1>2, <1>5, <1>6 DEF Range
<1>14. n \in 1 .. Len(at) /\ Len(at) \in Nat
    BY <1>6, <1>7
<1>15. /\ DOMAIN SubSeq(at, n + 1, Len(at)) = 1 .. Len(at) - n
       /\ \A k \in 1 .. Len(at) - n : SubSeq(at, n + 1, Len(at))[k] = at[n + k] /\ n + k \in DOMAIN at
    BY <1>6, <1>14
<1>16. /\ SubSeq(S, n + 1, Len(S)) \in Seq(Range(rows))
       /\ DOMAIN SubSeq(S, n + 1, Len(S)) = 1 .. Len(at) - n
       /\ \A k \in 1 .. Len(at) - n : SubSeq(S, n + 1, Len(S))[k] = S[n + k]
    BY <1>13, <1>14
<1>17. \A k \in 1 .. Len(at) - n : S[n + k] = rows[at[n + k]]
    BY <1>5, <1>15
<1>18. Selected(t, rows, Some(x)) = [k \in 1 .. Len(at) - n |-> rows[at[n + k]]]
  <2> DEFINE p == SubSeq(at, n + 1, Len(at))
  <2>1. Selected(t, rows, Some(x)) = [k \in DOMAIN p |-> rows[p[k]]]
      BY <1>12
  <2>2. DOMAIN p = 1 .. Len(at) - n /\ \A k \in 1 .. Len(at) - n : p[k] = at[n + k]
      BY <1>15
  <2> HIDE DEF p
  <2>3. [k \in DOMAIN p |-> rows[p[k]]] = [k \in 1 .. Len(at) - n |-> rows[at[n + k]]]
      BY <2>2
  <2> QED
      BY <2>1, <2>3
<1>19. SubSeq(S, n + 1, Len(S)) = [k \in 1 .. Len(at) - n |-> rows[at[n + k]]]
  <2> DEFINE w == SubSeq(S, n + 1, Len(S))
  <2>1. w \in Seq(Range(rows)) /\ DOMAIN w = 1 .. Len(at) - n
        /\ \A k \in 1 .. Len(at) - n : w[k] = rows[at[n + k]]
      BY <1>16, <1>17
  <2> HIDE DEF w
  <2>2. w = [k \in 1 .. Len(at) - n |-> w[k]]
      BY <2>1
  <2> QED
      BY <2>1, <2>2 DEF w
<1> QED
    BY <1>18, <1>19 DEF S, x

(***************************************************************************)
(* The hashes of two sides are compared as bags.                           *)
(***************************************************************************)
\* How often x is in the sequence u.
Count(u, x) == Cardinality({i \in DOMAIN u : u[i] = x})

\* Two sequences are the same bag if they are as long and hold everything as often.
LEMMA SameBagIs ==
  ASSUME NEW s, NEW u
  PROVE  SameBag(s, u) <=> Len(s) = Len(u) /\ \A x \in Range(s) : Count(s, x) = Count(u, x)
  BY DEF SameBag, Count

\* A sequence is the same bag as another in whatever order that one is read.
LEMMA SameBagPermuted ==
  ASSUME NEW s, NEW A, NEW b \in Seq(A), NEW at \in Seq(DOMAIN b),
         IsInjective(at), ToSet(at) = DOMAIN b
  PROVE  SameBag(s, [k \in DOMAIN at |-> b[at[k]]]) <=> SameBag(s, b)
<1> DEFINE a == [k \in DOMAIN at |-> b[at[k]]]
<1>1. /\ DOMAIN at = 1 .. Len(at) /\ Len(at) \in Nat /\ DOMAIN b = 1 .. Len(b) /\ Len(b) \in Nat
      /\ \A k \in DOMAIN at : at[k] \in DOMAIN b
      /\ \A i \in DOMAIN b : \E k \in DOMAIN at : at[k] = i
      /\ \A j, k \in DOMAIN at : at[j] = at[k] => j = k
    BY DEF IsInjective, ToSet
<1>2. a \in Seq(A) /\ Len(a) = Len(at) /\ DOMAIN a = DOMAIN at /\ \A k \in DOMAIN at : a[k] = b[at[k]]
    BY <1>1
<1> HIDE DEF a
<1>3. ASSUME NEW x PROVE Count(a, x) = Count(b, x)
  <2> DEFINE S == {k \in DOMAIN a : a[k] = x}
             T == {i \in DOMAIN b : b[i] = x}
             f == [k \in S |-> at[k]]
  <2>1. IsFiniteSet(S)
    <3>1. IsFiniteSet(1 .. Len(at)) /\ S \subseteq 1 .. Len(at)
        BY <1>1, <1>2, FS_Interval
    <3> QED
        BY <3>1, FS_Subset
  <2>2. f \in [S -> T] /\ \A k \in S : f[k] = at[k] /\ k \in DOMAIN at
      BY <1>1, <1>2
  <2>3. ASSUME NEW i \in T PROVE \E k \in S : f[k] = i
    <3>1. PICK k \in DOMAIN at : at[k] = i
        BY <1>1
    <3>2. k \in S
        BY <1>2, <3>1
    <3> QED
        BY <2>2, <3>1, <3>2
  <2>4. \A j, k \in S : f[j] = f[k] => j = k
      BY <1>1, <2>2
  <2> HIDE DEF S, T, f
  <2>5. ExistsBijection(S, T)
      BY <2>2, <2>3, <2>4 DEF ExistsBijection, Bijection, Injection, Surjection, IsInjective
  <2>6. Cardinality(T) = Cardinality(S)
      BY <2>1, <2>5, FS_Bijection
  <2> QED
      BY <2>6 DEF Count, S, T
<1>4. Len(a) = Len(b)
  <2>1. at \in Bijection(1 .. Len(at), 1 .. Len(b))
    <3>1. at \in [1 .. Len(at) -> 1 .. Len(b)]
        BY <1>1
    <3>2. \A i \in 1 .. Len(b) : \E k \in 1 .. Len(at) : at[k] = i
        BY <1>1
    <3>3. \A j, k \in 1 .. Len(at) : at[j] = at[k] => j = k
        BY <1>1
    <3> QED
        BY <3>1, <3>2, <3>3 DEF Bijection, Injection, Surjection, IsInjective
  <2>2. ExistsBijection(1 .. Len(at), 1 .. Len(b))
      BY <2>1 DEF ExistsBijection
  <2>3. /\ IsFiniteSet(1 .. Len(at))
        /\ Cardinality(1 .. Len(at)) = Len(at) /\ Cardinality(1 .. Len(b)) = Len(b)
    <3>1. \A n \in Nat : IsFiniteSet(1 .. n) /\ Cardinality(1 .. n) = IF 1 > n THEN 0 ELSE n - 1 + 1
        BY FS_Interval
    <3> QED
        BY <1>1, <3>1
  <2>4. Cardinality(1 .. Len(b)) = Cardinality(1 .. Len(at))
      BY <2>2, <2>3, FS_Bijection
  <2> QED
      BY <1>2, <2>3, <2>4
<1>5. SameBag(s, a) <=> SameBag(s, b)
    BY <1>3, <1>4, SameBagIs, Zenon
<1> QED
    BY <1>5 DEF a

(***************************************************************************)
(* Control: stages, phases and retries.                                    *)
(***************************************************************************)
Control ==
    /\ stage \in Stages /\ route \in {"export", "stream"}
    /\ phase \in {"idle", "find", "mongo", "select", "pg"}
    /\ (phase # "idle") <=> (stage \in {"md5", "explain"})
    /\ retries \in [cursor : 0 .. MongoCursorRetryMax, stream : 0 .. PgStreamRetryMax,
                    stall : 0 .. PgStreamIdleStallRetryMax, table : 0 .. TargetMd5RetryMax]
    /\ failures \in 0 .. MaxFailures /\ changes \in 0 .. MaxChanges
    /\ exact \in BOOLEAN
    /\ hashed = [mongo |-> hashed.mongo, pg |-> hashed.pg]
    /\ seen # None => \E p \in DOMAIN IdOrder : seen = Some(IdOrder[p])

\* The limits are numbers.
LEMMA Limits ==
  /\ MongoCursorRetryMax \in Nat /\ PgStreamRetryMax \in Nat /\ PgStreamIdleStallRetryMax \in Nat
  /\ TargetMd5RetryMax \in Nat /\ MaxFailures \in Nat /\ MaxChanges \in Nat
  BY PipelineAssumption DEF PipelineAssumption

\* Control holds at first.
LEMMA ControlInit == Init => Control
  BY Limits DEF Init, Control, Stages, NoRetries, NoHashes

\* The tables are begun with, or again with, what is left of the attempts.
LEMMA ControlBegin ==
  ASSUME NEW attempts \in 0 .. TargetMd5RetryMax, Begin(attempts)
  PROVE  /\ phase' = "find" /\ seen' = None /\ hashed' = NoHashes
         /\ hashed' = [mongo |-> hashed'.mongo, pg |-> hashed'.pg]
         /\ retries' \in [cursor : 0 .. MongoCursorRetryMax, stream : 0 .. PgStreamRetryMax,
                          stall : 0 .. PgStreamIdleStallRetryMax, table : 0 .. TargetMd5RetryMax]
  BY Limits DEF Begin, NoHashes, NoRetries

\* After a pass nothing is read.
LEMMA ControlRest ==
  ASSUME Rest
  PROVE  /\ phase' = "idle" /\ seen' = None /\ hashed' = NoHashes
         /\ hashed' = [mongo |-> hashed'.mongo, pg |-> hashed'.pg]
         /\ retries' \in [cursor : 0 .. MongoCursorRetryMax, stream : 0 .. PgStreamRetryMax,
                          stall : 0 .. PgStreamIdleStallRetryMax, table : 0 .. TargetMd5RetryMax]
  BY Limits DEF Rest, NoHashes, NoRetries

\* A table is begun again, or the pass has failed.
LEMMA ControlTryAgain ==
  ASSUME Control, stage \in {"md5", "explain"}, TryTableAgain
  PROVE  /\ \/ phase' = "find" /\ stage' = stage
            \/ phase' = "idle" /\ stage' \in {"scan", "verdict"}
         /\ seen' = None
         /\ hashed' = [mongo |-> hashed'.mongo, pg |-> hashed'.pg]
         /\ retries' \in [cursor : 0 .. MongoCursorRetryMax, stream : 0 .. PgStreamRetryMax,
                          stall : 0 .. PgStreamIdleStallRetryMax, table : 0 .. TargetMd5RetryMax]
<1>1. CASE MayRetry(retries.table, TargetMd5RetryMax) /\ Begin(retries.table + 1) /\ SameTable
  <2>1. retries.table + 1 \in 0 .. TargetMd5RetryMax
      BY <1>1, Limits DEF Control, MayRetry
  <2> QED
      BY <1>1, <2>1, ControlBegin DEF SameTable
<1>2. CASE FailPass
  <2>1. Rest /\ stage' \in {"scan", "verdict"}
      BY <1>2 DEF FailPass, EndPass
  <2> QED
      BY <2>1, ControlRest
<1> QED
    BY <1>1, <1>2 DEF TryTableAgain

\* A pass begins, or there is nothing to hash.
LEMMA ControlBeginPass ==
  ASSUME NEW to \in {"md5", "explain"}, NEW otherwise \in {"scan", "verdict"}, BeginPass(to, otherwise)
  PROVE  /\ \/ phase' = "find" /\ stage' = to
            \/ phase' = "idle" /\ stage' = otherwise
         /\ seen' = None
         /\ hashed' = [mongo |-> hashed'.mongo, pg |-> hashed'.pg]
         /\ retries' \in [cursor : 0 .. MongoCursorRetryMax, stream : 0 .. PgStreamRetryMax,
                          stall : 0 .. PgStreamIdleStallRetryMax, table : 0 .. TargetMd5RetryMax]
<1>1. CASE todo' = << >>
  <2>1. Rest /\ stage' = otherwise
      BY <1>1 DEF BeginPass
  <2> QED
      BY <2>1, ControlRest
<1>2. CASE todo' # << >>
  <2>1. Begin(0) /\ stage' = to /\ 0 \in 0 .. TargetMd5RetryMax
      BY <1>2, Limits DEF BeginPass
  <2> QED
      BY <2>1, ControlBegin
<1> QED
    BY <1>1, <1>2

\* Every step keeps stages, phases and retries in their ranges.
LEMMA ControlStep == Control /\ [Next]_vars => Control'
<1> SUFFICES ASSUME Control, [Next]_vars PROVE Control'
    OBVIOUS
<1> USE DEF Control
<1>1. CASE InferPlan
    BY <1>1 DEF InferPlan, Stages, readVars, restVars
<1>2. CASE LoadExport
    BY <1>2 DEF LoadExport, Load, Stages, readVars, restVars
<1>3. CASE StreamNext
    BY <1>3 DEF StreamNext, Load, Stages, readVars, restVars
<1>4. CASE Change
    BY <1>4, Limits DEF Change, Stages, readVars, loadVars
<1>5. CASE BeginReport
  <2>1. \/ BeginPass("md5", "scan")
        \/ stage' = "scan" /\ UNCHANGED readVars
      BY <1>5 DEF BeginReport
  <2>2. UNCHANGED << route, failures, changes, exact >> /\ stage = "loaded"
      BY <1>5 DEF BeginReport
  <2>3. CASE BeginPass("md5", "scan")
      BY <2>2, <2>3, ControlBeginPass DEF Stages
  <2>4. CASE stage' = "scan" /\ UNCHANGED readVars
      BY <2>2, <2>4 DEF Stages, readVars
  <2> QED
      BY <2>1, <2>3, <2>4
<1>6. CASE Scan
  <2>1. \/ BeginPass("explain", "verdict")
        \/ stage' = "verdict" /\ UNCHANGED readVars
      BY <1>6 DEF Scan
  <2>2. UNCHANGED << route, failures, changes, exact >> /\ stage = "scan"
      BY <1>6 DEF Scan
  <2>3. CASE BeginPass("explain", "verdict")
      BY <2>2, <2>3, ControlBeginPass DEF Stages
  <2>4. CASE stage' = "verdict" /\ UNCHANGED readVars
      BY <2>2, <2>4 DEF Stages, readVars
  <2> QED
      BY <2>1, <2>3, <2>4
<1>7. CASE Verdict
    BY <1>7 DEF Verdict, Stages, readVars, restVars
<1>8. CASE FindDocuments
    BY <1>8 DEF FindDocuments, Hashing, Steady, SameTable
<1>9. CASE FindFails
  <2>1. Rest /\ stage' \in {"scan", "verdict"} /\ failures' \in 0 .. MaxFailures
        /\ UNCHANGED << exact, route, changes >>
      BY <1>9, Limits DEF FindFails, FailPass, EndPass, Fail, Steady
  <2> QED
      BY <2>1, ControlRest DEF Stages
<1>10. CASE ReadDocument
  <2> DEFINE ahead == Ahead(docs, seen, bracket)
             next == CHOOSE p \in ahead : \A q \in ahead : p <= q
  <2>1. next \in DOMAIN IdOrder
    <3>1. ahead \subseteq DOMAIN IdOrder /\ ahead # {}
        BY <1>10 DEF ReadDocument, Ahead
    <3>2. IdOrder \in Seq(Range(IdOrder))
        BY PipelineAssumption DEF PipelineAssumption
    <3>3. DOMAIN IdOrder \subseteq Nat
        BY <3>2
    <3> HIDE DEF ahead
    <3>4. \E p \in ahead : \A q \in ahead : p <= q
        BY <3>1, <3>3, LeastNat
    <3> QED
        BY <3>1, <3>4
  <2>2. seen' = Some(IdOrder[next])
      BY <1>10 DEF ReadDocument
  <2>3. retries' = [retries EXCEPT !.cursor = 0] /\ UNCHANGED << phase, exact, failures >>
        /\ Steady /\ SameTable /\ hashed' = [hashed EXCEPT !.mongo = hashed'.mongo]
      BY <1>10 DEF ReadDocument
  <2> HIDE DEF next
  <2> QED
      BY <2>1, <2>2, <2>3, Limits DEF Steady, SameTable
<1>11. CASE CursorFails
  <2>1. /\ stage \in {"md5", "explain"} /\ failures' \in 0 .. MaxFailures
        /\ UNCHANGED << exact, route, changes >>
      BY <1>11, Limits DEF CursorFails, Hashing, Fail, Steady
  <2>2. CASE MayRetry(retries.cursor, MongoCursorRetryMax)
    <3>1. phase' = "find" /\ retries' = [retries EXCEPT !.cursor = @ + 1]
          /\ UNCHANGED << seen, hashed, stage >>
        BY <1>11, <2>2 DEF CursorFails, SameTable
    <3>2. retries.cursor + 1 \in 0 .. MongoCursorRetryMax
        BY <2>2, Limits DEF MayRetry
    <3> QED
        BY <2>1, <3>1, <3>2
  <2>3. CASE ~ MayRetry(retries.cursor, MongoCursorRetryMax)
    <3>1. TryTableAgain
        BY <1>11, <2>3 DEF CursorFails
    <3> QED
        BY <2>1, <3>1, ControlTryAgain DEF Stages
  <2> QED
      BY <2>2, <2>3
<1>12. CASE CursorEnds
    BY <1>12 DEF CursorEnds, Hashing, Steady, SameTable
<1>13. CASE SelectRows
    BY <1>13 DEF SelectRows, Hashing, Steady, SameTable
<1>14. CASE StreamFails
  <2>1. /\ stage \in {"md5", "explain"} /\ failures' \in 0 .. MaxFailures
        /\ UNCHANGED << exact, route, changes >>
      BY <1>14, Limits DEF StreamFails, Hashing, Fail, Steady
  <2>2. CASE MayRetry(retries.stream, PgStreamRetryMax)
    <3>1. phase' = "select" /\ retries' = [retries EXCEPT !.stream = @ + 1]
          /\ UNCHANGED << seen, hashed, stage >>
        BY <1>14, <2>2 DEF StreamFails, SameTable
    <3>2. retries.stream + 1 \in 0 .. PgStreamRetryMax
        BY <2>2, Limits DEF MayRetry
    <3> QED
        BY <2>1, <3>1, <3>2
  <2>3. CASE ~ MayRetry(retries.stream, PgStreamRetryMax)
    <3>1. TryTableAgain
        BY <1>14, <2>3 DEF StreamFails
    <3> QED
        BY <2>1, <3>1, ControlTryAgain DEF Stages
  <2> QED
      BY <2>2, <2>3
<1>15. CASE StreamStalls
  <2>1. /\ stage \in {"md5", "explain"} /\ failures' \in 0 .. MaxFailures
        /\ UNCHANGED << exact, route, changes >>
      BY <1>15, Limits DEF StreamStalls, Hashing, Fail, Steady
  <2>2. CASE ResumeColumn(target) # None /\ MayRetry(retries.stall, PgStreamIdleStallRetryMax)
    <3>1. phase' = "select" /\ retries' = [retries EXCEPT !.stall = @ + 1]
          /\ UNCHANGED << seen, hashed, stage >>
        BY <1>15, <2>2 DEF StreamStalls, SameTable
    <3>2. retries.stall + 1 \in 0 .. PgStreamIdleStallRetryMax
        BY <2>2, Limits DEF MayRetry
    <3> QED
        BY <2>1, <3>1, <3>2
  <2>3. CASE ~ (ResumeColumn(target) # None /\ MayRetry(retries.stall, PgStreamIdleStallRetryMax))
    <3>1. Rest /\ stage' \in {"scan", "verdict"}
        BY <1>15, <2>3 DEF StreamStalls, FailPass, EndPass
    <3> QED
        BY <2>1, <3>1, ControlRest DEF Stages
  <2> QED
      BY <2>2, <2>3
<1>16. CASE ReadRow
  <2>1. retries' = [retries EXCEPT !.stream = 0, !.stall = 0]
        /\ UNCHANGED << phase, seen, exact, failures >> /\ Steady /\ SameTable
        /\ hashed' = [hashed EXCEPT !.pg = hashed'.pg]
      BY <1>16 DEF ReadRow
  <2>2. retries' \in [cursor : 0 .. MongoCursorRetryMax, stream : 0 .. PgStreamRetryMax,
                      stall : 0 .. PgStreamIdleStallRetryMax, table : 0 .. TargetMd5RetryMax]
    <3>1. retries' = [[retries EXCEPT !.stream = 0] EXCEPT !.stall = 0]
        BY <2>1
    <3> DEFINE R == [cursor : 0 .. MongoCursorRetryMax, stream : 0 .. PgStreamRetryMax,
                     stall : 0 .. PgStreamIdleStallRetryMax, table : 0 .. TargetMd5RetryMax]
    <3>2. \A r \in R : [r EXCEPT !.stream = 0] \in R /\ [r EXCEPT !.stall = 0] \in R
        BY Limits
    <3>3. retries \in R
        OBVIOUS
    <3> HIDE DEF R
    <3>4. retries' \in R
        BY <3>1, <3>2, <3>3
    <3> QED
        BY <3>4 DEF R
  <2>3. hashed' = [mongo |-> hashed'.mongo, pg |-> hashed'.pg]
      BY <2>1
  <2> QED
      BY <2>1, <2>2, <2>3 DEF Steady, SameTable
<1>17. CASE EndTable
  <2>1. /\ stage \in {"md5", "explain"}
        /\ UNCHANGED << exact, route, changes, failures >>
      BY <1>17 DEF EndTable, Hashing, Steady
  <2>2. CASE Tail(todo) = << >>
    <3>1. Rest /\ stage' \in {"scan", "verdict"}
        BY <1>17, <2>2 DEF EndTable, EndPass
    <3> QED
        BY <2>1, <3>1, ControlRest DEF Stages
  <2>3. CASE Tail(todo) # << >>
    <3>1. Begin(0) /\ stage' = stage /\ 0 \in 0 .. TargetMd5RetryMax
        BY <1>17, <2>3, Limits DEF EndTable
    <3> QED
        BY <2>1, <3>1, ControlBegin
  <2> QED
      BY <2>2, <2>3
<1>18. CASE Finished \/ UNCHANGED vars
    BY <1>18 DEF Finished, vars, loadVars, readVars, restVars
<1> QED
    BY <1>1, <1>2, <1>3, <1>4, <1>5, <1>6, <1>7, <1>8, <1>9, <1>10, <1>11, <1>12, <1>13, <1>14,
       <1>15, <1>16, <1>17, <1>18 DEF Next

(***************************************************************************)
(* Documents: those of a collection, in the order of `_id`.                *)
(***************************************************************************)

\* What the assumption says of the documents of a collection.
LEMMA CollectionFacts ==
  ASSUME NEW c \in Collections
  PROVE  /\ IdOrder \in Seq(Range(IdOrder)) /\ IsInjective(IdOrder) /\ NewId \in Range(IdOrder)
         /\ c \in Seq(DocumentsOf(c)) /\ c # << >> /\ Ascending(c)
         /\ \A d \in DocumentsOf(c) :
              /\ IdOf(d) \in Range(IdOrder)
              /\ \A x \in Range(IdOrder) : WithIdOf(d, x) \in DocumentsOf(c) /\ IdOf(WithIdOf(d, x)) = x
<1>1. /\ IdOrder \in Seq(Range(IdOrder)) /\ IsInjective(IdOrder) /\ NewId \in Range(IdOrder)
      /\ c \in Seq(DocumentsOf(c)) /\ c # << >> /\ Ascending(c)
      /\ \A d \in DocumentsOf(c) :
           /\ IdOf(d) \in Range(IdOrder)
           /\ \A p \in DOMAIN IdOrder : /\ WithIdOf(d, IdOrder[p]) \in DocumentsOf(c)
                                       /\ IdOf(WithIdOf(d, IdOrder[p])) = IdOrder[p]
    BY PipelineAssumption DEF PipelineAssumption
<1>2. \A x \in Range(IdOrder) : \E p \in DOMAIN IdOrder : x = IdOrder[p]
    BY DEF Range
<1> QED
    BY <1>1, <1>2

\* Documents whose ids are those of others, at places further and further on.
LEMMA AscendingAlong ==
  ASSUME NEW c \in Collections, NEW ds \in Seq(DocumentsOf(c)), Ascending(ds),
         NEW es \in Seq(DocumentsOf(c)), NEW f \in [DOMAIN es -> DOMAIN ds],
         \A i, j \in DOMAIN es : i < j => f[i] < f[j],
         \A i \in DOMAIN es : IdOf(es[i]) = IdOf(ds[f[i]])
  PROVE  Ascending(es)
<1>1. /\ DOMAIN es = 1 .. Len(es) /\ Len(es) \in Nat
      /\ DOMAIN ds = 1 .. Len(ds) /\ Len(ds) \in Nat
    OBVIOUS
<1>2. ASSUME NEW j \in DOMAIN es PROVE IdOf(es[j]) \in Range(IdOrder)
    BY CollectionFacts
<1>3. ASSUME NEW j \in DOMAIN es, NEW i \in 1 .. j - 1
      PROVE  Position(IdOrder, IdOf(es[i])) < Position(IdOrder, IdOf(es[j]))
  <2>1. i \in DOMAIN es /\ i < j
      BY <1>1
  <2>2. f[j] \in DOMAIN ds /\ f[i] \in 1 .. f[j] - 1
      BY <1>1, <2>1
  <2>3. Position(IdOrder, IdOf(ds[f[i]])) < Position(IdOrder, IdOf(ds[f[j]]))
      BY <2>2 DEF Ascending
  <2> QED
      BY <2>1, <2>3
<1> QED
    BY <1>2, <1>3 DEF Ascending

\* No two documents have one `_id`.
LEMMA AscendingIds ==
  ASSUME NEW c \in Collections, NEW ds \in Seq(DocumentsOf(c)), Ascending(ds),
         NEW i \in DOMAIN ds, NEW j \in DOMAIN ds, IdOf(ds[i]) = IdOf(ds[j])
  PROVE  i = j
<1>1. DOMAIN ds = 1 .. Len(ds) /\ Len(ds) \in Nat
    OBVIOUS
<1>2. ASSUME NEW k \in DOMAIN ds, NEW h \in 1 .. k - 1 PROVE IdOf(ds[h]) # IdOf(ds[k])
  <2>1. IdOf(ds[k]) \in Range(IdOrder) /\ h \in DOMAIN ds
      BY <1>1, CollectionFacts
  <2>2. Position(IdOrder, IdOf(ds[k])) \in DOMAIN IdOrder /\ DOMAIN IdOrder \subseteq Nat
    <3>1. IdOrder \in Seq(Range(IdOrder))
        BY CollectionFacts
    <3> QED
        BY <2>1, <3>1, PositionIn
  <2>3. Position(IdOrder, IdOf(ds[h])) < Position(IdOrder, IdOf(ds[k]))
      BY DEF Ascending
  <2> QED
      BY <2>2, <2>3
<1>3. i \in 1 .. j - 1 \/ j \in 1 .. i - 1 \/ i = j
    BY <1>1
<1> QED
    BY <1>2, <1>3

\* ById puts documents in the order of `_id`.
LEMMA AscendingById ==
  ASSUME NEW c \in Collections, NEW ds \in Seq(DocumentsOf(c)),
         \A i, j \in DOMAIN ds : IdOf(ds[i]) = IdOf(ds[j]) => i = j
  PROVE  ById(ds) \in Seq(DocumentsOf(c)) /\ Ascending(ById(ds))
<1> DEFINE keys == [i \in DOMAIN ds |-> IdOf(ds[i])]
           at == Places(keys, IdOrder)
           es == ById(ds)
<1>1. keys \in Seq(Range(IdOrder)) /\ DOMAIN keys = DOMAIN ds /\ \A i \in DOMAIN ds : keys[i] = IdOf(ds[i])
  <2>1. \A i \in DOMAIN ds : IdOf(ds[i]) \in Range(IdOrder)
      BY CollectionFacts
  <2> QED
      BY <2>1
<1>2. es = [k \in DOMAIN at |-> ds[at[k]]]
    BY DEF ById
<1> HIDE DEF keys
<1>3. /\ at \in Seq(DOMAIN keys) /\ IsInjective(at)
      /\ \A i, j \in DOMAIN at : i < j =>
           \E a, b \in DOMAIN IdOrder : a <= b /\ keys[at[i]] = IdOrder[a] /\ keys[at[j]] = IdOrder[b]
  <2>1. IdOrder \in Seq(Range(IdOrder)) /\ IsInjective(IdOrder)
      BY CollectionFacts
  <2>2. keys \in Seq(Range(IdOrder))
      BY <1>1
  <2> QED
      BY <2>1, <2>2, PlacesProperties
<1>4. \A k \in DOMAIN at : at[k] \in DOMAIN ds
    BY <1>1, <1>3
<1> HIDE DEF at
<1>5. es \in Seq(DocumentsOf(c)) /\ DOMAIN es = DOMAIN at /\ \A k \in DOMAIN at : es[k] = ds[at[k]]
    BY <1>2, <1>3, <1>4
<1> HIDE DEF es
<1>6. ASSUME NEW j \in DOMAIN es PROVE IdOf(es[j]) \in Range(IdOrder)
    BY <1>5, CollectionFacts
<1>7. ASSUME NEW j \in DOMAIN es, NEW i \in 1 .. j - 1
      PROVE  Position(IdOrder, IdOf(es[i])) < Position(IdOrder, IdOf(es[j]))
  <2>1. i \in DOMAIN at /\ j \in DOMAIN at /\ i < j
      BY <1>3, <1>5
  <2>2. PICK a \in DOMAIN IdOrder, b \in DOMAIN IdOrder :
           a <= b /\ keys[at[i]] = IdOrder[a] /\ keys[at[j]] = IdOrder[b]
      BY <1>3, <2>1
  <2>3. IdOf(es[i]) = IdOrder[a] /\ IdOf(es[j]) = IdOrder[b]
      BY <1>1, <1>4, <1>5, <2>1, <2>2
  <2>4. a # b
    <3>1. ASSUME a = b PROVE FALSE
      <4>1. IdOf(ds[at[i]]) = IdOf(ds[at[j]])
          BY <1>1, <1>4, <2>1, <2>2, <3>1
      <4>2. at[i] = at[j]
          BY <1>4, <2>1, <4>1
      <4> QED
          BY <1>3, <2>1, <4>2 DEF IsInjective
    <3> QED
        BY <3>1
  <2>5. Position(IdOrder, IdOrder[a]) = a /\ Position(IdOrder, IdOrder[b]) = b
      BY CollectionFacts, PositionOf
  <2>6. a \in Nat /\ b \in Nat
      BY CollectionFacts
  <2> QED
      BY <2>2, <2>3, <2>4, <2>5, <2>6
<1>8. Ascending(es)
    BY <1>6, <1>7 DEF Ascending
<1> QED
    BY <1>5, <1>8 DEF es

\* A change leaves documents of the collection, in the order of `_id`.
LEMMA ChangedDocuments ==
  ASSUME NEW c \in Collections, NEW ds \in Seq(DocumentsOf(c)), Ascending(ds), NEW es \in Changed(ds)
  PROVE  es \in Seq(DocumentsOf(c)) /\ Ascending(es)
<1>1. DOMAIN ds = 1 .. Len(ds) /\ Len(ds) \in Nat /\ \A i \in DOMAIN ds : ds[i] \in DocumentsOf(c)
    OBVIOUS
<1>2. CASE es \in Inserted(ds)
  <2>1. PICK i \in DOMAIN ds : es = ById(Append(ds, WithIdOf(ds[i], NewId)))
      BY <1>2 DEF Inserted
  <2>2. \A j \in DOMAIN ds : IdOf(ds[j]) # NewId
      BY <1>2 DEF Inserted
  <2> DEFINE d == WithIdOf(ds[i], NewId)
             all == Append(ds, d)
  <2>3. d \in DocumentsOf(c) /\ IdOf(d) = NewId
      BY <1>1, CollectionFacts
  <2> HIDE DEF d
  <2>4. /\ all \in Seq(DocumentsOf(c)) /\ DOMAIN all = 1 .. Len(ds) + 1
        /\ \A j \in 1 .. Len(ds) : all[j] = ds[j]
        /\ all[Len(ds) + 1] = d
      BY <2>3
  <2> HIDE DEF all
  <2>5. ASSUME NEW j \in DOMAIN all, NEW k \in DOMAIN all, IdOf(all[j]) = IdOf(all[k])
        PROVE  j = k
    <3>1. CASE j \in DOMAIN ds /\ k \in DOMAIN ds
        BY <1>1, <2>4, <2>5, <3>1, AscendingIds
    <3>2. CASE j = Len(ds) + 1 /\ k = Len(ds) + 1
        BY <3>2
    <3>3. CASE j = Len(ds) + 1 /\ k \in DOMAIN ds
        BY <1>1, <2>2, <2>3, <2>4, <2>5, <3>3
    <3>4. CASE j \in DOMAIN ds /\ k = Len(ds) + 1
        BY <1>1, <2>2, <2>3, <2>4, <2>5, <3>4
    <3>5. \A h \in 1 .. Len(ds) + 1 : h \in DOMAIN ds \/ h = Len(ds) + 1
        BY <1>1
    <3> QED
        BY <2>4, <3>1, <3>2, <3>3, <3>4, <3>5
  <2>6. ById(all) \in Seq(DocumentsOf(c)) /\ Ascending(ById(all))
      BY <2>4, <2>5, AscendingById
  <2> QED
      BY <2>1, <2>6 DEF all, d
<1>3. CASE es \in { RemoveAt(ds, i) : i \in DOMAIN ds }
  <2>1. PICK i \in DOMAIN ds : es = SubSeq(ds, 1, i - 1) \o SubSeq(ds, i + 1, Len(ds))
      BY <1>3 DEF RemoveAt
  <2> DEFINE a == SubSeq(ds, 1, i - 1)
             b == SubSeq(ds, i + 1, Len(ds))
             f == [j \in DOMAIN es |-> IF j < i THEN j ELSE j + 1]
  <2>2. /\ a \in Seq(DocumentsOf(c)) /\ Len(a) = i - 1 /\ \A j \in 1 .. i - 1 : a[j] = ds[j]
        /\ b \in Seq(DocumentsOf(c)) /\ Len(b) = Len(ds) - i
        /\ \A j \in 1 .. Len(ds) - i : b[j] = ds[i + j]
    <3>1. i \in 1 .. Len(ds)
        BY <1>1
    <3> QED
        BY <3>1, AroundParts
  <2>3. es = a \o b
      BY <2>1
  <2> HIDE DEF a, b
  <2>4. /\ es \in Seq(DocumentsOf(c)) /\ DOMAIN es = 1 .. Len(ds) - 1
        /\ \A j \in 1 .. Len(ds) - 1 : es[j] = IF j < i THEN a[j] ELSE b[j - (i - 1)]
    <3>1. Len(a) + Len(b) = Len(ds) - 1 /\ Len(a) \in Nat /\ Len(b) \in Nat
        BY <1>1, <2>2
    <3>2. /\ a \o b \in Seq(DocumentsOf(c)) /\ DOMAIN (a \o b) = 1 .. Len(a) + Len(b)
          /\ \A j \in 1 .. Len(a) + Len(b) : (a \o b)[j] = IF j <= Len(a) THEN a[j] ELSE b[j - Len(a)]
        BY <2>2
    <3>3. \A j \in 1 .. Len(ds) - 1 : j <= i - 1 <=> j < i
        BY <1>1
    <3> QED
        BY <2>2, <2>3, <3>1, <3>2, <3>3
  <2>5. \A j \in DOMAIN es : es[j] = ds[f[j]] /\ f[j] \in DOMAIN ds
    <3>1. ASSUME NEW j \in DOMAIN es PROVE es[j] = ds[f[j]] /\ f[j] \in DOMAIN ds
      <4>1. CASE j < i
        <5>1. j \in 1 .. i - 1
            BY <2>4, <4>1
        <5> QED
            BY <1>1, <2>2, <2>4, <4>1, <5>1
      <4>2. CASE ~ (j < i)
        <5>1. j - (i - 1) \in 1 .. Len(ds) - i /\ i + (j - (i - 1)) = j + 1
            BY <1>1, <2>4, <4>2
        <5> QED
            BY <1>1, <2>2, <2>4, <4>2, <5>1
      <4> QED
          BY <4>1, <4>2
    <3> QED
        BY <3>1
  <2>6. f \in [DOMAIN es -> DOMAIN ds] /\ \A j, k \in DOMAIN es : j < k => f[j] < f[k]
      BY <1>1, <2>4, <2>5
  <2> HIDE DEF f
  <2>7. Ascending(es)
      BY <2>4, <2>5, <2>6, AscendingAlong
  <2> QED
      BY <2>4, <2>7
<1>4. CASE es \in { [ds EXCEPT ![i] = WithIdOf(ds[j], IdOf(ds[i]))] : i, j \in DOMAIN ds }
  <2>1. PICK i \in DOMAIN ds, j \in DOMAIN ds : es = [ds EXCEPT ![i] = WithIdOf(ds[j], IdOf(ds[i]))]
      BY <1>4
  <2> DEFINE d == WithIdOf(ds[j], IdOf(ds[i]))
             f == [k \in DOMAIN es |-> k]
  <2>2. d \in DocumentsOf(c) /\ IdOf(d) = IdOf(ds[i])
      BY <1>1, CollectionFacts
  <2> HIDE DEF d
  <2>3. es \in Seq(DocumentsOf(c)) /\ DOMAIN es = DOMAIN ds
        /\ \A k \in DOMAIN es : es[k] = IF k = i THEN d ELSE ds[k]
      BY <1>1, <2>1, <2>2 DEF d
  <2>4. f \in [DOMAIN es -> DOMAIN ds] /\ \A k \in DOMAIN es : f[k] = k
      BY <2>3
  <2> HIDE DEF f
  <2>5. \A k \in DOMAIN es : IdOf(es[k]) = IdOf(ds[f[k]])
      BY <2>2, <2>3, <2>4
  <2>6. \A h, k \in DOMAIN es : h < k => f[h] < f[k]
      BY <2>4
  <2>7. Ascending(es)
      BY <2>3, <2>4, <2>5, <2>6, AscendingAlong
  <2> QED
      BY <2>3, <2>7
<1> QED
    BY <1>2, <1>3, <1>4 DEF Changed

(***************************************************************************)
(* The plan, the load and the versions of the collection c.                *)
(***************************************************************************)
\* What the route loads of the collection.
LoadOf(c) == IF route = "export" THEN Exported(plan, c) ELSE Streamed(plan, c)
\* The stages before the collection has been loaded.
Loading == {"infer", "load", "failed"}
\* While tables are hashed, those that are left are tables of the plan.
Todo == phase # "idle" => todo \in Seq(Range(TargetsOf(plan))) /\ todo # << >>

\* c is the collection: what its versions are made of, its plan, its load.
Placed(c) ==
    /\ versions \subseteq Seq(DocumentsOf(c)) /\ docs \in versions /\ Ascending(docs)
    /\ sample \in {c, << Head(c) >>} /\ jsonb \in BOOLEAN
    /\ changes = 0 => docs = c /\ versions = {c}
    /\ stage \in {"infer", "load"} => changes = 0
    /\ stage # "infer" => plan = PlanFor(sample, jsonb)
    /\ stage = "infer" => source = << >>
    /\ stage = "load" => Len(source) \in 0 .. Len(c) - 1 /\ source = SubSeq(c, 1, Len(source))
    /\ stage \notin Loading => source = c /\ loaded = LoadOf(c) /\ Committable(plan, loaded)
    /\ Todo

\* What the assumption says of the plans of a collection.
LEMMA PlanFacts ==
  ASSUME NEW c \in Collections, NEW ds \in {c, << Head(c) >>}, NEW asJsonb \in BOOLEAN
  PROVE  LET p == PlanFor(ds, asJsonb)
         IN  /\ TargetsOf(p) \in Seq(Range(TargetsOf(p)))
             /\ \A t \in Range(TargetsOf(p)) :
                   /\ \A d \in DocumentsOf(c) : RecordsOf(t, d) \in Seq(Range(RecordsOf(t, d)))
                   /\ \A load \in { Exported(p, c), Streamed(p, c) } :
                         Committable(p, load) => Tabular(t, load.rows[t.table])
  BY PipelineAssumption DEF PipelineAssumption

\* At first the collection is one of those to begin with.
LEMMA PlacedInit == Init => Control /\ \E c \in Collections : Placed(c)
<1> SUFFICES ASSUME Init PROVE Control /\ \E c \in Collections : Placed(c)
    OBVIOUS
<1>1. docs \in Collections
    BY DEF Init
<1>2. docs \in Seq(DocumentsOf(docs)) /\ Ascending(docs)
    BY <1>1, CollectionFacts
<1>3. Placed(docs)
    BY <1>2 DEF Init, Placed, Loading, Todo
<1> QED
    BY <1>1, <1>3, ControlInit

\* The steps that only read.
LEMMA PlacedSteady ==
  ASSUME NEW c \in Collections, Placed(c), stage \notin Loading, stage' \notin Loading,
         UNCHANGED << docs, route, sample, jsonb, plan, loaded, source, changes >>,
         versions' = versions \/ versions' = {docs}, Todo'
  PROVE  Placed(c)'
<1>1. stage # "infer" /\ stage' \notin {"infer", "load", "failed"}
    BY DEF Loading
<1>2. LoadOf(c)' = LoadOf(c) /\ Committable(plan, loaded)' = Committable(plan, loaded)
    BY DEF LoadOf, Committable
<1>3. /\ (versions \subseteq Seq(DocumentsOf(c)) /\ docs \in versions /\ Ascending(docs))'
      /\ (changes = 0 => docs = c /\ versions = {c})'
    BY DEF Placed
<1> QED
    BY <1>1, <1>2, <1>3 DEF Placed

\* A pass is over the tables of the plan.
LEMMA TodoBeginPass ==
  ASSUME NEW c \in Collections, Placed(c), stage # "infer", plan' = plan,
         NEW to, NEW otherwise, BeginPass(to, otherwise)
  PROVE  Todo'
<1>1. TargetsOf(plan) \in Seq(Range(TargetsOf(plan)))
    BY PlanFacts DEF Placed
<1> QED
    BY <1>1 DEF BeginPass, Rest, Todo

\* A table that is tried again is the same table.
LEMMA TodoTryAgain ==
  ASSUME Todo, phase # "idle", plan' = plan, TryTableAgain
  PROVE  Todo'
  BY DEF TryTableAgain, SameTable, FailPass, EndPass, Rest, Todo

\* Every step keeps the plan, the load and the versions of the collection.
LEMMA PlacedStep ==
  ASSUME NEW c \in Collections, Control, Placed(c), [Next]_vars
  PROVE  Placed(c)'
<1>c. c \in Seq(DocumentsOf(c)) /\ c # << >>
    BY CollectionFacts
<1>1. CASE InferPlan
  <2>1. /\ stage = "infer" /\ stage' = "load" /\ plan' = PlanFor(sample, jsonb)
        /\ UNCHANGED << docs, sample, jsonb, source, versions, changes, phase >>
      BY <1>1 DEF InferPlan, readVars, restVars
  <2>2. source' = << >> /\ phase' = "idle"
      BY <2>1 DEF Placed, Control
  <2>3. Len(source') \in 0 .. Len(c) - 1 /\ source' = SubSeq(c, 1, Len(source'))
      BY <1>c, <2>2
  <2> QED
      BY <2>1, <2>2, <2>3 DEF Placed, Loading, Todo
<1>2. CASE LoadExport
  <2>1. /\ stage = "load" /\ route = "export" /\ docs = c
        /\ UNCHANGED << docs, route, sample, jsonb, plan, versions, changes, phase >>
        /\ phase = "idle"
      BY <1>2 DEF LoadExport, Load, readVars, restVars, Placed, Control
  <2>2. CASE Committable(plan, Exported(plan, docs))
    <3>1. stage' = "loaded" /\ source' = c /\ loaded' = Exported(plan, c)
        BY <1>2, <2>1, <2>2 DEF LoadExport, Load
    <3>2. LoadOf(c)' = Exported(plan, c) /\ Committable(plan, loaded)'
        BY <2>1, <2>2, <3>1 DEF LoadOf, Committable
    <3> QED
        BY <2>1, <3>1, <3>2 DEF Placed, Loading, Todo
  <2>3. CASE ~ Committable(plan, Exported(plan, docs))
    <3>1. stage' = "failed"
        BY <1>2, <2>3 DEF LoadExport, Load
    <3> QED
        BY <2>1, <3>1 DEF Placed, Loading, Todo
  <2> QED
      BY <2>2, <2>3
<1>3. CASE StreamNext
  <2> DEFINE ds == Append(source, docs[Len(source) + 1])
  <2>1. /\ stage = "load" /\ route = "stream" /\ docs = c
        /\ UNCHANGED << docs, route, sample, jsonb, plan, versions, changes, phase >>
        /\ phase = "idle"
        /\ Len(source) \in 0 .. Len(c) - 1 /\ source = SubSeq(c, 1, Len(source))
        /\ Load(Streamed(plan, ds), ds, Len(ds) = Len(docs))
      BY <1>3 DEF StreamNext, Load, readVars, restVars, Placed, Control
  <2>2. ds = SubSeq(c, 1, Len(source) + 1) /\ Len(ds) = Len(source) + 1
    <3>1. \A n \in 0 .. Len(c) - 1 :
             Append(SubSeq(c, 1, n), c[n + 1]) = SubSeq(c, 1, n + 1) /\ Len(SubSeq(c, 1, n + 1)) = n + 1
        BY <1>c
    <3> QED
        BY <2>1, <3>1
  <2> HIDE DEF ds
  <2>3. CASE ~ Committable(plan, Streamed(plan, ds))
    <3>1. stage' = "failed"
        BY <2>1, <2>3 DEF Load
    <3> QED
        BY <2>1, <3>1 DEF Placed, Loading, Todo
  <2>4. CASE Committable(plan, Streamed(plan, ds)) /\ Len(ds) = Len(docs)
    <3>1. ds = c
        BY <1>c, <2>1, <2>2, <2>4
    <3>2. stage' = "loaded" /\ source' = c /\ loaded' = Streamed(plan, c)
        BY <2>1, <2>4, <3>1 DEF Load
    <3>3. LoadOf(c)' = Streamed(plan, c) /\ Committable(plan, loaded)'
        BY <2>1, <2>4, <3>1, <3>2 DEF LoadOf, Committable
    <3> QED
        BY <2>1, <3>2, <3>3 DEF Placed, Loading, Todo
  <2>5. CASE Committable(plan, Streamed(plan, ds)) /\ Len(ds) # Len(docs)
    <3>1. stage' = "load" /\ source' = ds
        BY <2>1, <2>5 DEF Load
    <3>2. Len(ds) \in 0 .. Len(c) - 1
        BY <1>c, <2>1, <2>2, <2>5
    <3> QED
        BY <2>1, <2>2, <3>1, <3>2 DEF Placed, Loading, Todo
  <2> QED
      BY <2>3, <2>4, <2>5
<1>4. CASE Change
  <2>1. /\ stage \notin Loading /\ stage' = stage /\ docs' \in Changed(docs)
        /\ changes' = changes + 1 /\ versions' = versions \cup {docs'}
        /\ UNCHANGED << route, sample, jsonb, plan, loaded, source, todo, phase >>
      BY <1>4 DEF Change, readVars, Loading
  <2>2. docs' \in Seq(DocumentsOf(c)) /\ Ascending(docs')
      BY <2>1, ChangedDocuments DEF Placed
  <2>3. changes' # 0
      BY <2>1, Limits DEF Control
  <2>4. LoadOf(c)' = LoadOf(c) /\ Committable(plan, loaded)' = Committable(plan, loaded)
      BY <2>1 DEF LoadOf, Committable
  <2>5. Ascending(docs)' /\ versions' \subseteq Seq(DocumentsOf(c)) /\ docs' \in versions'
      BY <2>1, <2>2 DEF Placed, Ascending
  <2> QED
      BY <2>1, <2>3, <2>4, <2>5 DEF Placed, Loading, Todo
<1>5. CASE BeginReport
  <2>1. /\ stage = "loaded" /\ stage' \in {"md5", "scan"} /\ versions' = {docs}
        /\ UNCHANGED << docs, route, sample, jsonb, plan, loaded, source, changes >>
      BY <1>5 DEF BeginReport, BeginPass
  <2>2. Todo'
    <3>1. CASE BeginPass("md5", "scan")
        BY <2>1, <3>1, TodoBeginPass
    <3>2. CASE stage' = "scan" /\ UNCHANGED readVars
        BY <2>1, <3>2 DEF readVars, Todo, Control
    <3> QED
        BY <1>5, <3>1, <3>2 DEF BeginReport
  <2> QED
      BY <2>1, <2>2, PlacedSteady DEF Loading
<1>6. CASE Scan
  <2>1. /\ stage = "scan" /\ stage' \in {"explain", "verdict"} /\ versions' = versions
        /\ UNCHANGED << docs, route, sample, jsonb, plan, loaded, source, changes >>
      BY <1>6 DEF Scan, BeginPass
  <2>2. Todo'
    <3>1. CASE BeginPass("explain", "verdict")
        BY <2>1, <3>1, TodoBeginPass
    <3>2. CASE stage' = "verdict" /\ UNCHANGED readVars
        BY <2>1, <3>2 DEF readVars, Todo, Control
    <3> QED
        BY <1>6, <3>1, <3>2 DEF Scan
  <2> QED
      BY <2>1, <2>2, PlacedSteady DEF Loading
<1>7. CASE Verdict
  <2>1. /\ stage = "verdict" /\ stage' \in {"accepted", "rejected"} /\ versions' = versions
        /\ UNCHANGED << docs, route, sample, jsonb, plan, loaded, source, changes, phase, todo >>
      BY <1>7 DEF Verdict, readVars, restVars
  <2>2. Todo'
      BY <2>1 DEF Todo, Control
  <2> QED
      BY <2>1, <2>2, PlacedSteady DEF Loading
<1>s. ASSUME Hashing, Steady, stage' \notin Loading, Todo' PROVE Placed(c)'
  <2>1. stage \notin Loading
      BY <1>s DEF Hashing, Loading
  <2> QED
      BY <1>s, <2>1, PlacedSteady DEF Steady
<1>t. ASSUME Hashing PROVE stage \in {"md5", "explain"} /\ phase # "idle" /\ Todo
    BY <1>t DEF Hashing, Control, Placed
<1>8. CASE FindDocuments
    BY <1>8, <1>s, <1>t DEF FindDocuments, SameTable, Steady, Todo, Loading
<1>9. CASE FindFails
    BY <1>9, <1>s, <1>t DEF FindFails, FailPass, EndPass, Rest, Todo, Loading
<1>10. CASE ReadDocument
    BY <1>10, <1>s, <1>t DEF ReadDocument, SameTable, Steady, Todo, Loading
<1>11. CASE CursorFails
  <2>1. Hashing /\ Steady /\ plan' = plan
      BY <1>11 DEF CursorFails, Steady
  <2>2. Todo' /\ stage' \notin Loading
    <3>1. CASE MayRetry(retries.cursor, MongoCursorRetryMax)
        BY <1>11, <1>t, <2>1, <3>1 DEF CursorFails, SameTable, Todo, Loading
    <3>2. CASE TryTableAgain
        BY <1>t, <2>1, <3>2, TodoTryAgain DEF TryTableAgain, SameTable, FailPass, EndPass, Loading
    <3> QED
        BY <1>11, <3>1, <3>2 DEF CursorFails
  <2> QED
      BY <1>s, <2>1, <2>2
<1>12. CASE CursorEnds
    BY <1>12, <1>s, <1>t DEF CursorEnds, SameTable, Steady, Todo, Loading
<1>13. CASE SelectRows
    BY <1>13, <1>s, <1>t DEF SelectRows, SameTable, Steady, Todo, Loading
<1>14. CASE StreamFails
  <2>1. Hashing /\ Steady /\ plan' = plan
      BY <1>14 DEF StreamFails, Steady
  <2>2. Todo' /\ stage' \notin Loading
    <3>1. CASE MayRetry(retries.stream, PgStreamRetryMax)
        BY <1>14, <1>t, <2>1, <3>1 DEF StreamFails, SameTable, Todo, Loading
    <3>2. CASE TryTableAgain
        BY <1>t, <2>1, <3>2, TodoTryAgain DEF TryTableAgain, SameTable, FailPass, EndPass, Loading
    <3> QED
        BY <1>14, <3>1, <3>2 DEF StreamFails
  <2> QED
      BY <1>s, <2>1, <2>2
<1>15. CASE StreamStalls
  <2>1. Hashing /\ Steady /\ plan' = plan
      BY <1>15 DEF StreamStalls, Steady
  <2>2. Todo' /\ stage' \notin Loading
    <3>1. CASE ResumeColumn(target) # None /\ MayRetry(retries.stall, PgStreamIdleStallRetryMax)
        BY <1>15, <1>t, <2>1, <3>1 DEF StreamStalls, SameTable, Todo, Loading
    <3>2. CASE FailPass
        BY <1>t, <2>1, <3>2 DEF FailPass, EndPass, Rest, Todo, Loading
    <3> QED
        BY <1>15, <3>1, <3>2 DEF StreamStalls
  <2> QED
      BY <1>s, <2>1, <2>2
<1>16. CASE ReadRow
    BY <1>16, <1>s, <1>t DEF ReadRow, SameTable, Steady, Todo, Loading
<1>17. CASE EndTable
  <2>1. Hashing /\ Steady /\ plan' = plan
      BY <1>17 DEF EndTable, Steady
  <2>2. Todo' /\ stage' \notin Loading
    <3>1. CASE Tail(todo) = << >>
      <4>1. Rest /\ stage' \in {"scan", "verdict"}
          BY <1>17, <3>1 DEF EndTable, EndPass
      <4> QED
          BY <4>1 DEF Rest, Todo, Loading
    <3>2. CASE Tail(todo) # << >>
      <4>1. todo' = Tail(todo) /\ stage' = stage
          BY <1>17, <3>2 DEF EndTable
      <4>2. todo \in Seq(Range(TargetsOf(plan))) /\ todo # << >>
          BY <1>t, <2>1 DEF Todo
      <4>3. Tail(todo) \in Seq(Range(TargetsOf(plan)))
          BY <4>2
      <4> QED
          BY <1>t, <2>1, <3>2, <4>1, <4>3 DEF Todo, Loading
    <3> QED
        BY <3>1, <3>2
  <2> QED
      BY <1>s, <2>1, <2>2
<1>18. CASE Finished \/ UNCHANGED vars
  <2>1. UNCHANGED vars
      BY <1>18 DEF Finished
  <2> QED
      BY <2>1 DEF vars, loadVars, readVars, restVars, Placed, LoadOf, Committable, Todo, Ascending
<1> QED
    BY <1>1, <1>2, <1>3, <1>4, <1>5, <1>6, <1>7, <1>8, <1>9, <1>10, <1>11, <1>12, <1>13, <1>14,
       <1>15, <1>16, <1>17, <1>18 DEF Next

(***************************************************************************)
(* Readings: what is hashed of documents taken from versions V, up to a    *)
(* position.                                                               *)
(***************************************************************************)
Part(t, r, n) == FlattenSeq([p \in 1 .. n |-> RecordsAt(t, r[p], p)])

\* The target t can be hashed for the documents of c.
Hashable(c, t) == \A d \in DocumentsOf(c) : RecordsOf(t, d) \in Seq(Range(RecordsOf(t, d)))

\* The records of the documents of c.
RecordSet(c, t) == UNION { Range(RecordsOf(t, d)) : d \in DocumentsOf(c) }

\* What is hashed at a position is a sequence of records.
LEMMA RecordsAtType ==
  ASSUME NEW c \in Collections, NEW t, Hashable(c, t), NEW ds \in Seq(DocumentsOf(c)), NEW p
  PROVE  /\ RecordsAt(t, ds, p) \in Seq(RecordSet(c, t))
         /\ At(ds, p) = {} => RecordsAt(t, ds, p) = << >>
<1>1. CASE At(ds, p) = {}
    BY <1>1 DEF RecordsAt
<1>2. CASE At(ds, p) # {}
  <2> DEFINE i == CHOOSE i \in At(ds, p) : TRUE
  <2>1. i \in At(ds, p)
      BY <1>2
  <2>2. i \in DOMAIN ds
      BY <2>1 DEF At
  <2>3. RecordsAt(t, ds, p) = RecordsOf(t, ds[i])
      BY <1>2 DEF RecordsAt
  <2> HIDE DEF i
  <2>4. ds[i] \in DocumentsOf(c)
      BY <2>2
  <2> DEFINE s == RecordsOf(t, ds[i])
  <2>5. s \in Seq(Range(s)) /\ Range(s) \subseteq RecordSet(c, t)
      BY <2>4 DEF Hashable, RecordSet
  <2> HIDE DEF s
  <2>6. s \in Seq(RecordSet(c, t))
      BY <2>5
  <2> QED
      BY <1>2, <2>3, <2>6 DEF s
<1> QED
    BY <1>1, <1>2

\* The order of `_id` is a sequence without repetitions.
LEMMA IdOrderFacts ==
  /\ IdOrder \in Seq(Range(IdOrder)) /\ IsInjective(IdOrder)
  /\ Len(IdOrder) \in Nat /\ DOMAIN IdOrder = 1 .. Len(IdOrder)
<1>1. IdOrder \in Seq(Range(IdOrder)) /\ IsInjective(IdOrder)
    BY PipelineAssumption DEF PipelineAssumption
<1> QED
    BY <1>1

\* What is hashed up to a position, as a sequence of sequences put together.
LEMMA PartParts ==
  ASSUME NEW c \in Collections, NEW t, Hashable(c, t), NEW V \in SUBSET Seq(DocumentsOf(c)),
         NEW r \in [DOMAIN IdOrder -> V]
  PROVE  \E F \in [1 .. Len(IdOrder) -> Seq(RecordSet(c, t))] :
            /\ \A p \in 1 .. Len(IdOrder) : F[p] = RecordsAt(t, r[p], p)
            /\ \A p \in 1 .. Len(IdOrder) : At(r[p], p) = {} => F[p] = << >>
            /\ \A n \in 0 .. Len(IdOrder) : Part(t, r, n) = FlattenTo(F, n)
<1> DEFINE N == Len(IdOrder)
           F == [p \in 1 .. N |-> RecordsAt(t, r[p], p)]
<1>1. \A p \in 1 .. N : r[p] \in Seq(DocumentsOf(c))
    BY IdOrderFacts
<1>2. \A p \in 1 .. N : /\ RecordsAt(t, r[p], p) \in Seq(RecordSet(c, t))
                        /\ At(r[p], p) = {} => RecordsAt(t, r[p], p) = << >>
    BY <1>1, RecordsAtType
<1>3. F \in [1 .. N -> Seq(RecordSet(c, t))] /\ \A p \in 1 .. N : F[p] = RecordsAt(t, r[p], p)
    BY <1>2
<1>4. N \in Nat
    BY IdOrderFacts
<1>5. ASSUME NEW n \in 0 .. N PROVE Part(t, r, n) = FlattenTo(F, n)
  <2>1. 1 .. n \subseteq 1 .. N
      BY <1>4
  <2>2. [p \in 1 .. n |-> F[p]] = [p \in 1 .. n |-> RecordsAt(t, r[p], p)]
      BY <1>3, <2>1
  <2> QED
      BY <2>2 DEF Part, FlattenTo
<1> HIDE DEF F
<1> QED
    BY <1>2, <1>3, <1>5

\* What is hashed at one more position comes last.
LEMMA PartStep ==
  ASSUME NEW c \in Collections, NEW t, Hashable(c, t), NEW V \in SUBSET Seq(DocumentsOf(c)),
         NEW r \in [DOMAIN IdOrder -> V], NEW n \in 1 .. Len(IdOrder)
  PROVE  Part(t, r, n) = Part(t, r, n - 1) \o RecordsAt(t, r[n], n)
<1>1. PICK F \in [1 .. Len(IdOrder) -> Seq(RecordSet(c, t))] :
         /\ \A p \in 1 .. Len(IdOrder) : F[p] = RecordsAt(t, r[p], p)
         /\ \A m \in 0 .. Len(IdOrder) : Part(t, r, m) = FlattenTo(F, m)
    BY PartParts
<1>2. Len(IdOrder) \in Nat
    BY IdOrderFacts
<1>3. \A m \in 1 .. Len(IdOrder) : FlattenTo(F, m) = FlattenTo(F, m - 1) \o F[m]
    BY <1>2, FlattenPrefixes
<1>4. n \in 0 .. Len(IdOrder) /\ n - 1 \in 0 .. Len(IdOrder)
    BY <1>2
<1> QED
    BY <1>1, <1>3, <1>4

\* Nothing is hashed where there are no positions, or no documents.
LEMMA PartNothing ==
  ASSUME NEW c \in Collections, NEW t, Hashable(c, t), NEW V \in SUBSET Seq(DocumentsOf(c)),
         NEW r \in [DOMAIN IdOrder -> V]
  PROVE  /\ Part(t, r, 0) = << >>
         /\ \A m, q \in 0 .. Len(IdOrder) :
              m <= q /\ (\A p \in m + 1 .. q : At(r[p], p) = {}) => Part(t, r, q) = Part(t, r, m)
<1> DEFINE N == Len(IdOrder)
           A == RecordSet(c, t)
<1>1. PICK F \in [1 .. N -> Seq(A)] : /\ \A p \in 1 .. N : At(r[p], p) = {} => F[p] = << >>
                                     /\ \A m \in 0 .. N : Part(t, r, m) = FlattenTo(F, m)
    BY PartParts
<1>2. N \in Nat
    BY IdOrderFacts
<1>3. FlattenTo(F, 0) = << >>
    BY <1>2, FlattenPrefixes
<1>4. 0 \in 0 .. N
    BY <1>2
<1>5. ASSUME NEW m \in 0 .. N, NEW q \in 0 .. N, m <= q, \A p \in m + 1 .. q : At(r[p], p) = {}
      PROVE  FlattenTo(F, q) = FlattenTo(F, m)
  <2>1. \A p \in m + 1 .. q : p \in 1 .. N
      BY <1>2
  <2>2. \A p \in m + 1 .. q : F[p] = << >>
      BY <1>1, <1>5, <2>1
  <2> QED
      BY <1>2, <1>5, <2>2, FlattenEmpty, ZenonT(60)
<1> QED
    BY <1>1, <1>3, <1>4, <1>5

\* Behind position n there was, at some time, no document whose `_id` is of
\* another type.
AbsentFrom(V, n, types) ==
    \A p \in n + 1 .. Len(IdOrder) :
        ScalarTypeFamily(IdOrder[p].t) \notin types => \E ds \in V : At(ds, p) = {}

\* h is what is hashed of some reading up to position n.
MongoAt(t, V, n, h) == \E r \in [DOMAIN IdOrder -> V] : h = Part(t, r, n)

\* Positions at which there was no document add nothing.
LEMMA PartAbsent ==
  ASSUME NEW c \in Collections, NEW t, Hashable(c, t), NEW V \in SUBSET Seq(DocumentsOf(c)),
         NEW m \in 0 .. Len(IdOrder), NEW q \in 0 .. Len(IdOrder), m <= q, NEW h, MongoAt(t, V, m, h),
         \A p \in m + 1 .. q : \E ds \in V : At(ds, p) = {}
  PROVE  MongoAt(t, V, q, h)
<1>1. PICK r \in [DOMAIN IdOrder -> V] : h = Part(t, r, m)
    BY DEF MongoAt
<1> DEFINE gone(p) == CHOOSE ds \in V : At(ds, p) = {}
           s == [p \in DOMAIN IdOrder |-> IF p \in m + 1 .. q THEN gone(p) ELSE r[p]]
<1>2. \A p \in m + 1 .. q : gone(p) \in V /\ At(gone(p), p) = {}
    OBVIOUS
<1> HIDE DEF gone
<1>3. s \in [DOMAIN IdOrder -> V]
    BY <1>2
<1>4. \A p \in m + 1 .. q : At(s[p], p) = {}
  <2>1. \A p \in m + 1 .. q : p \in DOMAIN IdOrder
      BY IdOrderFacts
  <2> QED
      BY <1>2, <2>1
<1>5. \A p \in DOMAIN IdOrder : p \notin m + 1 .. q => s[p] = r[p]
    OBVIOUS
<1> HIDE DEF s
<1>6. Part(t, s, m) = Part(t, r, m)
  <2>1. \A p \in 1 .. m : p \in DOMAIN IdOrder /\ p \notin m + 1 .. q
      BY IdOrderFacts
  <2>2. \A p \in 1 .. m : s[p] = r[p]
      BY <1>5, <2>1
  <2>3. [p \in 1 .. m |-> RecordsAt(t, s[p], p)] = [p \in 1 .. m |-> RecordsAt(t, r[p], p)]
      BY <2>2
  <2> QED
      BY <2>3 DEF Part
<1>7. Part(t, s, q) = Part(t, s, m)
    BY <1>3, <1>4, PartNothing
<1>8. h = Part(t, s, q)
    BY <1>1, <1>6, <1>7
<1> QED
    BY <1>3, <1>8 DEF MongoAt

\* The document at the next position is taken from any version.
LEMMA PartNext ==
  ASSUME NEW c \in Collections, NEW t, Hashable(c, t), NEW V \in SUBSET Seq(DocumentsOf(c)),
         NEW q \in 1 .. Len(IdOrder), NEW h, MongoAt(t, V, q - 1, h), NEW ds \in V
  PROVE  MongoAt(t, V, q, h \o RecordsAt(t, ds, q))
<1>1. PICK r \in [DOMAIN IdOrder -> V] : h = Part(t, r, q - 1)
    BY DEF MongoAt
<1> DEFINE s == [r EXCEPT ![q] = ds]
<1>2. q \in DOMAIN IdOrder
    BY IdOrderFacts
<1>3. /\ s \in [DOMAIN IdOrder -> V] /\ s[q] = ds
      /\ \A p \in DOMAIN IdOrder : p # q => s[p] = r[p]
    BY <1>2
<1> HIDE DEF s
<1>4. Part(t, s, q - 1) = Part(t, r, q - 1)
  <2>1. \A p \in 1 .. q - 1 : p \in DOMAIN IdOrder /\ p # q
      BY IdOrderFacts
  <2>2. \A p \in 1 .. q - 1 : s[p] = r[p]
      BY <1>3, <2>1
  <2>3. [p \in 1 .. q - 1 |-> RecordsAt(t, s[p], p)] = [p \in 1 .. q - 1 |-> RecordsAt(t, r[p], p)]
      BY <2>2
  <2> QED
      BY <2>3 DEF Part
<1>5. Part(t, s, q) = Part(t, s, q - 1) \o RecordsAt(t, ds, q)
  <2>1. Part(t, s, q) = Part(t, s, q - 1) \o RecordsAt(t, s[q], q)
      BY <1>3, PartStep
  <2> QED
      BY <1>3, <2>1
<1>6. h \o RecordsAt(t, ds, q) = Part(t, s, q)
    BY <1>1, <1>4, <1>5
<1> QED
    BY <1>3, <1>6 DEF MongoAt

\* More versions allow more readings.
LEMMA MoreVersions ==
  ASSUME NEW V, NEW W, V \subseteq W
  PROVE  /\ \A t, n, h : MongoAt(t, V, n, h) => MongoAt(t, W, n, h)
         /\ \A n, types : AbsentFrom(V, n, types) => AbsentFrom(W, n, types)
<1>1. [DOMAIN IdOrder -> V] \subseteq [DOMAIN IdOrder -> W]
    OBVIOUS
<1>2. \A t, n, h : MongoAt(t, V, n, h) => MongoAt(t, W, n, h)
    BY <1>1 DEF MongoAt
<1>3. \A n, types : AbsentFrom(V, n, types) => AbsentFrom(W, n, types)
    BY DEF AbsentFrom
<1> QED
    BY <1>2, <1>3

(***************************************************************************)
(* The rows of a table, as far as the statements have returned them.       *)
(***************************************************************************)
\* The first n rows have been hashed, and l is the key of the last of them.
PgAt(t, rows, h, l, n) ==
    /\ n \in 0 .. Len(Selected(t, rows, None))
    /\ h = [i \in 1 .. n |-> RecordOf(t, Selected(t, rows, None)[i])]
    /\ l = IF ResumeColumn(t) = None \/ n = 0 THEN None
           ELSE Some(Key(t, Selected(t, rows, None)[n]))

\* The rows behind the first n.
LeftAt(t, rows, n) == SubSeq(Selected(t, rows, None), n + 1, Len(Selected(t, rows, None)))

\* A statement returns rows of the table.
LEMMA SelectedType ==
  ASSUME NEW t, NEW rows, Tabular(t, rows)
  PROVE  Selected(t, rows, None) \in Seq(Range(rows))
<1>1. PICK at \in Seq(DOMAIN rows) : Selected(t, rows, None) = [k \in DOMAIN at |-> rows[at[k]]]
    BY SelectedFirst
<1>2. \A k \in DOMAIN at : rows[at[k]] \in Range(rows)
    BY DEF Range
<1> QED
    BY <1>1, <1>2

\* Before the first statement nothing has been returned.
LEMMA PgFresh ==
  ASSUME NEW t, NEW rows, Tabular(t, rows)
  PROVE  PgAt(t, rows, << >>, None, 0)
<1>1. 0 \in 0 .. Len(Selected(t, rows, None))
  <2>1. Selected(t, rows, None) \in Seq(Range(rows))
      BY SelectedType
  <2> QED
      BY <2>1
<1>2. << >> = [i \in 1 .. 0 |-> RecordOf(t, Selected(t, rows, None)[i])]
    OBVIOUS
<1> QED
    BY <1>1, <1>2 DEF PgAt

\* A statement returns the rows that are left, if it can be resumed at all.
LEMMA PgSelect ==
  ASSUME NEW t, NEW rows, Tabular(t, rows), NEW h, NEW l, NEW n, PgAt(t, rows, h, l, n),
         h = << >> \/ Resumable(t, rows)
  PROVE  Selected(t, rows, l) = LeftAt(t, rows, n)
<1> DEFINE S == Selected(t, rows, None)
<1>1. S \in Seq(Range(rows)) /\ Len(S) \in Nat /\ n \in 0 .. Len(S)
    BY SelectedType DEF PgAt
<1>2. CASE n = 0
  <2>1. l = None
      BY <1>2 DEF PgAt
  <2>2. SubSeq(S, 1, Len(S)) = S
    <3> HIDE DEF S
    <3> QED
        BY <1>1
  <2> QED
      BY <1>2, <2>1, <2>2 DEF LeftAt
<1>3. CASE n # 0
  <2>1. n \in DOMAIN S
    <3> HIDE DEF S
    <3> QED
        BY <1>1, <1>3
  <2>2. h # << >>
    <3>1. h = [i \in 1 .. n |-> RecordOf(t, S[i])] /\ n \in Nat
        BY <1>1 DEF PgAt
    <3>2. 1 \in DOMAIN h
        BY <1>3, <3>1
    <3> QED
        BY <3>2
  <2>3. ResumeColumn(t) # None /\ Resumable(t, rows)
      BY <2>2 DEF Resumable
  <2>4. l = Some(Key(t, S[n]))
      BY <1>3, <2>3 DEF PgAt
  <2> QED
      BY <2>1, <2>3, <2>4, SelectedRest DEF LeftAt
<1> QED
    BY <1>2, <1>3

\* The next row is read.
LEMMA PgRow ==
  ASSUME NEW t, NEW rows, Tabular(t, rows), NEW h, NEW l, NEW n, PgAt(t, rows, h, l, n),
         NEW rest, rest = LeftAt(t, rows, n), rest # << >>
  PROVE  /\ PgAt(t, rows, Append(h, RecordOf(t, Head(rest))),
                 IF ResumeColumn(t) = None THEN None ELSE Some(Key(t, Head(rest))), n + 1)
         /\ Tail(rest) = LeftAt(t, rows, n + 1)
<1> DEFINE S == Selected(t, rows, None)
<1>1. S \in Seq(Range(rows)) /\ Len(S) \in Nat /\ n \in 0 .. Len(S)
    BY SelectedType DEF PgAt
<1>2. h = [i \in 1 .. n |-> RecordOf(t, S[i])] /\ rest = SubSeq(S, n + 1, Len(S))
    BY DEF PgAt, LeftAt
<1> HIDE DEF S
<1>3. n # Len(S)
    BY <1>1, <1>2
<1>4. n + 1 \in 1 .. Len(S) /\ n + 1 # 0
    BY <1>1, <1>3
<1>5. Head(rest) = S[n + 1] /\ Tail(rest) = SubSeq(S, (n + 1) + 1, Len(S))
    BY <1>1, <1>2, <1>4
<1>6. Append(h, RecordOf(t, S[n + 1])) = [i \in 1 .. n + 1 |-> RecordOf(t, S[i])]
  <2> DEFINE R == [i \in 1 .. n + 1 |-> RecordOf(t, S[i])]
             A == {RecordOf(t, S[i]) : i \in 1 .. n + 1}
  <2>1. h \in Seq(A) /\ Len(h) = n /\ RecordOf(t, S[n + 1]) \in A
    <3>1. \A i \in 1 .. n + 1 : RecordOf(t, S[i]) \in A
        OBVIOUS
    <3>2. n \in Nat /\ n + 1 \in 1 .. n + 1 /\ 1 .. n \subseteq 1 .. n + 1
        BY <1>1
    <3> HIDE DEF A
    <3>3. h \in [1 .. n -> A]
        BY <1>2, <3>1, <3>2
    <3> QED
        BY <3>1, <3>2, <3>3
  <2>2. R \in Seq(A) /\ Len(R) = n + 1
      BY <1>1
  <2>3. \A i \in 1 .. n + 1 : Append(h, RecordOf(t, S[n + 1]))[i] = R[i]
    <3>1. \A i \in 1 .. n : h[i] = RecordOf(t, S[i]) /\ R[i] = RecordOf(t, S[i])
        BY <1>1, <1>2
    <3>2. R[n + 1] = RecordOf(t, S[n + 1])
        BY <1>1
    <3> HIDE DEF A, R
    <3> QED
        BY <1>1, <2>1, <3>1, <3>2
  <2>4. Append(h, RecordOf(t, S[n + 1])) \in Seq(A) /\ Len(Append(h, RecordOf(t, S[n + 1]))) = n + 1
    <3> HIDE DEF A
    <3> QED
        BY <2>1
  <2> HIDE DEF A, R
  <2>5. Append(h, RecordOf(t, S[n + 1])) = R
    <3> DEFINE w == Append(h, RecordOf(t, S[n + 1]))
    <3>1. w \in Seq(A) /\ Len(w) = n + 1 /\ \A i \in 1 .. n + 1 : w[i] = R[i]
        BY <2>3, <2>4
    <3> HIDE DEF w
    <3>2. w = R
        BY <1>1, <2>2, <3>1
    <3> QED
        BY <3>2 DEF w
  <2> QED
      BY <2>5 DEF R
<1>7. (n + 1) \in 0 .. Len(S)
    BY <1>1, <1>4
<1> QED
    BY <1>4, <1>5, <1>6, <1>7 DEF PgAt, LeftAt, S

\* The records of all rows.
RecordsIn(t, rows) == [i \in DOMAIN rows |-> RecordOf(t, rows[i])]

\* When nothing is left, the records of all rows have been hashed.
LEMMA PgEnd ==
  ASSUME NEW t, NEW rows, Tabular(t, rows), NEW h, NEW l, NEW n, PgAt(t, rows, h, l, n),
         LeftAt(t, rows, n) = << >>, NEW s
  PROVE  SameBag(s, h) <=> SameBag(s, RecordsIn(t, rows))
<1> DEFINE S == Selected(t, rows, None)
           b == RecordsIn(t, rows)
<1>1. PICK at \in Seq(DOMAIN rows) : /\ IsInjective(at) /\ ToSet(at) = DOMAIN rows
                                     /\ S = [k \in DOMAIN at |-> rows[at[k]]]
    BY SelectedFirst
<1>2. S \in Seq(Range(rows)) /\ n \in 0 .. Len(S) /\ SubSeq(S, n + 1, Len(S)) = << >>
      /\ h = [i \in 1 .. n |-> RecordOf(t, S[i])]
    BY SelectedType DEF PgAt, LeftAt
<1>3. rows \in Seq(Range(rows)) /\ DOMAIN rows = 1 .. Len(rows) /\ Len(rows) \in Nat
    BY DEF Tabular
<1> HIDE DEF S
<1>4. n = Len(S) /\ Len(S) = Len(at) /\ DOMAIN at = 1 .. n
  <2>1. Len(S) = Len(at)
      BY <1>1, <1>2
  <2>2. Len(S) = n
    <3>1. Len(SubSeq(S, n + 1, Len(S))) = Len(S) - n /\ Len(S) \in Nat /\ n \in Nat
        BY <1>2
    <3>2. Len(S) - n = 0
        BY <1>2, <3>1
    <3> QED
        BY <3>1, <3>2
  <2>3. DOMAIN at = 1 .. Len(at)
      OBVIOUS
  <2> QED
      BY <2>1, <2>2, <2>3
<1>5. b \in Seq({b[i] : i \in DOMAIN rows}) /\ DOMAIN b = DOMAIN rows
      /\ \A i \in DOMAIN rows : b[i] = RecordOf(t, rows[i])
    BY <1>3 DEF RecordsIn
<1> HIDE DEF b
<1>6. h = [k \in DOMAIN at |-> b[at[k]]]
  <2>1. \A k \in DOMAIN at : at[k] \in DOMAIN rows /\ S[k] = rows[at[k]]
      BY <1>1
  <2>2. \A k \in DOMAIN at : RecordOf(t, S[k]) = b[at[k]]
      BY <1>5, <2>1
  <2> QED
      BY <1>2, <1>4, <2>2
<1>7. SameBag(s, [k \in DOMAIN at |-> b[at[k]]]) <=> SameBag(s, b)
    BY <1>1, <1>5, SameBagPermuted
<1> QED
    BY <1>6, <1>7 DEF b

(***************************************************************************)
(* The reading of a table, and the checksums that come of it.              *)
(***************************************************************************)
\* The position of the last `_id`, 0 if there is none.
PlaceOf(x) == IF x = None THEN 0 ELSE Position(IdOrder, x[1])

\* The documents before the last one are hashed as some reading has them.
MongoRead ==
    /\ MongoAt(target, versions, PlaceOf(seen), hashed.mongo)
    /\ phase = "mongo" => AbsentFrom(versions, PlaceOf(seen), bracket)
    /\ phase \in {"select", "pg"} => AbsentFrom(versions, PlaceOf(seen), {})

\* The rows are hashed, and returned, in the order of the first statement.
PgRead ==
    \E n \in Nat :
        /\ PgAt(target, loaded.rows[target.table], hashed.pg, last, n)
        /\ phase = "pg" => left = LeftAt(target, loaded.rows[target.table], n)

\* Every checksum compares a reading with the rows of its table.
OfVersions(checksums, p, load, V) ==
    \A name \in DOMAIN checksums :
        \E t \in Range(TargetsOf(p)) : \E r \in [DOMAIN IdOrder -> V] :
            /\ t.table = name
            /\ checksums[name] <=>
                   SameBag(Part(t, r, Len(IdOrder)), RecordsIn(t, load.rows[t.table]))

\* What has been read, and the checksums that came of it.
Read ==
    /\ stage \in Loading \cup {"loaded"} => md5 = << >> /\ summaries = << >>
    /\ exact /\ phase # "idle" => MongoRead /\ PgRead
    /\ exact => /\ OfVersions(md5, plan, loaded, versions)
                /\ OfVersions(summaries, plan, loaded, versions)

\* No checksums are checksums of any versions.
LEMMA NoChecksums ==
  ASSUME NEW p, NEW load, NEW V
  PROVE  OfVersions(<< >>, p, load, V)
<1>1. DOMAIN << >> = {}
    OBVIOUS
<1> QED
    BY <1>1 DEF OfVersions

\* Checksums stay founded when the collection changes.
LEMMA MoreChecksums ==
  ASSUME NEW checksums, NEW p, NEW load, NEW V, NEW W, V \subseteq W,
         OfVersions(checksums, p, load, V)
  PROVE  OfVersions(checksums, p, load, W)
<1>1. [DOMAIN IdOrder -> V] \subseteq [DOMAIN IdOrder -> W]
    OBVIOUS
<1> QED
    BY <1>1 DEF OfVersions

\* The checksum of one table more.
LEMMA AddChecksum ==
  ASSUME NEW checksums, NEW p, NEW load, NEW V, OfVersions(checksums, p, load, V),
         NEW t \in Range(TargetsOf(p)), NEW r \in [DOMAIN IdOrder -> V], NEW same,
         same <=> SameBag(Part(t, r, Len(IdOrder)), RecordsIn(t, load.rows[t.table]))
  PROVE  OfVersions(WithChecksum(checksums, t.table, same), p, load, V)
<1> DEFINE all == WithChecksum(checksums, t.table, same)
<1>1. /\ DOMAIN all = {t.table} \cup DOMAIN checksums
      /\ all[t.table] = same
      /\ \A name \in DOMAIN checksums : name # t.table => all[name] = checksums[name]
    BY DEF WithChecksum
<1> HIDE DEF all
<1>2. ASSUME NEW name \in DOMAIN all
      PROVE  \E u \in Range(TargetsOf(p)) : \E s \in [DOMAIN IdOrder -> V] :
                /\ u.table = name
                /\ all[name] <=> SameBag(Part(u, s, Len(IdOrder)), RecordsIn(u, load.rows[u.table]))
  <2>1. CASE name = t.table
      BY <1>1, <2>1
  <2>2. CASE name # t.table
    <3>1. name \in DOMAIN checksums /\ all[name] = checksums[name]
        BY <1>1, <2>2
    <3> QED
        BY <3>1 DEF OfVersions
  <2> QED
      BY <2>1, <2>2
<1>3. OfVersions(all, p, load, V)
    BY <1>2 DEF OfVersions
<1> QED
    BY <1>3 DEF all

\* What is known of a target once its table has been loaded.
LEMMA TargetFacts ==
  ASSUME NEW c \in Collections, Placed(c), stage \notin Loading, NEW t \in Range(TargetsOf(plan))
  PROVE  Hashable(c, t) /\ Tabular(t, loaded.rows[t.table])
<1>1. plan = PlanFor(sample, jsonb) /\ sample \in {c, << Head(c) >>} /\ jsonb \in BOOLEAN
    BY DEF Placed, Loading
<1>2. loaded \in { Exported(plan, c), Streamed(plan, c) } /\ Committable(plan, loaded)
    BY DEF Placed, LoadOf
<1>3. /\ \A d \in DocumentsOf(c) : RecordsOf(t, d) \in Seq(Range(RecordsOf(t, d)))
      /\ \A load \in { Exported(plan, c), Streamed(plan, c) } :
            Committable(plan, load) => Tabular(t, load.rows[t.table])
    BY <1>1, PlanFacts
<1> QED
    BY <1>2, <1>3 DEF Hashable

\* Nothing has been read yet.
LEMMA FreshReads ==
  ASSUME NEW c \in Collections, NEW t, Hashable(c, t), NEW V \in SUBSET Seq(DocumentsOf(c)), V # {},
         NEW rows, Tabular(t, rows)
  PROVE  MongoAt(t, V, PlaceOf(None), << >>) /\ PgAt(t, rows, << >>, None, 0)
<1>1. PICK ds \in V : TRUE
    OBVIOUS
<1> DEFINE r == [p \in DOMAIN IdOrder |-> ds]
<1>2. r \in [DOMAIN IdOrder -> V]
    OBVIOUS
<1> HIDE DEF r
<1>3. Part(t, r, 0) = << >>
    BY <1>2, PartNothing
<1>4. PlaceOf(None) = 0
    BY DEF PlaceOf
<1> QED
    BY <1>2, <1>3, <1>4, PgFresh DEF MongoAt

\* At first nothing has been read.
LEMMA ReadInit == Init => Read
<1> SUFFICES ASSUME Init PROVE Read
    OBVIOUS
<1>1. md5 = << >> /\ summaries = << >> /\ phase = "idle"
    BY DEF Init
<1> QED
    BY <1>1, NoChecksums DEF Read

\* Where the last `_id` is.
LEMMA SeenFacts ==
  ASSUME Control
  PROVE  /\ PlaceOf(seen) \in 0 .. Len(IdOrder)
         /\ \A p \in DOMAIN IdOrder : PlaceOf(Some(IdOrder[p])) = p
         /\ \A ds, types : Ahead(ds, seen, types) =
              { p \in DOMAIN IdOrder : /\ p > PlaceOf(seen)
                                       /\ ScalarTypeFamily(IdOrder[p].t) \in types
                                       /\ At(ds, p) # {} }
<1>1. ASSUME NEW p \in DOMAIN IdOrder
      PROVE  PlaceOf(Some(IdOrder[p])) = p /\ Some(IdOrder[p])[1] = IdOrder[p] /\ Some(IdOrder[p]) # None
  <2>1. Position(IdOrder, IdOrder[p]) = p
      BY IdOrderFacts, PositionOf
  <2>2. Some(IdOrder[p])[1] = IdOrder[p] /\ Some(IdOrder[p]) # None
      BY DEF Some, None
  <2> QED
      BY <2>1, <2>2 DEF PlaceOf
<1>2. CASE seen = None
  <2>1. PlaceOf(seen) = 0
      BY <1>2 DEF PlaceOf
  <2>2. \A p \in DOMAIN IdOrder : p > 0
      BY IdOrderFacts
  <2>3. 0 \in 0 .. Len(IdOrder)
      BY IdOrderFacts
  <2> QED
      BY <1>1, <1>2, <2>1, <2>2, <2>3 DEF Ahead
<1>3. CASE seen # None
  <2>1. PICK q \in DOMAIN IdOrder : seen = Some(IdOrder[q])
      BY <1>3 DEF Control
  <2>2. PlaceOf(seen) = q /\ Position(IdOrder, seen[1]) = q
      BY <1>1, <1>3, <2>1 DEF PlaceOf
  <2>3. q \in 0 .. Len(IdOrder)
      BY IdOrderFacts
  <2> QED
      BY <1>1, <1>3, <2>2, <2>3 DEF Ahead
<1> QED
    BY <1>2, <1>3

\* What holds of the collection and the table while the report hashes.
LEMMA HashingFacts ==
  ASSUME NEW c \in Collections, Control, Placed(c), Read, Hashing
  PROVE  /\ stage \in {"md5", "explain"} /\ phase # "idle"
         /\ todo \in Seq(Range(TargetsOf(plan))) /\ target \in Range(TargetsOf(plan))
         /\ versions \in SUBSET Seq(DocumentsOf(c)) /\ docs \in versions
         /\ \A t \in Range(TargetsOf(plan)) : Hashable(c, t) /\ Tabular(t, loaded.rows[t.table])
         /\ exact => /\ MongoRead /\ PgRead
                     /\ OfVersions(md5, plan, loaded, versions)
                     /\ OfVersions(summaries, plan, loaded, versions)
<1>1. stage \in {"md5", "explain"} /\ todo # << >>
    BY DEF Hashing
<1>2. phase # "idle"
    BY <1>1 DEF Control
<1>3. todo \in Seq(Range(TargetsOf(plan))) /\ target \in Range(TargetsOf(plan))
  <2>1. todo \in Seq(Range(TargetsOf(plan)))
      BY <1>2 DEF Placed, Todo
  <2> QED
      BY <1>1, <2>1 DEF target
<1>4. stage \notin Loading
    BY <1>1 DEF Loading
<1>5. \A t \in Range(TargetsOf(plan)) : Hashable(c, t) /\ Tabular(t, loaded.rows[t.table])
    BY <1>4, TargetFacts
<1>6. versions \in SUBSET Seq(DocumentsOf(c)) /\ docs \in versions
    BY DEF Placed
<1> QED
    BY <1>1, <1>2, <1>3, <1>5, <1>6 DEF Read

\* A step on the same table keeps the checksums.
LEMMA ReadSameTable ==
  ASSUME NEW c \in Collections, Control, Placed(c), Read, Hashing, Steady, SameTable, exact' => exact,
         exact' => MongoRead' /\ PgRead'
  PROVE  Read'
<1>1. stage' \in {"md5", "explain"}
    BY HashingFacts DEF SameTable
<1>2. exact' => /\ OfVersions(md5, plan, loaded, versions)'
                /\ OfVersions(summaries, plan, loaded, versions)'
    BY HashingFacts DEF Steady, SameTable, OfVersions
<1> QED
    BY <1>1, <1>2 DEF Read, Loading

\* A pass that ends, or fails.
LEMMA ReadEndPass ==
  ASSUME NEW c \in Collections, Control, Placed(c), Read, Hashing, Steady, exact' = exact,
         NEW result, EndPass(result), exact => OfVersions(result, plan, loaded, versions)
  PROVE  Read'
<1>1. stage' \in {"scan", "verdict"} /\ phase' = "idle"
    BY DEF EndPass, Rest
<1>2. md5' = result /\ summaries' \in {result, summaries}
    BY DEF EndPass
<1>3. exact' => /\ OfVersions(md5, plan, loaded, versions)'
                /\ OfVersions(summaries, plan, loaded, versions)'
    BY <1>2, HashingFacts DEF Steady, OfVersions
<1> QED
    BY <1>1, <1>3 DEF Read, Loading

\* A pass that fails leaves no checksums.
LEMMA ReadFailPass ==
  ASSUME NEW c \in Collections, Control, Placed(c), Read, Hashing, Steady, exact' = exact, FailPass
  PROVE  Read'
<1>1. OfVersions(<< >>, plan, loaded, versions)
    BY NoChecksums
<1> QED
    BY <1>1, ReadEndPass DEF FailPass

\* A table that is begun, or begun again: its hashes are those of no reading.
LEMMA ReadBegun ==
  ASSUME NEW c \in Collections, Placed(c)', stage' \notin Loading, todo' # << >>, phase' # "idle",
         NEW attempts, Begin(attempts)
  PROVE  MongoRead' /\ PgRead'
<1>1. (todo \in Seq(Range(TargetsOf(plan))))' /\ Head(todo') \in Range(TargetsOf(plan'))
  <2>1. todo' \in Seq(Range(TargetsOf(plan')))
      BY DEF Placed, Todo
  <2> QED
      BY <2>1
<1>2. \A t \in Range(TargetsOf(plan')) : Hashable(c, t) /\ Tabular(t, loaded'.rows[t.table])
  <2>1. (\A t \in Range(TargetsOf(plan)) : Hashable(c, t) /\ Tabular(t, loaded.rows[t.table]))'
    <3>1. plan' = PlanFor(sample', jsonb') /\ sample' \in {c, << Head(c) >>} /\ jsonb' \in BOOLEAN
        BY DEF Placed, Loading
    <3>2. loaded' \in { Exported(plan', c), Streamed(plan', c) } /\ Committable(plan', loaded')
        BY DEF Placed, LoadOf, Committable
    <3>3. \A ds \in {c, << Head(c) >>}, a \in BOOLEAN : \A p : p = PlanFor(ds, a) =>
             \A t \in Range(TargetsOf(p)) :
                /\ Hashable(c, t)
                /\ \A load \in { Exported(p, c), Streamed(p, c) } :
                      Committable(p, load) => Tabular(t, load.rows[t.table])
        BY PlanFacts DEF Hashable
    <3> QED
        BY <3>1, <3>2, <3>3
  <2> QED
      BY <2>1
<1>3. versions' \in SUBSET Seq(DocumentsOf(c)) /\ versions' # {}
    BY DEF Placed
<1> DEFINE u == Head(todo')
<1>4. /\ MongoAt(u, versions', PlaceOf(None), << >>)
      /\ PgAt(u, loaded'.rows[u.table], << >>, None, 0)
    BY <1>1, <1>2, <1>3, FreshReads
<1>5. target' = u /\ seen' = None /\ last' = None /\ phase' = "find"
      /\ hashed'.mongo = << >> /\ hashed'.pg = << >>
    BY DEF target, Begin, NoHashes
<1>6. PlaceOf(seen') = PlaceOf(None)
    BY <1>5
<1>7. MongoAt(target', versions', PlaceOf(seen'), hashed'.mongo)
    BY <1>4, <1>5
<1>8. PgAt(target', loaded'.rows[target'.table], hashed'.pg, last', 0)
    BY <1>4, <1>5
<1> QED
    BY <1>5, <1>7, <1>8 DEF MongoRead, PgRead, PlaceOf, MongoAt, AbsentFrom, PgAt, LeftAt

\* A table that is tried again is read from the start.
LEMMA ReadTryAgain ==
  ASSUME NEW c \in Collections, Control, Placed(c), Read, Hashing, Steady, exact' = exact,
         TryTableAgain, Placed(c)'
  PROVE  Read'
<1>1. CASE FailPass
    BY <1>1, ReadFailPass
<1>2. CASE Begin(retries.table + 1) /\ SameTable
  <2>1. stage' \notin Loading /\ todo' # << >> /\ phase' # "idle"
      BY <1>2, HashingFacts DEF SameTable, Hashing, Begin, Loading
  <2>2. MongoRead' /\ PgRead'
      BY <1>2, <2>1, ReadBegun
  <2> QED
      BY <1>2, <2>2, ReadSameTable
<1> QED
    BY <1>1, <1>2 DEF TryTableAgain

\* A pass that begins.
LEMMA ReadBeginPass ==
  ASSUME NEW c \in Collections, Placed(c)', stage' \notin Loading \cup {"loaded"},
         NEW to, NEW otherwise, BeginPass(to, otherwise),
         exact' => OfVersions(summaries, plan, loaded, versions)'
  PROVE  Read'
<1>1. md5' = << >> /\ OfVersions(<< >>, plan', loaded', versions')
    BY NoChecksums DEF BeginPass
<1>2. OfVersions(md5, plan, loaded, versions)'
    BY <1>1
<1>3. phase' # "idle" => MongoRead' /\ PgRead'
  <2>1. CASE todo' = << >>
      BY <2>1 DEF BeginPass, Rest
  <2>2. CASE todo' # << >>
    <3>1. Begin(0) /\ phase' # "idle"
        BY <2>2 DEF BeginPass, Begin
    <3> QED
        BY <2>2, <3>1, ReadBegun
  <2> QED
      BY <2>1, <2>2
<1> QED
    BY <1>2, <1>3 DEF Read

\* The steps of the cursor: what was behind is as one version had it.
LEMMA ReadFindDocuments ==
  ASSUME NEW c \in Collections, Control, Placed(c), Read, FindDocuments
  PROVE  Read'
<1>1. /\ Hashing /\ phase' = "mongo" /\ bracket' = Bracket(seen)
      /\ exact' = (exact /\ Ahead(docs, seen, AllTypes) = Ahead(docs, seen, Bracket(seen)))
      /\ UNCHANGED << seen, last, left, hashed, retries, failures >> /\ Steady /\ SameTable
    BY DEF FindDocuments
<1>2. ASSUME exact' PROVE MongoRead' /\ PgRead'
  <2>1. exact /\ Ahead(docs, seen, AllTypes) = Ahead(docs, seen, Bracket(seen))
      BY <1>1, <1>2
  <2>2. MongoRead /\ PgRead /\ docs \in versions
      BY <1>1, <2>1, HashingFacts
  <2>3. AbsentFrom(versions, PlaceOf(seen), Bracket(seen))
    <3> SUFFICES ASSUME NEW p \in PlaceOf(seen) + 1 .. Len(IdOrder),
                        ScalarTypeFamily(IdOrder[p].t) \notin Bracket(seen)
                 PROVE  At(docs, p) = {}
        BY <2>2 DEF AbsentFrom
    <3>1. p \in DOMAIN IdOrder /\ p > PlaceOf(seen)
        BY SeenFacts, IdOrderFacts
    <3>2. p \notin Ahead(docs, seen, AllTypes)
        BY <2>1, SeenFacts
    <3>3. ScalarTypeFamily(IdOrder[p].t) \in AllTypes
        BY <3>1 DEF AllTypes
    <3> QED
        BY <3>1, <3>2, <3>3, SeenFacts
  <2>4. MongoRead'
      BY <1>1, <2>2, <2>3 DEF MongoRead, Steady, SameTable, target, PlaceOf, MongoAt, AbsentFrom
  <2>5. PgRead'
      BY <1>1, <2>2 DEF PgRead, Steady, SameTable, target
  <2> QED
      BY <2>4, <2>5
<1> QED
    BY <1>1, <1>2, ReadSameTable

\* The next document is taken as it is now.
LEMMA ReadReadDocument ==
  ASSUME NEW c \in Collections, Control, Placed(c), Read, ReadDocument, Control'
  PROVE  Read'
<1> DEFINE ahead == Ahead(docs, seen, bracket)
           next == CHOOSE p \in ahead : \A q \in ahead : p <= q
<1>1. /\ Hashing /\ phase = "mongo" /\ ahead # {} /\ seen' = Some(IdOrder[next])
      /\ hashed' = [hashed EXCEPT !.mongo = @ \o RecordsAt(target, docs, next)]
      /\ UNCHANGED << phase, bracket, last, left, exact, failures >> /\ Steady /\ SameTable
    BY DEF ReadDocument
<1>2. ahead = { p \in DOMAIN IdOrder : /\ p > PlaceOf(seen)
                                       /\ ScalarTypeFamily(IdOrder[p].t) \in bracket
                                       /\ At(docs, p) # {} }
    BY SeenFacts
<1>3. next \in ahead /\ \A q \in ahead : next <= q
  <2>1. ahead \subseteq Nat
      BY <1>2, IdOrderFacts
  <2> HIDE DEF ahead
  <2>2. \E p \in ahead : \A q \in ahead : p <= q
      BY <1>1, <2>1, LeastNat
  <2> QED
      BY <2>2
<1>4. next \in DOMAIN IdOrder /\ next > PlaceOf(seen)
    BY <1>2, <1>3
<1>5. \A p \in PlaceOf(seen) + 1 .. next - 1 :
         ScalarTypeFamily(IdOrder[p].t) \in bracket => At(docs, p) = {}
  <2> SUFFICES ASSUME NEW p \in PlaceOf(seen) + 1 .. next - 1, At(docs, p) # {},
                      ScalarTypeFamily(IdOrder[p].t) \in bracket
               PROVE  FALSE
      OBVIOUS
  <2> HIDE DEF next
  <2>1. p \in DOMAIN IdOrder /\ p > PlaceOf(seen) /\ ~ next <= p
      BY <1>4, SeenFacts, IdOrderFacts
  <2> QED
      BY <1>2, <1>3, <2>1
<1> HIDE DEF next, ahead
<1>6. next \in 1 .. Len(IdOrder) /\ next - 1 \in 0 .. Len(IdOrder) /\ PlaceOf(seen) \in 0 .. Len(IdOrder)
      /\ PlaceOf(seen) <= next - 1
    BY <1>4, SeenFacts, IdOrderFacts
<1>7. PlaceOf(seen') = next
    BY <1>1, <1>4, SeenFacts
<1>8. ASSUME exact' PROVE MongoRead' /\ PgRead'
  <2>1. MongoRead /\ PgRead /\ docs \in versions /\ versions \in SUBSET Seq(DocumentsOf(c))
        /\ Hashable(c, target)
      BY <1>1, <1>8, HashingFacts
  <2>2. AbsentFrom(versions, PlaceOf(seen), bracket)
        /\ MongoAt(target, versions, PlaceOf(seen), hashed.mongo)
      BY <1>1, <2>1 DEF MongoRead
  <2>3. \A p \in PlaceOf(seen) + 1 .. next - 1 : \E ds \in versions : At(ds, p) = {}
    <3> SUFFICES ASSUME NEW p \in PlaceOf(seen) + 1 .. next - 1
                 PROVE  \E ds \in versions : At(ds, p) = {}
        OBVIOUS
    <3>1. CASE ScalarTypeFamily(IdOrder[p].t) \in bracket
        BY <1>5, <2>1, <3>1
    <3>2. CASE ScalarTypeFamily(IdOrder[p].t) \notin bracket
      <4>1. p \in PlaceOf(seen) + 1 .. Len(IdOrder)
          BY <1>6
      <4> QED
          BY <2>2, <3>2, <4>1 DEF AbsentFrom
    <3> QED
        BY <3>1, <3>2
  <2>4. MongoAt(target, versions, next - 1, hashed.mongo)
      BY <1>6, <2>1, <2>2, <2>3, PartAbsent
  <2>5. MongoAt(target, versions, next, hashed.mongo \o RecordsAt(target, docs, next))
      BY <1>6, <2>1, <2>4, PartNext
  <2>6. AbsentFrom(versions, next, bracket)
    <3>1. \A p \in next + 1 .. Len(IdOrder) : p \in PlaceOf(seen) + 1 .. Len(IdOrder)
        BY <1>6
    <3> QED
        BY <2>2, <3>1 DEF AbsentFrom
  <2>7. hashed'.mongo = hashed.mongo \o RecordsAt(target, docs, next) /\ hashed'.pg = hashed.pg
      BY <1>1 DEF Control
  <2>8. target' = target /\ versions' = versions /\ bracket' = bracket /\ phase' = "mongo"
      BY <1>1 DEF Steady, SameTable, target
  <2>9. MongoAt(target', versions', PlaceOf(seen'), hashed'.mongo)
      BY <1>7, <2>5, <2>7, <2>8
  <2>10. AbsentFrom(versions', PlaceOf(seen'), bracket')
      BY <1>7, <2>6, <2>8
  <2>11. MongoRead'
      BY <2>8, <2>9, <2>10 DEF MongoRead, PlaceOf, MongoAt, AbsentFrom
  <2>12. PgRead'
      BY <1>1, <2>1, <2>7, <2>8 DEF PgRead, Steady
  <2> QED
      BY <2>11, <2>12
<1> QED
    BY <1>1, <1>8, ReadSameTable

\* When the cursor ends, all positions have been read.
LEMMA ReadCursorEnds ==
  ASSUME NEW c \in Collections, Control, Placed(c), Read, CursorEnds
  PROVE  Read'
<1>1. /\ Hashing /\ phase = "mongo" /\ phase' = "select" /\ Ahead(docs, seen, bracket) = {}
      /\ UNCHANGED << seen, bracket, last, left, hashed, retries, exact, failures >>
      /\ Steady /\ SameTable
    BY DEF CursorEnds
<1>2. ASSUME exact' PROVE MongoRead' /\ PgRead'
  <2>1. MongoRead /\ PgRead /\ docs \in versions
      BY <1>1, <1>2, HashingFacts
  <2>2. AbsentFrom(versions, PlaceOf(seen), bracket)
      BY <1>1, <2>1 DEF MongoRead
  <2>3. AbsentFrom(versions, PlaceOf(seen), {})
    <3> SUFFICES ASSUME NEW p \in PlaceOf(seen) + 1 .. Len(IdOrder)
                 PROVE  \E ds \in versions : At(ds, p) = {}
        BY DEF AbsentFrom
    <3>1. CASE ScalarTypeFamily(IdOrder[p].t) \notin bracket
        BY <2>2, <3>1 DEF AbsentFrom
    <3>2. CASE ScalarTypeFamily(IdOrder[p].t) \in bracket
      <4>1. p \in DOMAIN IdOrder /\ p > PlaceOf(seen)
          BY SeenFacts, IdOrderFacts
      <4>2. Ahead(docs, seen, bracket) =
              { q \in DOMAIN IdOrder : /\ q > PlaceOf(seen)
                                       /\ ScalarTypeFamily(IdOrder[q].t) \in bracket
                                       /\ At(docs, q) # {} }
          BY SeenFacts
      <4>3. p \notin Ahead(docs, seen, bracket)
          BY <1>1
      <4>4. At(docs, p) = {}
          BY <3>2, <4>1, <4>2, <4>3
      <4> QED
          BY <2>1, <4>4
    <3> QED
        BY <3>1, <3>2
  <2>4. MongoRead'
      BY <1>1, <2>1, <2>3 DEF MongoRead, Steady, SameTable, target, PlaceOf, MongoAt, AbsentFrom
  <2>5. PgRead'
      BY <1>1, <2>1 DEF PgRead, Steady, SameTable, target
  <2> QED
      BY <2>4, <2>5
<1> QED
    BY <1>1, <1>2, ReadSameTable

\* The steps of the statement.
LEMMA ReadSelectRows ==
  ASSUME NEW c \in Collections, Control, Placed(c), Read, SelectRows
  PROVE  Read'
<1> DEFINE rows == loaded.rows[target.table]
<1>1. /\ Hashing /\ phase = "select" /\ phase' = "pg" /\ left' = Selected(target, rows, last)
      /\ exact' = (exact /\ (hashed.pg = << >> \/ Resumable(target, rows)))
      /\ UNCHANGED << seen, bracket, last, hashed, retries, failures >> /\ Steady /\ SameTable
    BY DEF SelectRows
<1>2. ASSUME exact' PROVE MongoRead' /\ PgRead'
  <2>1. MongoRead /\ PgRead /\ Tabular(target, rows)
        /\ (hashed.pg = << >> \/ Resumable(target, rows))
      BY <1>1, <1>2, HashingFacts
  <2>2. PICK n \in Nat : PgAt(target, rows, hashed.pg, last, n)
      BY <2>1 DEF PgRead
  <2>3. left' = LeftAt(target, rows, n)
      BY <1>1, <2>1, <2>2, PgSelect
  <2>4. MongoRead'
      BY <1>1, <2>1 DEF MongoRead, Steady, SameTable, target, PlaceOf, MongoAt, AbsentFrom
  <2>5. target' = target /\ loaded' = loaded /\ hashed' = hashed /\ last' = last
      BY <1>1 DEF Steady, SameTable, target
  <2>6. PgRead'
      BY <2>2, <2>3, <2>5 DEF PgRead
  <2> QED
      BY <2>4, <2>6
<1> QED
    BY <1>1, <1>2, ReadSameTable

\* The next row is hashed.
LEMMA ReadReadRow ==
  ASSUME NEW c \in Collections, Control, Placed(c), Read, ReadRow
  PROVE  Read'
<1> DEFINE rows == loaded.rows[target.table]
<1>1. /\ Hashing /\ phase = "pg" /\ left # << >> /\ left' = Tail(left)
      /\ last' = IF ResumeColumn(target) = None THEN None ELSE Some(Key(target, Head(left)))
      /\ hashed' = [hashed EXCEPT !.pg = Append(@, RecordOf(target, Head(left)))]
      /\ UNCHANGED << phase, seen, bracket, exact, failures >> /\ Steady /\ SameTable
    BY DEF ReadRow
<1>2. ASSUME exact' PROVE MongoRead' /\ PgRead'
  <2>1. MongoRead /\ PgRead /\ Tabular(target, rows)
      BY <1>1, <1>2, HashingFacts
  <2>2. PICK n \in Nat : PgAt(target, rows, hashed.pg, last, n) /\ left = LeftAt(target, rows, n)
      BY <1>1, <2>1 DEF PgRead
  <2>3. hashed'.pg = Append(hashed.pg, RecordOf(target, Head(left))) /\ hashed'.mongo = hashed.mongo
      BY <1>1 DEF Control
  <2>4. PgAt(target, rows, hashed'.pg, last', n + 1) /\ left' = LeftAt(target, rows, n + 1)
      BY <1>1, <2>1, <2>2, <2>3, PgRow
  <2>5. target' = target /\ loaded' = loaded /\ versions' = versions
      BY <1>1 DEF Steady, SameTable, target
  <2>6. n + 1 \in Nat
      OBVIOUS
  <2>7. PgRead'
      BY <2>4, <2>5, <2>6 DEF PgRead
  <2>8. MongoRead'
      BY <1>1, <2>1, <2>3, <2>5 DEF MongoRead
  <2> QED
      BY <2>7, <2>8
<1> QED
    BY <1>1, <1>2, ReadSameTable

\* The checksum of a table compares a reading with all its rows.
LEMMA ReadEndTable ==
  ASSUME NEW c \in Collections, Control, Placed(c), Read, EndTable, Placed(c)'
  PROVE  Read'
<1> DEFINE rows == loaded.rows[target.table]
           same == SameBag(hashed.mongo, hashed.pg)
           done == WithChecksum(md5, target.table, same)
<1>1. /\ Hashing /\ phase = "pg" /\ left = << >> /\ exact' = exact /\ Steady
      /\ \/ Tail(todo) = << >> /\ EndPass(done)
         \/ Tail(todo) # << >> /\ todo' = Tail(todo) /\ md5' = done /\ Begin(0)
            /\ UNCHANGED << summaries, stage >>
    BY DEF EndTable
<1>2. ASSUME exact PROVE OfVersions(done, plan, loaded, versions)
  <2>1. MongoRead /\ PgRead /\ Tabular(target, rows) /\ docs \in versions
        /\ versions \in SUBSET Seq(DocumentsOf(c)) /\ Hashable(c, target)
        /\ target \in Range(TargetsOf(plan)) /\ OfVersions(md5, plan, loaded, versions)
      BY <1>1, <1>2, HashingFacts
  <2>2. PICK n \in Nat : PgAt(target, rows, hashed.pg, last, n) /\ left = LeftAt(target, rows, n)
      BY <1>1, <2>1 DEF PgRead
  <2>3. MongoAt(target, versions, Len(IdOrder), hashed.mongo)
    <3>1. MongoAt(target, versions, PlaceOf(seen), hashed.mongo)
          /\ AbsentFrom(versions, PlaceOf(seen), {})
        BY <1>1, <2>1 DEF MongoRead
    <3>2. \A p \in PlaceOf(seen) + 1 .. Len(IdOrder) : \E ds \in versions : At(ds, p) = {}
        BY <3>1 DEF AbsentFrom
    <3>3. PlaceOf(seen) \in 0 .. Len(IdOrder) /\ Len(IdOrder) \in 0 .. Len(IdOrder)
          /\ PlaceOf(seen) <= Len(IdOrder)
        BY SeenFacts, IdOrderFacts
    <3> QED
        BY <2>1, <3>1, <3>2, <3>3, PartAbsent
  <2>4. PICK r \in [DOMAIN IdOrder -> versions] : hashed.mongo = Part(target, r, Len(IdOrder))
      BY <2>3 DEF MongoAt
  <2>5. same <=> SameBag(Part(target, r, Len(IdOrder)), RecordsIn(target, rows))
      BY <1>1, <2>1, <2>2, <2>4, PgEnd
  <2> HIDE DEF same
  <2> QED
      BY <2>1, <2>5, AddChecksum
<1>3. CASE EndPass(done)
    BY <1>1, <1>2, <1>3, ReadEndPass
<1>4. CASE Tail(todo) # << >> /\ todo' = Tail(todo) /\ md5' = done /\ Begin(0)
           /\ UNCHANGED << summaries, stage >>
  <2>1. stage' \in {"md5", "explain"} /\ stage' \notin Loading /\ todo' # << >> /\ phase' # "idle"
      BY <1>1, <1>4, HashingFacts DEF Begin, Loading
  <2>2. MongoRead' /\ PgRead'
      BY <1>4, <2>1, ReadBegun
  <2>3. exact' => /\ OfVersions(md5, plan, loaded, versions)'
                  /\ OfVersions(summaries, plan, loaded, versions)'
      BY <1>1, <1>2, <1>4, HashingFacts DEF Steady, OfVersions
  <2> QED
      BY <2>1, <2>2, <2>3 DEF Read, Loading
<1> QED
    BY <1>1, <1>3, <1>4

\* Every step keeps what has been read.
LEMMA ReadStep ==
  ASSUME NEW c \in Collections, Control, Placed(c), Read, [Next]_vars, Control', Placed(c)'
  PROVE  Read'
<1>l. ASSUME stage \in Loading, stage' \in Loading \cup {"loaded"}, UNCHANGED << md5, summaries >>
      PROVE  Read'
  <2>1. md5' = << >> /\ summaries' = << >> /\ phase' = "idle"
    <3>1. phase' = "idle"
        BY <1>l DEF Control, Loading
    <3> QED
        BY <1>l, <3>1 DEF Read
  <2>2. OfVersions(<< >>, plan', loaded', versions')
      BY NoChecksums
  <2> QED
      BY <2>1, <2>2 DEF Read, OfVersions
<1>k. ASSUME stage \notin Loading, stage' \notin Loading \cup {"loaded"}, phase' = "idle",
             UNCHANGED << md5, summaries, plan, loaded, versions, exact >>
      PROVE  Read'
    BY <1>k DEF Read, OfVersions
<1>1. CASE InferPlan
    BY <1>1, <1>l DEF InferPlan, readVars, restVars, Loading
<1>2. CASE LoadExport
    BY <1>2, <1>l DEF LoadExport, Load, readVars, restVars, Loading
<1>3. CASE StreamNext
    BY <1>3, <1>l DEF StreamNext, Load, readVars, restVars, Loading
<1>4. CASE Change
  <2>1. /\ stage \notin Loading /\ stage' = stage /\ versions \subseteq versions'
        /\ UNCHANGED << plan, loaded, todo, phase, seen, bracket, last, left, hashed, md5, summaries, exact >>
      BY <1>4 DEF Change, readVars, Loading
  <2>2. exact' /\ phase' # "idle" => MongoRead' /\ PgRead'
    <3> SUFFICES ASSUME exact, phase # "idle" PROVE MongoRead' /\ PgRead'
        BY <2>1
    <3>1. MongoRead /\ PgRead
        BY DEF Read
    <3>2. target' = target
        BY <2>1 DEF target
    <3>3. PgRead'
        BY <2>1, <3>1, <3>2 DEF PgRead
    <3>4. /\ MongoAt(target, versions', PlaceOf(seen), hashed.mongo)
          /\ phase = "mongo" => AbsentFrom(versions', PlaceOf(seen), bracket)
          /\ phase \in {"select", "pg"} => AbsentFrom(versions', PlaceOf(seen), {})
        BY <2>1, <3>1, MoreVersions DEF MongoRead
    <3>5. MongoRead'
        BY <2>1, <3>2, <3>4 DEF MongoRead, PlaceOf, MongoAt, AbsentFrom
    <3> QED
        BY <3>3, <3>5
  <2>3. exact' => /\ OfVersions(md5, plan, loaded, versions)'
                  /\ OfVersions(summaries, plan, loaded, versions)'
    <3>1. exact => /\ OfVersions(md5, plan, loaded, versions')
                   /\ OfVersions(summaries, plan, loaded, versions')
        BY <2>1, MoreChecksums DEF Read
    <3> QED
        BY <2>1, <3>1 DEF OfVersions
  <2>4. stage' \in Loading \cup {"loaded"} => md5' = << >> /\ summaries' = << >>
      BY <2>1 DEF Read
  <2> QED
      BY <2>2, <2>3, <2>4 DEF Read
<1>5. CASE BeginReport
  <2>1. /\ stage = "loaded" /\ stage' \notin Loading \cup {"loaded"} /\ summaries' = summaries
        /\ UNCHANGED << plan, loaded, exact >>
      BY <1>5 DEF BeginReport, BeginPass, Loading
  <2>2. md5 = << >> /\ summaries' = << >>
      BY <2>1 DEF Read
  <2>3. OfVersions(<< >>, plan', loaded', versions')
      BY NoChecksums
  <2>4. CASE BeginPass("md5", "scan")
      BY <2>1, <2>2, <2>3, <2>4, ReadBeginPass DEF OfVersions
  <2>5. CASE stage' = "scan" /\ UNCHANGED readVars
    <3>1. md5' = << >> /\ phase' = "idle"
        BY <2>1, <2>2, <2>5 DEF readVars, Control
    <3> QED
        BY <2>1, <2>2, <2>3, <3>1 DEF Read, OfVersions
  <2> QED
      BY <1>5, <2>4, <2>5 DEF BeginReport
<1>6. CASE Scan
  <2>1. /\ stage = "scan" /\ stage' \notin Loading \cup {"loaded"}
        /\ UNCHANGED << plan, loaded, exact, summaries, versions >>
      BY <1>6 DEF Scan, BeginPass, Loading
  <2>2. CASE BeginPass("explain", "verdict")
    <3>1. exact' => OfVersions(summaries, plan, loaded, versions)'
        BY <2>1 DEF Read, OfVersions
    <3> QED
        BY <2>1, <2>2, <3>1, ReadBeginPass
  <2>3. CASE stage' = "verdict" /\ UNCHANGED readVars
    <3>1. phase' = "idle" /\ md5' = md5 /\ stage \notin Loading
        BY <2>1, <2>3 DEF readVars, Control, Loading
    <3> QED
        BY <1>k, <2>1, <3>1
  <2> QED
      BY <1>6, <2>2, <2>3 DEF Scan
<1>7. CASE Verdict
  <2>1. /\ stage = "verdict" /\ stage' \in {"accepted", "rejected"}
        /\ UNCHANGED << phase, md5, summaries, plan, loaded, versions, exact >>
      BY <1>7 DEF Verdict, readVars, restVars
  <2>2. phase' = "idle"
      BY <2>1 DEF Control
  <2> QED
      BY <1>k, <2>1, <2>2 DEF Loading
<1>8. CASE FindDocuments
    BY <1>8, ReadFindDocuments
<1>9. CASE FindFails
    BY <1>9, ReadFailPass DEF FindFails
<1>10. CASE ReadDocument
    BY <1>10, ReadReadDocument
<1>m. ASSUME Hashing, Steady, SameTable, exact' = exact, UNCHANGED << seen, last, hashed >>,
             phase' \in {"find", "select"}, phase' = "select" => phase \in {"select", "pg"}
      PROVE  Read'
  <2>1. ASSUME exact' PROVE MongoRead' /\ PgRead'
    <3>1. MongoRead /\ PgRead
        BY <1>m, <2>1, HashingFacts
    <3>2. target' = target /\ versions' = versions /\ loaded' = loaded
        BY <1>m DEF target, SameTable, Steady
    <3>3. MongoRead'
        BY <1>m, <3>1, <3>2 DEF MongoRead, PlaceOf, MongoAt, AbsentFrom
    <3>4. PgRead'
        BY <1>m, <3>1, <3>2 DEF PgRead
    <3> QED
        BY <3>3, <3>4
  <2> QED
      BY <1>m, <2>1, ReadSameTable
<1>11. CASE CursorFails
  <2>1. Hashing /\ Steady /\ exact' = exact
      BY <1>11 DEF CursorFails
  <2>2. CASE MayRetry(retries.cursor, MongoCursorRetryMax)
      BY <1>11, <1>m, <2>1, <2>2 DEF CursorFails
  <2>3. CASE TryTableAgain
      BY <2>1, <2>3, ReadTryAgain
  <2> QED
      BY <1>11, <2>2, <2>3 DEF CursorFails
<1>12. CASE CursorEnds
    BY <1>12, ReadCursorEnds
<1>13. CASE SelectRows
    BY <1>13, ReadSelectRows
<1>14. CASE StreamFails
  <2>1. Hashing /\ Steady /\ exact' = exact
      BY <1>14 DEF StreamFails
  <2>2. CASE MayRetry(retries.stream, PgStreamRetryMax)
      BY <1>14, <1>m, <2>1, <2>2 DEF StreamFails
  <2>3. CASE TryTableAgain
      BY <2>1, <2>3, ReadTryAgain
  <2> QED
      BY <1>14, <2>2, <2>3 DEF StreamFails
<1>15. CASE StreamStalls
  <2>1. Hashing /\ Steady /\ exact' = exact
      BY <1>15 DEF StreamStalls
  <2>2. CASE ResumeColumn(target) # None /\ MayRetry(retries.stall, PgStreamIdleStallRetryMax)
      BY <1>15, <1>m, <2>1, <2>2 DEF StreamStalls
  <2>3. CASE FailPass
      BY <2>1, <2>3, ReadFailPass
  <2> QED
      BY <1>15, <2>2, <2>3 DEF StreamStalls
<1>16. CASE ReadRow
    BY <1>16, ReadReadRow
<1>17. CASE EndTable
    BY <1>17, ReadEndTable
<1>18. CASE Finished \/ UNCHANGED vars
  <2>1. UNCHANGED << stage, plan, loaded, versions, todo, phase, seen, bracket, last, left, hashed, md5,
                     summaries, exact >>
      BY <1>18 DEF Finished, vars, loadVars, readVars, restVars
  <2>2. target' = target
      BY <2>1 DEF target
  <2>3. exact /\ phase # "idle" => MongoRead' /\ PgRead'
    <3> SUFFICES ASSUME exact, phase # "idle" PROVE MongoRead' /\ PgRead'
        OBVIOUS
    <3>1. MongoRead /\ PgRead
        BY DEF Read
    <3>2. MongoRead'
        BY <2>1, <2>2, <3>1 DEF MongoRead, PlaceOf, MongoAt, AbsentFrom
    <3>3. PgRead'
        BY <2>1, <2>2, <3>1 DEF PgRead
    <3> QED
        BY <3>2, <3>3
  <2> QED
      BY <2>1, <2>3 DEF Read, OfVersions
<1> QED
    BY <1>1, <1>2, <1>3, <1>4, <1>5, <1>6, <1>7, <1>8, <1>9, <1>10, <1>11, <1>12, <1>13, <1>14,
       <1>15, <1>16, <1>17, <1>18 DEF Next

(***************************************************************************)
(* The verdict, and what holds of every state.                             *)
(***************************************************************************)
\* The verdict is what the warnings make it.
Judged == stage \in {"accepted", "rejected"} => (stage = "accepted" <=> Warnings = {})

\* The inductive invariant.
IInv == Control /\ Read /\ Judged /\ \E c \in Collections : Placed(c)

\* The verdict stays what the warnings made it.
LEMMA JudgedStep ==
  ASSUME Control, Judged, [Next]_vars
  PROVE  Judged'
<1>1. CASE Verdict
  <2>1. UNCHANGED << counts, loaded, summaries, md5 >>
        /\ stage' = IF Warnings = {} THEN "accepted" ELSE "rejected"
      BY <1>1 DEF Verdict, readVars, restVars
  <2>2. Warnings' = Warnings
      BY <2>1 DEF Warnings
  <2> QED
      BY <2>1, <2>2 DEF Judged
<1>2. CASE Finished \/ UNCHANGED vars
  <2>1. UNCHANGED << counts, loaded, summaries, md5, stage >>
      BY <1>2 DEF Finished, vars, loadVars, readVars, restVars
  <2>2. Warnings' = Warnings
      BY <2>1 DEF Warnings
  <2> QED
      BY <2>1, <2>2 DEF Judged
<1>3. CASE InferPlan \/ LoadExport \/ StreamNext \/ Change \/ BeginReport \/ Scan
    BY <1>3 DEF InferPlan, LoadExport, StreamNext, Load, Change, BeginReport, Scan, BeginPass, Judged
<1>4. CASE \/ FindDocuments \/ FindFails \/ ReadDocument \/ CursorFails \/ CursorEnds
           \/ SelectRows \/ StreamFails \/ StreamStalls \/ ReadRow \/ EndTable
  <2>1. stage \in {"md5", "explain"}
      BY <1>4 DEF FindDocuments, FindFails, ReadDocument, CursorFails, CursorEnds, SelectRows,
                  StreamFails, StreamStalls, ReadRow, EndTable, Hashing
  <2>2. SameTable \/ FailPass \/ stage' = stage \/ stage' \in {"scan", "verdict"}
      BY <1>4 DEF FindDocuments, FindFails, ReadDocument, CursorFails, CursorEnds, SelectRows,
                  StreamFails, StreamStalls, ReadRow, EndTable, TryTableAgain, EndPass
  <2>3. stage' = stage \/ stage' \in {"scan", "verdict"}
      BY <2>2 DEF SameTable, FailPass, EndPass
  <2> QED
      BY <2>1, <2>3 DEF Judged
<1> QED
    BY <1>1, <1>2, <1>3, <1>4 DEF Next

\* The inductive invariant holds at first.
LEMMA InvInit == Init => IInv
<1> SUFFICES ASSUME Init PROVE IInv
    OBVIOUS
<1>1. Judged
    BY DEF Init, Judged
<1> QED
    BY <1>1, PlacedInit, ReadInit DEF IInv

\* Every step keeps the inductive invariant.
LEMMA InvStep == IInv /\ [Next]_vars => IInv'
<1> SUFFICES ASSUME IInv, [Next]_vars PROVE IInv'
    OBVIOUS
<1>1. PICK c \in Collections : Placed(c)
    BY DEF IInv
<1>2. Control /\ Read /\ Judged
    BY DEF IInv
<1>3. Control'
    BY <1>2, ControlStep
<1>4. Placed(c)'
    BY <1>1, <1>2, PlacedStep
<1>5. Read'
    BY <1>1, <1>2, <1>3, <1>4, ReadStep
<1>6. Judged'
    BY <1>2, JudgedStep
<1> QED
    BY <1>3, <1>4, <1>5, <1>6 DEF IInv

\* The inductive invariant holds in every state.
LEMMA Invariance == Spec => []IInv
<1>1. Init => IInv
    BY InvInit
<1>2. IInv /\ [Next]_vars => IInv'
    BY InvStep
<1> QED
    BY <1>1, <1>2, PTL DEF Spec

\* A reading of every position says what its part with the documents says.
LEMMA ReadingsCover ==
  ASSUME NEW c \in Collections, NEW t, Hashable(c, t), versions \subseteq Seq(DocumentsOf(c)),
         NEW r \in [DOMAIN IdOrder -> versions]
  PROVE  \E reading \in Readings : Part(t, r, Len(IdOrder)) = ReadIn(t, reading)
<1> DEFINE reading == [p \in Present |-> r[p]]
<1>1. reading \in Readings /\ DOMAIN reading = Present
    BY DEF Readings, Present
<1>2. \A p \in 1 .. Len(IdOrder) :
         RecordsAt(t, r[p], p) = IF p \in DOMAIN reading THEN RecordsAt(t, reading[p], p) ELSE << >>
  <2> SUFFICES ASSUME NEW p \in DOMAIN IdOrder
               PROVE  RecordsAt(t, r[p], p)
                        = IF p \in DOMAIN reading THEN RecordsAt(t, reading[p], p) ELSE << >>
      BY IdOrderFacts
  <2>1. CASE p \in Present
      BY <1>1, <2>1
  <2>2. CASE p \notin Present
    <3>1. At(r[p], p) = {}
        BY <2>2 DEF Present
    <3> QED
        BY <1>1, <2>2, <3>1 DEF RecordsAt
  <2> QED
      BY <2>1, <2>2
<1> HIDE DEF reading
<1>3. Part(t, r, Len(IdOrder)) = ReadIn(t, reading)
  <2>1. DOMAIN IdOrder = 1 .. Len(IdOrder)
      BY IdOrderFacts
  <2>2. [p \in 1 .. Len(IdOrder) |-> RecordsAt(t, r[p], p)]
          = [p \in DOMAIN IdOrder |->
                IF p \in DOMAIN reading THEN RecordsAt(t, reading[p], p) ELSE << >>]
      BY <1>2, <2>1
  <2> QED
      BY <2>2 DEF Part, ReadIn
<1> QED
    BY <1>1, <1>3

\* Checksums of versions are checksums of readings.
LEMMA VersionsAreReadings ==
  ASSUME NEW c \in Collections, Placed(c), stage \notin Loading, NEW checksums,
         OfVersions(checksums, plan, loaded, versions)
  PROVE  OfReadings(checksums)
<1> SUFFICES ASSUME NEW name \in DOMAIN checksums
             PROVE  \E t \in Range(TargetsOf(plan)), reading \in Readings :
                       t.table = name /\ (checksums[name] <=> Agrees(t, reading))
    BY DEF OfReadings
<1>1. PICK t \in Range(TargetsOf(plan)), r \in [DOMAIN IdOrder -> versions] :
         /\ t.table = name
         /\ checksums[name] <=> SameBag(Part(t, r, Len(IdOrder)), RecordsIn(t, loaded.rows[t.table]))
    BY DEF OfVersions
<1>2. PICK reading \in Readings : Part(t, r, Len(IdOrder)) = ReadIn(t, reading)
  <2>1. Hashable(c, t) /\ versions \subseteq Seq(DocumentsOf(c))
      BY TargetFacts DEF Placed
  <2> QED
      BY <2>1, ReadingsCover
<1>3. RowsOf(t) = RecordsIn(t, loaded.rows[t.table])
    BY DEF RowsOf, RecordsIn
<1>4. checksums[name] <=> Agrees(t, reading)
    BY <1>1, <1>2, <1>3 DEF Agrees
<1> QED
    BY <1>1, <1>4

\* The inductive invariant implies that checksums are of readings.
LEMMA ReadingsOfChecksums == IInv => ChecksumsAreReadings
<1> SUFFICES ASSUME IInv, exact PROVE OfReadings(md5) /\ OfReadings(summaries)
    BY DEF ChecksumsAreReadings
<1>1. PICK c \in Collections : Placed(c)
    BY DEF IInv
<1>2. CASE stage \in Loading
  <2>1. md5 = << >> /\ summaries = << >>
      BY <1>2 DEF IInv, Read
  <2>2. DOMAIN << >> = {}
      OBVIOUS
  <2> QED
      BY <2>1, <2>2 DEF OfReadings
<1>3. CASE stage \notin Loading
  <2>1. OfVersions(md5, plan, loaded, versions) /\ OfVersions(summaries, plan, loaded, versions)
      BY DEF IInv, Read
  <2> QED
      BY <1>1, <1>3, <2>1, VersionsAreReadings
<1> QED
    BY <1>2, <1>3

(***************************************************************************)
(* The theorems.                                                           *)
(***************************************************************************)
\* Every variable has its type, retries stay within their limits, only loaded
\* tables are hashed, and no two documents get the same `_id`.
THEOREM TypeCorrect == Spec => []TypeOK
<1>1. IInv => TypeOK
  <2> SUFFICES ASSUME IInv PROVE TypeOK
      OBVIOUS
  <2>1. PICK c \in Collections : Placed(c)
      BY DEF IInv
  <2>2. docs \in versions /\ Ascending(docs)
      BY <2>1 DEF Placed
  <2>3. Control
      BY DEF IInv
  <2> QED
      BY <2>2, <2>3 DEF Control, TypeOK
<1> QED
    BY <1>1, Invariance, PTL

\* Each checksum compares the rows of its table with a reading of the
\* collection.
THEOREM ChecksumsFromReadings == Spec => []ChecksumsAreReadings
<1>1. IInv => ChecksumsAreReadings
    BY ReadingsOfChecksums
<1> QED
    BY <1>1, Invariance, PTL

\* What the verdict says follows from readings of the collection.
LEMMA FoundedVerdict == IInv => VerdictIsFounded
<1> SUFFICES ASSUME IInv, exact
             PROVE  /\ stage = "rejected" =>
                         \E t \in Range(TargetsOf(plan)), reading \in Readings : ~ Agrees(t, reading)
                    /\ stage = "accepted" =>
                         \A c \in counts : c.table \in DOMAIN summaries =>
                             \E t \in Range(TargetsOf(plan)), reading \in Readings :
                                 t.table = c.table /\ Agrees(t, reading)
    BY DEF VerdictIsFounded
<1>1. OfReadings(md5) /\ OfReadings(summaries)
    BY ReadingsOfChecksums DEF ChecksumsAreReadings
<1>2. ASSUME stage = "rejected"
      PROVE  \E t \in Range(TargetsOf(plan)), reading \in Readings : ~ Agrees(t, reading)
  <2>1. Warnings # {}
      BY <1>2 DEF IInv, Judged
  <2>2. \/ \E c \in counts : c.table \in DOMAIN summaries /\ ~ summaries[c.table]
        \/ \E x \in DOMAIN md5 : ~ md5[x]
      BY <2>1 DEF Warnings, WarningEntries
  <2>3. CASE \E c \in counts : c.table \in DOMAIN summaries /\ ~ summaries[c.table]
      BY <1>1, <2>3 DEF OfReadings
  <2>4. CASE \E x \in DOMAIN md5 : ~ md5[x]
      BY <1>1, <2>4 DEF OfReadings
  <2> QED
      BY <2>2, <2>3, <2>4
<1>3. ASSUME stage = "accepted", NEW c \in counts, c.table \in DOMAIN summaries
      PROVE  \E t \in Range(TargetsOf(plan)), reading \in Readings :
                t.table = c.table /\ Agrees(t, reading)
  <2>1. Warnings = {}
      BY <1>3 DEF IInv, Judged
  <2>2. summaries[c.table]
      BY <1>3, <2>1 DEF Warnings, WarningEntries
  <2> QED
      BY <1>1, <1>3, <2>2 DEF OfReadings
<1> QED
    BY <1>2, <1>3

\* Checksums compare readings of the collection with the rows, and the verdict
\* of the report is founded on such readings.
THEOREM FoundedReports == Spec => []ReportIsFounded
<1>1. IInv => ReportIsFounded
    BY ReadingsOfChecksums, FoundedVerdict DEF ReportIsFounded
<1> QED
    BY <1>1, Invariance, PTL

(***************************************************************************)
(* No false alarm: what was loaded agrees with the documents it was loaded *)
(* from, as long as these are the only version there is.                   *)
(***************************************************************************)
\* What was loaded agrees with its documents, also later.
Kept ==
    stage \notin Loading \cup {"loaded"} /\ sample = source /\ changes = 0 /\ ~ Merged =>
        \A t \in Range(TargetsOf(plan)), reading \in Readings : Agrees(t, reading)

\* Every step keeps that what was loaded agrees with its documents.
LEMMA KeptStep ==
  ASSUME IInv, LoadedAgrees, Kept, [Next]_vars
  PROVE  Kept'
<1> SUFFICES ASSUME stage' \notin Loading \cup {"loaded"}, sample' = source', changes' = 0, ~ Merged'
             PROVE  (\A t \in Range(TargetsOf(plan)), reading \in Readings : Agrees(t, reading))'
    BY DEF Kept
<1>1. PICK c \in Collections : Placed(c)
    BY DEF IInv
<1>2. Placed(c)' /\ changes \in Nat
    BY <1>1, PlacedStep, Limits DEF IInv, Control
<1>3. /\ stage \notin Loading /\ changes = 0
      /\ UNCHANGED << sample, source, plan, loaded >>
  <2>1. CASE InferPlan \/ LoadExport \/ StreamNext
      BY <2>1 DEF InferPlan, LoadExport, StreamNext, Load, Loading
  <2>2. CASE Change
    <3>1. changes' = changes + 1
        BY <2>2 DEF Change
    <3> QED
        BY <1>2, <3>1
  <2>3. CASE BeginReport \/ Scan \/ Verdict
      BY <2>3 DEF BeginReport, Scan, Verdict, restVars, Loading
  <2>4. CASE \/ FindDocuments \/ FindFails \/ ReadDocument \/ CursorFails \/ CursorEnds
             \/ SelectRows \/ StreamFails \/ StreamStalls \/ ReadRow \/ EndTable
    <3>1. Hashing /\ Steady
        BY <2>4 DEF FindDocuments, FindFails, ReadDocument, CursorFails, CursorEnds, SelectRows,
                    StreamFails, StreamStalls, ReadRow, EndTable
    <3> QED
        BY <3>1 DEF Hashing, Steady, Loading
  <2>5. CASE Finished \/ UNCHANGED vars
      BY <2>5 DEF Finished, vars, loadVars, restVars
  <2> QED
      BY <2>1, <2>2, <2>3, <2>4, <2>5 DEF Next
<1>4. \A t \in Range(TargetsOf(plan)), reading \in Readings : Agrees(t, reading)
    BY <1>3 DEF LoadedAgrees, Kept, Merged
<1>5. versions' = versions
    BY <1>1, <1>2, <1>3 DEF Placed
<1>6. Readings' = Readings
    BY <1>5 DEF Readings, Present
<1>7. \A t, reading : Agrees(t, reading)' = Agrees(t, reading)
    BY <1>3 DEF Agrees, RowsOf, ReadIn
<1> QED
    BY <1>3, <1>4, <1>6, <1>7

\* When the hashes of what is loaded are always those of the documents it was
\* loaded from, the report of unchanged documents has no warnings.
THEOREM NoFalseAlarms == Spec /\ []LoadedAgrees => []NoFalseAlarm
<1>1. Init => Kept
    BY DEF Init, Kept, Loading
<1>2. IInv /\ LoadedAgrees /\ Kept /\ [Next]_vars => Kept'
    BY KeptStep
<1>3. IInv /\ Kept => NoFalseAlarm
  <2> SUFFICES ASSUME IInv, Kept, stage = "rejected", sample = source, changes = 0, exact, ~ Merged
               PROVE  FALSE
    <3>1. IInv => changes \in Nat
        BY Limits DEF IInv, Control
    <3> QED
        BY <3>1 DEF NoFalseAlarm
  <2>1. VerdictIsFounded
      BY FoundedVerdict
  <2>2. PICK t \in Range(TargetsOf(plan)), reading \in Readings : ~ Agrees(t, reading)
      BY <2>1 DEF VerdictIsFounded
  <2>3. Agrees(t, reading)
      BY DEF Kept, Loading
  <2> QED
      BY <2>2, <2>3
<1>4. Spec => []IInv
    BY Invariance
<1> QED
    BY <1>1, <1>2, <1>3, <1>4, PTL DEF Spec
=============================================================================
