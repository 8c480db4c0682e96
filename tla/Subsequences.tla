---------------------------- MODULE Subsequences ----------------------------
(***************************************************************************)
(* Elements of a sequence, picked by a set or by their first occurrence.   *)
(* A function instead of the SelectSeq of Sequences, which has no          *)
(* definition to prove from.                                               *)
(***************************************************************************)
EXTENDS Naturals, Sequences

\* The elements of s that are in T, in their order.
Pick(s, T) ==
    LET picked[n \in 0 .. Len(s)] ==
          IF n = 0 THEN <<>>
          ELSE IF s[n] \in T THEN Append(picked[n - 1], s[n])
          ELSE picked[n - 1]
    IN  picked[Len(s)]

\* The elements of s, each where it occurs first.
Firsts(s) ==
    LET places == Pick([i \in 1 .. Len(s) |-> i],
                       {i \in 1 .. Len(s) : \A j \in 1 .. i - 1 : s[j] # s[i]})
    IN  [k \in DOMAIN places |-> s[places[k]]]
=============================================================================
