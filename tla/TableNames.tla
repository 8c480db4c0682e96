----------------------------- MODULE TableNames -----------------------------
(***************************************************************************)
(* The names infer gives to the tables of embedded documents and arrays.   *)
(* A sanitized name is the sequence of the words that '_' separates in it, *)
(* so that a prefix is a subsequence and "_" a concatenation.              *)
(***************************************************************************)
EXTENDS Naturals, Sequences, FiniteSets, SequencesExt, Subsequences

CONSTANT Numeral(_)    \* the text of a number

\* The name of the table of a field below a parent table, before collisions
\* are looked at: a field that repeats a word of its parent is qualified by
\* the last word of the parent.
Preferred(parent, field, prefixed) ==
    IF prefixed
    THEN parent \o field
    ELSE IF \E i \in DOMAIN parent : <<parent[i]>> = field
         THEN <<Last(parent)>> \o field
         ELSE field

\* The names that are tried in turn: the preferred one, then the preferred
\* one behind more and more words of the parent.
Candidates(parent, base) ==
    <<base>> \o [d \in 1..Len(parent) |->
                   SubSeq(parent, Len(parent) - d + 1, Len(parent)) \o base]

Numbered(parent, base, n) == parent \o base \o <<Numeral(n)>>

\* The first name that is not taken; a number is only put behind it when all
\* the words of the parent do not help.
Unique(parent, field, prefixed, taken) ==
    LET base == Preferred(parent, field, prefixed)
        all  == Candidates(parent, base)
        free == Pick(all, ToSet(all) \ taken)
        number == CHOOSE n \in 2..(Cardinality(taken) + 2) :
                    /\ Numbered(parent, base, n) \notin taken
                    /\ \A m \in 2..(n - 1) : Numbered(parent, base, m) \in taken
    IN IF free # <<>> THEN free[1] ELSE Numbered(parent, base, number)

\* The names of the fields of a table, in their order, each one taken for the
\* fields that come after it.
UniqueNames(parent, fields, taken) ==
    LET names[n \in 0..Len(fields)] ==
          IF n = 0
          THEN <<>>
          ELSE Append(names[n - 1],
                      Unique(parent, fields[n], FALSE, taken \cup {parent} \cup ToSet(names[n - 1])))
    IN names[Len(fields)]
=============================================================================
