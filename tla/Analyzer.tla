------------------------------ MODULE Analyzer ------------------------------
(***************************************************************************)
(* The schema of a sample of documents: what the analyzer of `infer`       *)
(* accumulates value by value, from decoded and from raw documents, and    *)
(* the field schemas it builds from that.                                  *)
(*                                                                         *)
(* Probabilities are kept as the two counts they are the quotient of.      *)
(* Sampled values are kept as a set: the cap of twenty values is beyond    *)
(* the samples of a small instance.                                        *)
(***************************************************************************)
EXTENDS Bson, TLC

NewField == [count |-> 0, types |-> << >>]

NewType ==
    [count |-> 0, object |-> << >>, items |-> None, values |-> {}, maxLength |-> 0]

AccOf(field, t) == IF t \in DOMAIN field.types THEN field.types[t] ELSE NewType

\* The accumulator of one field, or of one type, with one more observation.
Counted(field, t, acc) ==
    [count |-> field.count + 1,
     types |-> (t :> [acc EXCEPT !.count = @ + 1]) @@ field.types]

\* What a scalar adds to the accumulator of its type.
ScalarSeen(acc, b) ==
    [acc EXCEPT !.values = @ \cup {b.s},
                !.maxLength = IF Len(b.s) > @ THEN Len(b.s) ELSE @]

(***************************************************************************)
(* Decoded documents.  An empty array or document is not observed at all.  *)
(***************************************************************************)
IsEmpty(b) ==
    \/ IsArray(b) /\ b.es = << >>
    \/ IsDoc(b) /\ b.fs = << >>

RECURSIVE ObserveValue(_, _), ObserveFields(_, _)
ObserveValue(field, b) ==
    LET acc == AccOf(field, b.t)
        items == IF acc.items = None THEN NewField ELSE acc.items[1]
    IN  IF IsEmpty(b) THEN field
        ELSE Counted(field, b.t,
                CASE IsDoc(b)   -> [acc EXCEPT !.object = ObserveFields(@, b.fs)]
                  [] IsArray(b) -> [acc EXCEPT !.items =
                                      Some(FoldLeft(ObserveValue, items, b.es))]
                  [] OTHER      -> ScalarSeen(acc, b))

ObserveFields(object, fs) ==
    FoldLeft(LAMBDA acc, f :
                (f.k :> ObserveValue(IF f.k \in DOMAIN acc THEN acc[f.k]
                                     ELSE NewField, f.v)) @@ acc,
             object, fs)

(***************************************************************************)
(* Raw documents: the first item or field is read to tell an empty value   *)
(* from another, and observed before the rest.                             *)
(***************************************************************************)
\* Fault: the first item is observed again with the rest.
WithFirst(s) == s

AfterFirst(s) == Tail(s)

RECURSIVE ObserveRawValue(_, _), ObserveRawFields(_, _)
ObserveRawValue(field, b) ==
    LET acc   == AccOf(field, b.t)
        items == IF acc.items = None THEN NewField ELSE acc.items[1]
    IN  CASE IsArray(b) ->
                IF b.es = << >> THEN field
                ELSE LET first == ObserveRawValue(items, Head(b.es))
                     IN  Counted(field, "Array", [acc EXCEPT !.items =
                            Some(FoldLeft(ObserveRawValue, first, AfterFirst(b.es)))])
          [] IsDoc(b) ->
                IF b.fs = << >> THEN field
                ELSE LET first == ObserveRawFields(acc.object, << Head(b.fs) >>)
                     IN  Counted(field, "Object", [acc EXCEPT !.object =
                            ObserveRawFields(first, AfterFirst(b.fs))])
          [] OTHER -> Counted(field, b.t, ScalarSeen(acc, b))

ObserveRawFields(object, fs) ==
    FoldLeft(LAMBDA acc, f :
                (f.k :> ObserveRawValue(IF f.k \in DOMAIN acc THEN acc[f.k]
                                        ELSE NewField, f.v)) @@ acc,
             object, fs)

(***************************************************************************)
(* The schema: a field has the count it was seen with, the number of       *)
(* documents (objects, arrays) it could have been seen in, and its types.  *)
(***************************************************************************)
\* Fault: the limits are off by one.
ShorterVarchar(maxLength) ==
    LET n == IF maxLength = 0 THEN 1 ELSE maxLength
    IN  CASE n <= 5  -> Some(n - 1)
          [] n <= 20 -> Some(20)
          [] OTHER   -> None

InferredVarcharLength(maxLength) ==
    LET n == IF maxLength = 0 THEN 1 ELSE maxLength
    IN  CASE n <= 5  -> Some(n)
          [] n <= 20 -> Some(20)
          [] OTHER   -> None

RECURSIVE BuildFieldSchema(_, _), BuildTypeSchema(_, _)
BuildTypeSchema(t, acc) ==
    [count   |-> acc.count,
     asJsonb |-> FALSE,
     object  |-> [n \in DOMAIN acc.object |->
                    BuildFieldSchema(acc.object[n], acc.count)],
     array   |-> IF acc.items = None THEN None
                 ELSE Some(BuildFieldSchema(acc.items[1], acc.count)),
     values  |-> acc.values,
     varchar |-> IF t = "String" THEN InferredVarcharLength(acc.maxLength)
                 ELSE None]

BuildFieldSchema(field, total) ==
    [count |-> field.count,
     total |-> total,
     types |-> [t \in DOMAIN field.types |-> BuildTypeSchema(t, field.types[t])]]

Schema(root, total) == [n \in DOMAIN root |-> BuildFieldSchema(root[n], total)]

DecodedSchema(docs) ==
    Schema(FoldLeft(LAMBDA acc, d : ObserveFields(acc, d.fs), << >>, docs), Len(docs))

RawSchema(docs) ==
    Schema(FoldLeft(LAMBDA acc, d : ObserveRawFields(acc, d.fs), << >>, docs), Len(docs))

(***************************************************************************)
(* `infer --jsonb`: every object field becomes a JSONB column, also inside *)
(* the items of an array; what is below a marked object stays unmarked.    *)
(***************************************************************************)
RECURSIVE MarkFieldAsJsonb(_)
MarkFieldAsJsonb(field) ==
    [field EXCEPT !.types = [t \in DOMAIN @ |->
        CASE t = "Object" -> [@[t] EXCEPT !.asJsonb = TRUE]
          [] t = "Array" /\ @[t].array # None ->
                [@[t] EXCEPT !.array = Some(MarkFieldAsJsonb(@[1]))]
          [] OTHER -> @[t]]]

MarkObjectsAsJsonb(fields) == [n \in DOMAIN fields |-> MarkFieldAsJsonb(fields[n])]
=============================================================================
