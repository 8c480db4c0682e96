----------------------------- MODULE ChangeLog -----------------------------
(***************************************************************************)
(* The partition of Debezium change events that mongo2pg kafka-import      *)
(* consumes, and what one event does to the PostgreSQL row of its key.     *)
(*                                                                         *)
(* Debezium keys an event by the document's _id, so all the events of one  *)
(* document are in one partition, in order: a partition is a sequence, an  *)
(* offset is a position in it.  A row is abstracted to the offset of the   *)
(* event it shows: NoEvent before any event, the offset of an upsert while *)
(* the row exists, the offset of the delete once it has been removed.      *)
(***************************************************************************)
EXTENDS Naturals, Sequences

CONSTANTS
    Keys,       \* document ids
    Kinds,      \* the kinds of event the producer may append
    MaxLog      \* bound: number of events ever appended

\* "upsert"      c/u/r with a usable after-image
\* "literal"     an upsert with a value that has a SQL literal but no COPY text
\* "delete"      d with a before-image
\* "hollow"      d without before-image, or an operation that is not c/u/r/d
\* "incomplete"  c/u/r without after-image, or r without a required field
\* "poison"      an upsert that PostgreSQL, or a check before it, rejects
\* "garbled"     dropped before the write: other topic or database, no mapping,
\*               no payload, undecodable value or Debezium document
EventKinds ==
    {"upsert", "literal", "delete", "hollow", "incomplete", "poison", "garbled"}

ASSUME LogAssumption ==
    /\ Kinds \subseteq EventKinds
    /\ MaxLog \in Nat

Event   == [key : Keys, kind : Kinds]
Offsets == 1 .. MaxLog
NoEvent == 0
Rows    == [Keys -> 0 .. MaxLog]    \* the offset each key's row shows

\* The event changes a row when it is applied.
IsWrite(e)  == e.kind \in {"upsert", "literal", "delete"}
IsUpsert(e) == e.kind \in {"upsert", "literal"}

\* write_to_pg answers Skipped: no statement is sent.
IsSkipped(e) == e.kind \in {"hollow", "incomplete"}
=============================================================================
