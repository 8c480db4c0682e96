-------------------------------- MODULE Bson --------------------------------
(***************************************************************************)
(* BSON documents and the names the tool derives from their fields.        *)
(*                                                                         *)
(* A scalar is [t |-> type, s |-> its text], an array [t |-> "Array",      *)
(* es |-> its items], a document [t |-> "Object", fs |-> its fields in     *)
(* order], a field [k |-> name, v |-> value].  An optional value is a      *)
(* sequence of at most one element.                                        *)
(***************************************************************************)
EXTENDS Naturals, FiniteSets, SequencesExt

CONSTANTS
    NameOrder,      \* every raw field name, `_id` first, then alphabetical
    PgNames,        \* what sanitize makes of the raw names it changes
    HexKeys,        \* the names made of eight hexadecimal digits or more
    UuidKeys,       \* the names that are UUIDs
    Numerals,       \* the texts that parse as an integer
    TimestampFields \* the raw names the configuration declares timestamps

None == << >>
Some(x) == << x >>

\* The first of two optional values that is present.
OrElse(x, y) == IF x # None THEN x ELSE y

IsDoc(b)   == b.t = "Object"
IsArray(b) == b.t = "Array"

\* The value `bson::Document::get` returns for a key, if it is there.
Get(d, key) ==
    LET at == { i \in DOMAIN d.fs : d.fs[i].k = key }
    IN  IF at = {} THEN None ELSE Some(d.fs[CHOOSE i \in at : TRUE].v)

Keys(d) == { d.fs[i].k : i \in DOMAIN d.fs }

\* The names of a schema object in the order of its IndexMap.
Ordered(names) == SelectSeq(NameOrder, LAMBDA n : n \in names)

IsNullType(t) == t \in {"Null", "Undefined"}

\* The PostgreSQL identifier a raw name becomes.
Sanitize(name) == IF name \in DOMAIN PgNames THEN PgNames[name] ELSE name

MatchesTimestampField(name) == name \in TimestampFields

\* The family two scalar types share when their values can live in one column.
ScalarTypeFamily(t) ==
    CASE t \in {"Int32", "Int64", "Double", "Decimal128"} -> Some("numeric")
      [] t = "String"              -> Some("string")
      [] t = "ObjectId"            -> Some("objectid")
      [] t = "Boolean"             -> Some("boolean")
      [] t \in {"Date", "Timestamp"} -> Some("datetime")
      [] t \in {"Null", "Undefined", "Object", "Array"} -> None
      [] OTHER                     -> Some("other")

NumericTypes == {"INTEGER", "BIGINT", "SERIAL", "BIGSERIAL", "NUMERIC", "DOUBLE PRECISION"}

StripPrefix(name, prefix) ==
    IF Len(prefix) <= Len(name) /\ SubSeq(name, 1, Len(prefix)) = prefix
    THEN Some(SubSeq(name, Len(prefix) + 1, Len(name)))
    ELSE None
=============================================================================
