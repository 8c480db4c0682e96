-------------------------------- MODULE Ddl --------------------------------
(***************************************************************************)
(* The tables `to-pg` derives from a schema.                               *)
(*                                                                         *)
(* A table is [name, cols, kids, ref]: its columns [name, type, null, pk]  *)
(* in order, the tables nested in it, and the foreign key to the table it  *)
(* is nested in, as a sequence of [col, table, pcol].  A column type is a  *)
(* record [k, n], n being the length of a VARCHAR.                         *)
(***************************************************************************)
EXTENDS Analyzer

CONSTANT MidnightDates  \* the sampled dates without a time of day

Type(k) == [k |-> k, n |-> 0]
Varchar(n) == [k |-> "VARCHAR", n |-> n]

Col(name, type, null, pk) == [name |-> name, type |-> type, null |-> null, pk |-> pk]

(***************************************************************************)
(* The types of a field.                                                   *)
(***************************************************************************)
NonNull(field) == { t \in DOMAIN field.types : ~ IsNullType(t) }
Sole(field, t) == NonNull(field) = {t}

\* A column may be null when some document of the sample had no value for it.
Nullable(field) ==
    \/ NonNull(field) # DOMAIN field.types
    \/ field.count < field.total

BsonTypeToPg(t) ==
    Type(CASE t = "Double"     -> "DOUBLE PRECISION"
           [] t = "Int32"      -> "INTEGER"
           [] t \in {"Int64", "Timestamp"} -> "BIGINT"
           [] t = "Boolean"    -> "BOOLEAN"
           [] t = "Date"       -> "TIMESTAMPTZ"
           [] t = "Decimal128" -> "NUMERIC"
           [] t = "ObjectId"   -> "UUID"
           [] t = "Binary"     -> "BYTEA"
           [] OTHER            -> "TEXT")

PgStringType(ts) == IF ts.varchar = None THEN Type("TEXT") ELSE Varchar(ts.varchar[1])

\* The column type of a field whose values are all scalars.
ResolveScalarPgType(field) ==
    LET ts == NonNull(field)
        t  == CHOOSE x \in ts : TRUE
    IN  IF Cardinality(ts) = 1
        THEN CASE t = "Date" /\ field.types[t].values \subseteq MidnightDates
                                -> Type("DATE")
               [] t = "String"  -> PgStringType(field.types[t])
               [] OTHER         -> BsonTypeToPg(t)
        ELSE IF ts \subseteq {"Double", "Int32", "Int64", "Decimal128"}
        THEN CASE "Decimal128" \in ts -> Type("NUMERIC")
               [] "Decimal128" \notin ts /\ "Double" \in ts -> Type("DOUBLE PRECISION")
               [] OTHER -> Type("BIGINT")
        ELSE Type("TEXT")

\* The type of the primary key an `_id` becomes.
PkTypeForId(field) ==
    CASE Sole(field, "ObjectId") -> Type("UUID")
      [] Sole(field, "Int32")    -> Type("SERIAL")
      [] Sole(field, "Int64") \/ Sole(field, "Double") -> Type("BIGSERIAL")
      [] Sole(field, "String")   ->
            IF field.types["String"].values \subseteq Numerals THEN Type("BIGSERIAL")
            ELSE PgStringType(field.types["String"])
      [] OTHER -> Type("TEXT")

FkScalarType(type) ==
    CASE type.k = "SERIAL"    -> Type("INTEGER")
      [] type.k = "BIGSERIAL" -> Type("BIGINT")
      [] OTHER -> type

(***************************************************************************)
(* Shapes of objects: GeoJSON points, maps, groups of sibling arrays.      *)
(***************************************************************************)
IsGeoJsonPoint(field) ==
    /\ Sole(field, "Object")
    /\ LET fs == field.types["Object"].object
       IN  /\ {"type", "coordinates"} \subseteq DOMAIN fs
           /\ "String" \in NonNull(fs["type"])
           /\ "Point" \in fs["type"].types["String"].values
           /\ "Array" \in NonNull(fs["coordinates"])

ObjectFields(field) == field.types["Object"].object

\* One object and one point side by side are merged in one table.
GeoMergedParts(fields) ==
    LET named  == { n \in DOMAIN fields : NonNull(fields[n]) # {} }
        points == { n \in named : IsGeoJsonPoint(fields[n]) }
        others == named \ points
    IN  IF /\ Cardinality(points) = 1
           /\ Cardinality(others) = 1
           /\ \A n \in others : Sole(fields[n], "Object")
        THEN Some([point |-> CHOOSE n \in points : TRUE,
                   sibling |-> CHOOSE n \in others : TRUE])
        ELSE None

IsMap(fields) ==
    fields # << >> /\ (DOMAIN fields \subseteq HexKeys \/ DOMAIN fields \subseteq UuidKeys)

\* The fields of a map's values: those of its first entry that is an object.
MapValueFields(fields) ==
    LET entries == SelectSeq(Ordered(DOMAIN fields),
                             LAMBDA n : /\ Sole(fields[n], "Object")
                                        /\ ObjectFields(fields[n]) # << >>)
    IN  IF entries = << >> THEN None ELSE Some(ObjectFields(fields[Head(entries)]))

\* Two fields have the same shape when the types below them agree.
RECURSIVE Shape(_)
Shape(field) ==
    [t \in DOMAIN field.types |->
        LET ts == field.types[t]
        IN  << ts.asJsonb,
               [n \in DOMAIN ts.object |-> Shape(ts.object[n])],
               IF ts.array = None THEN None ELSE Some(Shape(ts.array[1])) >>]

IsArrayOfObjects(field) ==
    Sole(field, "Array") /\ Sole(field.types["Array"].array[1], "Object")

ItemFields(field) == ObjectFields(field.types["Array"].array[1])

\* The arrays of objects that have the shape of the array `n`, itself included.
Group(fields, n) ==
    { m \in DOMAIN fields : /\ IsArrayOfObjects(fields[m])
                            /\ Shape(fields[m]) = Shape(fields[n]) }

\* Sibling arrays of one shape share a table, named for the first of them.
GroupedRootFields(fields) ==
    { Group(fields, n) : n \in { m \in DOMAIN fields : IsArrayOfObjects(fields[m]) } }
    \ { {n} : n \in DOMAIN fields }

Representative(group) == Head(Ordered(group))

ScalarId(fields) ==
    /\ "_id" \in DOMAIN fields
    /\ Cardinality(NonNull(fields["_id"])) = 1
    /\ NonNull(fields["_id"]) \cap {"Object", "Array"} = {}

\* A collection that is nothing but one group of arrays.
FlattenGroupedRoot(fields) ==
    LET groups == GroupedRootFields(fields)
    IN  IF /\ ScalarId(fields)
           /\ Cardinality(groups) = 1
           /\ DOMAIN fields = {"_id"} \cup UNION groups
        THEN Some(UNION groups)
        ELSE None

\* A collection that is nothing but one array of objects.
FlattenRootArray(fields) ==
    LET others == DOMAIN fields \ {"_id"}
    IN  IF /\ ScalarId(fields)
           /\ Cardinality(others) = 1
           /\ \A n \in others : /\ IsArrayOfObjects(fields[n])
                                /\ "id" \notin DOMAIN ItemFields(fields[n])
        THEN Some(CHOOSE n \in others : TRUE)
        ELSE None
=============================================================================
