------------------------------ MODULE Checksum ------------------------------
(***************************************************************************)
(* What the checksum hashes: for every table a list of literals per row,   *)
(* computed once from the documents and once from the table.               *)
(*                                                                         *)
(* The digest of a row stands for its literals; that MD5 is taken of their *)
(* concatenation, where two numbers side by side run together, is left     *)
(* out.  A literal is a record of one field whose name is its JSON type.   *)
(***************************************************************************)
EXTENDS StreamRows

(***************************************************************************)
(* The place of a table's rows in the documents: a path, the array of      *)
(* scalars it ends in, or the group of arrays it starts from.              *)
(***************************************************************************)
SourcePath(path, scalar, group) == [path |-> path, scalar |-> scalar, group |-> group]

RECURSIVE VisitFields(_, _, _, _)
\* The places below `path`, by the names the tables have before they are made
\* unique.
VisitFields(table, path, fields, group) ==
    LET groups == IF path = << >> /\ group = {} THEN GroupedRootFields(fields) ELSE {}
        place(n, scalar) ==
            ChildTableName(table, Sanitize(n)) :> SourcePath(Append(path, n), scalar, group)
        below(n, sub) == VisitFields(ChildTableName(table, Sanitize(n)), Append(path, n), sub, group)
        of(n) ==
            LET f == fields[n]
                g == CHOOSE x \in groups : n \in x
            IN  IF \E x \in groups : n \in x
                THEN IF n # Representative(g) THEN << >>
                     ELSE VisitFields(ChildTableName(table, Sanitize(n)), << >>, ItemFields(f), g)
                          @@ (ChildTableName(table, Sanitize(n)) :> SourcePath(path, None, g))
                ELSE IF Sole(f, "Object")
                THEN IF f.types["Object"].asJsonb THEN << >>
                     ELSE below(n, ObjectFields(f)) @@ place(n, None)
                ELSE IF ~ Sole(f, "Array") THEN << >>
                ELSE IF "Object" \in DOMAIN f.types["Array"].array[1].types
                THEN below(n, ItemFields(f)) @@ place(n, None)
                ELSE place(n, Some(n))
    IN  FoldLeft(LAMBDA acc, n : of(n) @@ acc, << >>, Ordered(DOMAIN fields))

BuildSourcePaths(fields, name) ==
    LET root  == Sanitize(name)
        group == FlattenGroupedRoot(fields)
        array == FlattenRootArray(fields)
        tree(place, sub) == VisitFields(root, place.path, sub, place.group) @@ (root :> place)
    IN  IF group # None
        THEN tree(SourcePath(<< >>, None, group[1]), ItemFields(fields[Representative(group[1])]))
        ELSE IF array # None
        THEN tree(SourcePath(array, None, {}), ItemFields(fields[array[1]]))
        ELSE tree(SourcePath(<< >>, None, {}), fields)

\* The known place with a path, or the path alone.
KnownPlace(places, path) ==
    LET known == { places[t] : t \in DOMAIN places }
        same  == { p \in known : p.path = path }
    IN  IF same = {} THEN SourcePath(path, None, {}) ELSE CHOOSE p \in same : TRUE

\* The place a mapping gives, or its parent's with the field of its plan, the
\* longer of the two; a mapping without a path is the document's.
TargetPlace(places, mappings, m) ==
    LET parent == ParentTable(m)
        above  == IF parent = None THEN None ELSE PathOf(mappings, parent[1])
        below  == IF above = None \/ m.plan.source = None THEN None
                  ELSE IF above[1] = << >> THEN None
                  ELSE Some(Append(above[1], m.plan.source[1]))
    IN  IF below # None /\ Len(below[1]) > Len(m.path) THEN KnownPlace(places, below[1])
        ELSE IF m.path = << >> THEN SourcePath(<< >>, None, {})
        ELSE KnownPlace(places, m.path)

(***************************************************************************)
(* The columns compared: those whose type can hold a scalar type seen in   *)
(* their field.  An object id in a UUID column is never compared.          *)
(***************************************************************************)
ObjectBelow(field) ==
    LET ts == NonNull(field)
    IN  IF "Object" \in ts THEN Some(ObjectFields(field))
        ELSE IF "Array" \in ts /\ "Object" \in DOMAIN field.types["Array"].array[1].types
        THEN Some(ItemFields(field)) ELSE None

\* The fields found along a path of objects and arrays of objects.
Descend(fields, path) ==
    FoldLeft(LAMBDA at, n :
                IF at = None THEN None
                ELSE IF n \in DOMAIN at[1] THEN ObjectBelow(at[1][n]) ELSE None,
             Some(fields), path)

FieldsForPlace(fields, place) ==
    IF place.group # {}
    THEN Descend(ItemFields(fields[Representative(place.group)]), place.path)
    ELSE Descend(fields, place.path)

SourceFamilies(fields, path) ==
    LET at == Descend(fields, Front(path))
    IN  IF at = None THEN {}
        ELSE IF Last(path) \notin DOMAIN at[1] THEN {}
        ELSE { f[1] : f \in { ScalarTypeFamily(t) : t \in NonNull(at[1][Last(path)]) } \ {None} }

TargetFamily(type) ==
    CASE type.k \in {"TEXT", "VARCHAR"} -> Some("string")
      [] type.k = "UUID" -> Some("uuid")
      [] type.k \in TemporalTypes -> Some("datetime")
      [] type.k \in NumericTypes -> Some("numeric")
      [] type.k = "BOOLEAN" -> Some("boolean")
      [] OTHER -> None

\* Fault: every mapped column is compared.
AllColumns(fields, place, m) == m.cols

ComparedColumns(fields, place, m) ==
    LET at == FieldsForPlace(fields, place)
        compared(c) ==
            LET target == TargetFamily(c.type)
                source == SourceFamilies(at[1], c.src)
            IN  target = None \/ source = {} \/ target[1] \in source
    IN  IF at = None THEN m.cols ELSE SelectSeq(m.cols, compared)

(***************************************************************************)
(* Literals.                                                               *)
(***************************************************************************)
Null == [null |-> "null"]

Geometries == {"Point", "LineString", "Polygon", "MultiPoint", "MultiLineString",
               "MultiPolygon", "GeometryCollection"}

\* Of a geometry only its type and its coordinates are compared.
ComparedKeys(b) ==
    LET type == Get(b, "type")
    IN  IF type # None /\ "coordinates" \in Keys(b)
        THEN IF type[1].t = "String" /\ type[1].s \in Geometries
             THEN {"type", "coordinates"} ELSE Keys(b)
        ELSE Keys(b)

\* A JSON value, numbers and dates in whatever way they are written, the keys
\* of an object in any order.
RECURSIVE Canonical(_)
Canonical(b) ==
    LET key == IF IsDoc(b) /\ Len(b.fs) = 1 THEN Head(b.fs).k ELSE ""
    IN  CASE IsNullType(b.t) -> Null
          [] key = "$date" -> [time |-> Head(b.fs).v.s]
          [] key \in {"$numberInt", "$numberLong", "$numberDouble", "$numberDecimal"} ->
                [number |-> Head(b.fs).v.s]
          [] IsDoc(b) /\ key \notin {"$date", "$numberInt", "$numberLong", "$numberDouble",
                                     "$numberDecimal"} ->
                [object |-> [k \in ComparedKeys(b) |-> Canonical(Get(b, k)[1])]]
          [] IsArray(b) -> [array |-> [i \in DOMAIN b.es |-> Canonical(b.es[i])]]
          [] b.t \in {"Int32", "Int64", "Double", "Decimal128"} -> [number |-> b.s]
          [] b.t = "Boolean" -> [boolean |-> b.s]
          [] b.t = "Date" -> [time |-> b.s]
          [] OTHER -> [string |-> b.s]

FindDocValue(d, path) ==
    FoldLeft(LAMBDA at, n : IF at = None \/ ~ IsDoc(at[1]) THEN None ELSE Get(at[1], n),
             Some(d), path)

\* The literal of a field; in a text column every value but a string is what
\* its JSON is as a text.
MongoLiteral(d, c) ==
    LET found == FindDocValue(d, c.src)
        b     == IF found = None THEN [t |-> "Null", s |-> ""] ELSE found[1]
    IN  IF IsNullType(b.t) THEN Null
        ELSE IF c.type.k # "TEXT" \/ b.t \in {"String", "ObjectId", "Date"} THEN Canonical(b)
        ELSE IF IsDoc(b) \/ IsArray(b) THEN [quoted |-> Canonical(b)]
        ELSE [string |-> b.s]

\* The literal of a cell: what the JSON of the column's value becomes.
RECURSIVE PgLiteral(_, _)
PgLiteral(c, cell) ==
    LET v    == cell[1]
        item == [c EXCEPT !.type = Type(CASE @.k = "TEXT[]" -> "TEXT"
                                          [] @.k = "TIMESTAMPTZ[]" -> "TIMESTAMPTZ"
                                          [] OTHER -> "NUMERIC")]
    IN  IF cell = None THEN Null
        ELSE CASE DOMAIN v = {"json"} ->
                    IF c.type.k = "JSONB" THEN Canonical(v.json) ELSE [string |-> v]
               [] DOMAIN v = {"list"} ->
                    [array |-> [i \in DOMAIN v.list |-> PgLiteral(item, Some(v.list[i]))]]
               [] DOMAIN v = {"point"} ->
                    [object |-> ("type" :> [string |-> "Point"]) @@
                                ("coordinates" :> [array |->
                                    [i \in DOMAIN v.point |-> [number |-> v.point[i]]]])]
               [] DOMAIN v = {"uuid"} ->
                    IF c.src = << "_id" >> /\ c.col = "id" /\ c.type.k \in {"TEXT", "VARCHAR"}
                    THEN [string |-> v.uuid] ELSE [padded |-> v.uuid]
               [] DOMAIN v = {"time"} ->
                    IF c.type.k = "DATE" THEN [day |-> v.time]
                    ELSE IF c.type.k = "TIMESTAMPTZ" THEN [time |-> v.time]
                    ELSE [string |-> v.time]
               [] DOMAIN v = {"text"} ->
                    IF c.type.k \in NumericTypes THEN [number |-> v.text]
                    ELSE IF c.type.k = "BOOLEAN" THEN [boolean |-> v.text]
                    ELSE [string |-> v.text]

(***************************************************************************)
(* The documents a table's rows come from, one per row.                    *)
(***************************************************************************)
WithId(d, id) ==
    IF id = None \/ "_id" \in Keys(d) THEN d
    ELSE [d EXCEPT !.fs = Append(@, [k |-> "_id", v |-> id[1]])]

\* The items of the arrays of a group, each with the field it is in as its key
\* and the id of the document.
GroupedDocuments(d, group, id) ==
    LET bare(b) == [b EXCEPT !.fs = SelectSeq(@, LAMBDA f : f.k \notin {"_id", "key"})]
        keyed(n, b) == [WithId(bare(b), id) EXCEPT !.fs =
                            Append(@, [k |-> "key", v |-> [t |-> "String", s |-> n]])]
        items(n) ==
            LET v  == Get(d, n)
                es == IF v = None THEN << >> ELSE IF IsArray(v[1]) THEN v[1].es ELSE v
                bs == SelectSeq(es, LAMBDA b : IsDoc(b) /\ ~ IsEmpty(b))
            IN  [i \in DOMAIN bs |-> keyed(n, bs[i])]
        names == Ordered(group)
    IN  FlattenSeq([i \in DOMAIN names |-> items(names[i])])

RECURSIVE Walk(_, _, _, _)
Walk(d, path, scalar, id) ==
    LET v    == Get(d, Head(path))
        keys == Keys(d)
        item(b) ==
            IF IsDoc(b) THEN Walk(b, Tail(path), scalar, id)
            ELSE IF Tail(path) = << >> /\ scalar # None
            THEN << WithId([t |-> "Object", fs |-> << [k |-> scalar[1], v |-> b] >>], id) >>
            ELSE << >>
    IN  IF path = << >>
        THEN IF IsEmpty(d) THEN << >>
             ELSE IF keys \subseteq HexKeys \cup UuidKeys
                     /\ \A i \in DOMAIN d.fs : IsDoc(d.fs[i].v) /\ ~ IsEmpty(d.fs[i].v)
             THEN [i \in DOMAIN d.fs |-> WithId(d.fs[i].v, id)]
             ELSE << WithId(d, id) >>
        ELSE IF v = None THEN << >>
        ELSE IF IsDoc(v[1]) THEN item(v[1])
        ELSE IF IsArray(v[1])
        THEN FlattenSeq([i \in DOMAIN v[1].es |-> item(v[1].es[i])])
        ELSE << >>

ExtractSourceDocuments(d, place) ==
    LET id == Get(d, "_id")
        grouped == GroupedDocuments(d, place.group, id)
    IN  IF place.group = {} THEN Walk(d, place.path, place.scalar, id)
        ELSE IF place.path = << >> THEN grouped
        ELSE FlattenSeq([i \in DOMAIN grouped |->
                Walk(grouped[i], place.path, place.scalar, Get(grouped[i], "_id"))])

(***************************************************************************)
(* The records of a table: a sequence of literals for every row.           *)
(***************************************************************************)
\* A table to compare: its mapping, its place, its columns.
Target(fields, mappings, m, place) ==
    [table |-> m.table, place |-> place, cols |-> ComparedColumns(fields, place, m),
         keys  |-> { m.ddl.cols[i].name : i \in { j \in DOMAIN m.ddl.cols : m.ddl.cols[j].pk } }
                   \cup { m.ddl.ref[i].col : i \in DOMAIN m.ddl.ref } \cup {"id", "key", "_key"},
         kids  |-> \E i \in DOMAIN mappings : ParentTable(mappings[i]) = Some(m.table)]

\* The tables with columns to compare, in the order of the depth of their place.
Targets(fields, name, mappings) ==
    LET all == [i \in DOMAIN mappings |->
                   Target(fields, mappings, mappings[i],
                          TargetPlace(BuildSourcePaths(fields, name), mappings, mappings[i]))]
    IN  SortSeq(SelectSeq(all, LAMBDA t : t.cols # << >>),
                LAMBDA a, b : Len(a.place.path) < Len(b.place.path))

IsRootPlace(place) == place = SourcePath(<< >>, None, {})

SkipsEmptyRow(target, record) ==
    /\ ~ (target.place.path = << >> /\ target.place.group = {})
    /\ target.place.scalar = None
    /\ ~ target.kids
    /\ \A i \in DOMAIN record : target.cols[i].col \in target.keys \/ record[i] = Null

\* The records of one document.
MongoRecords(target, d) ==
    LET sources == IF IsRootPlace(target.place) THEN << d >>
                   ELSE ExtractSourceDocuments(d, target.place)
        record(s) == [i \in DOMAIN target.cols |-> MongoLiteral(s, target.cols[i])]
        records == [i \in DOMAIN sources |-> record(sources[i])]
    IN  IF IsRootPlace(target.place) THEN records
        ELSE SelectSeq(records, LAMBDA r : ~ SkipsEmptyRow(target, r))

\* The record of one row.
PgRecord(target, row) ==
    [i \in DOMAIN target.cols |-> PgLiteral(target.cols[i], row[target.cols[i].col])]
=============================================================================
