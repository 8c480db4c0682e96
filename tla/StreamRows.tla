----------------------------- MODULE StreamRows -----------------------------
(***************************************************************************)
(* The rows `kafka-import` writes for the document of one event.           *)
(*                                                                         *)
(* An event carries the document as extended JSON.  A JSON value is        *)
(* written like the BSON value of its shape: a number as an Int32 or a     *)
(* Double.  The keys of the rows of a table are given depth first here and *)
(* last in, first out in the code: they are compared up to renaming.       *)
(***************************************************************************)
EXTENDS ExportRows

UnionTags == {"null", "string", "boolean", "int", "long", "float", "double", "bytes",
              "array", "map", "record", "enum"}

RECURSIVE Unwrapped(_)
Unwrapped(b) ==
    IF IsDoc(b) /\ Len(b.fs) = 1 /\ Head(b.fs).k \in UnionTags THEN Unwrapped(Head(b.fs).v)
    ELSE b

(***************************************************************************)
(* The text of a value in a statement, as the cell it leaves in the table. *)
(***************************************************************************)
TemporalTypes == {"TIMESTAMPTZ", "TIMESTAMPTZ[]", "DATE"}

IsObjectId(b) == IsDoc(Unwrapped(b)) /\ "$oid" \in Keys(Unwrapped(b))

\* The value of a wrapper of extended JSON.
ExtendedLiteral(type, b) ==
    CASE "$oid" \in Keys(b) ->
            Some(IF type.k = "UUID" THEN [uuid |-> Get(b, "$oid")[1].s]
                 ELSE Text(Get(b, "$oid")[1].s))
      [] Keys(b) \cap {"$numberDecimal", "$numberLong"} # {} -> Some(Text(Head(b.fs).v.s))
      [] "$date" \in Keys(b) -> Some([time |-> Get(b, "$date")[1].s])
      [] OTHER -> None

SqlLiteral(type, value) ==
    LET b == Unwrapped(value)
        items == [i \in DOMAIN b.es |->
                    LET e == b.es[i]
                    IN  IF IsDoc(e) \/ IsArray(e) THEN Json(e)
                        ELSE IF e.t = "Null" THEN None ELSE Text(e.s)]
    IN  CASE IsNullType(b.t) -> None
          [] ~ IsNullType(b.t) /\ type.k = "JSONB"
                /\ (~ IsDoc(b) \/ ExtendedLiteral(type, b) = None) -> Some(Json(b))
          [] IsArray(b) /\ type.k # "JSONB" ->
                IF IsArrayType(type) THEN Some([list |-> items]) ELSE Some(Json(b))
          [] IsDoc(b) /\ type.k = "GEOMETRY" /\ BsonToGeometry(b) # None -> BsonToGeometry(b)
          [] IsDoc(b) /\ (type.k # "GEOMETRY" \/ BsonToGeometry(b) = None)
                      /\ (type.k # "JSONB" \/ ExtendedLiteral(type, b) # None) ->
                OrElse(ExtendedLiteral(type, b), Some(Json(b)))
          [] b.t \in {"Int32", "Double"} /\ type.k \in TemporalTypes ->
                Some([time |-> b.s])
          [] OTHER -> Some(Text(b.s))

\* What is refused before a statement is sent: a missing value of a required
\* column, an object id for a number, a text longer than its column.
Refused(type, value, required) ==
    \/ required /\ (value = None \/ Unwrapped(value[1]).t = "Null")
    \/ value # None /\ IsObjectId(value[1]) /\ type.k \in NumericTypes
    \/ /\ value # None
       /\ type.k = "VARCHAR" /\ Unwrapped(value[1]).t = "String"
       /\ Len(Unwrapped(value[1]).s) > type.n

(***************************************************************************)
(* Looking the field of a column up.                                       *)
(***************************************************************************)
\* Along a path of objects, by exact names.
AtPath(d, path) ==
    FoldLeft(LAMBDA at, segment :
                IF at = None \/ ~ IsDoc(at[1]) THEN None ELSE Get(at[1], segment),
             Some(d), path)

\* Along a path through objects and the items of arrays; the last arrays are
\* opened as well.
ValuesAtPath(d, path) ==
    LET opened(v) == IF v = None THEN << >> ELSE IF IsArray(v[1]) THEN v[1].es ELSE v
        step(values, segment) ==
            LET below(b) ==
                CASE IsDoc(b)   -> opened(Get(b, segment))
                  [] IsArray(b) -> FlattenSeq([i \in DOMAIN b.es |->
                                    IF IsDoc(b.es[i]) THEN opened(Get(b.es[i], segment))
                                    ELSE << >>])
                  [] OTHER      -> << >>
            IN  FlattenSeq([i \in DOMAIN values |-> below(values[i])])
    IN  FoldLeft(step, << d >>, path)

\* Every value a name has, at any depth.
RECURSIVE ValuesNamed(_, _)
ValuesNamed(b, name) ==
    CASE IsDoc(b)   -> Get(b, name) \o
                       FlattenSeq([i \in DOMAIN b.fs |-> ValuesNamed(b.fs[i].v, name)])
      [] IsArray(b) -> FlattenSeq([i \in DOMAIN b.es |-> ValuesNamed(b.es[i], name)])
      [] OTHER      -> << >>

\* The value of a name that occurs once below the object.
FindNested(d, name) ==
    LET found == FlattenSeq([i \in DOMAIN d.fs |-> ValuesNamed(d.fs[i].v, name)])
    IN  OrElse(Get(d, name), IF Len(found) = 1 THEN found ELSE None)

\* The root is not searched below its own fields.
ResolveSourceField(d, path) ==
    LET values == ValuesAtPath(d, path)
    IN  IF Len(path) = 1 THEN Get(d, path[1])
        ELSE IF values = << >> THEN None ELSE Some(Head(values))

\* A child's field may have lost the first segments of its path.
ResolveFromMap(d, path) ==
    LET suffixes == [i \in DOMAIN path |-> SubSeq(path, i, Len(path))]
        exact == FoldLeft(LAMBDA found, p : OrElse(found, AtPath(d, p)), None, suffixes)
    IN  OrElse(exact, IF Len(path) = 1 THEN FindNested(d, path[1]) ELSE None)

(***************************************************************************)
(* The objects that are rows of a child table.                             *)
(***************************************************************************)
WrapperKeys == << "items", "array", "values", "records", "value", "transactions" >>

HasMappedFields(d, m) == \E i \in DOMAIN m.cols : AtPath(d, m.cols[i].src) # None

\* A key the row itself holds as a text is kept; otherwise it is added.
WithKey(row, key) ==
    [row EXCEPT !.fs = Append(SelectSeq(@, LAMBDA f : f.k # "key"),
                              [k |-> "key", v |-> [t |-> "String", s |-> key]])]

RECURSIVE ChildRowObjects(_, _)

\* The rows inside an object that has none of the mapped fields itself.
UnwrappedRows(d, m) ==
    LET entries  == [i \in DOMAIN d.fs |-> d.fs[i].v]
        wrapped  == SelectSeq(WrapperKeys, LAMBDA k : k \in Keys(d))
        nested   == [i \in DOMAIN wrapped |-> Get(d, wrapped[i])[1]] \o entries
        first(found, v) == IF found # << >> THEN found ELSE ChildRowObjects(v, m)
    IN  IF \A i \in DOMAIN entries : IsDoc(entries[i]) /\ HasMappedFields(entries[i], m)
        THEN entries
        ELSE FoldLeft(first, << >>, nested)

ChildRowObjects(b, m) ==
    LET expectsKey == \E i \in DOMAIN m.cols : m.cols[i].src = << "key" >>
        noKey      == expectsKey /\ "key" \notin Keys(b)
        mapStyle   == noKey /\ \A i \in DOMAIN b.fs :
                                  IsDoc(b.fs[i].v) \/ b.fs[i].v.t = "String"
        inside     == IF HasMappedFields(b, m) \/ mapStyle THEN << >> ELSE UnwrappedRows(b, m)
        value      == Get(b, "value")
        docs       == SelectSeq(b.fs, LAMBDA f : IsDoc(f.v))
    IN  IF IsArray(b)
        THEN FlattenSeq([i \in DOMAIN b.es |-> ChildRowObjects(b.es[i], m)])
        ELSE IF ~ IsDoc(b) THEN << >>
        ELSE IF b.fs = << >> THEN << >>
        ELSE IF m.cols = << >> THEN << b >>
        ELSE IF inside # << >> THEN inside
        ELSE IF value # None /\ IsDoc(value[1])
        THEN IF expectsKey /\ Get(b, "key") # None /\ Get(b, "key")[1].t = "String"
             THEN << WithKey(value[1], Get(b, "key")[1].s) >> ELSE value
        ELSE IF noKey /\ docs # << >>
        THEN [i \in DOMAIN docs |-> WithKey(docs[i].v, docs[i].k)]
        ELSE << b >>

(***************************************************************************)
(* The rows of an event.                                                   *)
(***************************************************************************)
IsRootMapping(m) ==
    m.path = << >> /\ \A i \in DOMAIN m.ddl.ref : m.ddl.ref[i].pcol # "id"

RootMapping(mappings) == Head(SelectSeq(mappings, LAMBDA m : IsRootMapping(m)))

\* The key to the parent: the first foreign key that refers to its `id`.
DirectChildrenOf(mappings, table) ==
    SelectSeq(mappings, LAMBDA m :
        ~ IsRootMapping(m) /\ \E i \in DOMAIN m.ddl.ref :
            m.ddl.ref[i].table = table /\ m.ddl.ref[i].pcol = "id")

\* Fault: the path is taken from the document at every level.
WholePath(child, parent) == child.path

RelativePath(child, parent) ==
    IF IsPrefix(parent.path, child.path)
    THEN SubSeq(child.path, Len(parent.path) + 1, Len(child.path)) ELSE child.path

ColumnOf(m, name) ==
    m.ddl.cols[CHOOSE i \in DOMAIN m.ddl.cols : m.ddl.cols[i].name = name]

NoCells(m) == [c \in { m.ddl.cols[i].name : i \in DOMAIN m.ddl.cols } |-> None]

\* The columns of the DDL that no mapping names are read by their own name.
UnmappedColumns(m) ==
    SelectSeq(m.ddl.cols, LAMBDA c :
        c.name # "id" /\ \A i \in DOMAIN m.cols : m.cols[i].col # c.name)

StreamedRoot(m, d) ==
    LET value(i) == ResolveSourceField(d, m.cols[i].src)
        extra    == SelectSeq(UnmappedColumns(m), LAMBDA c : Get(d, c.name) # None)
        mapped   == FoldLeft(LAMBDA row, i :
                        [row EXCEPT ![m.cols[i].col] =
                            IF value(i) = None THEN None
                            ELSE SqlLiteral(ColumnOf(m, m.cols[i].col).type, value(i)[1])],
                        NoCells(m), [i \in DOMAIN m.cols |-> i])
    IN  [refused |-> \/ \E i \in DOMAIN m.cols :
                           Refused(ColumnOf(m, m.cols[i].col).type, value(i), ~ m.cols[i].null)
                     \/ \E i \in DOMAIN extra :
                           Refused(extra[i].type, Get(d, extra[i].name), ~ extra[i].null)
                     \/ PkCols(m.ddl) = << >>,
         row |-> FoldLeft(LAMBDA row, c :
                    [row EXCEPT ![c.name] = SqlLiteral(c.type, Get(d, c.name)[1])],
                    mapped, extra)]

StreamedChild(m, d, parentTable, parentKey, key) ==
    LET value(i) == ResolveFromMap(d, m.cols[i].src)
        fk == CHOOSE r \in Range(m.ddl.ref) : r.table = parentTable /\ r.pcol = "id"
        own == [NoCells(m) EXCEPT !["id"] = Some(Text(key)), ![fk.col] = parentKey]
    IN  [refused |-> \E i \in DOMAIN m.cols :
                        \/ Refused(ColumnOf(m, m.cols[i].col).type, value(i), FALSE)
                        \/ ~ m.cols[i].null /\ value(i) = None,
         row |-> FoldLeft(LAMBDA row, i :
                    [row EXCEPT ![m.cols[i].col] =
                        IF value(i) = None THEN None
                        ELSE SqlLiteral(ColumnOf(m, m.cols[i].col).type, value(i)[1])],
                    own, [i \in DOMAIN m.cols |-> i])]

\* The rows below one row, the children of its table in order, and below them.
RECURSIVE StreamBelow(_, _, _, _, _)
StreamBelow(acc, mappings, parent, d, parentKey) ==
    LET below(a, m) ==
        LET nodes == ValuesAtPath(d, RelativePath(m, parent))
            objects == FlattenSeq([i \in DOMAIN nodes |-> ChildRowObjects(nodes[i], m)])
            insert(x, o) ==
                LET key == ToString(x.keys[m.table] + 1)
                    new == StreamedChild(m, o, parent.table, parentKey, key)
                    next == [x EXCEPT !.keys[m.table] = @ + 1,
                                      !.rows[m.table] = Append(@, new.row),
                                      !.refused = @ \/ new.refused]
                IN  StreamBelow(next, mappings, m, o, Some(Text(key)))
        IN  FoldLeft(insert, a, objects)
    IN  FoldLeft(below, acc, DirectChildrenOf(mappings, parent.table))

\* One document: its rows are those of a transaction, and none if refused.
StreamDocument(acc, mappings, doc) ==
    LET d    == ToJson(doc)
        root == RootMapping(mappings)
        new  == StreamedRoot(root, d)
        pk   == Head(PkCols(root.ddl)).name
        own  == [acc EXCEPT !.rows[root.table] = Append(@, new.row),
                            !.refused = @ \/ new.refused]
    IN  StreamBelow(own, mappings, root, d, new.row[pk])
=============================================================================
