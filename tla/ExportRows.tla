----------------------------- MODULE ExportRows -----------------------------
(***************************************************************************)
(* The rows `export` writes for a document, table by table.                *)
(*                                                                         *)
(* A cell is an optional value, a record of one field whose name says how  *)
(* the value is written.  A row is a function from the columns of its      *)
(* table to cells.                                                         *)
(* A node is a table with what the export needs to fill it: the path of    *)
(* its values in the parent's document, whether they are scalars, and the  *)
(* nodes of the tables that refer to it.                                   *)
(***************************************************************************)
EXTENDS Mappings

(***************************************************************************)
(* Values as text.                                                         *)
(***************************************************************************)
Text(v) == [text |-> v]
Json(b) == [json |-> b]

\* The JSON of a JSONB column: plain values without their BSON types.
RECURSIVE JsonValue(_)
JsonValue(b) ==
    CASE IsDoc(b)   -> [b EXCEPT !.fs = [i \in DOMAIN @ |-> [@[i] EXCEPT !.v = JsonValue(@)]]]
      [] IsArray(b) -> [b EXCEPT !.es = [i \in DOMAIN @ |-> JsonValue(@[i])]]
      [] b.t \in {"ObjectId", "Date", "Decimal128"} -> [b EXCEPT !.t = "String"]
      [] b.t = "Int64" -> [b EXCEPT !.t = "Int32"]
      [] OTHER -> b

Wrapped(key, t, s) ==
    [t |-> "Object", fs |-> << [k |-> key, v |-> [t |-> t, s |-> s]] >>]

\* Extended JSON: what JSON has no type for is a document with one field whose
\* name starts with a dollar sign.
RECURSIVE ToJson(_)
ToJson(b) ==
    CASE IsDoc(b)   -> [b EXCEPT !.fs = [i \in DOMAIN @ |-> [@[i] EXCEPT !.v = ToJson(@)]]]
      [] IsArray(b) -> [b EXCEPT !.es = [i \in DOMAIN @ |-> ToJson(@[i])]]
      [] b.t = "ObjectId"   -> Wrapped("$oid", "String", b.s)
      [] b.t = "Int64"      -> Wrapped("$numberLong", "String", b.s)
      [] b.t = "Decimal128" -> Wrapped("$numberDecimal", "String", b.s)
      [] b.t = "Date"       -> Wrapped("$date", "Int32", b.s)
      [] OTHER -> b

RECURSIVE BsonToString(_)
BsonToString(b) ==
    CASE IsNullType(b.t) -> None
      [] IsArray(b) -> Some([list |-> FlattenSeq([i \in DOMAIN b.es |-> BsonToString(b.es[i])])])
      [] IsDoc(b)   -> Some(Json(ToJson(b)))
      [] b.t = "Date" -> Some([time |-> b.s])
      [] OTHER      -> Some(Text(b.s))

\* Only object ids are UUIDs; no string of the instance spells one.
BsonToUuid(b) == IF b.t = "ObjectId" THEN Some([uuid |-> b.s]) ELSE None

RECURSIVE BsonToTimestamp(_)
BsonToTimestamp(b) ==
    CASE IsArray(b) -> Some([list |-> FlattenSeq([i \in DOMAIN b.es |-> BsonToTimestamp(b.es[i])])])
      [] b.t \in {"Date", "Timestamp", "String", "Int32", "Int64", "Double", "Decimal128"} ->
            Some([time |-> b.s])
      [] OTHER -> BsonToString(b)

BsonToGeometry(b) ==
    IF ~ IsDoc(b) THEN BsonToString(b)
    ELSE LET type == Get(b, "type")
             at   == Get(b, "coordinates")
         IN  IF /\ type # None /\ type[1] = [t |-> "String", s |-> "Point"]
                /\ at # None /\ IsArray(at[1]) /\ Len(at[1].es) = 2
             THEN Some([point |-> [i \in 1 .. 2 |-> at[1].es[i].s]])
             ELSE None

IsArrayType(type) == type.k \in {"TEXT[]", "DOUBLE PRECISION[]", "INTEGER[]", "BIGINT[]",
                                 "TIMESTAMPTZ[]", "NUMERIC[]"}

SerializeColumnValue(type, b) ==
    CASE type.k = "JSONB" -> Some(Json(JsonValue(b)))
      [] type.k \in {"TIMESTAMPTZ", "TIMESTAMPTZ[]"} -> BsonToTimestamp(b)
      [] type.k = "UUID" -> BsonToUuid(b)
      [] type.k = "GEOMETRY" -> BsonToGeometry(b)
      [] OTHER -> IF IsArray(b) /\ ~ IsArrayType(type) THEN Some(Json(JsonValue(b))) ELSE BsonToString(b)

\* The cell of a value that may be missing.
Serialized(type, value) == IF value = None THEN None ELSE SerializeColumnValue(type, value[1])

(***************************************************************************)
(* Looking a column up in a document: its field, by name or by sanitized   *)
(* name, the field its name goes through, or else the one nested document  *)
(* that has it.                                                            *)
(***************************************************************************)
RECURSIVE FindMongoField(_, _)
NestedMatches(d, col) ==
    FlattenSeq([i \in DOMAIN d.fs |->
        LET v == d.fs[i].v
        IN  CASE IsDoc(v)   -> FindMongoField(v, col)
              [] IsArray(v) -> FlattenSeq([j \in DOMAIN v.es |->
                                  IF IsDoc(v.es[j]) THEN FindMongoField(v.es[j], col) ELSE None])
              [] OTHER      -> None])

FindMongoField(d, col) ==
    LET through(f) ==
            LET rest == StripPrefix(col, Sanitize(f.k) \o "_")
            IN  IF Sanitize(f.k) = col THEN Some(f.v)
                ELSE IF IsDoc(f.v) /\ rest # None THEN FindMongoField(f.v, rest[1])
                ELSE None
        named  == FoldLeft(LAMBDA found, f : OrElse(found, through(f)), Get(d, col), d.fs)
        nested == NestedMatches(d, col)
    IN  IF named # None THEN named ELSE IF Len(nested) = 1 THEN nested ELSE None

FindFieldBySegment(d, segment) ==
    LET same == SelectSeq(d.fs, LAMBDA f : Sanitize(f.k) = Sanitize(segment))
    IN  OrElse(Get(d, segment), IF same = << >> THEN None ELSE Some(Head(same).v))

\* Along a path of documents only.
FindBySourcePath(d, path) ==
    FoldLeft(LAMBDA at, segment :
                IF at = None \/ ~ IsDoc(at[1]) THEN None ELSE FindFieldBySegment(at[1], segment),
             Some(d), path)

\* Along a path through documents and the items of arrays.
RECURSIVE CollectValues(_, _)
CollectValues(b, path) ==
    CASE path = << >> -> << b >>
      [] path # << >> /\ IsDoc(b) ->
            LET next == FindFieldBySegment(b, Head(path))
            IN  IF next = None THEN << >> ELSE CollectValues(next[1], Tail(path))
      [] path # << >> /\ IsArray(b) ->
            FlattenSeq([i \in DOMAIN b.es |-> CollectValues(b.es[i], path)])
      [] OTHER -> << >>

FindForTraversal(d, path) ==
    LET values == CollectValues(d, path)
    IN  CASE Len(values) = 1 -> values
          [] Len(values) > 1 -> Some([t |-> "Array", es |-> values])
          [] OTHER -> IF Len(path) = 1 THEN FindMongoField(d, path[1]) ELSE None

\* A column of the root: by its mapping, in the document or in its `_id`.
FindRootField(d, col, mapping) ==
    LET at == { i \in DOMAIN mapping.cols : mapping.cols[i].col = col }
        path == IF at = {} THEN << col >> ELSE mapping.cols[CHOOSE i \in at : TRUE].src
        id == Get(d, "_id")
    IN  OrElse(FindBySourcePath(d, path),
               IF id # None /\ IsDoc(id[1]) THEN FindBySourcePath(id[1], path) ELSE None)

(***************************************************************************)
(* The tree of nodes, from the plans of the mapping files.                 *)
(***************************************************************************)
PlanOf(mappings, table) ==
    LET at == { i \in DOMAIN mappings : mappings[i].table = table }
    IN  mappings[CHOOSE i \in at : TRUE]

RECURSIVE BuildNode(_, _, _, _, _)
BuildNode(sql, mappings, table, depth, parent) ==
    LET m     == PlanOf(mappings, table.name)
        own   == StripPrefix(table.name, parent \o "_")
        fallback == OrElse(m.plan.source, OrElse(own, Some(table.name)))
        kids  == SelectSeq(sql, LAMBDA t : ParentTable(PlanOf(mappings, t.name)) = Some(table.name))
    IN  [table   |-> table,
         mapping |-> m,
         field   |-> IF depth = 1 /\ m.path # << >> THEN m.path ELSE fallback,
         scalar  |-> m.plan.mode = "ArrayScalar",
         kids    |-> [i \in DOMAIN kids |->
                        BuildNode(sql, mappings, kids[i], depth + 1, table.name)]]

BuildTree(sql, mappings) ==
    LET roots == SelectSeq(sql, LAMBDA t : ParentTable(PlanOf(mappings, t.name)) = None)
    IN  [i \in DOMAIN roots |-> BuildNode(sql, mappings, roots[i], 0, "")]

(***************************************************************************)
(* Rows.  `acc` holds the rows of every table so far and the number of     *)
(* keys given to each; a key is used up even when its row is dropped.      *)
(***************************************************************************)
NoRows(sql) ==
    [rows |-> [n \in { sql[i].name : i \in DOMAIN sql } |-> << >>],
     keys |-> [n \in { sql[i].name : i \in DOMAIN sql } |-> 0]]

TakeKey(acc, node) == [acc EXCEPT !.keys[node.table.name] = @ + 1]
LastKey(acc, node) == ToString(acc.keys[node.table.name])
Push(acc, node, row) == [acc EXCEPT !.rows[node.table.name] = Append(@, row)]

Columns(node) == Names(node.table)
PkNames(node) == { PkCols(node.table)[i].name : i \in DOMAIN PkCols(node.table) }
ColumnType(node, c) == node.table.cols[CHOOSE i \in DOMAIN node.table.cols :
                                            node.table.cols[i].name = c].type

Payload(node) == Columns(node) \ (PkNames(node) \cup FkColumns(node.table) \cup {"key"})

ShouldSkipEmptyRow(node, row) ==
    node.kids = << >> /\ \A c \in Payload(node) : row[c] = None

\* A row below the root: its own key, its parent's, and other cells.
ChildRow(node, key, parent, cells) ==
    [c \in Columns(node) |->
        CASE c \in PkNames(node) -> Some(Text(key))
          [] c \notin PkNames(node) /\ c \in FkColumns(node.table) -> parent
          [] OTHER -> cells[c]]

Cells(node, d, c) == Serialized(ColumnType(node, c), FindMongoField(d, c))

\* Fault: a map is taken for one row.
NoMapEntries(node, d) == << >>

\* A document none of whose fields are columns is a map from keys to rows.
MapDocumentEntries(node, d) ==
    LET hasKid == \E i \in DOMAIN node.kids : \E j \in DOMAIN d.fs :
                      Sanitize(d.fs[j].k) = Sanitize(Head(node.kids[i].field))
    IN  IF \/ Payload(node) = {}
           \/ \E c \in Payload(node) : FindMongoField(d, c) # None
           \/ hasKid
        THEN << >>
        ELSE SelectSeq(d.fs, LAMBDA f : IsDoc(f.v))

\* With a key column, a document of documents is a map as well.
LooksLikeMapDocument(node, d) ==
    /\ FkColumns(node.table) # {}
    /\ "key" \in Columns(node)
    /\ Payload(node) # {}
    /\ d.fs # << >>
    /\ \A i \in DOMAIN d.fs : IsDoc(d.fs[i].v)

ScalarRow(acc, node, parent, b) ==
    LET taken == TakeKey(acc, node)
    IN  Push(taken, node, ChildRow(node, LastKey(taken, node), parent, [c \in Columns(node) |->
            IF c = "value" THEN SerializeColumnValue(ColumnType(node, c), b) ELSE None]))

RECURSIVE ExtractRows(_, _, _, _), ExtractChildDocument(_, _, _, _),
          KidRows(_, _, _, _, _)

\* The rows of one node below, from the value found for it; an embedded
\* document may be a map below a plain row only.
FoundRows(acc, node, found, parent, plain) ==
    CASE found # None /\ IsArray(found[1]) ->
            FoldLeft(LAMBDA a, b : IF node.scalar THEN ScalarRow(a, node, parent, b)
                                   ELSE ExtractRows(a, b, node, parent),
                     acc, found[1].es)
      [] found # None /\ IsDoc(found[1]) ->
            IF plain THEN ExtractChildDocument(acc, found[1], node, parent)
            ELSE ExtractRows(acc, found[1], node, parent)
      [] OTHER -> acc

\* The rows of the nodes below, from the document `d` of a row.
KidRows(acc, node, d, id, plain) ==
    FoldLeft(LAMBDA a, kid : FoundRows(a, kid, FindForTraversal(d, kid.field), id, plain),
             acc, node.kids)

\* A row that has been given its key, unless it is empty, and the rows below.
KeepRow(taken, node, row, d, plain) ==
    IF ShouldSkipEmptyRow(node, row) THEN taken
    ELSE KidRows(Push(taken, node, row), node, d, Some(Text(LastKey(taken, node))), plain)

AddRow(taken, node, parent, cells, d, plain) ==
    KeepRow(taken, node, ChildRow(node, LastKey(taken, node), parent, cells), d, plain)

\* One row per entry of a map.
EntryRow(acc, node, f, parent) ==
    AddRow(TakeKey(acc, node), node, parent,
           [c \in Columns(node) |-> IF c = "key" THEN Some(Text(f.k)) ELSE Cells(node, f.v, c)],
           f.v, FALSE)

EntryRows(acc, node, entries, parent) ==
    FoldLeft(LAMBDA a, f : EntryRow(a, node, f, parent), acc, entries)

ExtractChildDocument(acc, d, node, parent) ==
    IF LooksLikeMapDocument(node, d) THEN EntryRows(acc, node, d.fs, parent)
    ELSE ExtractRows(acc, d, node, parent)

ExtractRows(acc, b, node, parent) ==
    LET entries == MapDocumentEntries(node, b)
    IN  IF ~ IsDoc(b) THEN acc
        ELSE IF b.fs = << >> THEN acc
        ELSE IF entries # << >> THEN EntryRows(acc, node, entries, parent)
        ELSE AddRow(TakeKey(acc, node), node, parent,
                    [c \in Columns(node) |-> Cells(node, b, c)], b, TRUE)

\* The text of a document's `_id`, that its child rows refer to.
RootId(d) ==
    LET id == Get(d, "_id")
        text == IF id = None THEN None ELSE OrElse(BsonToUuid(id[1]), BsonToString(id[1]))
    IN  OrElse(text, Some(Text("")))

RootRow(node, d) ==
    [c \in Columns(node) |->
        IF PkNames(node) = {"id"} /\ c = "id" THEN RootId(d)
        ELSE Serialized(ColumnType(node, c), FindRootField(d, c, node.mapping))]

ExtractRoot(acc, d, node) ==
    KidRows(Push(acc, node, RootRow(node, d)), node, d, RootId(d), TRUE)

\* The rows of a collection.
RootRows(acc, roots, d) == FoldLeft(LAMBDA a, node : ExtractRoot(a, d, node), acc, roots)

RowsBelow(roots, sql, docs) ==
    FoldLeft(LAMBDA acc, d : RootRows(acc, roots, d), NoRows(sql), docs).rows

ExportedRows(sql, mappings, docs) == RowsBelow(BuildTree(sql, mappings), sql, docs)
=============================================================================
