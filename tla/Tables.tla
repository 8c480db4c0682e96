------------------------------- MODULE Tables -------------------------------
(***************************************************************************)
(* The tree of tables a schema becomes, and the script that creates them.  *)
(***************************************************************************)
EXTENDS Ddl

(***************************************************************************)
(* Names joined with underscores.                                          *)
(***************************************************************************)
\* The segments of a name between its separators.
RECURSIVE Split(_, _)
Split(name, sep) ==
    LET at == { i \in 1 .. Len(name) : SubSeq(name, i, i) = sep }
        i  == CHOOSE j \in at : \A k \in at : j <= k
    IN  IF at = {} THEN << name >>
        ELSE << SubSeq(name, 1, i - 1) >> \o
             Split(SubSeq(name, i + 1, Len(name)), sep)

RECURSIVE Join(_, _)
Join(segments, sep) ==
    IF Len(segments) = 1 THEN Head(segments)
    ELSE Head(segments) \o sep \o Join(Tail(segments), sep)

NewTable(name) == [name |-> name, cols |-> << >>, kids |-> << >>, ref |-> << >>]

AddCol(table, col) == [table EXCEPT !.cols = Append(@, col)]

PkCols(table) == SelectSeq(table.cols, LAMBDA c : c.pk)

FindPkColumns(table) ==
    IF PkCols(table) = << >> THEN << Col("id", Type("TEXT"), FALSE, TRUE) >>
    ELSE PkCols(table)

\* A child is named for its field, and qualified by its parent only when the
\* field repeats a segment of the parent's name.
ChildTableName(parent, field) ==
    LET segments == Split(parent, "_")
    IN  IF \E i \in DOMAIN segments : segments[i] = field
        THEN Last(segments) \o "_" \o field
        ELSE field

\* A child table with its own key and the columns that refer to its parent.
ChildTable(parent, name) ==
    LET pks == FindPkColumns(parent)
        fk(i) == parent.name \o "_" \o (IF Len(pks) = 1 THEN "id" ELSE pks[i].name)
    IN  [name |-> name,
         cols |-> << Col("id", Type("BIGSERIAL"), FALSE, TRUE) >> \o
                  [i \in DOMAIN pks |-> Col(fk(i), FkScalarType(pks[i].type), FALSE, FALSE)],
         kids |-> << >>,
         ref  |-> [i \in DOMAIN pks |->
                    [col |-> fk(i), table |-> parent.name, pcol |-> pks[i].name]]]

AddKid(table, kid) == [table EXCEPT !.kids = Append(@, kid)]

(***************************************************************************)
(* An object `_id` becomes one key column per leaf.                        *)
(***************************************************************************)
RECURSIVE FlattenObjectId(_, _, _)
FlattenObjectId(table, fields, prefix) ==
    FoldLeft(LAMBDA tb, n :
        LET f   == fields[n]
            col == prefix \o Sanitize(n)
        IN  CASE NonNull(f) = {} -> tb
              [] Sole(f, "Object") ->
                    FlattenObjectId(tb, ObjectFields(f), col \o "_")
              [] NonNull(f) # {} /\ ~ Sole(f, "Object") ->
                    AddCol(tb, Col(col,
                        IF NonNull(f) \cap {"Object", "Array"} # {} THEN Type("JSONB")
                        ELSE ResolveScalarPgType(f), FALSE, TRUE)),
        table, Ordered(DOMAIN fields))

(***************************************************************************)
(* Arrays.  Items that are objects make a child table, named for the       *)
(* wrapped entity when an item is nothing but a wrapper; items that are    *)
(* scalars make an array column, of the widest of the types seen.          *)
(***************************************************************************)
GenericWrappers ==
    {"metadata", "details", "detail", "data", "payload", "attributes",
     "attribute", "config", "configuration", "info", "value"}

EntityFields == {"id", "_id", "name", "permalink", "slug", "code", "key"}

PassthroughChild(fields) ==
    LET named == { n \in DOMAIN fields : NonNull(fields[n]) # {} }
        n == CHOOSE x \in named : TRUE
    IN  IF /\ Cardinality(named) = 1
           /\ Sole(fields[n], "Object")
           /\ Sanitize(n) \notin GenericWrappers
           /\ \E k \in DOMAIN ObjectFields(fields[n]) : Sanitize(k) \in EntityFields
        THEN Some(n) ELSE None

ArrayColumnType(n, items) ==
    LET has(t) == t \in NonNull(items)
        first == SelectSeq(<< "String", "Double", "Int32", "Int64", "Date", "Decimal128" >>, has)
    IN  IF first = << >> THEN None
        ELSE IF Head(first) = "String" /\ MatchesTimestampField(n)
        THEN Some(Type("TIMESTAMPTZ[]"))
        ELSE Some(Type(BsonTypeToPg(Head(first)).k \o "[]"))

RECURSIVE ProcessFields(_, _, _)

ArrayKid(table, n, fields) ==
    LET inner == PassthroughChild(fields)
        name  == IF inner = None THEN n ELSE inner[1]
        below == IF inner = None THEN fields ELSE ObjectFields(fields[name])
    IN  AddKid(table, ProcessFields(ChildTable(table, ChildTableName(table.name, Sanitize(name))),
                                    below, TRUE))

HandleArrayField(table, fields, n, markPk) ==
    LET f     == fields[n]
        items == f.types["Array"].array[1]
        alone == markPk /\ n # "_id" /\ DOMAIN fields = {"_id", n}
        jsonb == alone /\ items.types["Object"].asJsonb
        one   == IF "Object" \notin NonNull(items) THEN table
                 ELSE IF jsonb THEN AddCol(table, Col(Sanitize(n), Type("JSONB"), Nullable(f), FALSE))
                 ELSE ArrayKid(table, n, ObjectFields(items))
        type  == ArrayColumnType(n, items)
    IN  IF ("Object" \in NonNull(items) /\ jsonb) \/ type = None THEN one
        ELSE AddCol(one, Col(Sanitize(n), type[1], Nullable(f), FALSE))

(***************************************************************************)
(* Objects: a point column, a JSONB column, a map, a merged table or a     *)
(* child table of their own.                                               *)
(***************************************************************************)
DocKid(table, n, fields) ==
    AddKid(table, ProcessFields(ChildTable(table, ChildTableName(table.name, Sanitize(n))),
                                fields, FALSE))

GeoMergedKid(table, n, fields, parts) ==
    LET kid == ProcessFields(ChildTable(table, table.name \o "_" \o Sanitize(n)),
                             ObjectFields(fields[parts.sibling]), FALSE)
    IN  AddKid(table, AddCol(kid, Col(Sanitize(parts.point), Type("GEOMETRY"),
                                      Nullable(fields[parts.point]), FALSE)))

HandleObjectField(table, n, f) ==
    LET fields == ObjectFields(f)
        column(k) == AddCol(table, Col(Sanitize(n), Type(k), Nullable(f), FALSE))
        parts == GeoMergedParts(fields)
    IN  IF IsGeoJsonPoint(f) THEN column("GEOMETRY")
        ELSE IF f.types["Object"].asJsonb THEN column("JSONB")
        ELSE IF IsMap(fields)
        THEN IF MapValueFields(fields) = None THEN column("JSONB")
             ELSE DocKid(table, n, MapValueFields(fields)[1])
        ELSE IF parts # None THEN GeoMergedKid(table, n, fields, parts[1])
        ELSE DocKid(table, n, fields)

(***************************************************************************)
(* Objects or arrays mixed with other types: JSONB, unless nine values in  *)
(* ten are scalars of one family.                                          *)
(***************************************************************************)
FamilyType(family) ==
    Type(CASE family = "numeric"  -> "DOUBLE PRECISION"
           [] family = "boolean"  -> "BOOLEAN"
           [] family = "datetime" -> "TIMESTAMPTZ"
           [] family = "objectid" -> "UUID"
           [] OTHER               -> "TEXT")

MixedType(f) ==
    LET weight(ts) == FoldLeft(LAMBDA w, t : w + f.types[t].count, 0, SetToSeq(ts))
        of(family) == { t \in NonNull(f) : ScalarTypeFamily(t) = Some(family) }
        dominant == { family \in { ScalarTypeFamily(t)[1] : t \in NonNull(f) \ {"Object", "Array"} } :
                        10 * weight(of(family)) > 9 * weight(NonNull(f)) }
    IN  IF dominant = {} THEN Type("JSONB")
        ELSE FamilyType(CHOOSE family \in dominant : TRUE)

(***************************************************************************)
(* Scalars, and the key.  A second key of a table that has one is dropped. *)
(***************************************************************************)
HandleScalarField(table, n, f, markPk) ==
    LET type == IF MatchesTimestampField(n) THEN Type("TIMESTAMPTZ") ELSE ResolveScalarPgType(f)
        hasId == \E i \in DOMAIN table.cols : table.cols[i].name = "id"
    IN  IF n = "_id" /\ markPk
        THEN IF PkCols(table) # << >> THEN table
             ELSE AddCol(table, Col("id", PkTypeForId(f), FALSE, TRUE))
        ELSE IF Sanitize(n) = "id" /\ hasId THEN table
        ELSE AddCol(table, Col(Sanitize(n), type, Nullable(f), FALSE))

\* One field of an object, in the table the object becomes.
ProcessField(table, fields, n, markPk) ==
    LET f == fields[n]
        groups == IF markPk THEN { g \in GroupedRootFields(fields) : n \in g } ELSE {}
        group  == CHOOSE g \in groups : TRUE
    IN  IF groups # {}
        THEN IF n # Representative(group) THEN table
             ELSE AddKid(table, ProcessFields(
                    ChildTable(table, ChildTableName(table.name, Sanitize(n))),
                    ItemFields(f), TRUE))
        ELSE IF NonNull(f) = {} THEN table
        ELSE IF n = "_id" /\ markPk /\ Sole(f, "Object")
        THEN FlattenObjectId(table, ObjectFields(f), "")
        ELSE IF Sole(f, "Object") THEN HandleObjectField(table, n, f)
        ELSE IF Sole(f, "Array") THEN HandleArrayField(table, fields, n, markPk)
        ELSE IF NonNull(f) \cap {"Object", "Array"} # {}
        THEN AddCol(table, Col(Sanitize(n), MixedType(f), Nullable(f), FALSE))
        ELSE HandleScalarField(table, n, f, markPk)

ProcessFields(table, fields, markPk) ==
    FoldLeft(LAMBDA tb, n : ProcessField(tb, fields, n, markPk),
             table, Ordered(DOMAIN fields))

(***************************************************************************)
(* The whole tree.                                                         *)
(***************************************************************************)
ParentIdColumn(name) == Sanitize(name) \o "_id"

\* The table of a collection that is one array, or one group of arrays.
FlattenedRoot(fields, itemFields, name) ==
    LET key == AddCol(NewTable(Sanitize(name)), Col("id", Type("BIGSERIAL"), FALSE, TRUE))
        root == AddCol(key, Col(ParentIdColumn(name),
                                FkScalarType(PkTypeForId(fields["_id"])), FALSE, FALSE))
    IN  ProcessFields(root, itemFields, FALSE)

\* A root that has nothing but its key gives way to its only child.
CollapsePassthroughRoot(root) ==
    LET kid  == root.kids[1]
        fks  == { kid.ref[i].col : i \in DOMAIN kid.ref }
        keep == SelectSeq(kid.cols, LAMBDA c : ~ c.pk /\ c.name \notin fks)
    IN  IF /\ Len(root.kids) = 1
           /\ \A i \in DOMAIN root.cols : root.cols[i].pk
           /\ StripPrefix(kid.name, root.name \o "_") # None
        THEN [kid EXCEPT !.cols = PkCols(kid) \o keep, !.ref = << >>]
        ELSE root

StripNumericSuffix(name) ==
    LET segments == Split(name, "_")
    IN  IF Len(segments) > 1 /\ Last(segments) \in Numerals
        THEN Join(Front(segments), "_") ELSE name

\* The first name that is free: the table's own, then qualified by more and
\* more of its ancestors, then numbered.
NextUniqueName(base, path, used) ==
    LET from(d) == Join(SubSeq(path, Len(path) - d + 1, Len(path)), "_") \o "_" \o base
        candidates == << base >> \o [d \in 1 .. Len(path) |-> from(d)]
                      \o [i \in 1 .. Cardinality(used) |-> base \o "_" \o ToString(i + 1)]
    IN  Head(SelectSeq(candidates, LAMBDA c : c \notin used))

\* Depth first; the result is the renamed table and the names in use.
RECURSIVE Unique(_, _, _)
Unique(node, path, used) ==
    LET name == NextUniqueName(StripNumericSuffix(node.name), path, used)
        visit(acc, kid) ==
            LET u == Unique([kid EXCEPT !.ref = [i \in DOMAIN @ |->
                                [@[i] EXCEPT !.table = name]]],
                            Append(path, name), acc.used)
            IN  [kids |-> Append(acc.kids, u.node), used |-> u.used]
        below == FoldLeft(visit, [kids |-> << >>, used |-> used \cup {name}], node.kids)
    IN  [node |-> [node EXCEPT !.name = name, !.kids = below.kids], used |-> below.used]

EnsureUniqueTableNames(root) == Unique(root, << >>, {}).node

\* Breadth first: a table comes before the tables that refer to it.
RECURSIVE CollectTables(_)
CollectTables(queue) ==
    IF queue = << >> THEN << >>
    ELSE << Head(queue) >> \o CollectTables(Tail(queue) \o Head(queue).kids)

\* The array whose items are the rows of the root.
RootArray(fields) ==
    LET group == FlattenGroupedRoot(fields)
        array == FlattenRootArray(fields)
    IN  IF group # None THEN Some(Representative(group[1]))
        ELSE IF /\ array # None
                /\ ~ fields[array[1]].types["Array"].array[1].types["Object"].asJsonb
        THEN array
        ELSE None

TableTree(fields, name) ==
    IF RootArray(fields) # None
    THEN FlattenedRoot(fields, ItemFields(fields[RootArray(fields)[1]]), name)
    ELSE CollapsePassthroughRoot(ProcessFields(NewTable(Sanitize(name)), fields, TRUE))

\* The CREATE TABLE statements of the script, in order.
SchemaToDdl(fields, name) ==
    CollectTables(<< EnsureUniqueTableNames(TableTree(fields, name)) >>)
=============================================================================
