------------------------------ MODULE Mappings ------------------------------
(***************************************************************************)
(* The mapping files `infer` writes: for every table the columns, the      *)
(* field each is read from, the path of the documents the rows come from   *)
(* and the DDL of the table.                                               *)
(*                                                                         *)
(* A mapping is [table, path, cols, ddl]; a path is a sequence of field    *)
(* names, << >> being the document itself, and a column is                 *)
(* [src, col, type, null] where `src` is the path of its field.            *)
(***************************************************************************)
EXTENDS Tables

CONSTANT Reserved   \* the table names the mappings of other collections hold

\* The name a child is preferred to have; merged tables keep their parent's.
PreferredName(parent, field, force) ==
    IF force THEN parent \o "_" \o Sanitize(field)
    ELSE ChildTableName(parent, Sanitize(field))

\* Fault: a name that is taken is given again.
AnyChildName(parent, field, force, assigned) == PreferredName(parent, field, force)

UniqueChildName(parent, field, force, assigned) ==
    LET base     == PreferredName(parent, field, force)
        segments == Split(parent, "_")
        from(d)  == Join(SubSeq(segments, Len(segments) - d + 1, Len(segments)), "_")
        candidates == << base >> \o [d \in DOMAIN segments |-> from(d) \o "_" \o base]
            \o [i \in 1 .. Cardinality(assigned) |->
                    parent \o "_" \o base \o "_" \o ToString(i + 1)]
    IN  Head(SelectSeq(candidates, LAMBDA c : c \notin assigned))

MergesGeo(field) == Sole(field, "Object") /\ GeoMergedParts(ObjectFields(field)) # None

\* The object below a field that is an object or an array of objects.
ChildFields(field) ==
    CASE Sole(field, "Object") /\ ~ field.types["Object"].asJsonb ->
            Some(ObjectFields(field))
      [] Sole(field, "Array") /\ "Object" \in DOMAIN field.types["Array"].array[1].types ->
            Some(ItemFields(field))
      [] OTHER -> None

RootGroups(fields, isRoot) == IF isRoot THEN GroupedRootFields(fields) ELSE {}
GroupMembers(groups) == UNION groups
Representatives(groups) == { Representative(g) : g \in groups }

(***************************************************************************)
(* The names of the tables: `assigned` are taken, `renames` maps the name  *)
(* of the DDL to the final one, `resolved` finds it by parent and field.   *)
(***************************************************************************)
RECURSIVE NameChildren(_, _, _, _, _)
Assign(acc, parent, n, was, now) ==
    [assigned |-> acc.assigned \cup {now},
     renames  |-> (was :> now) @@ acc.renames,
     resolved |-> (<< parent, Sanitize(n) >> :> now) @@ acc.resolved]

NameBelow(acc, was, now, below) ==
    IF below = None THEN acc ELSE NameChildren(acc, was, now, below[1], FALSE)

NameChild(acc, old, new, n, force, below) ==
    LET was == PreferredName(old, n, force)
        now == UniqueChildName(new, n, force, acc.assigned)
    IN  NameBelow(Assign(acc, new, n, was, now), was, now, below)

NameChildren(acc, old, new, fields, isRoot) ==
    LET groups == RootGroups(fields, isRoot)
    IN  FoldLeft(LAMBDA a, n :
            IF n \in Representatives(groups)
            THEN NameChild(a, old, new, n, FALSE, Some(ItemFields(fields[n])))
            ELSE IF n \notin GroupMembers(groups)
                    /\ (ChildFields(fields[n]) # None \/ Sole(fields[n], "Array"))
            THEN NameChild(a, old, new, n, MergesGeo(fields[n]), ChildFields(fields[n]))
            ELSE a, acc, Ordered(DOMAIN fields))

ResolvedName(resolved, parent, n) ==
    IF << parent, Sanitize(n) >> \in DOMAIN resolved
    THEN resolved[<< parent, Sanitize(n) >>] ELSE PreferredName(parent, n, FALSE)

\* The tables of the DDL under their final names; of two that end up with one
\* name the later stays.
RenamedTables(tables, renames) ==
    LET rename(n) == IF n \in DOMAIN renames THEN renames[n] ELSE n
        renamed(t) == [t EXCEPT !.name = rename(@),
                                !.ref = [i \in DOMAIN @ |->
                                            [@[i] EXCEPT !.table = rename(@)]]]
    IN  FoldLeft(LAMBDA acc, t : (rename(t.name) :> renamed(t)) @@ acc, << >>, tables)

(***************************************************************************)
(* Objects small enough to have had columns in their parent's table.       *)
(***************************************************************************)
RECURSIVE Inlinable(_), Leaves(_)
InlinableField(field) ==
    \/ NonNull(field) = {}
    \/ Sole(field, "Object") /\ Inlinable(ObjectFields(field))
    \/ /\ Cardinality(NonNull(field)) = 1
       /\ NonNull(field) \cap {"Object", "Array"} = {}

Leaves(fields) ==
    LET below(n) == IF Sole(fields[n], "Object") /\ Inlinable(ObjectFields(fields[n]))
                    THEN Leaves(ObjectFields(fields[n])) ELSE << << >> >>
        names == Ordered(DOMAIN fields)
    IN  FlattenSeq([i \in DOMAIN names |->
            LET ls == below(names[i])
            IN  [j \in DOMAIN ls |-> << names[i] >> \o ls[j]]])

Inlinable(fields) ==
    /\ Len(Leaves(fields)) >= 2
    /\ \A n \in DOMAIN fields : InlinableField(fields[n])

ColumnFor(path, depth) ==
    LET from == IF depth < Len(path) THEN Len(path) - depth ELSE 1
        tail == SubSeq(path, from, Len(path))
    IN  Join([i \in DOMAIN tail |-> Sanitize(tail[i])], "_")

\* Leaves whose names collide are qualified by one more segment, together.
RECURSIVE Depths(_, _, _)
Depths(paths, depths, reserved) ==
    LET name(i) == ColumnFor(paths[i], depths[i])
        collides(i) == name(i) \in reserved \/ \E j \in DOMAIN paths \ {i} : name(j) = name(i)
        next == [i \in DOMAIN paths |->
                    IF collides(i) /\ depths[i] + 1 < Len(paths[i])
                    THEN depths[i] + 1 ELSE depths[i]]
    IN  IF next = depths THEN depths ELSE Depths(paths, next, reserved)

ColumnsAt(paths, depths) == [i \in DOMAIN paths |-> ColumnFor(paths[i], depths[i])]

\* Names that still collide are numbered.
NumberedNames(names, reserved) ==
    LET nth(i) == Cardinality({ j \in 1 .. i : names[j] = names[i] })
    IN  [i \in DOMAIN names |->
            IF nth(i) = 1 /\ names[i] \notin reserved THEN names[i]
            ELSE names[i] \o "_" \o ToString(nth(i))]

InlineColumnNames(paths, reserved) ==
    NumberedNames(ColumnsAt(paths, Depths(paths, [i \in DOMAIN paths |-> 0], reserved)), reserved)

\* The column names the siblings of an inlined object hold.
SiblingNames(fields, current, isRoot) ==
    LET of(n) ==
        LET f == fields[n]
        IN  IF NonNull(f) = {} THEN {}
            ELSE IF n = "_id" /\ isRoot /\ Sole(f, "Object")
            THEN { ColumnFor(p, Len(p)) : p \in Range(Leaves(ObjectFields(f))) }
            ELSE IF Sole(f, "Object") /\ Inlinable(ObjectFields(f))
            THEN { Sanitize(Last(p)) : p \in Range(Leaves(ObjectFields(f))) }
            ELSE { IF n = "_id" /\ isRoot THEN "id" ELSE Sanitize(n) }
    IN  UNION { of(n) : n \in DOMAIN fields \ {current} }

(***************************************************************************)
(* The field a column is read from.                                        *)
(***************************************************************************)
FirstOf(xs) == IF xs = << >> THEN None ELSE Some(Head(xs))

Named(fields, column) ==
    FirstOf(SelectSeq(Ordered(DOMAIN fields),
                      LAMBDA n : Sanitize(n) = column \/ n = column))

GeoMergedSource(fields, column) ==
    LET objects == SelectSeq(Ordered(DOMAIN fields), LAMBDA n : Sole(fields[n], "Object"))
        source(n) ==
            LET sub    == ObjectFields(fields[n])
                live   == { k \in DOMAIN sub : NonNull(sub[k]) # {} }
                points == { k \in live : IsGeoJsonPoint(sub[k]) }
                others == live \ points
                leaves == IF others = {} THEN << >>
                          ELSE Leaves(ObjectFields(sub[CHOOSE k \in others : TRUE]))
                leaf   == FirstOf(SelectSeq(leaves, LAMBDA p : Sanitize(Last(p)) = column))
            IN  IF \/ \E k \in live : ~ Sole(sub[k], "Object")
                   \/ Cardinality(points) > 1 \/ Cardinality(others) > 1
                THEN None
                ELSE IF \E k \in points : Sanitize(k) = column
                THEN Some(<< n, CHOOSE k \in points : TRUE >>)
                ELSE IF leaf # None
                THEN Some(<< n, CHOOSE k \in others : TRUE >> \o leaf[1])
                ELSE None
    IN  FoldLeft(LAMBDA found, n : OrElse(found, source(n)), None, objects)

\* The leaf below field `n` whose column has a name.
LeafNamed(leaves, n, column, reserved) ==
    LET paths == [i \in DOMAIN leaves |-> << n >> \o leaves[i]]
        names == InlineColumnNames(paths, reserved)
    IN  FirstOf(SelectSeq(paths, LAMBDA p : names[CHOOSE i \in DOMAIN paths : paths[i] = p] = column))

NestedSource(fields, column, isRoot) ==
    LET objects == SelectSeq(Ordered(DOMAIN fields), LAMBDA n :
                        /\ Sole(fields[n], "Object")
                        /\ Inlinable(ObjectFields(fields[n])))
        in(n) == LeafNamed(Leaves(ObjectFields(fields[n])), n, column,
                           SiblingNames(fields, n, isRoot))
    IN  FoldLeft(LAMBDA found, n : OrElse(found, in(n)), None, objects)

SourceField(fields, column, isRoot) ==
    LET direct == Named(fields, column)
        inId   == IF /\ isRoot /\ "_id" \in DOMAIN fields
                     /\ "Object" \in DOMAIN fields["_id"].types
                  THEN Named(ObjectFields(fields["_id"]), column) ELSE None
        geo    == IF isRoot THEN GeoMergedSource(fields, column) ELSE None
    IN  IF isRoot /\ column = "id" /\ "_id" \in DOMAIN fields THEN Some(<< "_id" >>)
        ELSE IF direct # None THEN Some(direct)
        ELSE IF inId # None THEN Some(inId)
        ELSE IF geo # None THEN geo
        ELSE NestedSource(fields, column, isRoot)

(***************************************************************************)
(* The mappings of a collection.                                           *)
(***************************************************************************)
\* The columns of a composite foreign key are one text, which is no column.
FkColumns(table) == IF Len(table.ref) = 1 THEN {table.ref[1].col} ELSE {}

Names(table) == { table.cols[i].name : i \in DOMAIN table.cols }

\* The columns of a table that have a source, by the sources of its columns.
MappedColumns(table, isRoot, sources) ==
    LET own  == SelectSeq(table.cols, LAMBDA c :
                    /\ c.name \notin FkColumns(table)
                    /\ isRoot \/ c.name # "id")
        with == SelectSeq(own, LAMBDA c : sources[c.name] # None)
    IN  [i \in DOMAIN with |->
            [src |-> sources[with[i].name][1], col |-> with[i].name,
             type |-> with[i].type, null |-> with[i].null]]

\* The columns of the rows of a map, or of a group of arrays.
KeyedColumns(table, fields) ==
    MappedColumns(table, FALSE, [c \in Names(table) |->
        IF c = "key" THEN Some(<< "key" >>) ELSE SourceField(fields, c, FALSE)])

IsReferenced(name, tables) ==
    \E t \in Range(tables) : \E i \in DOMAIN t.ref : t.ref[i].table = name

\* No mapping for a table without columns, unless others refer to it.
Emitted(tables, table, path, columns) ==
    IF table \in DOMAIN tables
       /\ (columns # << >> \/ IsReferenced(table, tables))
    THEN << [table |-> table, path |-> path, cols |-> columns,
             ddl |-> tables[table]] >>
    ELSE << >>

RECURSIVE TableMappings(_, _, _, _, _, _, _)

GroupMappings(tables, resolved, table, path, fields, n) ==
    LET child == ResolvedName(resolved, table, n)
        below == Append(path, n)
    IN  Emitted(tables, child, below, KeyedColumns(tables[child], ItemFields(fields[n])))
        \o TableMappings(tables, resolved, child, below, ItemFields(fields[n]), FALSE, FALSE)

\* A merged table has the columns a root with the one field would have.
MergedColumns(table, n, field) ==
    MappedColumns(table, FALSE, [c \in Names(table) |-> SourceField(n :> field, c, TRUE)])

ObjectMappings(tables, resolved, table, path, fields, n) ==
    LET child  == ResolvedName(resolved, table, n)
        below  == Append(path, n)
        sub    == ObjectFields(fields[n])
        values == IF DOMAIN sub \subseteq HexKeys THEN MapValueFields(sub) ELSE None
    IN  IF fields[n].types["Object"].asJsonb THEN << >>
        ELSE IF MergesGeo(fields[n])
        THEN Emitted(tables, child, path, MergedColumns(tables[child], n, fields[n]))
        ELSE IF values # None
        THEN Emitted(tables, child, below, KeyedColumns(tables[child], values[1]))
             \o TableMappings(tables, resolved, child, below, values[1], FALSE, FALSE)
        ELSE TableMappings(tables, resolved, child, below, sub, FALSE, TRUE)

\* An array of scalars is mapped only to a table of its resolved name.
ArrayMappings(tables, resolved, table, path, fields, n) ==
    LET child == ResolvedName(resolved, table, n)
        below == Append(path, n)
        items == fields[n].types["Array"].array[1]
    IN  IF "Object" \in DOMAIN items.types
        THEN TableMappings(tables, resolved, child, below,
                           items.types["Object"].object, FALSE, TRUE)
        ELSE Emitted(tables, child, below,
                     MappedColumns(tables[child], FALSE,
                                   [c \in Names(tables[child]) |-> Some(<< n >>)]))

FieldMappings(tables, resolved, table, path, fields, groups, n) ==
    IF n \in Representatives(groups)
    THEN GroupMappings(tables, resolved, table, path, fields, n)
    ELSE IF n \in GroupMembers(groups) THEN << >>
    ELSE IF Sole(fields[n], "Object")
    THEN ObjectMappings(tables, resolved, table, path, fields, n)
    ELSE IF Sole(fields[n], "Array")
    THEN ArrayMappings(tables, resolved, table, path, fields, n)
    ELSE << >>

OwnColumns(table, fields, isRoot) ==
    MappedColumns(table, isRoot, [c \in Names(table) |-> SourceField(fields, c, isRoot)])

TableMappings(tables, resolved, table, path, fields, isRoot, emit) ==
    LET names == Ordered(DOMAIN fields)
    IN  (IF emit THEN Emitted(tables, table, path, OwnColumns(tables[table], fields, isRoot))
         ELSE << >>)
        \o FlattenSeq([i \in DOMAIN names |->
                FieldMappings(tables, resolved, table, path, fields,
                              RootGroups(fields, isRoot), names[i])])

\* The fields of the rows of a collection that is one array, or one group.
FlattenedFields(fields) ==
    LET group == FlattenGroupedRoot(fields)
        array == FlattenRootArray(fields)
    IN  IF group # None THEN Some(ItemFields(fields[Representative(group[1])]))
        ELSE IF array # None THEN Some(ItemFields(fields[array[1]]))
        ELSE None

\* The row of a flattened root refers to its document by `<collection>_id`.
FlattenedColumns(table, fields, name) ==
    LET grouped == FlattenGroupedRoot(fields) # None
        items   == FlattenedFields(fields)[1]
        source(c) ==
            IF c = ParentIdColumn(name) THEN Some(<< "_id" >>)
            ELSE IF ~ grouped THEN SourceField(items, c, FALSE)
            ELSE IF c = "key" THEN Some(<< "key" >>)
            ELSE FirstOf(SelectSeq([i \in DOMAIN Ordered(DOMAIN items) |->
                                        << Ordered(DOMAIN items)[i] >>],
                                   LAMBDA p : Sanitize(p[1]) = c))
    IN  MappedColumns(table, FALSE, [c \in Names(table) |-> source(c)])

\* The names of all tables below the root, from the names of the DDL.
NamedTables(fields, root) ==
    LET flat == FlattenedFields(fields)
    IN  NameChildren([assigned |-> Reserved \cup {root}, renames |-> << >>, resolved |-> << >>],
                     root, root, IF flat = None THEN fields ELSE flat[1], flat = None)

FlattenedMapping(table, fields, name) ==
    [table |-> table.name, path |-> << >>, ddl |-> table,
     cols |-> FlattenedColumns(table, fields, name)]

RootMappings(tables, resolved, root, fields, name) ==
    LET flat  == FlattenedFields(fields)
        plain == flat = None
    IN  IF ~ plain /\ root \notin DOMAIN tables THEN << >>
        ELSE (IF plain THEN << >> ELSE << FlattenedMapping(tables[root], fields, name) >>)
             \o TableMappings(tables, resolved, root, << >>,
                              IF plain THEN fields ELSE flat[1], plain, plain)

MappingsOf(ddl, named, fields, name) ==
    RootMappings(RenamedTables(ddl, named.renames), named.resolved, Head(ddl).name,
                 fields, name)

MappingsFrom(ddl, fields, name) ==
    MappingsOf(ddl, NamedTables(fields, Head(ddl).name), fields, name)

CollectionMappings(fields, name) == MappingsFrom(SchemaToDdl(fields, name), fields, name)

(***************************************************************************)
(* The paths follow the foreign keys, and every mapping gets its plan.     *)
(***************************************************************************)
ParentTable(m) == IF m.ddl.ref = << >> THEN None ELSE Some(m.ddl.ref[1].table)

\* Of two mappings of one table, the later one's path counts.
PathOf(mappings, table) ==
    LET at == { i \in DOMAIN mappings : mappings[i].table = table }
    IN  IF at = {} THEN None ELSE Some(mappings[CHOOSE i \in at : \A j \in at : j <= i].path)

\* A path directly below the document keeps the wrappers it goes through.
ReconcileOne(mappings, i) ==
    LET m      == mappings[i]
        parent == IF ParentTable(m) = None THEN None ELSE PathOf(mappings, ParentTable(m)[1])
    IN  IF m.path = << >> \/ parent = None THEN mappings
        ELSE IF parent[1] = << >> /\ Len(m.path) > 1 THEN mappings
        ELSE [mappings EXCEPT ![i].path = Append(parent[1], Last(@))]

RECURSIVE Reconciled(_)
Reconciled(mappings) ==
    LET next == FoldLeft(ReconcileOne, mappings, [i \in DOMAIN mappings |-> i])
    IN  IF next = mappings THEN mappings ELSE Reconciled(next)

\* How the rows of a table are found in a document.
Traversal(m) ==
    LET fk      == IF m.ddl.ref = << >> THEN None ELSE Some(m.ddl.ref[1].col)
        targets == { m.cols[i].col : i \in DOMAIN m.cols }
        own     == targets \ ({"id", "key"} \cup Range(fk))
    IN  [mode   |-> CASE m.path = << >>   -> "Root"
                      [] m.path # << >> /\ own = {"value"} -> "ArrayScalar"
                      [] m.path # << >> /\ own # {"value"} /\ "key" \in targets -> "MapObject"
                      [] OTHER -> "Object",
         source |-> IF m.path = << >> THEN None ELSE Some(Last(m.path)),
         fk     |-> fk]

WithPlans(mappings) ==
    [i \in DOMAIN mappings |-> [plan |-> Traversal(mappings[i])] @@ mappings[i]]

Mappings(fields, name) == WithPlans(Reconciled(CollectionMappings(fields, name)))

(***************************************************************************)
(* The script `to-pg` renders from the mapping files: parents first.       *)
(***************************************************************************)
RECURSIVE VisitTable(_, _, _, _)
VisitTable(acc, byName, visiting, name) ==
    IF name \in Range(acc) \/ name \in visiting \/ name \notin DOMAIN byName THEN acc
    ELSE LET refs == byName[name].ref
             parents == FoldLeft(LAMBDA a, r :
                            VisitTable(a, byName, visiting \cup {name}, r.table), acc, refs)
         IN  Append(parents, name)

OrderedTables(tables) ==
    LET byName == FoldLeft(LAMBDA acc, t : (t.name :> t) @@ acc, << >>, tables)
        names  == FoldLeft(LAMBDA acc, t : VisitTable(acc, byName, {}, t.name), << >>, tables)
    IN  [i \in DOMAIN names |-> byName[names[i]]]
=============================================================================
