----------------------------- MODULE PostImport -----------------------------
(***************************************************************************)
(* The post-import report of a collection: for every object and array of   *)
(* the schema the number of rows the documents should have given, next to  *)
(* the number of rows of the table it is attached to.                      *)
(*                                                                         *)
(* A node is [field, kind, table, kids]; `table` is None when no table was *)
(* found for it, and its rows are then never compared.                     *)
(***************************************************************************)
EXTENDS Checksum, ReportRules

(***************************************************************************)
(* The table of a path.  A merged table has no path of its own: it is      *)
(* found by the first segment of the fields its columns are read from.     *)
(***************************************************************************)
PathTables(mappings) ==
    LET aliases(m) ==
            IF m.path = << >> /\ m.ddl.ref # << >>
            THEN { << Head(m.cols[i].src) >> : i \in DOMAIN m.cols } \ { << "_id" >>, << "key" >> }
            ELSE {}
        paths(m) == {m.path} \cup aliases(m)
    IN  FoldLeft(LAMBDA acc, m : acc @@ [p \in paths(m) |-> m.table], << >>, mappings)

\* A path no mapping names is given the name a table of its own would have.
NodeTable(byPath, tables, parent, path) ==
    LET name == IF path \in DOMAIN byPath THEN byPath[path]
                ELSE ChildTableName(parent, Sanitize(Last(path)))
    IN  [name |-> name, found |-> IF name \in tables THEN Some(name) ELSE None]

\* Fault: a map is counted as one object.
NoMapFields(fields) == None

\* The fields of the values of a map: those of its first entry with fields.
DynamicMapFields(fields) ==
    IF fields # << >> /\ DOMAIN fields \subseteq HexKeys \cup UuidKeys
    THEN MapValueFields(fields) ELSE None

RECURSIVE FieldNodes(_, _, _, _, _)
FieldNodes(byPath, tables, parent, path, fields) ==
    LET node(n, kind, sub) ==
            LET below == Append(path, n)
                t     == NodeTable(byPath, tables, parent, below)
            IN  << [field |-> n, kind |-> kind, table |-> t.found,
                    kids |-> FieldNodes(byPath, tables, t.name, below, sub)] >>
        of(n) ==
            LET f == fields[n]
                values == DynamicMapFields(ObjectFields(f))
            IN  IF Sole(f, "Object")
                THEN IF f.types["Object"].asJsonb THEN << >>
                     ELSE IF values # None THEN node(n, "MapObject", values[1])
                     ELSE node(n, "Object", ObjectFields(f))
                ELSE IF ~ Sole(f, "Array") THEN << >>
                ELSE IF "Object" \in DOMAIN f.types["Array"].array[1].types
                THEN node(n, "ArrayObject", ItemFields(f))
                ELSE node(n, "ArrayScalar", << >>)
        names == Ordered(DOMAIN fields)
    IN  FlattenSeq([i \in DOMAIN names |-> of(names[i])])

(***************************************************************************)
(* Counting.  Every node counts the rows below the documents it is given.  *)
(***************************************************************************)
FullDocs(es) == SelectSeq(es, LAMBDA b : IsDoc(b) /\ ~ IsEmpty(b))

\* What a node finds in a document: the rows it counts and the documents its
\* kids are looked for in.
Found(node, d) ==
    LET v == Get(d, node.field)
        entries == [i \in DOMAIN v[1].fs |-> v[1].fs[i].v]
    IN  IF v = None THEN << >>
        ELSE CASE node.kind = "Object" /\ IsDoc(v[1]) -> FullDocs(v)
               [] node.kind = "MapObject" /\ IsDoc(v[1]) -> FullDocs(entries)
               [] node.kind = "ArrayObject" /\ IsArray(v[1]) -> FullDocs(v[1].es)
               [] node.kind = "ArrayScalar" /\ IsArray(v[1]) ->
                    SelectSeq(v[1].es, LAMBDA b : b.t # "Null")
               [] OTHER -> << >>

\* The tables of the nodes with their counts, a record [table, count] each.
RECURSIVE CountNodes(_, _)
CountNodes(nodes, docs) ==
    LET count(node) ==
            LET found == FlattenSeq([i \in DOMAIN docs |-> Found(node, docs[i])])
                own   == IF node.table = None THEN {}
                         ELSE { [table |-> node.table[1], count |-> Len(found)] }
            IN  own \cup CountNodes(node.kids, SelectSeq(found, IsDoc))
    IN  UNION { count(nodes[i]) : i \in DOMAIN nodes }

\* The root has the number of documents that was asked for when the report of
\* the collection began.
ReportCounts(fields, name, mappings, sql, documentCount, docs) ==
    LET root   == RootTableName(sql, name)
        tables == { sql[i].name : i \in DOMAIN sql }
        nodes  == FieldNodes(PathTables(mappings), tables, root, << >>, fields)
    IN  { [table |-> root, count |-> documentCount] } \cup CountNodes(nodes, docs)
=============================================================================
