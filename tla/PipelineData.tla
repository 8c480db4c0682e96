---------------------------- MODULE PipelineData ----------------------------
(***************************************************************************)
(* Pipeline with the data: what `infer`, `export`, `kafka-import` and the  *)
(* report compute from documents and rows, and whether it fits together.   *)
(***************************************************************************)
EXTENDS Pipeline, PostImport

(***************************************************************************)
(* The parameters of Pipeline.                                             *)
(***************************************************************************)
Planned(fields, mappings) ==
    [fields |-> fields, mappings |-> mappings,
     sql |-> OrderedTables([i \in DOMAIN mappings |-> mappings[i].ddl])]

InferredPlan(ds, asJsonb) ==
    LET fields == IF asJsonb THEN MarkObjectsAsJsonb(RawSchema(ds)) ELSE RawSchema(ds)
    IN  Planned(fields, Mappings(fields, Name))

\* The tables after the events of `ds`, one after another.
StreamLoad(p, ds) ==
    FoldLeft(LAMBDA acc, d : StreamDocument(acc, p.mappings, d),
             NoRows(p.sql) @@ [refused |-> FALSE], ds)

ExportLoad(p, ds) == [StreamLoad(p, << >>) EXCEPT !.rows = ExportedRows(p.sql, p.mappings, ds)]

PlanTargets(p) == Targets(p.fields, Name, p.mappings)

PlanCounts(p, documentCount, ds) ==
    ReportCounts(p.fields, Name, p.mappings, p.sql, documentCount, ds)

\* Whether PostgreSQL takes a cell in a column.
Fits(col, cell) ==
    LET v == cell[1]
        k == col.type.k
    IN  IF cell = None THEN col.null
        ELSE CASE k = "TEXT" -> TRUE
               [] k = "VARCHAR" -> DOMAIN v = {"text"} /\ Len(v.text) <= col.type.n
               [] k \in {"INTEGER", "BIGINT", "SERIAL", "BIGSERIAL", "NUMERIC",
                         "DOUBLE PRECISION"} -> DOMAIN v = {"text"} /\ v.text \in Numerals
               [] k = "BOOLEAN" -> DOMAIN v = {"text"} /\ v.text \in {"true", "false"}
               [] k = "UUID" -> DOMAIN v = {"uuid"}
               [] k = "JSONB" -> DOMAIN v = {"json"}
               [] k = "GEOMETRY" -> DOMAIN v = {"point"}
               [] k \in {"TIMESTAMPTZ", "DATE"} -> DOMAIN v = {"time"}
               [] OTHER -> DOMAIN v = {"list"}

\* Whether the rows of all tables can be committed: every cell fits, the keys
\* of a table differ, and every foreign key finds its row.
PgAccepts(sql, rows) ==
    \A t \in Range(sql) :
        LET rs == rows[t.name]
            keys(i) == [j \in DOMAIN PkCols(t) |-> rs[i][PkCols(t)[j].name]]
        IN  /\ \A i \in DOMAIN rs : \A j \in DOMAIN t.cols : Fits(t.cols[j], rs[i][t.cols[j].name])
            /\ \A i, j \in DOMAIN rs : i # j => keys(i) # keys(j)
            /\ \A i \in DOMAIN rs : \A k \in DOMAIN t.ref :
                   \E p \in Range(rows[t.ref[k].table]) : p[t.ref[k].pcol] = rs[i][t.ref[k].col]

(***************************************************************************)
(* Properties.                                                             *)
(***************************************************************************)
\* The analyzer of raw documents, which reads the first item of every array and
\* the first field of every document by itself, builds the same schema as the
\* analyzer of decoded documents (analyzer.rs:261, analyzer.rs:205).
SchemasAgree == stage = "infer" => RawSchema(sample) = DecodedSchema(sample)

\* The script creates every table once, after the tables its foreign keys refer
\* to, with different columns, and has a table for every mapping, with its
\* columns; no two mappings fill one table (shared.rs:446, infer.rs:2783).
ScriptIsOrdered ==
    LET sql == plan.sql
        columns(t) == [j \in DOMAIN t.cols |-> t.cols[j].name]
    IN  stage = "load" =>
        /\ \A i \in DOMAIN sql : \A k \in DOMAIN sql[i].ref :
               \E h \in 1 .. i - 1 : /\ sql[h].name = sql[i].ref[k].table
                                     /\ sql[i].ref[k].pcol \in Range(columns(sql[h]))
        /\ \A i, j \in DOMAIN sql : i # j => sql[i].name # sql[j].name
        /\ \A i \in DOMAIN sql : IsInjective(columns(sql[i]))
        /\ IsInjective([i \in DOMAIN plan.mappings |-> plan.mappings[i].table])
        /\ \A m \in Range(plan.mappings) : \E i \in DOMAIN sql :
               /\ sql[i].name = m.table
               /\ \A j \in DOMAIN m.cols : m.cols[j].col \in Range(columns(sql[i]))

\* What the tool does not carry over, and the properties except: a collection
\* that is one array has its rows exported as if it were not; of several arrays
\* of one shape only the first is exported; of two tables the renaming gives one
\* name only the later is kept; and a table merged from a point and an object is
\* taken to have a row for every document.
Flattened == FlattenedFields(plan.fields) # None
Grouped == GroupedRootFields(plan.fields) # {}
LosesTables(ddl) ==
    Cardinality(DOMAIN RenamedTables(ddl, NamedTables(plan.fields, Head(ddl).name).renames))
    < Len(ddl)
Overwritten == LosesTables(SchemaToDdl(plan.fields, Name))

\* Documents that were all in the sample can be loaded, on either route: their
\* values fit the types, lengths and NOT NULLs derived from them, and their rows
\* find their parents (ddl.rs:140, export.rs:2195, kafka_import.rs:2133).
SampledRowsFit ==
    stage = "failed" => sample # docs \/ Flattened \/ (Merged /\ route = "stream")

(***************************************************************************)
(* Rows up to their keys: a tree of cells for every row of the root.       *)
(***************************************************************************)
KeyColumns(t) ==
    { PkCols(t)[i].name : i \in DOMAIN PkCols(t) } \cup { t.ref[i].col : i \in DOMAIN t.ref }

RECURSIVE TreeOf(_, _, _, _)
TreeOf(sql, rows, t, row) ==
    LET kids == SelectSeq(sql, LAMBDA k : k.ref # << >> /\ k.ref[1].table = t.name)
        own(k) == SelectSeq(rows[k.name], LAMBDA r : r[k.ref[1].col] = row[k.ref[1].pcol])
    IN  [cells |-> [c \in DOMAIN row \ KeyColumns(t) |-> row[c]],
         kids  |-> [i \in DOMAIN kids |->
                      [j \in DOMAIN own(kids[i]) |->
                          TreeOf(sql, rows, kids[i], own(kids[i])[j])]]]

TreesOf(sql, rows) ==
    LET root == Head(sql)
    IN  [i \in DOMAIN rows[root.name] |-> TreeOf(sql, rows, root, rows[root.name][i])]

\* The rows streamed for the documents so far are those an export of them has,
\* with the same parents: only the keys differ, and what JSON has no type for
\* (kafka_import.rs:2114, export.rs:2266).
StreamedAsExported ==
    route = "stream" /\ stage \in {"load", "loaded"} /\ sample = docs =>
        TreesOf(plan.sql, loaded.rows) =
        TreesOf(plan.sql, ExportedRows(plan.sql, plan.mappings, source))

\* The scalars of a value, and of the cells of a tree of rows.
RECURSIVE Scalars(_), TreeScalars(_)
Scalars(b) ==
    CASE BsonToGeometry(b) # None /\ IsDoc(b) -> Range(BsonToGeometry(b)[1].point)
      [] IsDoc(b) /\ BsonToGeometry(b) = None -> UNION { Scalars(b.fs[i].v) : i \in DOMAIN b.fs }
      [] IsArray(b) -> UNION { Scalars(b.es[i]) : i \in DOMAIN b.es }
      [] IsNullType(b.t) -> {}
      [] OTHER -> {b.s}

CellScalars(v) ==
    CASE DOMAIN v = {"json"}  -> Scalars(v.json)
      [] DOMAIN v = {"list"}  -> UNION { { x.text } : x \in Range(v.list) }
      [] DOMAIN v = {"point"} -> Range(v.point)
      [] DOMAIN v = {"time"}  -> {v.time}
      [] DOMAIN v = {"uuid"}  -> {v.uuid}
      [] DOMAIN v = {"text"}  -> {v.text}

TreeScalars(tree) ==
    UNION { UNION { CellScalars(v) : v \in Range(tree.cells[c]) } : c \in DOMAIN tree.cells }
    \cup UNION { TreeScalars(kid) : kid \in UNION { Range(ks) : ks \in Range(tree.kids) } }

\* Every scalar of a loaded document that was in the sample is in a cell of its
\* row or of the rows below it (export.rs:1055, kafka_import.rs:2361).
NothingLost ==
    stage = "loaded" /\ sample = source /\ ~ Grouped /\ ~ Overwritten =>
        \A i \in DOMAIN source :
            Scalars([source[i] EXCEPT !.fs = SelectSeq(@, LAMBDA f : f.k # "_id")])
            \subseteq TreeScalars(TreesOf(plan.sql, loaded.rows)[i])

\* When the report is accepted, the mapped columns of every table that was
\* hashed, but for the id of the document, hold what an export of the documents
\* would write, as they are or as they were before a change under the report
\* (checksum.rs:925, shared.rs:2912).
Holds(m, exported) ==
    LET cols == { m.cols[i].col : i \in DOMAIN m.cols } \ {"id"}
        cells(rows) == [i \in DOMAIN rows |-> [c \in cols |-> rows[i][c]]]
    IN  SameBag(cells(exported[m.table]), cells(loaded.rows[m.table]))

AcceptedIsFaithful ==
    stage = "accepted" /\ exact =>
        \A m \in Range(plan.mappings) : m.table \in DOMAIN summaries =>
            \E ds \in versions : Holds(m, ExportedRows(plan.sql, plan.mappings, ds))
=============================================================================
