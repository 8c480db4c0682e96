------------------------------- MODULE Import -------------------------------
(***************************************************************************)
(* mongo2pg import, and the bootstrap of tables with which mongo2pg        *)
(* kafka-import begins: run_import and                                     *)
(* bootstrap_pg_objects_for_kafka_import.                                  *)
(*                                                                         *)
(* An import checks which of the tables of its SQL files exist, executes   *)
(* the SQL files one by one, chooses a CSV file per table and copies them  *)
(* in one transaction; then it analyzes the tables and writes a report.    *)
(* With --force it passes over the SQL files of which a table exists.      *)
(* Several imports may run at once against the same database.              *)
(***************************************************************************)
EXTENDS Artifacts

CONSTANTS
    Importers,      \* import and kafka-import processes
    MaxLost         \* bound: processes that lose their session or are killed

ASSUME ImportAssumption == MaxLost \in Nat

VARIABLES
    tables,         \* existing tables: the process that created each
    rows,           \* committed rows
    ipc,            \* process: what it does next
    kind,           \* process: import or kafka-import, with --force or not
    nth,            \* process: number of the SQL or CSV file it is at
    existing,       \* process: tables its preflight has found
    staged,         \* process: CSV files downloaded from the bucket
    csvs,           \* process: paths of the CSV files to copy
    tx,             \* process: rows its transaction has copied
    why,            \* process: what has ended it, or None
    lost            \* processes killed or cut off so far

database == <<tables, rows>>
importVars == <<tables, rows, ipc, kind, nth, existing, staged, csvs, tx, why,
                lost>>

Imports    == {"import", "import --force"}
Bootstraps == {"bootstrap", "bootstrap --force"}
Kinds      == Imports \union Bootstraps
Forced     == {"import --force", "bootstrap --force"}
Preload  == {"stage", "check", "ddl", "discover", "copy", "commit"}
AtRest   == {"idle", "done", "failed"}
Row      == [table : Tables, key : Nat, doc : Docs, by : Importers]
Reasons  == {"exists", "ddl", "nofile", "missing", "gzip", "key", "fk",
             "report", "lost"}

ASSUME ReasonsAssumption == None \notin Reasons

ImportTypeOK ==
    /\ DOMAIN tables \subseteq Tables /\ Range(tables) \subseteq Importers
    /\ rows \subseteq Row
    /\ ipc \in [Importers -> Preload \union AtRest \union {"report"}]
    /\ kind \in [Importers -> Kinds]
    /\ nth \in [Importers -> Nat]
    /\ existing \in [Importers -> SUBSET Tables]
    /\ \A p \in Importers : \A q \in DOMAIN staged[p] :
         q \in Path /\ staged[p][q] \in File
    /\ csvs \in [Importers -> Seq(Path)]
    /\ tx \in [Importers -> SUBSET Row]
    /\ why \in [Importers -> Reasons \union {None}]
    /\ lost \in 0 .. MaxLost

----------------------------------------------------------------------------
(* Files.                                                                  *)

\* Where p reads CSV files: the download from the bucket, or the data directory.
Data(p) == IF remote THEN staged[p] ELSE files

\* Position of a directory in the order of paths.
DirAt(dir) == CHOOSE i \in DOMAIN DirOrder : DirOrder[i] = dir
Earlier(p, q) == DirAt(p[1]) < DirAt(q[1])

\* The file for table t: of several the one whose path comes first.
Chosen(p, t) ==
    CHOOSE q \in DOMAIN Data(p) :
        /\ q[2] = t
        /\ \A r \in DOMAIN Data(p) : r[2] = t /\ r # q => Earlier(q, r)

\* The CSV files of tables of the SQL files, one per table.
Candidates(p) == {Chosen(p, t) : t \in {u \in Tables :
                                    \E q \in DOMAIN Data(p) : q[2] = u}}

\* Order of paths: by directory, then by name.
TableOrder == FlattenSeq([i \in DOMAIN SqlFiles |->
                            <<RootOf[SqlFiles[i]], ChildOf[SqlFiles[i]]>>])
PathOrder  == FlattenSeq([i \in DOMAIN DirOrder |->
                [j \in DOMAIN TableOrder |-> <<DirOrder[i], TableOrder[j]>>]])

\* Fault: the files are taken in the order of the hash map.
InAnyOrder(S) == {s \in [1 .. Cardinality(S) -> S] : IsInjective(s)}

\* The files are sorted before they are copied.
InOrder(S) == {Pick(PathOrder, S)}

----------------------------------------------------------------------------
(* Tables.                                                                 *)

\* Fault: CREATE TABLE IF NOT EXISTS.
CreateMissing(g) == TRUE

\* CREATE TABLE fails when one of the tables exists; a file is executed as a
\* whole or not at all.
CanCreate(g) == TablesOf(g) \intersect DOMAIN tables = {}

\* --force passes over the SQL files of which the preflight has found a table.
Reused(p, g) ==
    kind[p] \in Forced /\ TablesOf(g) \intersect existing[p] # {}

\* The tables the preflight has found, with those of the SQL file it is at.
FoundBy(p) ==
    existing[p] \union (TablesOf(SqlFiles[nth[p]]) \intersect DOMAIN tables)

\* The tables after SQL file g has been executed, or passed over.
Executed(p, g) ==
    IF Reused(p, g) \/ ~CanCreate(g) THEN tables
    ELSE [t \in DOMAIN tables \union TablesOf(g) |->
            IF t \in DOMAIN tables THEN tables[t] ELSE p]

\* The process ends, its transaction is rolled back, its downloads removed.
Leave(p, pc, reason) ==
    /\ ipc' = [ipc EXCEPT ![p] = pc]
    /\ why' = [why EXCEPT ![p] = reason]
    /\ tx' = [tx EXCEPT ![p] = {}]
    /\ nth' = [nth EXCEPT ![p] = 1]
    /\ existing' = [existing EXCEPT ![p] = {}]
    /\ staged' = [staged EXCEPT ![p] = <<>>]
    /\ csvs' = [csvs EXCEPT ![p] = <<>>]

End(p, reason) == Leave(p, "failed", reason)

----------------------------------------------------------------------------
(* Rows.                                                                   *)

Lines(p, q) ==
    {[table |-> q[2], key |-> Data(p)[q].lines[i].key,
      doc |-> Data(p)[q].lines[i].doc, by |-> p]
        : i \in DOMAIN Data(p)[q].lines}

SameKey(r, s) == r.table = s.table /\ r.key = s.key

\* Two lines of a file, or a line and a committed row, have the same key.
Collides(p, q) ==
    \/ \E i, j \in DOMAIN Data(p)[q].lines :
         i < j /\ Data(p)[q].lines[i].key = Data(p)[q].lines[j].key
    \/ \E r \in Lines(p, q) : \E s \in rows : SameKey(r, s)

\* COPY waits for the transaction of another process that has written a row of
\* the same key.
WaitsFor(p, v) ==
    /\ v # p /\ ipc[p] = "copy"
    /\ \E r \in Lines(p, csvs[p][nth[p]]) : \E s \in tx[v] : SameKey(r, s)

\* Every child row refers to a root row, checked at the COMMIT.
KeysHold(R) ==
    \A g \in Range(SqlFiles) : \A r \in R :
        r.table = ChildOf[g] =>
            \E s \in R : s.table = RootOf[g] /\ s.key = r.doc

----------------------------------------------------------------------------
ImportInit ==
    /\ tables = <<>> /\ rows = {}
    /\ ipc = [p \in Importers |-> "idle"]
    /\ kind = [p \in Importers |-> "import"]
    /\ nth = [p \in Importers |-> 1]
    /\ existing = [p \in Importers |-> {}]
    /\ staged = [p \in Importers |-> <<>>]
    /\ csvs = [p \in Importers |-> <<>>]
    /\ tx = [p \in Importers |-> {}]
    /\ why = [p \in Importers |-> None]
    /\ lost = 0

StartImport(p) ==
    /\ ipc[p] = "idle"
    /\ \E k \in Kinds :
         /\ kind' = [kind EXCEPT ![p] = k]
         /\ ipc' = [ipc EXCEPT ![p] =
                      IF k \in Imports /\ remote THEN "stage" ELSE "check"]
    /\ UNCHANGED <<natural, remote, files, objects, database, nth, existing,
                   staged, csvs, tx, why, lost>>

\* The data directory of the database is downloaded; without a CSV file in the
\* bucket there is no data directory to read.
StageData(p) ==
    /\ ipc[p] = "stage"
    /\ IF objects = <<>>
       THEN End(p, "nofile")
       ELSE /\ staged' = [staged EXCEPT ![p] = objects]
            /\ ipc' = [ipc EXCEPT ![p] = "check"]
            /\ UNCHANGED <<nth, existing, csvs, tx, why>>
    /\ UNCHANGED <<natural, remote, files, objects, database, kind, lost>>

\* The preflight looks up the tables of one SQL file.  After the last file an
\* existing table ends a process without --force.
CheckFile(p) ==
    LET found == FoundBy(p)
        more  == nth[p] < Len(SqlFiles)
    IN
    /\ ipc[p] = "check"
    /\ IF ~more /\ kind[p] \notin Forced /\ found # {}
       THEN End(p, "exists")
       ELSE /\ existing' = [existing EXCEPT ![p] = found]
            /\ nth' = [nth EXCEPT ![p] = IF more THEN @ + 1 ELSE 1]
            /\ ipc' = [ipc EXCEPT ![p] = IF more THEN "check" ELSE "ddl"]
            /\ UNCHANGED <<staged, csvs, tx, why>>
    /\ UNCHANGED <<natural, remote, files, objects, database, kind, lost>>

\* One SQL file is executed or passed over.
RunDdl(p) ==
    LET g    == SqlFiles[nth[p]]
        more == nth[p] < Len(SqlFiles)
    IN
    /\ ipc[p] = "ddl"
    /\ tables' = Executed(p, g)
    /\ IF ~Reused(p, g) /\ ~CanCreate(g)
       THEN End(p, "ddl")
       ELSE IF ~more /\ kind[p] \in Bootstraps
       THEN Leave(p, "done", None)
       ELSE /\ ipc' = [ipc EXCEPT ![p] = IF more THEN "ddl" ELSE "discover"]
            /\ nth' = [nth EXCEPT ![p] = IF more THEN @ + 1 ELSE 1]
            /\ UNCHANGED <<existing, staged, csvs, tx, why>>
    /\ UNCHANGED <<natural, remote, files, objects, rows, kind, lost>>

\* The CSV files are found and a transaction is begun.
Discover(p) ==
    /\ ipc[p] = "discover"
    /\ IF Candidates(p) = {}
       THEN End(p, "nofile")
       ELSE /\ \E s \in InOrder(Candidates(p)) : csvs' = [csvs EXCEPT ![p] = s]
            /\ ipc' = [ipc EXCEPT ![p] = "copy"]
            /\ UNCHANGED <<nth, existing, staged, tx, why>>
    /\ UNCHANGED <<natural, remote, files, objects, database, kind, lost>>

\* Fault: COPY outside a transaction.
LoadAtOnce(p, new) == rows' = rows \union new /\ UNCHANGED tx

\* The copied rows belong to the transaction.
Load(p, new) ==
    /\ tx' = [tx EXCEPT ![p] = @ \union new]
    /\ UNCHANGED rows

\* One CSV file is unzipped and copied into its table.
Copy(p) ==
    LET q == csvs[p][nth[p]]
        refusal == IF q[2] \notin DOMAIN tables THEN "missing"
                   ELSE IF ~Data(p)[q].whole THEN "gzip"
                   ELSE IF Collides(p, q) THEN "key" ELSE None
    IN
    /\ ipc[p] = "copy"
    /\ \A v \in Importers : ~WaitsFor(p, v)
    /\ IF refusal # None
       THEN End(p, refusal) /\ UNCHANGED rows
       ELSE /\ Load(p, Lines(p, q))
            /\ nth' = [nth EXCEPT ![p] = @ + 1]
            /\ ipc' = [ipc EXCEPT ![p] =
                         IF nth[p] = Len(csvs[p]) THEN "commit" ELSE "copy"]
            /\ UNCHANGED <<existing, staged, csvs, why>>
    /\ UNCHANGED <<natural, remote, files, objects, tables, kind, lost>>

CommitLoad(p) ==
    /\ ipc[p] = "commit"
    /\ IF KeysHold(rows \union tx[p])
       THEN /\ rows' = rows \union tx[p]
            /\ tx' = [tx EXCEPT ![p] = {}]
            /\ ipc' = [ipc EXCEPT ![p] = "report"]
            /\ UNCHANGED <<nth, existing, staged, csvs, why>>
       ELSE End(p, "fk") /\ UNCHANGED rows
    /\ UNCHANGED <<natural, remote, files, objects, tables, kind, lost>>

\* ANALYZE and the report: a failure is the command's, the rows are there.
WriteReport(p) ==
    /\ ipc[p] = "report"
    /\ Leave(p, "done", None) \/ End(p, "report")
    /\ UNCHANGED <<natural, remote, files, objects, database, kind, lost>>

\* The process is killed, loses its session or cannot read a file.  Before its
\* first statement that would be the same as not to have begun.
LoseImport(p) ==
    /\ ipc[p] \in {"ddl", "copy", "commit"} /\ lost < MaxLost
    /\ End(p, "lost")
    /\ lost' = lost + 1
    /\ UNCHANGED <<natural, remote, files, objects, database, kind>>

ImportNext ==
    \/ \E p \in Importers :
         \/ StartImport(p) \/ StageData(p) \/ CheckFile(p) \/ RunDdl(p)
         \/ Discover(p) \/ Copy(p) \/ CommitLoad(p) \/ WriteReport(p)
         \/ LoseImport(p)
============================================================================
