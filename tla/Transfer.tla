------------------------------ MODULE Transfer ------------------------------
(***************************************************************************)
(* Exports and imports of one project.  An operator starts an export or    *)
(* imports, never an export while an import runs or the other way round;   *)
(* two imports may run at once.                                            *)
(***************************************************************************)
EXTENDS Export, Import

CONSTANT
    FirstDocs       \* documents stored before the first command

ASSUME FirstDocsAssumption == FirstDocs \subseteq Docs

VARIABLES
    basis,          \* the documents the artifacts should hold, or None
    alone           \* import: no other one has run while it did

vars == <<natural, remote, files, objects, xpc, jobs, members, exports,
          started, next, wpc, job, source, cursor, last, retry, counter, broken,
          failedJobs, doneJobs, tables, rows, ipc, kind, nth, existing, staged,
          csvs, tx, why, lost, basis, alone>>

TypeOK ==
    /\ \A c \in Colls : natural[c] \in Seq({d \in Docs : CollOf[d] = c})
    /\ remote \in BOOLEAN
    /\ \A p \in DOMAIN files : p \in Path /\ files[p] \in File
    /\ \A p \in DOMAIN objects : p \in Path /\ objects[p] \in File
    /\ ExportTypeOK /\ ImportTypeOK

\* A scan of the collection returns the documents in the order of their _id.
Ordered(c) == \A i, j \in DOMAIN natural[c] :
                i < j => natural[c][i] < natural[c][j]

\* The export is about to end without an error, and no cursor that it opened
\* again had begun with a scan in another order.
Sound == failedJobs = {} /\ \A c \in broken : Ordered(c)

Running == {p \in Importers : ipc[p] \notin AtRest}

\* The orders a scan of a collection may have at the beginning.
ScansOf(c) == SetToSeqs({d \in FirstDocs : CollOf[d] = c})
MaxScan    == Max({Cardinality({d \in FirstDocs : CollOf[d] = c}) : c \in Colls})

Init ==
    /\ remote \in BOOLEAN /\ files = <<>> /\ objects = <<>>
    /\ natural \in {f \in [Colls -> BoundedSeq(FirstDocs, MaxScan)] :
                     \A c \in Colls : f[c] \in ScansOf(c)}
    /\ ExportInit /\ ImportInit
    /\ basis = None
    /\ alone = [p \in Importers |-> TRUE]

\* No export runs once an import has begun.
DoExport ==
    /\ \A p \in Importers : ipc[p] = "idle"
    /\ \/ /\ StartExport \/ WorkerStep \/ \E d \in Docs : Store(d)
          /\ UNCHANGED basis
       \/ EndExport /\ basis' = IF Sound THEN started ELSE None
       \/ KillExport /\ basis' = None
    /\ UNCHANGED <<importVars, alone>>

BeginImport(p) ==
    /\ xpc \notin {"idle", "running"}
    /\ StartImport(p)
    /\ alone' = [q \in Importers |->
                    IF q = p THEN Running = {}
                    ELSE alone[q] /\ q \notin Running]
    /\ UNCHANGED <<exportVars, basis>>

DoImport ==
    /\ \E p \in Importers :
         \/ StageData(p) \/ CheckFile(p) \/ RunDdl(p) \/ Discover(p)
         \/ Copy(p) \/ CommitLoad(p) \/ WriteReport(p) \/ LoseImport(p)
    /\ UNCHANGED <<exportVars, basis, alone>>

Next == DoExport \/ DoImport \/ \E p \in Importers : BeginImport(p)

Spec == Init /\ [][Next]_vars

----------------------------------------------------------------------------
(* Properties.                                                             *)

Loaded(p, t) == {r \in rows : r.by = p /\ r.table = t}

\* End to end: an import into new tables that commits after a sound export has
\* loaded, for every document that was there when the export started, its root
\* row and all its child rows, and no document in part.
LoadedIsExported ==
    \A p \in Importers :
        ipc[p] = "report" /\ kind[p] = "import" /\ basis # None =>
        LET roots == UNION {Loaded(p, RootOf[g]) : g \in Range(SqlFiles)}
            kids  == UNION {Loaded(p, ChildOf[g]) : g \in Range(SqlFiles)}
        IN  /\ basis \subseteq {r.doc : r \in roots}
            /\ \A r \in roots :
                 Cardinality({k \in kids : k.doc = r.doc}) = KidsOf[r.doc]

\* An import that runs alone after a sound export is not refused for what the
\* export has written: no key twice, no missing parent, no broken file.
SoundExportLoads ==
    \A p \in Importers :
        kind[p] = "import" /\ basis # None /\ alone[p] =>
            why[p] \notin {"key", "fk", "gzip", "missing", "ddl", "nofile"}

\* Rows of an import are visible as a whole once it has committed, and none of
\* them before or when it fails.
AllOrNothing ==
    \A p \in Importers :
        /\ ipc[p] \in Preload \/ why[p] \notin {None, "report"} =>
             \A r \in rows : r.by # p
        /\ ipc[p] = "report" =>
             \A i \in DOMAIN csvs[p] : Lines(p, csvs[p][i]) \subseteq rows

\* Without --force an import adds rows only to tables it has created itself,
\* also when another one passes the preflight at the same time.
LoadsOnlyOwnTables ==
    \A p \in Importers : kind[p] = "import" =>
        \A r \in rows : r.by = p => tables[r.table] = p

\* Two imports into the same tables never wait for each other.
NoMutualWait ==
    \A p, v \in Importers : ~(WaitsFor(p, v) /\ WaitsFor(v, p))

\* When an export has ended, every job has either been done or is named in its
\* error: a worker whose job fails loses none of the others.
EveryJobAccounted ==
    [][xpc = "running" /\ xpc' \in {"ok", "failed"} =>
          doneJobs \union failedJobs = Range(jobs)]_vars
============================================================================
