------------------------------- MODULE Export -------------------------------
(***************************************************************************)
(* mongo2pg export: run_export_impl plans a job per SQL file, and workers  *)
(* take the jobs from a shared counter.  A job empties its directory,      *)
(* streams its collections one after another into gzipped CSV files, a     *)
(* header and a file per table, and uploads the files when the artifacts   *)
(* go to a bucket.                                                         *)
(*                                                                         *)
(* A cursor may fail at any document.  It is opened again for the          *)
(* documents with an _id greater than the last one returned, a number of   *)
(* times in a row that a document starts anew.                             *)
(***************************************************************************)
EXTENDS Artifacts

CONSTANTS
    Workers,        \* export workers
    CursorRetryMax, \* failures in a row before a job fails
    MaxExports      \* bound: exports started

ASSUME ExportAssumption ==
    Workers # {} /\ CursorRetryMax \in Nat /\ MaxExports \in Nat

VARIABLES
    xpc,            \* the export command
    jobs,           \* SQL files to export, in the order they are taken
    members,        \* SQL file: the collections exported through it
    next,           \* the shared counter: next job
    wpc,            \* worker: what it does next
    job,            \* worker: the job in hand, or None
    source,         \* worker: which member is being streamed
    cursor,         \* worker: documents the cursor has yet to return
    last,           \* worker: last_seen_id, or None
    retry,          \* worker: cursor_retry_attempt
    counter,        \* worker: last number given to a child row
    failedJobs,     \* jobs that have failed
    doneJobs,       \* jobs that have not
    exports,        \* exports started
    started,        \* documents there were when the export started
    broken          \* collections whose cursor has failed in this export

command == <<xpc, jobs, members, exports, started>>
stream  == <<source, cursor, last, retry, counter, broken>>
outcome == <<failedJobs, doneJobs>>
exportVars == <<xpc, jobs, members, exports, started, next, wpc, job, source,
                cursor, last, retry, counter, broken, failedJobs, doneJobs>>

ExportTypeOK ==
    /\ xpc \in {"idle", "running", "ok", "failed", "killed"}
    /\ jobs \in Seq(Range(SqlFiles))
    /\ members \in [Range(SqlFiles) -> Seq(Colls)]
    /\ next \in 1 .. Len(jobs) + 1
    /\ wpc \in [Workers -> {"take", "find", "fetch", "upload", "ended"}]
    /\ job \in [Workers -> Range(SqlFiles) \union {None}]
    /\ source \in [Workers -> Nat]
    /\ cursor \in [Workers -> Seq(Docs)]
    /\ last \in [Workers -> Docs \union {None}]
    /\ retry \in [Workers -> 0 .. CursorRetryMax]
    /\ counter \in [Workers -> Nat]
    /\ failedJobs \subseteq Range(SqlFiles) /\ doneJobs \subseteq Range(SqlFiles)
    /\ exports \in 0 .. MaxExports
    /\ started \subseteq Docs /\ broken \subseteq Colls

----------------------------------------------------------------------------
(* The plan.                                                               *)

\* The members of an SQL file: collections that are there, sorted.
MembersOf(g) ==
    Pick(DirOrder, {c \in Colls : FileOf[c] = g /\ natural[c] # <<>>})

\* A job per SQL file with a member, ordered by its name.
PlannedJobs ==
    Pick(SqlFiles, {g \in Range(SqlFiles) : MembersOf(g) # <<>>})

\* A lone collection is exported to a directory of its own name, a group to
\* one of the name of its SQL file.
DirOf(g) == IF Len(members[g]) = 1 THEN members[g][1] ELSE g

\* One file per table of the SQL file, and a copy under each alias.
Expected(g) ==
    {<<DirOf(g), t>> : t \in
        TablesOf(g) \union ({AliasOf[u] : u \in TablesOf(g)} \ {None})}

CurrentColl(w) == members[job[w]][source[w]]

----------------------------------------------------------------------------
(* The stream.                                                             *)

\* Fault: a cursor that has failed is taken for one at its end.
EndsAtFailure(c, seen) == IF seen = None THEN natural[c] ELSE <<>>

\* The order of the _id index.
IdOrder == [d \in 1 .. Max(Docs \union {0}) |-> d]

\* The documents a find returns: all in natural order, or those after the last
\* one seen in the order of the _id index.
Found(c, seen) ==
    IF seen = None THEN natural[c]
    ELSE Pick(IdOrder, {d \in Range(natural[c]) : d > seen})

\* extract_rows_with_mapping: the lines of a document, its child rows counted
\* on from n.
RootLine(d)     == <<[key |-> d, doc |-> d]>>
ChildLines(d, n) == [i \in 1 .. KidsOf[d] |-> [key |-> n + i, doc |-> d]]

\* The files of g with the lines of document d added.
WithRows(g, d, n) ==
    [p \in DOMAIN files |->
        IF p = <<DirOf(g), RootOf[g]>>
        THEN [files[p] EXCEPT !.lines = @ \o RootLine(d)]
        ELSE IF p = <<DirOf(g), ChildOf[g]>>
        THEN [files[p] EXCEPT !.lines = @ \o ChildLines(d, n)]
        ELSE files[p]]

\* finish_writers and sync_alias_export_files.
Finished(g) ==
    LET dir == DirOf(g)
        src(t) == IF t \in TablesOf(g) THEN t
                  ELSE CHOOSE u \in TablesOf(g) : AliasOf[u] = t
    IN  [p \in DOMAIN files \union Expected(g) |->
            IF p \in Expected(g)
            THEN [files[<<dir, src(p[2])>>] EXCEPT !.whole = TRUE]
            ELSE files[p]]

\* The job of w is over, and with it what it knew of its stream.
LeaveJob(w, pc) ==
    /\ wpc' = [wpc EXCEPT ![w] = pc]
    /\ job' = [job EXCEPT ![w] = None]
    /\ source' = [source EXCEPT ![w] = 0]
    /\ cursor' = [cursor EXCEPT ![w] = <<>>]
    /\ last' = [last EXCEPT ![w] = None]
    /\ retry' = [retry EXCEPT ![w] = 0]
    /\ counter' = [counter EXCEPT ![w] = 0]

\* Fault: the failure of a job is dropped.
DropFailure(w) == LeaveJob(w, "take") /\ UNCHANGED outcome

\* A job that fails is noted, and the worker goes on to the next one.
NoteFailure(w) ==
    /\ failedJobs' = failedJobs \union {job[w]}
    /\ LeaveJob(w, "take")
    /\ UNCHANGED doneJobs

\* The writers of a failed job are dropped, which ends their gzip streams: what
\* has been written looks like a complete file.
DropWriters(g) ==
    files' = [p \in DOMAIN files |->
                IF p \in InDir(DirOf(g)) THEN [files[p] EXCEPT !.whole = TRUE]
                ELSE files[p]]

----------------------------------------------------------------------------
ExportInit ==
    /\ xpc = "idle" /\ jobs = <<>> /\ next = 1
    /\ members = [g \in Range(SqlFiles) |-> <<>>]
    /\ wpc = [w \in Workers |-> "ended"]
    /\ job = [w \in Workers |-> None]
    /\ source = [w \in Workers |-> 0]
    /\ cursor = [w \in Workers |-> <<>>]
    /\ last = [w \in Workers |-> None]
    /\ retry = [w \in Workers |-> 0]
    /\ counter = [w \in Workers |-> 0]
    /\ failedJobs = {} /\ doneJobs = {} /\ exports = 0
    /\ started = {} /\ broken = {}

\* The jobs are planned from the collections the database lists.  Artifacts
\* for a bucket are staged in a new directory.
StartExport ==
    /\ xpc # "running" /\ exports < MaxExports /\ PlannedJobs # <<>>
    /\ xpc' = "running" /\ exports' = exports + 1
    /\ jobs' = PlannedJobs /\ next' = 1
    /\ members' = [g \in Range(SqlFiles) |-> MembersOf(g)]
    /\ wpc' = [w \in Workers |-> "take"]
    /\ failedJobs' = {} /\ doneJobs' = {} /\ broken' = {}
    /\ started' = Stored
    /\ files' = IF remote THEN <<>> ELSE files
    /\ UNCHANGED <<natural, remote, objects, job, source, cursor, last, retry,
                   counter>>

\* The next job is taken off the shared counter.  Files of its directory that
\* are not expected are removed, expected ones are reset, and a writer with a
\* header is opened for each table.
TakeJob(w) ==
    LET g   == jobs[next]
        dir == DirOf(g)
    IN
    /\ wpc[w] = "take" /\ next <= Len(jobs)
    /\ next' = next + 1
    /\ job' = [job EXCEPT ![w] = g]
    /\ files' = [p \in (DOMAIN files \ InDir(dir))
                         \union {<<dir, t>> : t \in TablesOf(g)} |->
                    IF p[1] = dir THEN [lines |-> <<>>, whole |-> FALSE]
                    ELSE files[p]]
    /\ wpc' = [wpc EXCEPT ![w] = "find"]
    /\ source' = [source EXCEPT ![w] = 1]
    /\ UNCHANGED <<natural, remote, objects, command, cursor, last, retry,
                   counter, broken, outcome>>

NoMoreJobs(w) ==
    /\ wpc[w] = "take" /\ next > Len(jobs)
    /\ wpc' = [wpc EXCEPT ![w] = "ended"]
    /\ UNCHANGED <<natural, remote, files, objects, command, next, job, stream,
                   outcome>>

OpenCursor(w) ==
    /\ wpc[w] = "find"
    /\ cursor' = [cursor EXCEPT ![w] = Found(CurrentColl(w), last[w])]
    /\ wpc' = [wpc EXCEPT ![w] = "fetch"]
    /\ UNCHANGED <<natural, remote, files, objects, command, next, job, source,
                   last, retry, counter, broken, outcome>>

\* find fails with and without no_cursor_timeout.
FindFails(w) ==
    /\ wpc[w] = "find"
    /\ NoteFailure(w) /\ DropWriters(job[w])
    /\ UNCHANGED <<natural, remote, objects, command, next, broken>>

\* A document is returned and its rows are written.
Fetch(w) ==
    /\ wpc[w] = "fetch" /\ cursor[w] # <<>>
    /\ cursor' = [cursor EXCEPT ![w] = Tail(@)]
    /\ last' = [last EXCEPT ![w] = Head(cursor[w])]
    /\ retry' = [retry EXCEPT ![w] = 0]
    /\ files' = WithRows(job[w], Head(cursor[w]), counter[w])
    /\ counter' = [counter EXCEPT ![w] = @ + KidsOf[Head(cursor[w])]]
    /\ UNCHANGED <<natural, remote, objects, command, next, wpc, job, source,
                   broken, outcome>>

\* Fault: one failure more.
OnceMore(w) == retry[w] <= CursorRetryMax

MayRetry(w) == retry[w] < CursorRetryMax

CursorFails(w) ==
    /\ wpc[w] = "fetch"
    /\ broken' = broken \union {CurrentColl(w)}
    /\ IF MayRetry(w)
       THEN /\ retry' = [retry EXCEPT ![w] = @ + 1]
            /\ cursor' = [cursor EXCEPT ![w] = <<>>]
            /\ wpc' = [wpc EXCEPT ![w] = "find"]
            /\ UNCHANGED <<files, job, source, last, counter, outcome>>
       ELSE NoteFailure(w) /\ DropWriters(job[w])
    /\ UNCHANGED <<natural, remote, objects, command, next>>

\* Fault: the child rows of each collection are counted from one.
CountAnew(w) == counter' = [counter EXCEPT ![w] = 0]

\* The child rows of a job are counted over all its collections.
CountOn(w) == counter' = counter

\* The cursor has returned all its documents, and there is another collection.
NextSource(w) ==
    /\ wpc[w] = "fetch" /\ cursor[w] = <<>>
    /\ source[w] < Len(members[job[w]])
    /\ source' = [source EXCEPT ![w] = @ + 1]
    /\ last' = [last EXCEPT ![w] = None]
    /\ retry' = [retry EXCEPT ![w] = 0]
    /\ CountOn(w)
    /\ wpc' = [wpc EXCEPT ![w] = "find"]
    /\ UNCHANGED <<natural, remote, files, objects, command, next, job, cursor,
                   broken, outcome>>

JobDone(w) ==
    /\ doneJobs' = doneJobs \union {job[w]}
    /\ LeaveJob(w, "take")

\* All collections are written: the gzip streams end, the aliases are copied.
FinishFiles(w) ==
    /\ wpc[w] = "fetch" /\ cursor[w] = <<>>
    /\ source[w] = Len(members[job[w]])
    /\ files' = Finished(job[w])
    /\ IF remote
       THEN /\ wpc' = [wpc EXCEPT ![w] = "upload"]
            /\ UNCHANGED <<job, doneJobs, source, cursor, last, retry, counter>>
       ELSE JobDone(w)
    /\ UNCHANGED <<natural, remote, objects, command, next, broken, failedJobs>>

\* A staged file is uploaded under the name of the SQL file and removed.
Upload(w) ==
    /\ wpc[w] = "upload"
    /\ \E p \in InDir(DirOf(job[w])) :
         /\ objects' = [q \in DOMAIN objects \union {<<job[w], p[2]>>} |->
                            IF q = <<job[w], p[2]>> THEN files[p]
                            ELSE objects[q]]
         /\ files' = Without(files, {p})
    /\ UNCHANGED <<natural, remote, command, next, wpc, job, stream, outcome>>

UploadFails(w) ==
    /\ wpc[w] = "upload" /\ InDir(DirOf(job[w])) # {}
    /\ NoteFailure(w)
    /\ UNCHANGED <<natural, remote, files, objects, command, next, broken>>

AllUploaded(w) ==
    /\ wpc[w] = "upload" /\ InDir(DirOf(job[w])) = {}
    /\ JobDone(w)
    /\ UNCHANGED <<natural, remote, files, objects, command, next, broken,
                   failedJobs>>

\* The process is over, and with it what its workers knew.  The staging
\* directory is removed after a success; one that is left is never read.
LeaveExport(pc) ==
    /\ xpc' = pc /\ jobs' = <<>> /\ next' = 1
    /\ members' = [g \in Range(SqlFiles) |-> <<>>]
    /\ started' = {} /\ broken' = {} /\ failedJobs' = {} /\ doneJobs' = {}
    /\ wpc' = [w \in Workers |-> "ended"]
    /\ job' = [w \in Workers |-> None]
    /\ source' = [w \in Workers |-> 0]
    /\ cursor' = [w \in Workers |-> <<>>]
    /\ last' = [w \in Workers |-> None]
    /\ retry' = [w \in Workers |-> 0]
    /\ counter' = [w \in Workers |-> 0]
    /\ files' = IF remote THEN <<>> ELSE files
    /\ UNCHANGED <<natural, remote, objects, exports>>

\* All workers have ended: the export fails if one of its jobs has.
EndExport ==
    /\ xpc = "running" /\ \A w \in Workers : wpc[w] = "ended"
    /\ LeaveExport(IF failedJobs = {} THEN "ok" ELSE "failed")

\* The process is killed: files it was writing are cut short.
KillExport == xpc = "running" /\ LeaveExport("killed")

\* An application stores a document; a cursor that is open on its collection
\* may return it or not.
Store(d) ==
    /\ d \notin Stored
    /\ natural' = [natural EXCEPT ![CollOf[d]] = Append(@, d)]
    /\ \E S \in SUBSET {w \in Workers : /\ wpc[w] = "fetch"
                                        /\ CurrentColl(w) = CollOf[d]} :
         cursor' = [w \in Workers |->
                      IF w \in S THEN Append(cursor[w], d) ELSE cursor[w]]
    /\ UNCHANGED <<remote, files, objects, command, next, wpc, job, source,
                   last, retry, counter, broken, outcome>>

WorkerStep ==
    \E w \in Workers :
        \/ TakeJob(w) \/ NoMoreJobs(w) \/ OpenCursor(w) \/ FindFails(w)
        \/ Fetch(w) \/ CursorFails(w) \/ NextSource(w) \/ FinishFiles(w)
        \/ Upload(w) \/ UploadFails(w) \/ AllUploaded(w)

ExportNext ==
    \/ WorkerStep \/ EndExport \/ KillExport
    \/ \E d \in Docs : Store(d)
============================================================================
