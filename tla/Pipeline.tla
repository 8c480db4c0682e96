------------------------------ MODULE Pipeline ------------------------------
(***************************************************************************)
(* A collection on its way through the tool: `infer` derives a schema, the *)
(* mappings and the script from a sample; `export` and `import`, or        *)
(* `kafka-import`, fill the tables; the post-import report hashes and      *)
(* counts both sides, table by table, over cursors and connections that    *)
(* fail, while documents are stored, changed and deleted.                  *)
(*                                                                         *)
(* What the steps compute from documents and rows are parameters here;     *)
(* PipelineData has the definitions they are given.  How the files get     *)
(* from one step to the next, and the failures of the steps themselves,    *)
(* are the subject of Infer, ToPg, Transfer and KafkaImport.  The tables   *)
(* do not change while the report reads them.                              *)
(***************************************************************************)
EXTENDS ReportRules, Subsequences

CONSTANTS
    Collections,    \* the collections to begin with, in the order of `_id`
    Name,           \* the name of the collection
    IdOrder,        \* every `_id`, in the order of the index on it
    TextOrder,      \* the keys of the rows, by their text
    NewId,          \* the `_id` of a document that is stored later on
    MongoCursorRetryMax, PgStreamRetryMax, PgStreamIdleStallRetryMax,
    TargetMd5RetryMax,
    MaxFailures,    \* bound: failures of cursors, statements and connections
    MaxChanges      \* bound: documents stored, changed or deleted

CONSTANTS
    PlanFor(_, _),      \* of a sample, with JSONB or not: [fields, mappings, sql]
    Exported(_, _),     \* what is loaded from an export of some documents
    Streamed(_, _),     \* what is loaded from the events of some documents
    Accepts(_, _),      \* whether PostgreSQL commits rows in the tables of a script
    TargetsOf(_),       \* the tables of a plan that are hashed, in order
    RecordsOf(_, _),    \* the records of a table that are hashed for a document
    RecordOf(_, _),     \* the record of a table that is hashed for a row
    CountsFor(_, _, _)  \* the counts of the report

VARIABLES
    docs,       \* the documents of the collection, in the order of `_id`
    route,      \* how they are loaded: "export" or "stream"
    sample,     \* the documents `infer` is given
    jsonb,      \* whether it is to keep objects as JSONB
    plan,       \* what `infer` and `to-pg` leave: [fields, mappings, sql]
    stage,      \* what the tool is at
    loaded,     \* what has been loaded: [rows, keys, refused]
    source,     \* the documents that have been loaded

    todo,       \* the tables that are still to be hashed
    phase,      \* what the hashing of the first of them is at
    seen,       \* the last `_id` the cursor returned
    bracket,    \* the types of `_id` the open cursor returns
    last,       \* the last key the statement returned
    left,       \* the rows the open statement still returns
    hashed,     \* the two temporary tables: [mongo, pg]
    retries,    \* [cursor, stream, stall, table]: retries that are used up
    md5,        \* of the tables hashed in this pass, whether both sides agree

    summaries,  \* the result of the first pass
    counts,     \* the document count, and then the counts of the report
    versions,   \* ghost: the collection as it is and was since the report began
    exact,      \* ghost: no reading of this pass skipped or repeated a row
    failures, changes

loadVars == << docs, route, sample, jsonb, plan, stage, loaded, source >>
readVars == << todo, phase, seen, bracket, last, left, hashed, retries, md5 >>
restVars == << summaries, counts, versions, exact, failures, changes >>
vars == << loadVars, readVars, restVars >>

(***************************************************************************)
(* Keys and their order.                                                   *)
(***************************************************************************)
Position(order, x) == CHOOSE i \in DOMAIN order : order[i] = x

\* Where the keys of `order` are in a sequence of keys, in that order.
Places(keys, order) ==
    LET places(x) == Pick([i \in DOMAIN keys |-> i], { i \in DOMAIN keys : keys[i] = x })
    IN  FlattenSeq([k \in DOMAIN order |-> places(order[k])])

IdOf(d) == Get(d, "_id")[1]

ById(ds) ==
    LET at == Places([i \in DOMAIN ds |-> IdOf(ds[i])], IdOrder)
    IN  [k \in DOMAIN at |-> ds[at[k]]]

\* Where the document is whose `_id` is the one at a position, if there is one.
At(ds, p) == { i \in DOMAIN ds : IdOf(ds[i]) = IdOrder[p] }

WithIdOf(d, id) ==
    [d EXCEPT !.fs = [i \in DOMAIN @ |-> IF @[i].k = "_id" THEN [@[i] EXCEPT !.v = id] ELSE @[i]]]

\* The text of a key.
KeyText(cell) == IF DOMAIN cell[1] = {"uuid"} THEN cell[1].uuid ELSE cell[1].text

Key(t, row) == KeyText(row[ResumeColumn(t)[1]])

(***************************************************************************)
(* What is asked of the parameters: documents differ in their `_id` and    *)
(* can be given another; what is hashed of a document is a sequence; and   *)
(* the keys of the rows that are loaded are among the keys.                *)
(***************************************************************************)
DocumentsOf(c) ==
    { c[i] : i \in DOMAIN c } \cup { WithIdOf(c[i], IdOrder[p]) : i \in DOMAIN c, p \in DOMAIN IdOrder }

Ascending(ds) ==
    \A j \in DOMAIN ds :
        /\ IdOf(ds[j]) \in Range(IdOrder)
        /\ \A i \in 1 .. j - 1 : Position(IdOrder, IdOf(ds[i])) < Position(IdOrder, IdOf(ds[j]))

Tabular(t, rows) ==
    /\ rows \in Seq(Range(rows))
    /\ ResumeColumn(t) # None =>
          \A i \in DOMAIN rows : Key(t, rows[i]) \in Range(TextOrder)

Committable(p, load) == ~ load.refused /\ Accepts(p.sql, load.rows)

PipelineAssumption ==
    /\ IdOrder \in Seq(Range(IdOrder)) /\ IsInjective(IdOrder) /\ NewId \in Range(IdOrder)
    /\ TextOrder \in Seq(Range(TextOrder)) /\ IsInjective(TextOrder)
    /\ { MongoCursorRetryMax, PgStreamRetryMax, PgStreamIdleStallRetryMax, TargetMd5RetryMax,
         MaxFailures, MaxChanges } \subseteq Nat
    /\ \A c \in Collections :
          /\ c \in Seq(DocumentsOf(c)) /\ c # << >> /\ Ascending(c)
          /\ \A d \in DocumentsOf(c) :
                /\ IdOf(d) \in Range(IdOrder)
                /\ \A p \in DOMAIN IdOrder : /\ WithIdOf(d, IdOrder[p]) \in DocumentsOf(c)
                                            /\ IdOf(WithIdOf(d, IdOrder[p])) = IdOrder[p]
          /\ \A ds \in {c, << Head(c) >>}, asJsonb \in BOOLEAN :
                LET p == PlanFor(ds, asJsonb)
                IN  /\ TargetsOf(p) \in Seq(Range(TargetsOf(p)))
                    /\ \A t \in Range(TargetsOf(p)) :
                          /\ \A d \in DocumentsOf(c) : RecordsOf(t, d) \in Seq(Range(RecordsOf(t, d)))
                          /\ \A load \in { Exported(p, c), Streamed(p, c) } :
                                Committable(p, load) => Tabular(t, load.rows[t.table])

ASSUME PipelineAssumption

NoRetries == [cursor |-> 0, stream |-> 0, stall |-> 0, table |-> 0]
NoHashes == [mongo |-> << >>, pg |-> << >>]
Unplanned == [fields |-> << >>, mappings |-> << >>, sql |-> << >>]

Init ==
    /\ docs \in Collections
    /\ route \in {"export", "stream"}
    /\ sample \in {docs, << Head(docs) >>}
    /\ jsonb \in BOOLEAN
    /\ plan = Unplanned
    /\ stage = "infer"
    /\ loaded = Streamed(Unplanned, << >>)
    /\ source = << >>
    /\ todo = << >> /\ phase = "idle" /\ seen = None /\ bracket = {}
    /\ last = None /\ left = << >> /\ hashed = NoHashes /\ retries = NoRetries
    /\ md5 = << >> /\ summaries = << >> /\ counts = {}
    /\ versions = {docs} /\ exact = TRUE /\ failures = 0 /\ changes = 0

(***************************************************************************)
(* The plan of the tables, and the load.                                   *)
(***************************************************************************)
InferPlan ==
    /\ stage = "infer"
    /\ plan' = PlanFor(sample, jsonb)
    /\ loaded' = Streamed(plan', << >>)
    /\ stage' = "load"
    /\ UNCHANGED << docs, route, sample, jsonb, source, readVars, restVars >>

\* The rows that are loaded when PostgreSQL takes `next`, as they were if not.
Load(next, ds, done) ==
    LET taken == Committable(plan, next)
    IN  /\ stage' = IF ~ taken THEN "failed" ELSE IF done THEN "loaded" ELSE stage
        /\ loaded' = IF taken THEN next ELSE loaded
        /\ source' = IF taken THEN ds ELSE source
        /\ UNCHANGED << docs, route, sample, jsonb, plan, readVars, restVars >>

\* One transaction for all the rows.
LoadExport ==
    /\ stage = "load" /\ route = "export"
    /\ Load(Exported(plan, docs), docs, TRUE)

\* One transaction per document; the first that is refused ends the import.
StreamNext ==
    LET ds == Append(source, docs[Len(source) + 1])
    IN  /\ stage = "load" /\ route = "stream"
        /\ Load(Streamed(plan, ds), ds, Len(ds) = Len(docs))

(***************************************************************************)
(* The collection changes after it was loaded, also under the report.      *)
(***************************************************************************)
Inserted(ds) ==
    IF \E i \in DOMAIN ds : IdOf(ds[i]) = NewId THEN {}
    ELSE { ById(Append(ds, WithIdOf(ds[i], NewId))) : i \in DOMAIN ds }

Changed(ds) ==
    Inserted(ds)
    \cup { RemoveAt(ds, i) : i \in DOMAIN ds }
    \cup { [ds EXCEPT ![i] = WithIdOf(ds[j], IdOf(ds[i]))] : i, j \in DOMAIN ds }

Change ==
    /\ stage \in {"loaded", "md5", "scan", "explain"}
    /\ changes < MaxChanges
    /\ docs' \in Changed(docs) \ {docs}
    /\ versions' = versions \cup {docs'}
    /\ changes' = changes + 1
    /\ UNCHANGED << route, sample, jsonb, plan, stage, loaded, source, readVars,
                    summaries, counts, exact, failures >>

(***************************************************************************)
(* Hashing a table: a cursor over the documents in the order of `_id`,     *)
(* then a statement over the rows.  Each goes on, when it fails, behind    *)
(* what it returned last; a table that keeps failing is begun again.       *)
(***************************************************************************)
Hashing == stage \in {"md5", "explain"} /\ todo # << >>
target == Head(todo)

\* Fault: another attempt goes on in the temporary tables of the last one.
BeginAgain(attempts) ==
    /\ phase' = "find" /\ seen' = None /\ bracket' = {} /\ last' = None /\ left' = << >>
    /\ hashed' = IF attempts = 0 THEN NoHashes ELSE hashed
    /\ retries' = [NoRetries EXCEPT !.table = attempts]

\* A new attempt has connections, and so temporary tables, of its own.
Begin(attempts) ==
    /\ phase' = "find" /\ seen' = None /\ bracket' = {} /\ last' = None /\ left' = << >>
    /\ hashed' = NoHashes
    /\ retries' = [NoRetries EXCEPT !.table = attempts]

Rest ==
    /\ phase' = "idle" /\ seen' = None /\ bracket' = {} /\ last' = None /\ left' = << >>
    /\ hashed' = NoHashes /\ retries' = NoRetries

\* The end of a pass, with the tables that were hashed, if it went well.
EndPass(result) ==
    /\ todo' = << >>
    /\ md5' = result
    /\ summaries' = IF stage = "md5" THEN result ELSE summaries
    /\ stage' = IF stage = "md5" THEN "scan" ELSE "verdict"
    /\ Rest

FailPass == EndPass(<< >>)

Steady == UNCHANGED << docs, route, sample, jsonb, plan, loaded, source, counts, versions, changes >>
SameTable == UNCHANGED << todo, md5, summaries, stage >>

\* Where the documents are that a cursor opened behind `from` returns.
Ahead(ds, from, types) ==
    { p \in DOMAIN IdOrder : /\ from = None \/ p > Position(IdOrder, from[1])
                            /\ ScalarTypeFamily(IdOrder[p].t) \in types
                            /\ At(ds, p) # {} }

\* What is hashed for the document at a position.
RecordsAt(t, ds, p) ==
    IF At(ds, p) = {} THEN << >> ELSE RecordsOf(t, ds[CHOOSE i \in At(ds, p) : TRUE])

AllTypes == { ScalarTypeFamily(IdOrder[i].t) : i \in DOMAIN IdOrder }

\* A comparison with the last `_id` finds values of its own type only.
Bracket(from) == IF from = None THEN AllTypes ELSE {ScalarTypeFamily(from[1].t)}

FindDocuments ==
    /\ Hashing /\ phase = "find"
    /\ phase' = "mongo"
    /\ bracket' = Bracket(seen)
    /\ exact' = (exact /\ Ahead(docs, seen, AllTypes) = Ahead(docs, seen, Bracket(seen)))
    /\ UNCHANGED << seen, last, left, hashed, retries, failures >>
    /\ Steady /\ SameTable

\* Fault: one retry more than configured.
OnceMore(used, max) == used <= max

MayRetry(used, max) == used < max

Fail == failures < MaxFailures /\ failures' = failures + 1

\* Neither a connection nor a cursor that cannot be opened is tried again.
FindFails ==
    /\ Hashing /\ phase = "find"
    /\ Fail
    /\ FailPass
    /\ UNCHANGED exact
    /\ Steady

ReadDocument ==
    LET ahead == Ahead(docs, seen, bracket)
        next  == CHOOSE p \in ahead : \A q \in ahead : p <= q
    IN  /\ Hashing /\ phase = "mongo" /\ ahead # {}
        /\ seen' = Some(IdOrder[next])
        /\ hashed' = [hashed EXCEPT !.mongo = @ \o RecordsAt(target, docs, next)]
        /\ retries' = [retries EXCEPT !.cursor = 0]
        /\ UNCHANGED << phase, bracket, last, left, exact, failures >>
        /\ Steady /\ SameTable

\* What failed for good is tried from the start, on new connections, if the text
\* of the error is one of a broken connection or a timeout.
TryTableAgain ==
    \/ /\ MayRetry(retries.table, TargetMd5RetryMax)
       /\ Begin(retries.table + 1)
       /\ SameTable
    \/ FailPass

CursorFails ==
    /\ Hashing /\ phase = "mongo"
    /\ Fail
    /\ IF MayRetry(retries.cursor, MongoCursorRetryMax)
       THEN /\ phase' = "find"
            /\ retries' = [retries EXCEPT !.cursor = @ + 1]
            /\ UNCHANGED << seen, bracket, last, left, hashed >>
            /\ SameTable
       ELSE TryTableAgain
    /\ UNCHANGED exact
    /\ Steady

CursorEnds ==
    /\ Hashing /\ phase = "mongo" /\ Ahead(docs, seen, bracket) = {}
    /\ phase' = "select"
    /\ UNCHANGED << seen, bracket, last, left, hashed, retries, exact, failures >>
    /\ Steady /\ SameTable

\* The rows whose keys are in `order`, in that order.
ByKey(t, rows, order) ==
    LET at == Places([i \in DOMAIN rows |-> Key(t, rows[i])], order)
    IN  [k \in DOMAIN at |-> rows[at[k]]]

\* The rows a statement returns, by the text of the key: all of them, or those
\* behind the last one.  The first statement asks for the order of a column it
\* selects as text, and of that name, which is the column it returns.
Selected(t, rows, from) ==
    IF ResumeColumn(t) = None THEN rows
    ELSE IF from = None THEN ByKey(t, rows, TextOrder)
    ELSE ByKey(t, rows, SubSeq(TextOrder, Position(TextOrder, from[1]) + 1, Len(TextOrder)))

\* Ghost: a statement is resumed where it broke off only if it has a key, and
\* the keys differ.
Resumable(t, rows) ==
    /\ ResumeColumn(t) # None
    /\ IsInjective([i \in DOMAIN rows |-> Key(t, rows[i])])

SelectRows ==
    LET rows == loaded.rows[target.table]
    IN  /\ Hashing /\ phase = "select"
        /\ phase' = "pg"
        /\ left' = Selected(target, rows, last)
        /\ exact' = (exact /\ (hashed.pg = << >> \/ Resumable(target, rows)))
        /\ UNCHANGED << seen, bracket, last, hashed, retries, failures >>
        /\ Steady /\ SameTable

StreamFails ==
    /\ Hashing /\ phase \in {"select", "pg"}
    /\ Fail
    /\ IF MayRetry(retries.stream, PgStreamRetryMax)
       THEN /\ phase' = "select"
            /\ retries' = [retries EXCEPT !.stream = @ + 1]
            /\ left' = << >>
            /\ UNCHANGED << seen, bracket, last, hashed >>
            /\ SameTable
       ELSE TryTableAgain
    /\ UNCHANGED exact
    /\ Steady

\* A statement that returns nothing for too long is resumed if it can be; the
\* error otherwise is not one that is tried again.
StreamStalls ==
    /\ Hashing /\ phase = "pg"
    /\ Fail
    /\ IF ResumeColumn(target) # None /\ MayRetry(retries.stall, PgStreamIdleStallRetryMax)
       THEN /\ phase' = "select"
            /\ retries' = [retries EXCEPT !.stall = @ + 1]
            /\ left' = << >>
            /\ UNCHANGED << seen, bracket, last, hashed >>
            /\ SameTable
       ELSE FailPass
    /\ UNCHANGED exact
    /\ Steady

ReadRow ==
    LET row == Head(left)
    IN  /\ Hashing /\ phase = "pg" /\ left # << >>
        /\ left' = Tail(left)
        /\ last' = IF ResumeColumn(target) = None THEN None ELSE Some(Key(target, row))
        /\ hashed' = [hashed EXCEPT !.pg = Append(@, RecordOf(target, row))]
        /\ retries' = [retries EXCEPT !.stream = 0, !.stall = 0]
        /\ UNCHANGED << phase, seen, bracket, exact, failures >>
        /\ Steady /\ SameTable

\* The hashes are sorted before they are compared.
SameBag(s, t) ==
    LET count(u, x) == Cardinality({ i \in DOMAIN u : u[i] = x })
    IN  Len(s) = Len(t) /\ \A x \in Range(s) : count(s, x) = count(t, x)

WithChecksum(checksums, name, same) ==
    [n \in DOMAIN checksums \cup {name} |-> IF n = name THEN same ELSE checksums[n]]

EndTable ==
    LET done == WithChecksum(md5, target.table, SameBag(hashed.mongo, hashed.pg))
    IN  /\ Hashing /\ phase = "pg" /\ left = << >>
        /\ IF Tail(todo) = << >> THEN EndPass(done)
           ELSE /\ todo' = Tail(todo)
                /\ md5' = done
                /\ Begin(0)
                /\ UNCHANGED << summaries, stage >>
        /\ UNCHANGED << exact, failures >>
        /\ Steady

(***************************************************************************)
(* The report of the collection.                                           *)
(***************************************************************************)
\* The tables to hash, and the start of a pass over them.
BeginPass(to, otherwise) ==
    /\ todo' = TargetsOf(plan)
    /\ md5' = << >>
    /\ stage' = IF todo' = << >> THEN otherwise ELSE to
    /\ IF todo' = << >> THEN Rest ELSE Begin(0)

BeginReport ==
    /\ stage = "loaded"
    /\ counts' = {[table |-> RootTableName(plan.sql, Name), count |-> Len(docs)]}
    /\ \/ BeginPass("md5", "scan")
       \/ stage' = "scan" /\ UNCHANGED readVars
    /\ versions' = {docs}
    /\ UNCHANGED << docs, route, sample, jsonb, plan, loaded, source, summaries, exact, failures, changes >>

\* The counts below the documents; a difference that the checksums do not
\* explain away is looked into, if need be by a pass of its own.
Scan ==
    LET documentCount == (CHOOSE c \in counts : TRUE).count
    IN  /\ stage = "scan"
        /\ counts' = CountsFor(plan, documentCount, docs)
        /\ IF MismatchTables(counts', loaded.rows, summaries) # {} /\ summaries = << >>
           THEN BeginPass("explain", "verdict")
           ELSE stage' = "verdict" /\ UNCHANGED readVars
        /\ UNCHANGED << docs, route, sample, jsonb, plan, loaded, source, summaries, versions, exact,
                        failures, changes >>

Warnings == WarningEntries(counts, loaded.rows, summaries, md5)

Verdict ==
    /\ stage = "verdict"
    /\ stage' = IF Warnings = {} THEN "accepted" ELSE "rejected"
    /\ UNCHANGED << docs, route, sample, jsonb, plan, loaded, source, readVars, restVars >>

Finished == stage \in {"failed", "accepted", "rejected"} /\ UNCHANGED vars

Next ==
    \/ InferPlan \/ LoadExport \/ StreamNext \/ Change
    \/ BeginReport \/ Scan \/ Verdict
    \/ FindDocuments \/ FindFails \/ ReadDocument \/ CursorFails \/ CursorEnds
    \/ SelectRows \/ StreamFails \/ StreamStalls \/ ReadRow \/ EndTable
    \/ Finished

Spec == Init /\ [][Next]_vars

(***************************************************************************)
(* Properties.                                                             *)
(***************************************************************************)
Stages == {"infer", "load", "loaded", "failed", "md5", "scan", "explain", "verdict",
           "accepted", "rejected"}

\* Every variable has its type, no retry is taken beyond its limit, a table is
\* only hashed once it has been loaded, and no two documents have one `_id`
\* (shared.rs:2224, checksum.rs:455).
TypeOK ==
    /\ stage \in Stages
    /\ route \in {"export", "stream"}
    /\ phase \in {"idle", "find", "mongo", "select", "pg"}
    /\ (phase # "idle") <=> (stage \in {"md5", "explain"})
    /\ retries.cursor \in 0 .. MongoCursorRetryMax
    /\ retries.stream \in 0 .. PgStreamRetryMax
    /\ retries.stall \in 0 .. PgStreamIdleStallRetryMax
    /\ retries.table \in 0 .. TargetMd5RetryMax
    /\ failures \in 0 .. MaxFailures /\ changes \in 0 .. MaxChanges
    /\ exact \in BOOLEAN
    /\ docs \in versions /\ Ascending(docs)

(***************************************************************************)
(* A reading takes each document from one of the versions the collection   *)
(* had, or finds none; the rows are there all the time.                    *)
(***************************************************************************)
Present == { p \in DOMAIN IdOrder : \E ds \in versions : At(ds, p) # {} }

Readings == [Present -> versions]

ReadIn(t, reading) ==
    FlattenSeq([p \in DOMAIN IdOrder |->
                   IF p \in DOMAIN reading THEN RecordsAt(t, reading[p], p) ELSE << >>])

RowsOf(t) ==
    LET rows == loaded.rows[t.table] IN [i \in DOMAIN rows |-> RecordOf(t, rows[i])]

Agrees(t, reading) == SameBag(ReadIn(t, reading), RowsOf(t))

\* As long as nothing is skipped or read twice, a checksum compares all rows of
\* the table with one reading of the collection, in which every document is
\* hashed once and as it was at some moment since the report began, whatever
\* cursors, statements and attempts failed on the way (checksum.rs:470,
\* checksum.rs:706, checksum.rs:3207).
OfReadings(checksums) ==
    \A name \in DOMAIN checksums : \E t \in Range(TargetsOf(plan)), reading \in Readings :
        t.table = name /\ (checksums[name] <=> Agrees(t, reading))

ChecksumsAreReadings == exact => OfReadings(md5) /\ OfReadings(summaries)

\* A report is only rejected when there is a reading in which the rows of some
\* table differ from the documents, and only accepted when there is one in
\* which they agree for every table that was counted and hashed at first
\* (shared.rs:1940, shared.rs:2303).
VerdictIsFounded ==
    exact =>
        /\ stage = "rejected" =>
              \E t \in Range(TargetsOf(plan)), reading \in Readings : ~ Agrees(t, reading)
        /\ stage = "accepted" =>
              \A c \in counts : c.table \in DOMAIN summaries =>
                  \E t \in Range(TargetsOf(plan)), reading \in Readings :
                      t.table = c.table /\ Agrees(t, reading)

\* The report compares what it has read, and says what it has compared: through
\* retries, resumptions, passes and changes.
ReportIsFounded == ChecksumsAreReadings /\ VerdictIsFounded

MergedIn(p) == \E m \in Range(p.mappings) : m.path = << >> /\ m.ddl.ref # << >>
Merged == MergedIn(plan)

\* What the report counts in documents that were all in the sample, and what it
\* hashes of them, is what it counts and hashes of the rows that were loaded
\* from them; the hashes of a table merged from a point and an object are
\* excepted (shared.rs:2835, checksum.rs:455, checksum.rs:2864).
LoadedAgrees ==
    stage = "loaded" /\ sample = source /\ changes = 0 =>
        /\ MismatchTables(CountsFor(plan, Len(source), source), loaded.rows, << >>) = {}
        /\ ~ Merged => \A t \in Range(TargetsOf(plan)), reading \in Readings : Agrees(t, reading)

\* The report has no warnings when the documents are those that were loaded,
\* and nothing was skipped or read twice; a table merged from a point and an
\* object is excepted (checksum.rs:455, shared.rs:1940).
NoFalseAlarm ==
    stage = "rejected" => sample # source \/ changes > 0 \/ ~ exact \/ Merged
=============================================================================
