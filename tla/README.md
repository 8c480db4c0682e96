# mongo2pg in TLA+

Specifications of [mongo2pg](../src/README.md), a command-line program that moves
MongoDB collections into PostgreSQL tables: as a batch (`init`, `infer`, `to-pg`,
`export`, `import`) and as a stream of Debezium change events (`kafka-import`).
Line numbers are those of `src/src/...`.

Run a check with `tlc -workers 2 -config KafkaSingle.cfg MCKafkaImport.tla`, a proof
with `tlapm KafkaImportProofs.tla`; the modules with proofs are `KafkaImportProofs`,
`SnapshotCopyProofs`, `StopOnNoLagProofs`, `UpsertTreeProofs`, `TransferProofs`, `ToPgProofs`,
`PipelineProofs` and, for what they share, `SequenceLemmas`.
`PROJECT.json` lists components, runs, mutants, findings, hazards and theorems, and maps
every definition to the lines it models.

## 1. Inventory

| Component | State it keeps | Operations | Interacts with | Hard behaviours | What makes it correct |
|---|---|---|---|---|---|
| **kafka-import, streaming loop** (`commands/kafka_import.rs` 4380-5330) | open transaction, pending counters, the client's stored offset; the group's committed offset; rows | deliver, BEGIN, upsert/delete, dead-letter, commit offset, COMMIT when due, idle or final | broker, PostgreSQL, dead-letter topics | offsets and rows are committed separately; crash, lost session, lost answer, redelivery | nothing is passed over unsettled beyond what its mode admits; rows do not regress for good; partial batches become visible |
| **kafka-import, COPY path** (2892-3560) | buffer, batches, replay, pass-through queue, `copy_allowed_cache` | buffer, flush: COPY, multi-row upsert, single-row replay, dead-letter, pass through | as above | three write paths with fallbacks, each of which may half fail; reordering across paths | no event is lost or doubled between the stages; events of a key keep their order on a path |
| **kafka-import, worker group** (3562-3637, 4185-4222, 4617-4770, 5520-5530) | streaks, `had_assignment`, `seen_end_offsets`; partitions' owners and offsets | idle check, stop, rebalance | child processes, consumer group | rebalances between checks; position unknown after one; a parent that waits as a member | a worker that stops has left nothing behind; all end |
| **kafka-import, row tree** (2114-2520) | rows of a root table and its child tables | upsert: root, delete children, insert children; delete | PostgreSQL | several statements per event; foreign keys; not atomic without batching | the tree is that of one event; no orphan |
| **kafka-import, bootstrap** (2522-2698) | tables | preflight, DDL | PostgreSQL | check and execution apart; concurrent runs | existing tables are never altered unasked |
| **import** (`commands/import.rs`) | tables, rows | preflight, DDL per file, one transaction of COPYs, ANALYZE | PostgreSQL, object storage | failure after some DDL; rerun with `--force` | all rows or none; a failed import can be repeated |
| **export** (`commands/export.rs`, `export.rs`) | cursor position, chunk buffers, staged files, job counter | worker pool, resumable cursor, chunk flush, upload | MongoDB, object storage | cursor failures; partial upload; concurrent jobs | every document once; no failed job unreported |
| **infer** (`commands/infer.rs`, `engine/analyzer.rs`, `engine/stats.rs`) | field statistics, mapping files, reserved names | sample in chunks, retry, write mappings | MongoDB, files | retry of a counted chunk; concurrent collections | a document counts once; table names are unique; ends |
| **groups** (`groups.rs`) | none | union-find, common prefix and suffix | infer | transitive grouping | groups partition the collections |
| **to-pg, DDL** (`commands/to_pg.rs`, `engine/ddl.rs`) | none | mappings to SQL text, ordering of tables | files | cycles of foreign keys | parents come before children |
| **shared** (`commands/shared.rs`, `util.rs`) | staged and temporary files | configuration overrides, staging, atomic file write, preflight error | all commands | crash between write and rename | a reader sees the old or the new file |
| **analyzer** (`engine/analyzer.rs`) | accumulators per field and type | observe decoded or raw documents, build the schema | infer | two analyzers, each with loops of its own | both build one schema; what is derived from a value fits it |
| **post-import report** (`commands/shared.rs` 1643-3522) | counts, checksums, warnings | count documents by the schema, count tables, compare, hash again, warn | both databases, import, checksum | three readings of a collection that changes; one check overrules another | no alarm without a difference, no acceptance of a difference |
| **checksum** (`engine/checksum.rs`) | position of cursor and statement, temporary tables of hashes | hash documents, hash rows, compare; resume, retry, begin again | both databases, report | resumption behind the last key; what was hashed before a retry | two sides agree just when what they hash does |
| **report, cluster report, ping, init, schema diagram, command line, connections** | none of their own | read, render, probe | files, both databases | - | text in, text out |

The commands of the batch pipeline communicate through files (mappings, SQL, CSV)
and are run one after another by an operator; within the program only `export` and
`infer` run several tasks, and only `kafka-import` starts processes.  The components
in the last row are not modelled: they are functions of texts whose point is the
text.

## 2. Plan

`kafka-import` comes first: it is the one long-running part, and the one whose state
is spread over three parties that fail separately.

1. `ChangeLog`, `KafkaImport`, abstract specification `AtLeastOnce` - **done**, with
   `KafkaImportProofs`.
2. `SnapshotCopy` (uses `ChangeLog`) - **done**, with `SnapshotCopyProofs`.
3. `StopOnNoLag` - **done**, with `StopOnNoLagProofs`.
4. `UpsertTree`: the statements of one event over a tree of tables - **done**, with
   `UpsertTreeProofs`.
5. `Artifacts`, `Export`, `Import` (with the bootstrap of kafka-import as a kind of
   import), composed in `Transfer` - **done**, with `TransferProofs`.
6. `TableNames`, `Infer`, `ToPg` - **done**, with `ToPgProofs`.
7. The report of a collection that was inferred and loaded: `ReportRules`, `Pipeline` -
   **done**, with `PipelineProofs`.  The data it works on: `Bson`, `Analyzer`, `Ddl`,
   `Tables`, `Mappings`, `ExportRows`, `StreamRows`, `Checksum`, `PostImport`, put in its
   parameters by `PipelineData` - **done**.
8. Left: the parsing of topic names and the suggestions of `groups` as operators against
   reference definitions; two owners of a partition and the rows they write around a
   rebalance.

## 3. The modules

### ChangeLog
One partition as a sequence of events.  A row is abstracted to the offset of the
event it shows, which is enough to tell stale from fresh, and a deleted row from
none.  `EventKinds` are the outcomes an event can have in `write_to_pg` (2714-2890)
and in the decoding before it (4853-5005).  One partition is enough: Debezium keys
events by `_id`, and nothing in the loop relates two partitions except the batch, in
which their events may be interleaved like those of two keys.

### KafkaImport
The loop with `snapshot_copy_enabled = false`.  `pc` says where in the loop the
process is:

| `pc` | code | actions |
|---|---|---|
| `poll` | `read_msg_from_topics` 4443 | `Deliver`, `IdleCommit` (4594-4615), `LeaveLoop` |
| `begin` | `BEGIN` 5089-5095 | `BeginTx`, `BeginTxFails` |
| `write` | `write_to_pg` 5097-5144 | `SkipEvent`, `ApplyEvent`, `RejectEvent`, `WriteUnavailable`, `WriteUnanswered` |
| `dlq` | 5146-5184 | `DeadLetter` |
| `offset` | `commit_offset` 5187-5192 | `CommitOffset`, `CommitOffsetFails` |
| `tally` | 5195-5229 | `BatchDue`, `BatchNotDue`, `BatchDueFails` |
| `final` | 5303-5328 | `Finish` |

`position` is the next offset the stream hands over, `stored` what the client would
commit, `committed` what the broker remembers; `table` are the committed rows,
`txTable` the rows as the open transaction sees them; `fate` records what became of
each event and influences nothing.  The environment appends events, commits
`stored` at any time (auto-commit, or the asynchronous request of `commit_message`),
loses the PostgreSQL session at any time, also between the effect of a statement
or `COMMIT` and its answer, kills the process, and starts it again at the committed
offset.  The client is not reconnected by the code, so `session` comes back only with
a new process.  `is_postgres_unavailable` (1507-1516) looks for phrases in the error
text; whether the error of a lost session has one is a free choice.

`Produce` appends an event only when the process has caught up.  What has not been
delivered influences nothing, so this loses no behaviour of the process and saves
the interleavings of producer and consumer.

### AtLeastOnce
What a consumer that may re-read but not pass over promises.  `KafkaImport` with
manual commits and no batching implements it; with auto-commit or with batching it
does not (the offset runs ahead of the `COMMIT`), which is why `OneBatchAtRisk`
bounds what those modes may lose.

### SnapshotCopy
The loop with `snapshot_copy_enabled = true` and `flush_snapshot_copy_buffer`
statement by statement: `SortBuffer` (3100-3188), `UpsertInstead` when COPY is
disabled for the table (3195-3239), `Copy`, `CommitCopy`, `CopyFails` (3241-3345),
`FallbackUpsert` (3348-3380), `Replay` and `DeadLetter` (3382-3472), `PassThrough`
(3475-3519).  `BatchesOf` says what the loop of 3100-3188 makes of the buffer: a batch per
table, in the order in which the tables first occur, each in the order of the offsets.
`Execute` is PostgreSQL's answer to one statement, with the same four
outcomes everywhere: done, refused, session lost before, session lost after.  A batch
is one table's: the columns and the conflict clause that the code also compares
(3167-3171) are functions of the mapping.

### StopOnNoLag
The worker processes of one group.  The broker takes all partitions back when a
member joins or leaves (`Revoke`) and gives each to a member (`Assign`), who then has
no position in it until it is handed a message: `EffectivePos` is `consumer_lag_snapshot`'s
fallback from `position()` to the committed offset to the low watermark (3617-3631;
no committed offset and the low watermark are both 0 here).  `IdleAssigned`,
`IdleUnassigned` and `IdleUnanswered` are the three arms of 4618-4769, each preceded
by the idle flush; after that flush the code's `buffers_empty` always holds.

### UpsertTree
`apply_upsert_event` and `apply_delete_event` (2114-2520) with one action per statement,
for two workers with sessions of their own that may both hold an event of a document
(after an eviction the old owner is still writing).  A row is the event it came from.
The foreign keys are `DEFERRABLE INITIALLY DEFERRED` (ddl.rs 558-598), so they are looked
at where a transaction commits: after each statement without batching, at the `COMMIT`
with it.  `DeleteOrder` is the sort by depth (2290-2304), the work list of a pass the
stack of pending parents (2330-2445).  A collection without child tables has an empty
`DeleteOrder`: its upsert goes on to the inserts, of which there are none, its delete to
the root (`AfterPrune`, `Deliver`).  A process that ends, however it ends, takes with it
its transaction and all it knew of its event (`Forget`).
`TreeAssumption` is what the loop of `mapping_fk_depth_to_root` (1754-1780) needs to come
to an end: the foreign keys form a tree, and a table has one mapping, since the loop
looks a mapping up by its table name.

### Subsequences
`Pick(s, T)`: the elements of `s` that are in `T`, in their order, which is what
`SelectSeq` gives.  The definition of `SelectSeq` is recursive and closed to the provers;
`Pick` is a recursive function, so that what it returns is a lemma
(`SequenceLemmas!PickProperties`).  `SnapshotCopy`, `UpsertTree`, `Artifacts`, `Export`,
`TableNames`, `ToPg` and `Pipeline` use it.  `Firsts(s)`: the elements of `s`, each where it occurs first.

### Artifacts, Export, Import, Transfer
`Artifacts` holds what the commands share: collections, SQL files, CSV files in a
directory or a bucket.  `Export` is `run_export_impl`: jobs from a shared counter, a
cursor per collection that is opened again behind the last `_id` (`Found`: `_id > last`
over a find without a sort), files per table, upload and removal one by one, failed jobs
that are noted and reported at the end.  `Import` is `run_import` with
`bootstrap_pg_objects_for_kafka_import` as a `kind`: preflight, DDL file by file outside
any transaction, discovery of CSV files, one transaction of COPYs, ANALYZE, report.
`Transfer` lets an operator run exports and then one or two imports; `basis` remembers
which documents the artifacts should hold after an export that was sound.  Staged files
are removed after an upload (the default of `purge_local`), and collections are those of
the configuration.  What `ArtifactsAssumption` asks of the constants is what the code
sees to: a collection with an SQL file of its own name is exported through that one
(commands/export.rs 39-48), an alias is not a table of the same SQL file (src/export.rs
2541-2556), an import without SQL files is an error before anything else (import.rs
512-521), and there is at least one export worker (commands/export.rs 135).

### TableNames, Infer, ToPg
`Infer` samples collections in concurrent jobs that give way at their requests only
(`buffer_unordered`): `$sample` first, then chunks that are retried or resumed; then it
writes mappings under a lock with the names others have reserved, and moves them to
object storage.  `ToPg` follows in the same run: groups whose members' mappings are
rewritten, SQL files, a staged copy in the remote case.  `TableNames` has the candidates
for a child table's name; how a number is written is its constant `Numeral`, for which
`MCToPg` puts `ToString`.  A document is the set of embedded fields it has, a file the
table it describes and whether it is whole.

### Bson, Analyzer, Ddl, Tables, Mappings
What `infer` and `to-pg` compute, as operators, from documents to tables.  `Analyzer` has
the accumulators of decoded and of raw documents (195-361) and the schema built from
them.  `Ddl` has the decisions (column types, keys, maps, groups, merged points),
`Tables` the tree of tables with its names and foreign keys, `Mappings` the second
derivation of the same tables that `infer.rs` makes for the mapping files, with their
renames, the path of every table, and the order of the script.
The tool derives the tables twice, in `ddl.rs` and in `infer.rs`, and every command
after that uses both: that they agree is what most of the properties are about.
Abstractions: a probability is a pair of counts; sampled values are a set (the code
keeps twenty); the rule that a type with nine tenths of the values dominates is only
decided by samples of ten documents and more.

### ExportRows, StreamRows
The rows of a document by the two routes: `extract_rows_with_mapping` over a tree of
nodes, and `apply_upsert_event` over the JSON of an event.  A cell says how a value is
written (text, JSON, list, point, time, UUID).  Keys are counted out by the export and
given by a sequence on the stream, so rows are compared as trees without their keys.
Strings that parse as JSON, the columns that old, empty mappings are filled up with, and
the last fallbacks of the lookup by name on the stream are left out: no document of the
instance reaches them.

### Checksum, PostImport, ReportRules
`Checksum`: which tables are hashed, over which documents, which columns are compared, and
the literals of each side.  `PostImport`: the hierarchy of counts and its tables.
`ReportRules`: what the report decides from counts and checksums (mismatches, warnings), the
column a reading of a table can be resumed from, the root table.

### Pipeline, PipelineData
`Pipeline` is the state machine: `InferPlan`, `LoadExport` or `StreamNext`, then the report:
`BeginReport` (checksums first or not), a pass of `compute_md5_summaries_for_collection` step
by step (`FindDocuments`, `ReadDocument`, `CursorFails`, `SelectRows`, `ReadRow`,
`StreamFails`, `StreamStalls`, `EndTable`), `Scan` with a second pass over mismatches,
`Verdict`.  Each kind of failure has its own retries (`retries`); when they are used up the
table is begun again, if the text of the error is a transient one (`is_transient_md5_error`
3032-3048, a free choice), or else the pass is given up and the report goes on without.
Both statements over the rows are ordered by the text of the key: every column is selected
`AS` its own name as text (1147-1154), and PostgreSQL takes the name after `ORDER BY` for
the column that is returned (`Selected`; the keys 9 and 10 of the run come as 10, 9).  `Change` is
another user of the collection.
What the steps compute from documents and rows are eight parameters, so that the control can
be proved about whatever the data are.  `PipelineData` has what they are given
(`InferredPlan`, `ExportLoad`, `StreamLoad`, `PgAccepts`, ...: the operators of the modules
above) and the properties that are about data.  `PipelineAssumption` is what the control needs
of the parameters: documents are in the order of their `_id` and differ in it; what is hashed
of a document is a sequence; the keys of rows that PostgreSQL has committed are among those
that `TextOrder` puts in order.  TLC evaluates it for the parameters of
`PipelineData` on the run.
Two ghosts: `versions` are the states the collection has had since the report began, `exact`
says that no resumed cursor or statement of a pass has skipped or repeated anything
(`Bracket` and `Resumable` say when it may).  A *reading* (`Readings`) gives each `_id` one
of these versions: a pass over a changing collection sees each document as it was at some
moment, not the collection as it was at one.
The tables do not change under the report; the nested scan is one step that does not
fail; a row's literals stand for their digest.

### Faulty variants
Some helpers have a variant just above them that nothing uses (`ResumeAfter`,
`StoredEagerly`, `FullOneLate`, `MiscountBatch`, `IdleDueWhenFull`, ...).  Each is a
plausible slip in the code.  Putting it in the helper's place breaks a property,
which shows that the property has something to say; `PROJECT.json` lists the pairs
under `mutants`.

## 4. The runs

| Run | Bounds | Shows |
|---|---|---|
| `ki_single` | 2 keys (symmetric), 4 events of 4 kinds, 2 processes, 1 failed offset commit; 3.6 M states | `TypeOK`; `ImplementsAtLeastOnce` for manual commits without batching, and with it `NothingPassedOver` |
| `ki_batch` | 1 key, 5 events of 3 kinds, batches of 2, 2 processes, auto-commit; 1.1 M states | `RowsShowLatestApplied`, `OneBatchAtRisk`, `CatchesUp` |
| `copy_paths` | 2 tables, one key each (one with an earlier row), 3 events of all kinds but garbled, buffer of 2, 1 process; 1.1 M states | `TypeOK`, `InOnePlace` |
| `copy_restarts` | 1 key, 4 events, buffer of 2 with timed flush, 2 processes, auto-commit; 2.1 M states | `OvertakenOnlyAcrossPaths`, `OneBufferAtRisk`, `CatchesUp` |
| `stop_workers` | parent and child, 2 partitions of 1 message, streak of 2, 1 disturbance; 0.5 M states | `TypeOK`, `CaughtUpMeansDelivered`, `EveryWorkerEnds` |
| `upsert_tree` | a root, two child tables, one grandchild listed before them; 2 documents, 2 workers, 2 events, 2 faults; with and without batching; 4.6 M states | `TypeOK`, `BatchedTreeIsWhole`, `AppliedTreeIsWhole`, `NeverRefused` |
| `transfer` | a group of two collections and one alone, 4 documents, 2 export workers, 2 exports, 2 imports or bootstraps, 1 kill or lost session; local and remote; 6.5 M states | `LoadedIsExported`, `SoundExportLoads`, `AllOrNothing`, `LoadsOnlyOwnTables`, `NoMutualWait`, `EveryJobAccounted` |
| `infer_to_pg` | 3 collections, two of them a group, one named like an embedded field; samples of 3 in chunks of 2, 2 jobs, 2 runs, 3 failures; local and remote | `RecountedOnlyByRetries`, `SampleIsFull`, `OneCollectionPerTable`, `NothingLostByMove`, `SqlMatchesMappings`, no deadlock |
| `pipeline` | 2 documents: 16 shapes with themselves and with a flat document, 4 kinds of keys; both routes, samples of all and of one, JSONB or not; 2 failures, 1 change, 1 retry of each kind; 1.2 M states | `TypeOK`, `SchemasAgree`, `ScriptIsOrdered`, `SampledRowsFit`, `StreamedAsExported`, `NothingLost`, `ReportIsFounded`, `LoadedAgrees`, `NoFalseAlarm`, `AcceptedIsFaithful` |
| `copy_replay`, `copy_snapshot`, `stop_unassigned` | small | the three disagreements below |

Why these bounds are enough.  A batch of two is the smallest that can be partial,
full and lost with an event in it that was answered.  Four or five events give a
full batch, a redelivered one and one after it, so that an old event can come after
a newer one.  One key is the hardest case for ordering; two are needed only where an
event of another key matters (the skipped and the garbled between the written ones,
two tables in a flush).  Two processes give a restart; a third meets nothing that the
second did not, since all a process inherits is the committed offset and the rows.
A streak of two tells "in a row" from "once"; the code's 3 or 4 differ only in number
(`stop_unassigned` uses 4).  In `upsert_tree` a child
table below a child table is the smallest tree in which the order of statements
matters.  In `transfer` one retry tells a cursor that goes on from one that gives up,
and a second export meets the files of the first.  In `pipeline` every rule of the two
derivations has a shape that reaches it (embedded and nested objects, inlined fields
that collide, scalar arrays, arrays of objects, groups, maps, points alone and merged,
names that sanitizing changes), two documents are what a cursor needs to be resumed
between, and two failures use up a retry, which ends the first attempt at a table or, when
the error is not transient, the pass (with three failures, in 2.7 M states, every property
holds as well).  The limits of the code's retries are 4 and 2; the model's 1 is counted and
reset the same way.

`CHECK_DEADLOCK` is off where a program that has ended
and is not started again is not a deadlock; that a running one does not get stuck
is `CatchesUp` and `EveryWorkerEnds`.

Fairness.  `KafkaImport` and `SnapshotCopy`: the process is one task, so weak fairness
of its loop (`Consume`); the idle gap belongs to the loop because
`read_msg_from_topics` times out.  Nothing is assumed of the environment, and
`CatchesUp` speaks only of runs that stay up with a session.  `StopOnNoLag`: the
broker completes rebalances, evicts members that do not poll
(`max.poll.interval.ms`) and hands over what there is; time passes; a worker finds
its idle gaps.  No fairness of offset commits, flushes, failures or rebalances.
`UpsertTree`, `Transfer`, `Infer` with `ToPg` and `Pipeline` state safety only: their
processes are one pass each over finite work, so what could go wrong is that one gets
stuck, and `infer_to_pg` and `pipeline` check that none does (deadlock), `transfer` that
nobody waits in a circle (`NoMutualWait`).

### Findings

* **`copy_replay`**: an event whose row PostgreSQL refuses, over a session that is up, in
  the single-row replay ends the import with an error (`kafka_import.rs:3436`); the specification has it published to
  `dlq_<collection_name>` and the import go on.
* **`copy_snapshot`**: `offset = "0"` truncates nothing; the reference
  (`docs/reference/README.md:245`) lists "mapped-table truncate before apply".
* **`stop_unassigned`**: a worker that has had partitions, and has lost them in a
  rebalance, stops after enough idle checks whatever the lag (`kafka_import.rs:4736`); the reference (lines 225 and 251)
  has it stop once lag is stable at zero.

Two that `OneBatchAtRisk` and `OvertakenOnlyAcrossPaths` bound rather than exclude:
a batch rolled back because PostgreSQL is unavailable is lost but for the event in
hand; and in one buffer a delete is written after later upserts of its key.

## 5. The proofs

Every theorem holds for any values of the constants that satisfy the assumptions of the
model it is about (`LogAssumption`, `KafkaAssumption`, `StopAssumption`,
`TreeAssumption`, ...); TLC evaluates these on each run.  Inductive invariants were
checked by TLC on the instance of the run before they were proved.

### The streaming loop: `KafkaImportProofs`

* `TypeCorrect`: `Spec => []TypeOK`.  Inductive as it stands.
* `RowsCorrect`: `Spec => []RowsShowLatestApplied`.  Not inductive by itself, for three
  reasons, and `RowsInv` adds what is missing: a `COMMIT` makes the transaction's rows
  the rows, so the same must hold of those (`TxRowsShowLatest`); a rolled-back event
  must not stay staged for a later transaction (`StagedInTx`), and no event may be
  applied outside a transaction the loop believes open (`TxShape`); a restart moves
  `position` back to `committed`, which must not be past it (`OffsetOrder`).
* `NothingPassedOverCorrect`: `Spec => []NothingPassedOver`.  `DeliveredSettled` is the
  induction: all that is stored is settled, and all that is delivered but for the
  event in hand.
* `AtLeastOnceCorrect`: for manual commits and no batching,
  `Spec => ImplementsAtLeastOnce`; `OffsetCommit` is the abstract `Commit`, every other
  step is `Work` or a stutter.
* `OneBatchAtRiskCorrect`: `Spec => []OneBatchAtRisk`, in every mode.  The property
  counts what is passed over; the proof has to count what *may* still be: `RiskBounded`
  bounds all that is handed over and unsettled (`Exposed`) by what earlier processes have
  left and what this one may add (`Room`: its counted events and the one in hand).  That
  `Room` is enough rests on three facts: one event is in flight at a time (`OneInHand`), a
  full batch is committed before the next event (`PendingBounded`), and after a
  transaction is given up over a lost session no other can be begun, so that its events
  and the one in hand are all that process loses (`GivenUp`).

### The COPY path: `SnapshotCopyProofs`

* `TypeCorrect`: `Spec => []TypeOK`, with `Base`: what each stage holds in each state
  (`Shape`), the buffer in offset order (`Buffered`), `committed <= stored <= position`
  (`OffsetOrder`).  That the buffer never outgrows the batch size is part of `TypeOK`.
* `InOnePlaceCorrect`: `Spec => []InOnePlace`.  `Places` is the induction: the buffer, the
  batches, the replay and the pass-through queue, as sets, are disjoint, none repeats an
  event, there is one batch per table, and together they have the held events.
* `OneBufferAtRiskCorrect`: `Spec => []OneBufferAtRisk`.  `Bounded`: a process holds at most
  one buffer (`Places`: what it holds was once in it), and what is gone went with one of
  the processes that have ended.
* `OvertakenOnlyAcrossPathsCorrect`: `Spec => []OvertakenOnlyAcrossPaths`.  `Orderly`: events
  of one path are held in one queue (`Together`), there in offset order (`PassOrder`;
  batches and replay are sorted), and behind those applied (`Later`).  A restart is the
  hard case: it hands out old offsets again, so `Later` speaks only of events handed over
  since.

### The worker group: `StopOnNoLagProofs`

* `TypeCorrect`: `Spec => []TypeOK`.  `StreaksOpen` strengthens it: a worker leaves the
  loop in the step that makes a streak long enough, so while it runs its streaks are
  below the limit, and no later look can take them past it.
* `CaughtUpCorrect`: `Spec => []CaughtUpMeansDelivered`.  What makes it inductive is
  `BehindDelivered`: behind a partition's committed offset and behind the offset its
  owner is handed next there are delivered messages only, whoever they were delivered
  to.  With it, zero lag at the effective position means delivered, and `DeliveredGrows`
  (no flush, failure or rebalance takes a message out of *applied, abandoned or held*)
  keeps it so after the worker has stopped.

### The row tree: `UpsertTreeProofs`

For any tree of tables, any documents, workers, shapes and bounds: `TypeCorrect`,
`NeverRefusedCorrect`, `AppliedTreeIsWholeCorrect` and `BatchedTreeIsWholeCorrect`, all
from one invariant, `Inv`.  The argument, part by part:

* *An upsert makes one tree* (`Made`).  After the root it is one row; while children are
  inserted, `Grow`: the rows so far hang together (`Part`), what is still to be inserted
  has its parent among the rows that are off the stack (`Stacked`), and each row has,
  counting those still to be inserted, no children if it is on the stack and else the
  number the event asks for (`Counted`).  With an empty stack and work list that is
  `Whole`.  Popping a parent and inserting a child keep it (`GrowPop`, `GrowInsert`).
* *Deepest first keeps the foreign keys* (`TablePruned`): a table is emptied below a
  document when no rows below refer to it any more, for which the tables still to be
  emptied (`doomed`) must be sorted by depth (`Control`).
* *Without batching* (`Direct`, `Shown`) the rows of the document itself are `Made`; the
  rows of other documents are untouched (`OthersKept`), because trees are disjoint
  (`BelowDisjoint`) and generated keys are new (`Keyed`).  As long as no partition changes
  hands only the owner writes (`Solo`).
* *With batching* (`Transaction`, `Trees`) the rows a transaction has inserted are `Made`,
  and those it has deleted are of its document.  After an eviction two transactions may
  write one document.  An upsert begins with the root row: it deletes the old one, if there
  is one, and inserts the new one, and a statement waits for a row that another
  transaction has written, so that no two transactions have deleted one row or inserted
  one root (`Apart`).  At its `COMMIT` it has therefore deleted the whole old tree and
  inserted the whole new one (`UpsertCommits`).  A delete comes to the root row last and may
  have missed child rows committed since it began; but it has deleted nothing or the root
  row too, and then the foreign keys let its `COMMIT` pass only if it has deleted the whole
  tree (`AllDeleted`, `DeleteCommits`).  What a commit leaves to another transaction on the
  same document is `SameDocument`: either nothing has changed, or that one is a delete
  that has deleted nothing.

### Exports and imports: `TransferProofs`

For any collections, documents, SQL files, aliases, directories, workers and import
processes:

* `TypeCorrect`: `Spec => []TypeOK`.  Not inductive: a worker reads the files of its job, so
  they must be there, and nobody else may have its directory; `Shape` says that a job is
  one worker's, and that directories of different jobs differ (`DirFacts`).
* `EveryJobAccountedCorrect`: an action property.  `Accounted`: the jobs off the counter are
  those that are over and those in a worker's hands, and a worker ends only when there
  are no more.
* `AllOrNothingCorrect`: `Progress` ties a process to the files it copies: all processes
  compute the same `Plan` of files, and a transaction has the rows of the files before
  the one it is at (`Copied`).  `RowsInv`: only processes that have committed have rows,
  and those that have just committed have all of `Plan`.
* `LoadsOnlyOwnTablesCorrect`: `RowsInv` again: an import without `--force` owns the tables
  of the SQL files behind it, since `CREATE TABLE` fails on a table that exists, and
  nobody takes a table from its creator (`TablesGrow`).
* `NoMutualWaitCorrect`: two imports follow one `Plan`, which has each table once
  (`PlanFacts`); if each waited for a row of the other, each would be at a file the other
  is past.

### What is loaded is what was exported: `TransferProofs`, second half

`LoadedIsExportedCorrect` and `SoundExportLoadsCorrect` assume two things of the project,
besides what `ArtifactsAssumption` asks.  Both hold on the instance of the run, and both
are needed:

* `AliasesApart`: no alias is the name of a table, of whatever SQL file.  The export copies
  the file of a table whose name ends in a number to the name without it (export.rs
  2533-2571), and checks only the tables of the job at hand.  If another SQL file has a
  table of that name, its directory and this one both hold a file for it, and an import
  takes the first of them.
* `GroupsFirst`: the directory of a group comes before those of its collections, as it does
  when the group is named by what their names begin with, which is how to-pg names it.
  Otherwise the files a collection has left behind from the time it stood alone would be
  taken for those of the group.

The invariant follows a document from the scan to the row:

* *While a job runs* (`Streamed`): the lines written are those of documents of the
  collections up to the current one, none twice; child lines are numbered on, each
  document's in one piece (`Pair`); and each document that was there at the start is
  written or still to be returned by the cursor.  A cursor that is opened again goes on
  behind the last `_id`; this loses nothing and repeats nothing if the scan had the order
  of `_id`, and a collection in which it had not is in `broken`, which makes the export
  unsound (`Sane`).  `StreamedKept`, `ReadyKept` and `FrameKept`: what one worker does leaves
  the streams and the files of the others alone, as their directories differ.
* *When it is done* (`Ready`): the files of both tables are whole, in the directory or
  uploaded, and still so after the upload and removal one by one (`UploadReady`).
* *Leftovers* (`Homes`): a file for a table is in the directory of one of the collections of
  its SQL file, or in that of the group if it has several.  With `GroupsFirst` the file that
  comes first is the one just written (`Delivered`); an SQL file without documents has no
  files at all (`NothingLeft`), because a collection that has once had documents keeps
  them.
* *What an import finds* (`Served`): for each SQL file both files in full, or neither and no
  document.
* *What it does with them* (`LoadInv`): an import without `--force` that runs alone is the
  only one to create tables (`Apart`), so after its preflight there is no table but its own
  and no row before its `COMMIT` (`Fresh`).  Hence no key exists, and `FilesServed` and
  `KeysServed` say that none comes twice and that each child row has its root row.
  `LoadedRows` and `CountRows` count the rows of a document: as many as it has places among
  the lines.

### Inference and to-pg: `ToPgProofs`

For any collections, documents, sizes of sample and chunk, retries, jobs in flight, runs and
failures; every invariant of the run is proved.

* *The sample.*  `RecountedOnlyByRetriesCorrect` and `SampleIsFullCorrect` follow from
  `Sampling`: a job that does not sample has counted nothing (`Blank`); in the fallback each
  document up to `last` is counted once and once more for each refusal at most, those behind
  it as often as a chunk was refused at most (`Chunked`: the documents of a refused chunk are
  behind `last`); a sample that is read has at least as many documents as were processed
  (`Taken`).  `OnlyJob` says that a step of a job touches that job only, and the jobs in
  flight are counted to show that there are never more than `Workers`.
* *Types* (`TypeCorrect`): `Sampling`, `Control` (what is set in which phase) and `Dirs`:
  everything in a directory is a mapping file, and a member that is to be rewritten has one.
* *The move* (`NothingLostByMoveCorrect`): `Kept`.  That a whole file is in the directory or
  the bucket is not inductive, since an upload may put a torn file of the same name over a
  whole one.  `KeptFile` says which of the two places has it in each phase: the directory
  until all is uploaded (`Behind`), the bucket from then on, and while to-pg works remotely
  the staged copy as well (`AtWork`), which goes over the bucket's file in the end.
* *Table names* (`OneCollectionPerTableCorrect`): `TablesApart`.  The names a job reserves are
  those on the disk and the roots of its run, so a new file goes with all files that are
  there (`Fits`); a file must also not have the name of a root that comes later, hence `Own`
  and the root that is there whenever another file is (`Rooted`).  The theorem assumes
  `Numerals`: numbers that differ are written differently.  With it one of the `n + 1`
  numbers tried is not among the `n` names taken (`NumberedFree`), otherwise
  `unique_child_table_name` would have to go on for ever.
* *SQL files* (`SqlMatchesMappingsCorrect`): a root has one mapping file (`Roots`), so
  rewriting it maps the collection to its group; while members are left each member is
  mapped or among them (`Rewriting`), and a group that is settled has all collections of its
  prefix (`Grouped`).  `SqlSays`: what is off the list has its SQL as the mapping files say
  (`Told`, `Silent`), and writing another's file does not touch it (`OtherSql`) - unless a
  collection is called like a group, which the property excepts (`Shared`).  The upload
  replaces every file of the bucket, because the staged copy began as a copy of it
  (`Covers`).

### The report: `PipelineProofs`

For any collections, keys and orders of keys, any plans, loads, records and counts
(the eight parameters), any limits of retries, failures and changes:

* `TypeCorrect`: `Spec => []TypeOK`.  `Control` says which retries and which part of a reading
  each phase has; `Placed` that the plan and the load are those of one of the collections,
  which makes the tables to hash a sequence and their keys comparable.  That no change gives
  two documents one `_id` rests on `ById` sorting by it (`PlacesProperties`).
* `ChecksumsFromReadings`: `Spec => []ChecksumsAreReadings`.  `Read` is the induction.  On the
  documents' side (`MongoRead`): what has been hashed is the part of a reading up to the last
  `_id`, and the open cursor returns all documents behind it, if `exact`.  A change behind the
  last `_id` is read later, one before it does not matter, since the reading keeps the
  version the document was read in (`versions` only grows).  On the rows' side (`PgRead`):
  what has been hashed are the first rows in the order of the keys, and what the open
  statement still returns is the rest.  The hard step is `SelectRows` after a failure: the
  rows behind the last key are the rest of the first statement's (`SelectedRest`), because
  `Resumable` makes the keys differ.  A failure without a key, or with keys that are the
  same, sets `exact` to false; a new attempt begins with empty tables.
* `FoundedReports`: `Spec => []ReportIsFounded`, which is `ChecksumsAreReadings` with
  `VerdictIsFounded`.  The latter follows from the former and `Judged` (the verdict is what
  the warnings make it): a warning needs a checksum that disagrees, from the first pass or
  the second; when there is none, each table that was counted and hashed at first has one
  that agrees.
* `NoFalseAlarms`: `Spec /\ []LoadedAgrees => []NoFalseAlarm`.  `LoadedAgrees` speaks of the
  data, at the moment of the load; the run checks it.  The theorem takes it from there: with
  no change there is one version only, and a reading of it agrees (`Kept`), so that no
  mixture of failures, retries and second passes yields a warning.  A table merged from a
  point and an object is excepted in both.

### Lemmas on data: `SequenceLemmas`

The induction theorems of the library take an operator as a parameter, which the provers
cannot instantiate.  `NatSetInduction` and `UpTo` state induction over a *set* of numbers
instead, and `StepFunction` and `TreeRecursion` (in `UpsertTreeProofs`) say that a
function given by its steps exists and is what its definition says.  From these follow
what `Pick` and `FlattenSeq` return (members, order, injectivity), that `Depth` is a
number above the parent's, and what `RowsBelow` has in it (`BelowInduction`).

### Only model-checked

* Liveness (`CatchesUp`, `EveryWorkerEnds`): fairness and `ENABLED` are out of the
  prover's reach.
* The properties of `PipelineData` (`SchemasAgree`, `ScriptIsOrdered`, `SampledRowsFit`,
  `StreamedAsExported`, `NothingLost`, `AcceptedIsFaithful`) and
  `LoadedAgrees`: they say what recursive operators over documents, schemas and mappings
  compute, which is induction over data, and the provers lose arithmetic in modules that
  reach a `RECURSIVE` operator.

## 6. What is left out

* The statements of one event are one step in `KafkaImport` and `SnapshotCopy`.
  Without batching they commit one by one, and a failure between two leaves part of
  them; that is `UpsertTree`'s subject.  In the COPY path there is one row per event.
* The rows of two owners of a partition around a rebalance: `StopOnNoLag` has the
  deliveries but not the rows, `KafkaImport` has the rows but one consumer.  A `COMMIT` that
  PostgreSQL refuses over a session that is up belongs there: only a deferred foreign key
  can be its reason, and `UpsertTree` has it when a partition changes hands and never
  otherwise (`NeverRefused`).  `OneBatchAtRisk` does not count it: each refused idle `COMMIT`
  would be a batch more.
* A failure to write to the temporary tables of hashes: it has no retries of its own, and
  goes the way of a reading whose retries are used up.
* `offset = "latest"`, expired messages, exactly-once features of Kafka (unused by the
  code), and what an operator does with a dead-letter topic.
* Snapshot mode without the COPY path: its loop is `KafkaImport`'s with an idle gap
  that ends it.
* Output, options, connections, `ping`, `init`, the schema diagram and the inventory
  report: no state that outlives a call, or nothing but text.  `PROJECT.json` has the
  reasons component by component.
* The two halves are joined by their files' names and states only: `Transfer` does not
  know the rows, `Pipeline` does not know the failures of the commands.

What the models except from a property, because the code does it and no document of the
repository denies it:

* *A collection called like a group* (`ev` beside `ev_a` and `ev_b`): `to-pg` writes `ev.sql`
  for the collection and for the group, and the later one stays (`to_pg.rs` 43-69).
* *Flattened roots* (a collection that is one array, or one group of arrays): the mapping
  has the path ".", so an export writes one row per document whose BIGSERIAL `id` is the
  document's `_id` and whose items are NULL; the load fails, a stream is refused.
* *Groups of arrays below a root*: only the rows of the representative are exported or
  streamed.  Report and checksum look where the export looks and see no difference.
* *Merged points*: the table's path is ".", so every document is expected to have a row: a
  stream refuses a document without the field if a column is required, and the checksum
  hashes a record for it.
* *Renames* (`infer.rs:2929`) are keyed by the name the DDL prefers: of two nested tables
  that prefer one name the data of the first is lost.
* *Aliases and directories*: an alias that is the name of another SQL file's table, and a
  group whose directory does not come first (`AliasesApart`, `GroupsFirst` in section 5).
* *Resumed reading*: a cursor resumed by `_id > last` returns values of one BSON type only
  (export.rs:2674, checksum.rs:460); a table without a resume column is read again into the
  same temporary table.  `exact` says that none of this has happened.

Known and not modelled: arrays of Int64 or dates cannot be streamed; exported child rows
carry explicit ids into BIGSERIAL columns and no `setval` follows; the JSON of an ObjectId,
an Int64 or a date in a JSONB column differs between the two routes; the COPY path commits
no offset itself when commits are manual (`kafka_import.rs:4273`), `latest` counts the lag
from the low watermark (3630), and an error in the parent leaves its children running
(5140); the upload of a killed command leaves its temporary file (`shared.rs:1415`).
