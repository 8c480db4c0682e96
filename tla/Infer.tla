------------------------------- MODULE Infer --------------------------------
(***************************************************************************)
(* The infer command over one database: the sampling of the collections by *)
(* concurrent jobs, the artifacts they write, and the move of these to     *)
(* object storage.  What follows in the same run (to-pg) is in ToPg.       *)
(*                                                                         *)
(* A document is abstracted to the embedded fields it has, a file to the   *)
(* table it describes.  A job is one future of buffer_unordered: it gives  *)
(* way at its requests only, so reading a chunk and writing the files of a *)
(* collection are one step each, except for a kill.                        *)
(***************************************************************************)
EXTENDS TableNames

CONSTANTS
    Order,        \* the collections of the database, sorted by name
    Docs,         \* for each collection the fields of its documents, by _id
    SampleSize,   \* documents to sample of a collection (number)
    ChunkSize,    \* documents in a chunk of the fallback
    RetryMax,     \* retries of a chunk after authorisation errors
    Workers,      \* jobs in flight
    Raw,          \* infer_mode = raw
    MaxFaults,    \* bound: failures of requests, and kills
    MaxRuns       \* bound: runs of the command

Collections == ToSet(Order)
Ids(c) == 1..Len(Docs[c])

ASSUME InferAssumption ==
    /\ Order \in Seq(Seq(STRING) \ {<<>>})
    /\ \A c \in Collections : Docs[c] \in Seq(Seq(Seq(STRING)))
    /\ SampleSize \in Nat \ {0}
    /\ ChunkSize \in Nat \ {0}
    /\ Workers \in Nat \ {0}
    /\ RetryMax \in Nat
    /\ Raw \in BOOLEAN
    /\ MaxFaults \in Nat /\ MaxRuns \in Nat

VARIABLES
    remote,    \* base_dir is in object storage
    runs,      \* runs begun
    phase,     \* what the process does; "idle" when there is none
    plan,      \* the collections this run infers (include, exclude)
    warned,    \* something was skipped with a warning, or failed
    faults     \* failures so far

VARIABLES
    job,       \* what the job of a collection does
    counted,   \* how often the analyzer has counted each document
    last,      \* the _id behind which the next chunk begins
    processed, \* documents of finished chunks
    attempt    \* retries of the chunk at hand

VARIABLES
    disk,      \* the artifacts of each collection in the project directory
    bucket,    \* ... in object storage
    moved,     \* collections uploaded by the move at hand
    settled    \* ghost: the mapping files of the last write of a collection

VARIABLES
    refusals,  \* ghost: authorisation errors the job of a collection met
    cut        \* ghost: its sample ended at an error

runVars == <<remote, runs, phase, plan, warned, faults>>
jobVars == <<job, counted, last, processed, attempt, refusals, cut>>
fileVars == <<disk, bucket, moved, settled>>
inferVars == <<runVars, jobVars, fileVars>>

-----------------------------------------------------------------------------
\* Artifacts

\* A mapping file: its name, the table it maps to, the collections planned in
\* the run that wrote it (ghost), and whether it was written to its end.
File(stem, table, with, whole) == [stem |-> stem, table |-> table, with |-> with, whole |-> whole]

\* The artifacts of a collection: the schema (json, "empty" without any field)
\* and the mapping files.
NoArtifacts == [json |-> "none", files |-> {}]
Torn(dir) == \E f \in dir.files : ~f.whole
TablesIn(dir) == {f.table : f \in dir.files}

\* Files of the same name are replaced, all others stay.
Overlay(old, new) ==
    [json |-> IF new.json = "none" THEN old.json ELSE new.json,
     files |-> new.files \cup {f \in old.files : \A g \in new.files : g.stem # f.stem}]

\* The fields the counted documents have, in the order they were met.
Observed(c) ==
    Firsts(FlattenSeq([d \in Ids(c) |-> IF counted[c][d] > 0 THEN Docs[c][d] ELSE <<>>]))

\* Fault: the roots of the other collections of the run are not reserved.
ReservedOnDisk(c) ==
    UNION {TablesIn(disk[d]) : d \in Collections \ {c}}

\* The table names a collection must leave alone: those in the mapping files
\* of other collections, and the roots of the other collections of the run.
Reserved(c) ==
    (UNION {TablesIn(disk[d]) : d \in Collections \ {c}}) \cup (plan \ {c})

\* The mapping files of a collection, root first.  Without a single document
\* there is no table.
Mappings(c) ==
    IF \A d \in Ids(c) : counted[c][d] = 0
    THEN <<>>
    ELSE LET tables == <<c>> \o UniqueNames(c, Observed(c), Reserved(c))
         IN [i \in DOMAIN tables |-> File(tables[i], tables[i], plan, TRUE)]

Schema(c) == IF Mappings(c) = <<>> THEN "empty" ELSE "whole"

\* The artifacts of c after the first n steps of writing them: the schema, the
\* removal of mapping files that are no longer expected, each mapping file.
Written(c, n) ==
    LET new  == Mappings(c)
        kept == {f \in disk[c].files : n < 2 \/ \E i \in DOMAIN new : new[i].stem = f.stem}
        done == {new[i] : i \in 1..(IF n < 2 THEN 0 ELSE n - 2)}
    IN [json |-> IF n = 0 THEN disk[c].json ELSE Schema(c),
        files |-> done \cup {f \in kept : \A g \in done : g.stem # f.stem}]

\* ... and the step after them broken off in the middle of its file.
BrokenOff(c, n) ==
    LET new == Mappings(c)
        dir == Written(c, n)
    IN IF n = 0
       THEN [dir EXCEPT !.json = "torn"]
       ELSE IF n = 1
            THEN dir
            ELSE LET f == new[n - 1]
                 IN [dir EXCEPT !.files = {File(f.stem, f.table, f.with, FALSE)}
                                            \cup {g \in @ : g.stem # f.stem}]

-----------------------------------------------------------------------------
\* A run

NoneCounted(c) == [d \in Ids(c) |-> 0]

InferInit ==
    /\ remote \in BOOLEAN
    /\ runs = 0
    /\ phase = "idle"
    /\ plan = {}
    /\ warned = FALSE
    /\ faults = 0
    /\ job = [c \in Collections |-> "none"]
    /\ counted = [c \in Collections |-> NoneCounted(c)]
    /\ last = [c \in Collections |-> 0]
    /\ processed = [c \in Collections |-> 0]
    /\ attempt = [c \in Collections |-> 0]
    /\ disk = [c \in Collections |-> NoArtifacts]
    /\ bucket = [c \in Collections |-> NoArtifacts]
    /\ moved = {}
    /\ settled = [c \in Collections |-> {}]
    /\ refusals = [c \in Collections |-> 0]
    /\ cut = [c \in Collections |-> FALSE]

\* The operator starts the command; include and exclude pick the collections.
BeginRun ==
    /\ phase = "idle"
    /\ runs < MaxRuns
    /\ runs' = runs + 1
    /\ \E p \in SUBSET Collections \ {{}} :
         /\ plan' = p
         /\ job' = [c \in Collections |-> IF c \in p THEN "waiting" ELSE "none"]
    /\ phase' = "infer"
    /\ warned' = FALSE
    /\ UNCHANGED <<remote, faults, counted, last, processed, attempt, refusals, cut, fileVars>>

\* A failure of a request that the model spends its budget on.
Fault ==
    /\ faults < MaxFaults
    /\ faults' = faults + 1

\* The process ends; the sampled statistics go with it.
Forget ==
    /\ job' = [c \in Collections |-> "none"]
    /\ counted' = [c \in Collections |-> NoneCounted(c)]
    /\ last' = [c \in Collections |-> 0]
    /\ processed' = [c \in Collections |-> 0]
    /\ attempt' = [c \in Collections |-> 0]
    /\ refusals' = [c \in Collections |-> 0]
    /\ cut' = [c \in Collections |-> FALSE]

InFlight == {c \in Collections : job[c] \in {"sample", "chunk", "write"}}

\* A job begins with the $sample pipeline.
StartJob(c) ==
    /\ phase = "infer"
    /\ job[c] = "waiting"
    /\ Cardinality(InFlight) < Workers
    /\ job' = [job EXCEPT ![c] = "sample"]
    /\ UNCHANGED <<runVars, counted, last, processed, attempt, refusals, cut, fileVars>>

Count(c, docs) == [d \in Ids(c) |-> counted[c][d] + (IF d \in docs THEN 1 ELSE 0)]

Fewest(m, n) == IF m < n THEN m ELSE n

\* $sample returns its documents, in any order.
SampleDone(c) ==
    /\ job[c] = "sample"
    /\ \E docs \in SUBSET Ids(c) :
         /\ Cardinality(docs) = Fewest(SampleSize, Len(Docs[c]))
         /\ counted' = [counted EXCEPT ![c] = Count(c, docs)]
    /\ job' = [job EXCEPT ![c] = "write"]
    /\ UNCHANGED <<runVars, last, processed, attempt, refusals, cut, fileVars>>

\* Fault: the analyzer is kept when the sample's cursor fails.
KeepAnalyzer(c, docs) == Count(c, docs)

\* The analyzer after a failed $sample: a new one.
Restarted(c, docs) == NoneCounted(c)

\* $sample fails, at once or after some documents, and chunks are read instead.
SampleFails(c) ==
    /\ job[c] = "sample"
    /\ Fault
    /\ \E docs \in SUBSET Ids(c) :
         /\ Cardinality(docs) < Fewest(SampleSize, Len(Docs[c])) \/ docs = {}
         /\ counted' = [counted EXCEPT ![c] = Restarted(c, docs)]
    /\ job' = [job EXCEPT ![c] = "chunk"]
    /\ UNCHANGED <<remote, runs, phase, plan, warned, last, processed, attempt, refusals, cut, fileVars>>

\* A job that fails is skipped with a warning; the others go on.
Skip(c) ==
    /\ job' = [job EXCEPT ![c] = "skipped"]
    /\ counted' = [counted EXCEPT ![c] = NoneCounted(c)]
    /\ last' = [last EXCEPT ![c] = 0]
    /\ processed' = [processed EXCEPT ![c] = 0]
    /\ attempt' = [attempt EXCEPT ![c] = 0]
    /\ refusals' = [refusals EXCEPT ![c] = 0]
    /\ cut' = [cut EXCEPT ![c] = FALSE]
    /\ warned' = TRUE

\* In raw mode a document that cannot be decoded fails the job.
Undecodable(c) ==
    /\ Raw
    /\ job[c] \in {"sample", "chunk"}
    /\ Fault
    /\ Skip(c)
    /\ UNCHANGED <<remote, runs, phase, plan, fileVars>>

-----------------------------------------------------------------------------
\* The chunks of the fallback

ThisChunk(c) == Fewest(SampleSize - processed[c], ChunkSize)
Following(c) == {d \in Ids(c) : d > last[c]}
InChunk(c) == Fewest(ThisChunk(c), Cardinality(Following(c)))
First(c, k) == {d \in Following(c) : d <= last[c] + k}

\* k documents of a chunk are counted, and the next chunk begins behind n of
\* them.  The sample is complete when it has its size.
Advance(c, k, n) ==
    /\ counted' = [counted EXCEPT ![c] = Count(c, First(c, k))]
    /\ last' = [last EXCEPT ![c] = @ + n]
    /\ processed' = [processed EXCEPT ![c] = @ + n]
    /\ attempt' = [attempt EXCEPT ![c] = 0]
    /\ job' = [job EXCEPT ![c] = IF n = 0 \/ processed[c] + n >= SampleSize THEN "write" ELSE @]

\* find() itself fails: nothing is counted, and the same chunk is tried again
\* with all its retries, however often.
FindFails(c) ==
    /\ job[c] = "chunk"
    /\ attempt[c] > 0
    /\ attempt' = [attempt EXCEPT ![c] = 0]
    /\ UNCHANGED <<runVars, job, counted, last, processed, refusals, cut, fileVars>>

\* Fault: the retries are counted from zero after each.
AlwaysRetry(c) == TRUE

\* classify_unauthorized_retry
MayRetry(c) == attempt[c] < RetryMax

\* The cursor returns the documents of the chunk; a chunk without any ends
\* the sample.
ReadChunk(c) ==
    /\ job[c] = "chunk"
    /\ LET k == InChunk(c) IN Advance(c, k, k)
    /\ UNCHANGED <<runVars, refusals, cut, fileVars>>

\* The cursor fails for lack of authorisation after k documents: the chunk is
\* read again from its start, and its documents have been counted.
CursorRefused(c, k) ==
    /\ job[c] = "chunk"
    /\ Fault
    /\ \/ /\ MayRetry(c)
          /\ counted' = [counted EXCEPT ![c] = Count(c, First(c, k))]
          /\ attempt' = [attempt EXCEPT ![c] = @ + 1]
          /\ refusals' = [refusals EXCEPT ![c] = @ + 1]
          /\ UNCHANGED <<job, last, processed, cut, warned>>
       \/ /\ ~MayRetry(c)
          /\ Skip(c)
    /\ UNCHANGED <<remote, runs, phase, plan, fileVars>>

\* Fault: the next chunk begins behind the whole broken one.
GoOnBehind(c, k) == Advance(c, k, IF k = 0 THEN 0 ELSE InChunk(c))

\* After any other error the documents read so far stand, and the next chunk
\* begins behind them.
GoOn(c, k) == Advance(c, k, k)

\* The cursor fails otherwise after k documents.  If that is none, the sample
\* ends here, and nothing says that it is short.
CursorBreaks(c, k) ==
    /\ job[c] = "chunk"
    /\ Fault
    /\ GoOn(c, k)
    /\ cut' = [cut EXCEPT ![c] = k = 0]
    /\ UNCHANGED <<remote, runs, phase, plan, warned, refusals, fileVars>>

Chunk(c) ==
    \/ ReadChunk(c)
    \/ \E k \in 0..InChunk(c) : CursorRefused(c, k) \/ CursorBreaks(c, k)

-----------------------------------------------------------------------------
\* The artifacts of a collection

\* The mapping files of all other collections can be read.
ReadsOthers(c) == \A d \in Collections \ {c} : ~Torn(disk[d])

Leave(c) ==
    /\ counted' = [counted EXCEPT ![c] = NoneCounted(c)]
    /\ last' = [last EXCEPT ![c] = 0]
    /\ processed' = [processed EXCEPT ![c] = 0]
    /\ attempt' = [attempt EXCEPT ![c] = 0]
    /\ refusals' = [refusals EXCEPT ![c] = 0]
    /\ cut' = [cut EXCEPT ![c] = FALSE]

\* write_collection_files, under the write lock.
WriteFiles(c) ==
    /\ job[c] = "write"
    /\ ReadsOthers(c)
    /\ disk' = [disk EXCEPT ![c] = Written(c, 2 + Len(Mappings(c)))]
    /\ settled' = [settled EXCEPT ![c] = {f.stem : f \in ToSet(Mappings(c))}]
    /\ job' = [job EXCEPT ![c] = "done"]
    /\ Leave(c)
    /\ UNCHANGED <<runVars, bucket, moved>>

\* A torn mapping file of another collection fails the write after the schema.
WriteFails(c) ==
    /\ job[c] = "write"
    /\ ~ReadsOthers(c)
    /\ disk' = [disk EXCEPT ![c].json = Schema(c)]
    /\ Skip(c)
    /\ UNCHANGED <<remote, runs, phase, plan, faults, bucket, moved, settled>>

Job(c) ==
    \/ StartJob(c)
    \/ SampleDone(c)
    \/ SampleFails(c)
    \/ Undecodable(c)
    \/ Chunk(c)
    \/ FindFails(c)
    \/ WriteFiles(c)
    \/ WriteFails(c)

\* All jobs are over.
JobsDone ==
    /\ phase = "infer"
    /\ \A c \in plan : job[c] \in {"done", "skipped"}
    /\ phase' = IF remote THEN "move" ELSE "topg"
    /\ Forget
    /\ UNCHANGED <<remote, runs, plan, warned, faults, fileVars>>

-----------------------------------------------------------------------------
\* The move to object storage

\* One collection's artifacts are uploaded.
Upload(c) ==
    /\ phase = "move"
    /\ c \notin moved
    /\ bucket' = [bucket EXCEPT ![c] = Overlay(@, disk[c])]
    /\ moved' = moved \cup {c}
    /\ UNCHANGED <<runVars, jobVars, disk, settled>>

\* An upload fails: some of the files are there, and the command ends.
UploadFails(c) ==
    /\ phase = "move"
    /\ c \notin moved
    /\ Fault
    /\ \E files \in SUBSET disk[c].files :
         bucket' = [bucket EXCEPT ![c] = Overlay(@, [disk[c] EXCEPT !.files = files])]
    /\ moved' = {}
    /\ phase' = "idle"
    /\ warned' = TRUE
    /\ UNCHANGED <<remote, runs, plan, jobVars, disk, settled>>

\* Fault: local copies are removed as soon as any upload is done.
PurgeableEarly == moved # {}

\* Local copies are removed when everything has been uploaded.
Purgeable == moved = Collections

Purge(c) ==
    /\ phase \in {"move", "purge"}
    /\ Purgeable \/ phase = "purge"
    /\ disk[c] # NoArtifacts
    /\ disk' = [disk EXCEPT ![c] = NoArtifacts]
    /\ phase' = "purge"
    /\ UNCHANGED <<remote, runs, plan, warned, faults, jobVars, bucket, moved, settled>>

MoveDone ==
    /\ phase \in {"move", "purge"}
    /\ Purgeable \/ phase = "purge"
    /\ \A c \in Collections : disk[c] = NoArtifacts
    /\ moved' = {}
    /\ phase' = "topg"
    /\ UNCHANGED <<remote, runs, plan, warned, faults, jobVars, disk, bucket, settled>>

Move == MoveDone \/ \E c \in Collections : Upload(c) \/ UploadFails(c) \/ Purge(c)

-----------------------------------------------------------------------------
\* Kills

\* The process is killed while it samples or moves.
KillInfer ==
    /\ phase \in {"infer", "move", "purge"}
    /\ Fault
    /\ phase' = "idle"
    /\ warned' = TRUE
    /\ moved' = {}
    /\ Forget
    /\ UNCHANGED <<remote, runs, plan, disk, bucket, settled>>

\* ... while it writes the files of a collection.
KillWriting(c) ==
    /\ phase = "infer"
    /\ job[c] = "write"
    /\ ReadsOthers(c)
    /\ Fault
    /\ \E n \in 0..(1 + Len(Mappings(c))) :
         disk' = [disk EXCEPT ![c] = BrokenOff(c, n)]
    /\ settled' = [settled EXCEPT ![c] = {}]
    /\ phase' = "idle"
    /\ warned' = TRUE
    /\ Forget
    /\ UNCHANGED <<remote, runs, plan, bucket, moved>>

InferNext ==
    \/ \E c \in Collections : Job(c) \/ KillWriting(c)
    \/ JobsDone
    \/ Move
    \/ KillInfer

-----------------------------------------------------------------------------
\* Types

Jsons == {"none", "empty", "whole", "torn"}
Jobs == {"none", "waiting", "sample", "chunk", "write", "done", "skipped"}

InferTypeOK ==
    /\ remote \in BOOLEAN
    /\ runs \in 0..MaxRuns
    /\ plan \subseteq Collections
    /\ warned \in BOOLEAN
    /\ faults \in 0..MaxFaults
    /\ job \in [Collections -> Jobs]
    /\ \A c \in Collections :
         /\ counted[c] \in [Ids(c) -> 0..(MaxFaults + 1)]
         /\ last[c] \in 0..Len(Docs[c])
         /\ processed[c] \in 0..SampleSize
         /\ attempt[c] \in 0..RetryMax
         /\ refusals[c] \in 0..MaxFaults
         /\ disk[c].json \in Jsons
         /\ bucket[c].json \in Jsons
    /\ Cardinality(InFlight) <= Workers
    /\ moved \subseteq Collections
    /\ cut \in [Collections -> BOOLEAN]
=============================================================================
