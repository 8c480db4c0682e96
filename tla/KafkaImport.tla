---------------------------- MODULE KafkaImport ----------------------------
(***************************************************************************)
(* The streaming loop of mongo2pg kafka-import when the COPY path is off:  *)
(* each event is written with its own upsert or delete statements, either  *)
(* one by one or, when transaction_batch_size > 1, inside an open          *)
(* PostgreSQL transaction committed every BatchSize events.                *)
(*                                                                         *)
(* Three parties share the state: the broker (log, committed offset), the  *)
(* consumer process (everything it forgets when it dies) and PostgreSQL.   *)
(* The PostgreSQL client is connected once per process and never           *)
(* reconnected, so a lost session stays lost until the next process.       *)
(* The statements of one event are one step here.                          *)
(***************************************************************************)
EXTENDS ChangeLog, FiniteSets

CONSTANTS
    AutoCommit,         \* kafka.enable_auto_commit
    BatchSize,          \* kafka.transaction_batch_size
    FlushAfter,         \* kafka.flush_batch_after is set
    MaxIncarnations,    \* bound: processes ever started
    MaxCommitFailures   \* bound: commit_message calls that fail

ASSUME KafkaAssumption ==
    /\ AutoCommit \in BOOLEAN
    /\ BatchSize \in Nat \ {0}
    /\ FlushAfter \in BOOLEAN
    /\ MaxIncarnations \in Nat \ {0}
    /\ MaxCommitFailures \in Nat

Batching == BatchSize > 1       \* transaction_batching_enabled

VARIABLES
    log,            \* the partition
    committed,      \* next offset to read, as the broker remembers it
    pc,             \* where the process is in its loop, or how it ended
    position,       \* next offset the process will be handed
    stored,         \* next offset, as the client would commit it
    txOpen,         \* tx_open
    pending,        \* tx_pending_processed
    commitFailed,   \* commit_failed, over all processes
    incarnation,    \* number of processes started so far
    session,        \* the PostgreSQL session: "up" or "lost"
    table,          \* committed rows
    txTable,        \* rows as the open transaction sees them
    fate            \* what has become of the event at each offset

broker  == <<log, committed>>
counts  == <<pending, commitFailed, incarnation>>
vars == <<log, committed, pc, position, stored, txOpen, pending, commitFailed,
          incarnation, session, table, txTable, fate>>

\* "unseen"   never delivered
\* "inflight" being handled by the process
\* "staged"   written inside the open transaction
\* "applied"  visible in the committed rows, or once was
\* "skipped"  counted and passed over: nothing to write
\* "dlq"      copied to dlq_<source_topic>
\* "dropped"  could not be copied there either (dlq_failed)
\* "lost"     abandoned with its transaction or its process
Fates   == {"unseen", "inflight", "staged", "applied", "skipped", "dlq",
            "dropped", "lost"}
Settled == {"applied", "skipped", "dlq", "dropped"}

Running == {"poll", "begin", "write", "dlq", "offset", "tally", "final"}
Ended   == {"stopped", "failed", "killed"}

cur == position - 1     \* the event being handled, once delivered

TypeOK ==
    /\ log \in Seq(Event) /\ Len(log) <= MaxLog
    /\ committed \in 1 .. MaxLog + 1
    /\ pc \in Running \union Ended
    /\ position \in 1 .. MaxLog + 1
    /\ stored \in 1 .. MaxLog + 1
    /\ txOpen \in BOOLEAN
    /\ pending \in Nat
    /\ commitFailed \in Nat
    /\ incarnation \in Nat
    /\ session \in {"up", "lost"}
    /\ table \in Rows
    /\ txTable \in Rows
    /\ fate \in [Offsets -> Fates]

Init ==
    /\ log = <<>>
    /\ committed = 1
    /\ pc = "poll"
    /\ position = 1
    /\ stored = 1
    /\ txOpen = FALSE
    /\ pending = 0
    /\ commitFailed = 0
    /\ incarnation = 1
    /\ session = "up"
    /\ table = [k \in Keys |-> NoEvent]
    /\ txTable = [k \in Keys |-> NoEvent]
    /\ fate = [o \in Offsets |-> "unseen"]

-----------------------------------------------------------------------------
\* Helpers.  A few come with a faulty variant just above them (ResumeAfter,
\* StoredEagerly, FullOneLate, IdleDueWhenFull, MiscountBatch), which nothing
\* uses: put in the helper's place, it must break a property.

\* A row shows the latest event written to it.
Write(rows, o) == [rows EXCEPT ![log[o].key] = o]

\* The events of a given fate get another one.
Settle(from, to) == [o \in Offsets |-> IF fate[o] \in from THEN to ELSE fate[o]]

\* run_kafka_import returns, or the process is killed: what it had in hand and
\* what its transaction held is gone.
Leave(how) ==
    /\ pc' = how
    /\ fate' = Settle({"inflight", "staged"}, "lost")
    /\ UNCHANGED <<log, committed, position, stored, txOpen, counts, session,
                   table, txTable>>

\* A new process resumes where the group's committed offset points.
ResumeAfter == committed + 1
ResumeAt    == committed

\* With auto-commit, handing an event over stores its offset for the next commit.
StoredEagerly == position + 1
StoredOnDelivery == IF AutoCommit THEN position + 1 ELSE stored

\* The batch is full, or flush_batch_after has passed since it was opened.
FullOneLate == pending > BatchSize
Full        == pending >= BatchSize
Due         == Full \/ FlushAfter

\* An idle gap finds events pending in the open transaction.
IdleDueWhenFull == txOpen /\ pending >= BatchSize
IdleDue         == txOpen /\ pending > 0

\* The open transaction becomes visible and the batch counters start again.
CommitBatch ==
    /\ table' = txTable
    /\ txOpen' = FALSE
    /\ pending' = 0
    /\ fate' = Settle({"staged"}, "applied")

\* The idle COMMIT fails: the batch is counted as rolled back, the loop goes on.
MiscountBatch ==
    /\ txOpen' = FALSE
    /\ pending' = 0
    /\ fate' = Settle({"staged"}, "applied")
    /\ UNCHANGED table

AbandonBatch ==
    /\ txOpen' = FALSE
    /\ pending' = 0
    /\ fate' = Settle({"staged"}, "lost")
    /\ UNCHANGED table

-----------------------------------------------------------------------------
\* The environment: the producer, the broker, failures, a new process

\* What the process has not been handed yet influences nothing, so the next
\* event is appended when it is asked for.
Produce ==
    /\ pc = "poll"
    /\ position > Len(log)
    /\ Len(log) < MaxLog
    /\ \E e \in [key : Keys, kind : Kinds] : log' = Append(log, e)
    /\ UNCHANGED <<committed, pc, position, stored, txOpen, counts, session,
                   table, txTable, fate>>

\* The client's commit of its stored offset reaches the broker: the auto-commit
\* timer, or the asynchronous request of commit_message, at any later time.
OffsetCommit ==
    /\ pc \in Running
    /\ stored > committed
    /\ committed' = stored
    /\ UNCHANGED <<log, pc, position, stored, txOpen, counts, session, table,
                   txTable, fate>>

\* The server rolls back an open transaction; the process finds out later.
LoseSession ==
    /\ pc \in Running
    /\ session = "up"
    /\ session' = "lost"
    /\ UNCHANGED <<broker, pc, position, stored, txOpen, counts, table,
                   txTable, fate>>

Kill ==
    /\ pc \in Running
    /\ Leave("killed")

\* The operator starts kafka-import again with the same group id: it connects
\* afresh and resumes at the committed offset.
Restart ==
    /\ pc \in Ended
    /\ incarnation < MaxIncarnations
    /\ pc' = "poll"
    /\ position' = ResumeAt
    /\ stored' = ResumeAt
    /\ txOpen' = FALSE
    /\ pending' = 0
    /\ incarnation' = incarnation + 1
    /\ session' = "up"
    /\ UNCHANGED <<broker, commitFailed, table, txTable, fate>>

-----------------------------------------------------------------------------
\* The process: one iteration of the consume loop

\* The stream hands over the next event, which also stores its offset when
\* auto-commit is on.  An event that cannot be resolved to a mapping or decoded
\* is counted and passed over.
Deliver ==
    /\ pc = "poll"
    /\ position <= Len(log)
    /\ position' = position + 1
    /\ stored' = StoredOnDelivery
    /\ \/ /\ log[position].kind = "garbled"
          /\ fate' = [fate EXCEPT ![position] = "skipped"]
          /\ UNCHANGED pc
       \/ /\ log[position].kind # "garbled"
          /\ fate' = [fate EXCEPT ![position] = "inflight"]
          /\ pc' = IF Batching /\ ~txOpen THEN "begin" ELSE "write"
    /\ UNCHANGED <<broker, txOpen, counts, session, table, txTable>>

BeginTx ==
    /\ pc = "begin"
    /\ session = "up"
    /\ pc' = "write"
    /\ txOpen' = TRUE
    /\ txTable' = table
    /\ UNCHANGED <<broker, position, stored, counts, session, table, fate>>

BeginTxFails ==
    /\ pc = "begin"
    /\ session = "lost"
    /\ Leave("failed")

\* write_to_pg = Ok(Skipped)
SkipEvent ==
    /\ pc = "write"
    /\ IsSkipped(log[cur])
    /\ fate' = [fate EXCEPT ![cur] = "skipped"]
    /\ pc' = "poll"
    /\ UNCHANGED <<broker, position, stored, txOpen, counts, session, table,
                   txTable>>

\* write_to_pg = Ok(Applied)
ApplyEvent ==
    /\ pc = "write"
    /\ IsWrite(log[cur])
    /\ session = "up"
    /\ pc' = "offset"
    /\ \/ /\ txOpen
          /\ txTable' = Write(txTable, cur)
          /\ fate' = [fate EXCEPT ![cur] = "staged"]
          /\ UNCHANGED table
       \/ /\ ~txOpen
          /\ table' = Write(table, cur)
          /\ fate' = [fate EXCEPT ![cur] = "applied"]
          /\ UNCHANGED txTable
    /\ UNCHANGED <<broker, position, stored, txOpen, counts, session>>

\* write_to_pg = Err, not is_postgres_unavailable: the import gives up, and
\* the event is not dead-lettered.
RejectEvent ==
    /\ pc = "write"
    /\ log[cur].kind = "poison"
    /\ Leave("failed")

\* write_to_pg = Err over a lost session.  Only some of the error texts are
\* recognised by is_postgres_unavailable; with any other the import gives up.
WriteUnavailable ==
    /\ pc = "write"
    /\ ~IsSkipped(log[cur])
    /\ session = "lost"
    /\ \/ /\ pc' = "dlq"
          /\ UNCHANGED <<broker, position, stored, txOpen, counts, session,
                         table, txTable, fate>>
       \/ Leave("failed")

\* The session is lost after the statement took effect and before its answer.
WriteUnanswered ==
    /\ pc = "write"
    /\ IsWrite(log[cur])
    /\ session = "up"
    /\ ~txOpen
    /\ session' = "lost"
    /\ table' = Write(table, cur)
    /\ pc' \in {"dlq", "failed"}
    /\ fate' = [fate EXCEPT ![cur] = IF pc' = "dlq" THEN "inflight" ELSE "applied"]
    /\ UNCHANGED <<broker, position, stored, txOpen, counts, txTable>>

\* Copy the event that failed, and only that one, to the dead-letter topic;
\* then give up the transaction it was part of.
DeadLetter ==
    /\ pc = "dlq"
    /\ pc' = "poll"
    /\ txOpen' = FALSE
    /\ pending' = 0
    /\ \E outcome \in {"dlq", "dropped"} :
          fate' = [Settle({"staged"}, "lost") EXCEPT ![cur] = outcome]
    /\ UNCHANGED <<broker, position, stored, commitFailed, incarnation, session,
                   table, txTable>>

\* commit_offset: ahead of the COMMIT of the batch the event belongs to.
CommitOffset ==
    /\ pc = "offset"
    /\ stored' = IF AutoCommit THEN stored ELSE position
    /\ pc' = IF Batching THEN "tally" ELSE "poll"
    /\ pending' = IF Batching THEN pending + 1 ELSE pending
    /\ UNCHANGED <<broker, position, txOpen, commitFailed, incarnation, session,
                   table, txTable, fate>>

\* commit_message refuses the request: the event is not counted as pending.
CommitOffsetFails ==
    /\ pc = "offset"
    /\ ~AutoCommit
    /\ commitFailed < MaxCommitFailures
    /\ commitFailed' = commitFailed + 1
    /\ pc' = "poll"
    /\ UNCHANGED <<broker, position, stored, txOpen, pending, incarnation,
                   session, table, txTable, fate>>

\* A due batch is committed, and the import gives up if that fails.
BatchDue ==
    /\ pc = "tally"
    /\ Due
    /\ session = "up"
    /\ CommitBatch
    /\ pc' = "poll"
    /\ UNCHANGED <<broker, position, stored, commitFailed, incarnation, session,
                   txTable>>

BatchNotDue ==
    /\ pc = "tally"
    /\ ~Full
    /\ pc' = "poll"
    /\ UNCHANGED <<broker, position, stored, txOpen, counts, session, table,
                   txTable, fate>>

BatchDueFails ==
    /\ pc = "tally"
    /\ Due
    /\ session = "lost"
    /\ Leave("failed")

\* No event within idle_timeout: a pending batch is committed.
IdleCommit ==
    /\ pc = "poll"
    /\ IdleDue
    /\ \/ session = "up" /\ CommitBatch
       \/ session = "lost" /\ AbandonBatch
    /\ UNCHANGED <<broker, pc, position, stored, commitFailed, incarnation,
                   session, txTable>>

\* COMMIT takes effect and the session is lost before its answer, in a due
\* batch (the import gives up), an idle one (it goes on) or the final one.
CommitUnanswered ==
    /\ \/ pc = "poll" /\ IdleDue
       \/ pc = "tally" /\ Due
       \/ pc = "final" /\ pending > 0
    /\ session = "up"
    /\ CommitBatch
    /\ session' = "lost"
    /\ pc' = IF pc = "poll" THEN "poll" ELSE "failed"
    /\ UNCHANGED <<broker, position, stored, commitFailed, incarnation, txTable>>

\* The loop ends: end of stream, stop_on_no_lag or max_messages.
LeaveLoop ==
    /\ pc = "poll"
    /\ pc' = "final"
    /\ UNCHANGED <<broker, position, stored, txOpen, counts, session, table,
                   txTable, fate>>

\* After the loop a pending batch is committed; a transaction that holds
\* nothing counted is rolled back.
Finish ==
    /\ pc = "final"
    /\ \/ /\ pending > 0
          /\ session = "up"
          /\ CommitBatch
          /\ pc' = "stopped"
       \/ /\ pending > 0
          /\ session = "lost"
          /\ pc' = "failed"
          /\ fate' = Settle({"staged"}, "lost")
          /\ UNCHANGED <<txOpen, pending, table>>
       \/ /\ pending = 0
          /\ pc' = "stopped"
          /\ fate' = Settle({"staged"}, "lost")
          /\ UNCHANGED <<txOpen, pending, table>>
    /\ UNCHANGED <<broker, position, stored, commitFailed, incarnation, session,
                   txTable>>

-----------------------------------------------------------------------------
Consume ==
    \/ Deliver
    \/ BeginTx \/ BeginTxFails
    \/ SkipEvent \/ ApplyEvent \/ RejectEvent \/ WriteUnavailable
    \/ DeadLetter
    \/ CommitOffset
    \/ BatchDue \/ BatchNotDue \/ BatchDueFails
    \/ IdleCommit
    \/ Finish

Environment ==
    \/ Produce
    \/ OffsetCommit
    \/ LoseSession \/ WriteUnanswered \/ CommitUnanswered
    \/ CommitOffsetFails
    \/ Kill \/ Restart
    \/ LeaveLoop

Next == Consume \/ Environment

Spec == Init /\ [][Next]_vars

\* The process is one task: while it can take a step of its loop it does.  An
\* idle gap is a step of the loop too, because read_msg_from_topics times out.
FairSpec == Spec /\ WF_vars(Consume)

-----------------------------------------------------------------------------
\* Properties

\* A row never shows an older event than one that is applied for good: whatever
\* was applied to the key after what its row shows is still ahead of the
\* consumer, to be delivered again.  (The order of Deliver, ApplyEvent and the
\* COMMIT over restarts, redelivery, rolled-back and unanswered batches.)
RowsShowLatestApplied ==
    \A o \in 1 .. Len(log) :
        fate[o] = "applied" /\ o > table[log[o].key] => o >= position

\* With manual commits and no batching the group never passes over an event
\* that was not applied, skipped, dead-lettered or counted as dlq_failed.
\* (commit_offset runs after the write of the event has been answered.)
NothingPassedOver ==
    ~AutoCommit /\ ~Batching =>
        \A o \in 1 .. committed - 1 : fate[o] \in Settled

\* In any mode the events the group has passed over without settling them are
\* at most one batch per process started, and one per failed commit_message.
\* (commit_offset and auto-commit run ahead of the COMMIT of the batch.)
PassedOver == {o \in 1 .. committed - 1 : fate[o] \notin Settled}
OneBatchAtRisk ==
    Cardinality(PassedOver) <= BatchSize * incarnation + commitFailed

\* A process that keeps running on a healthy session keeps catching up: again
\* and again it has handled all of the partition and nothing is left staged.
\* (The idle COMMIT flushes a partial batch.)
CatchesUp ==
    (<>[](pc \in Running /\ session = "up"))
        => []<>(/\ position > Len(log)
                /\ \A o \in Offsets : fate[o] \notin {"inflight", "staged"})

\* Manual commits without batching implement at-least-once processing.
AtLeastOnceSpec ==
    INSTANCE AtLeastOnce WITH settled <- {o \in Offsets : fate[o] \in Settled}
ImplementsAtLeastOnce == AtLeastOnceSpec!Spec
=============================================================================
