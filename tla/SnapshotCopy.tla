--------------------------- MODULE SnapshotCopy ---------------------------
(***************************************************************************)
(* The streaming loop of mongo2pg kafka-import on the COPY path: events    *)
(* are buffered, and flush_snapshot_copy_buffer writes a whole buffer.     *)
(*                                                                         *)
(* A flush sorts the buffer into one batch per table and a pass-through    *)
(* queue.  A batch is tried as one COPY in a transaction, then as one      *)
(* multi-row INSERT ... ON CONFLICT, then event by event; the pass-through *)
(* queue is written event by event after all the batches.  Every statement *)
(* to PostgreSQL is a step: it may find the session lost, and the process  *)
(* may be killed between any two.  The COPY path runs only when every      *)
(* mapping is a root mapping, so an event is one row.                      *)
(*                                                                         *)
(* The offsets are never committed by the loop itself: with auto-commit    *)
(* the client commits what it has handed over, buffered or not.            *)
(***************************************************************************)
EXTENDS ChangeLog, FiniteSets, FiniteSetsExt, SequencesExt, Subsequences

CONSTANTS
    Tables,             \* target tables
    TableOf,            \* the table of each key's collection
    Existing,           \* keys that have a row before the first event
    AutoCommit,         \* kafka.enable_auto_commit
    BatchSize,          \* kafka.transaction_batch_size
    FlushAfter,         \* kafka.flush_batch_after is set
    SnapshotMode,       \* offset = "0": a fresh group, read from the start
    MaxIncarnations     \* bound: processes ever started

ASSUME CopyAssumption ==
    /\ TableOf \in [Keys -> Tables]
    /\ Existing \subseteq Keys
    /\ AutoCommit \in BOOLEAN
    /\ BatchSize \in Nat \ {0}
    /\ FlushAfter \in BOOLEAN
    /\ SnapshotMode \in BOOLEAN
    /\ MaxIncarnations \in Nat \ {0}

VARIABLES
    log, committed,     \* broker: the partition, the group's next offset
    pc,                 \* where the process is, or how it ended
    position, stored,   \* next offset handed over; as the client would commit it
    leaving,            \* the flush in progress is the final one
    buffer,             \* snapshot_buffer
    batches,            \* batches of the flush not yet written
    replay,             \* events of the failed batch still to be replayed
    passThrough,        \* pass_through
    copyAllowed,        \* copy_allowed_cache
    incarnation,        \* number of processes started so far
    session,            \* the PostgreSQL session: "up" or "lost"
    table,              \* committed rows
    fate                \* what has become of the event at each offset

broker  == <<log, committed>>
client  == <<position, stored>>
flush   == <<buffer, batches, replay, passThrough>>
run     == <<leaving, copyAllowed, incarnation>>
vars == <<log, committed, pc, position, stored, leaving, buffer, batches,
          replay, passThrough, copyAllowed, incarnation, session, table,
          fate>>

\* As in KafkaImport, with "held" for buffered or in the flush, "dropped" also
\* for a pass-through event that failed (apply_failed only), and "rejected"
\* for one whose single-row replay PostgreSQL refused.
Fates   == {"unseen", "held", "applied", "skipped", "dlq", "dropped",
            "rejected", "lost"}
Settled == {"applied", "skipped", "dlq", "dropped"}

Running == {"poll", "flush", "write", "commit", "upsert", "dlq"}
Ended   == {"stopped", "failed", "killed"}

Batch == [table : Tables, events : Seq(Offsets)]

TypeOK ==
    /\ log \in Seq(Event) /\ Len(log) <= MaxLog
    /\ committed \in 1 .. MaxLog + 1
    /\ pc \in Running \union Ended
    /\ position \in 1 .. MaxLog + 1
    /\ stored \in 1 .. MaxLog + 1
    /\ leaving \in BOOLEAN
    /\ buffer \in Seq(Offsets) /\ Len(buffer) <= BatchSize
    /\ batches \in Seq(Batch)
    /\ replay \in Seq(Offsets)
    /\ passThrough \in Seq(Offsets)
    /\ copyAllowed \in [Tables -> BOOLEAN]
    /\ incarnation \in Nat
    /\ session \in {"up", "lost"}
    /\ table \in Rows
    /\ fate \in [Offsets -> Fates]

Init ==
    /\ log = <<>>
    /\ committed = 1
    /\ pc = "poll"
    /\ position = 1
    /\ stored = 1
    /\ leaving = FALSE
    /\ buffer = <<>>
    /\ batches = <<>>
    /\ replay = <<>>
    /\ passThrough = <<>>
    /\ copyAllowed = [t \in Tables |-> TRUE]
    /\ incarnation = 1
    /\ session = "up"
    /\ table = [k \in Keys |-> NoEvent]
    /\ fate = [o \in Offsets |-> "unseen"]

-----------------------------------------------------------------------------
\* The buffer and its batches.  FullOneLate, IdleFlushWhenFull,
\* BypassingReversed and UpsertDisabledDrops are faulty variants of the
\* operator below each, which nothing uses: put in its place, they must break
\* a property.

FullOneLate(s) == Len(s) > BatchSize
Full(s)        == Len(s) >= BatchSize

IdleFlushWhenFull == ~SnapshotMode /\ Len(buffer) >= BatchSize
IdleFlushDue      == ~SnapshotMode /\ buffer # <<>>

\* build_snapshot_copy_row makes a row of the event.
Batchable(o) == log[o].kind \in {"upsert", "poison"}

\* build_snapshot_copy_row fails: a required field, or the whole after-image,
\* is missing, or a value fails a check of its own.  A "poison" event gets past
\* it, and PostgreSQL refuses it.
Unbuildable(o) == log[o].kind = "incomplete"

EventTable(o) == TableOf[log[o].key]

\* One batch per table, in the order the tables first occur in the buffer,
\* which is in offset order.
BatchOf(s, t) ==
    [table |-> t, events |-> Pick(s, {o \in ToSet(s) : EventTable(o) = t})]

FirstOfTable(s) ==
    {o \in ToSet(s) :
        \A p \in ToSet(s) : EventTable(p) = EventTable(o) => o <= p}

BatchesOf(s) ==
    LET built  == Pick(s, {o \in ToSet(s) : Batchable(o)})
        firsts == Pick(built, FirstOfTable(built))
    IN  [i \in DOMAIN firsts |-> BatchOf(built, EventTable(firsts[i]))]

\* Everything else keeps its order in the pass-through queue.
BypassingReversed(s) == Reverse(Pick(s, {o \in ToSet(s) : ~Batchable(o)}))
Bypassing(s)         == Pick(s, {o \in ToSet(s) : ~Batchable(o)})

Current  == Head(batches)
Held     == buffer \o replay \o passThrough
              \o FlattenSeq([i \in DOMAIN batches |-> batches[i].events])
InHand   == ToSet(Held)

-----------------------------------------------------------------------------
\* PostgreSQL's answer to the statements of a flush

Present(k) ==
    IF table[k] = NoEvent THEN k \in Existing ELSE IsUpsert(log[table[k]])

Repeats(s)   == \E i, j \in DOMAIN s : i # j /\ log[s[i]].key = log[s[j]].key
HasPoison(s) == \E i \in DOMAIN s : log[s[i]].kind = "poison"

\* COPY only inserts: a repeated or existing key is a duplicate key.
Duplicate(s) == Repeats(s) \/ \E i \in DOMAIN s : Present(log[s[i]].key)

\* The rows after the events of s, which are in offset order.
Written(rows, s) ==
    [k \in Keys |->
        LET touching == {o \in ToSet(s) : log[o].key = k}
        IN  IF touching = {} THEN rows[k] ELSE Max(touching)]

\* A statement succeeds, or is refused; or the session is lost, before the
\* statement or after it took effect and before its answer.
Execute(rows, valid, Ok, Err) ==
    \/ session = "up" /\ valid /\ table' = rows /\ UNCHANGED session /\ Ok
    \/ session = "up" /\ ~valid /\ UNCHANGED <<table, session>> /\ Err
    \/ session' = "lost" /\ UNCHANGED table /\ Err
    \/ session = "up" /\ valid /\ table' = rows /\ session' = "lost" /\ Err

Mark(s, f) == [o \in Offsets |-> IF o \in s THEN f ELSE fate[o]]

\* run_kafka_import returns, or the process is killed: what it holds is gone.
Forget(how) ==
    /\ pc' = how
    /\ buffer' = <<>>
    /\ batches' = <<>>
    /\ replay' = <<>>
    /\ passThrough' = <<>>

Leave(how) ==
    /\ Forget(how)
    /\ fate' = Mark(InHand, "lost")
    /\ UNCHANGED <<broker, client, run, session, table>>

-----------------------------------------------------------------------------
\* The environment

\* What the process has not been handed yet influences nothing, so the next
\* event is appended when it is asked for.
Produce ==
    /\ pc = "poll"
    /\ position > Len(log)
    /\ Len(log) < MaxLog
    /\ \E e \in [key : Keys, kind : Kinds] : log' = Append(log, e)
    /\ UNCHANGED <<committed, pc, client, flush, run, session, table, fate>>

OffsetCommit ==
    /\ pc \in Running
    /\ stored > committed
    /\ committed' = stored
    /\ UNCHANGED <<log, pc, client, flush, run, session, table, fate>>

Kill ==
    /\ pc \in Running
    /\ Leave("killed")

\* A new process has a new session and an empty copy_allowed_cache.  It resumes
\* at the committed offset; in snapshot mode it joins a fresh group and reads
\* from the start.
Restart ==
    /\ pc \in Ended
    /\ incarnation < MaxIncarnations
    /\ pc' = "poll"
    /\ committed' = IF SnapshotMode THEN 1 ELSE committed
    /\ position' = committed'
    /\ stored' = committed'
    /\ leaving' = FALSE
    /\ copyAllowed' = [t \in Tables |-> TRUE]
    /\ incarnation' = incarnation + 1
    /\ session' = "up"
    /\ UNCHANGED <<log, flush, table, fate>>

-----------------------------------------------------------------------------
\* The loop

\* The next event is buffered; a full or old buffer is flushed at once.
Deliver ==
    /\ pc = "poll"
    /\ position <= Len(log)
    /\ position' = position + 1
    /\ stored' = IF AutoCommit THEN position + 1 ELSE stored
    /\ IF log[position].kind = "garbled"
       THEN /\ fate' = [fate EXCEPT ![position] = "skipped"]
            /\ UNCHANGED <<pc, buffer>>
       ELSE /\ fate' = [fate EXCEPT ![position] = "held"]
            /\ buffer' = Append(buffer, position)
            /\ pc' \in IF Full(buffer') THEN {"flush"}
                       ELSE IF FlushAfter THEN {"flush", "poll"} ELSE {"poll"}
    /\ UNCHANGED <<broker, batches, replay, passThrough, run, session, table>>

\* An idle gap flushes a partial buffer.
IdleFlush ==
    /\ pc = "poll"
    /\ IdleFlushDue
    /\ pc' = "flush"
    /\ UNCHANGED <<broker, client, flush, run, session, table, fate>>

\* The loop ends (end of stream, idle gap in snapshot mode, stop_on_no_lag,
\* max_messages) with a final flush.
LeaveLoop ==
    /\ pc = "poll"
    /\ leaving' = TRUE
    /\ pc' = "flush"
    /\ UNCHANGED <<broker, client, flush, copyAllowed, incarnation, session,
                   table, fate>>

-----------------------------------------------------------------------------
\* flush_snapshot_copy_buffer

\* The buffer is taken over and sorted; one row that cannot be built aborts
\* the flush, and with it the import, before anything is written.
SortBuffer ==
    /\ pc = "flush"
    /\ ~ \E i \in DOMAIN buffer : Unbuildable(buffer[i])
    /\ buffer' = <<>>
    /\ batches' = BatchesOf(buffer)
    /\ passThrough' = Bypassing(buffer)
    /\ pc' = "write"
    /\ UNCHANGED <<broker, client, replay, run, session, table, fate>>

SortFails ==
    /\ pc = "flush"
    /\ \E i \in DOMAIN buffer : Unbuildable(buffer[i])
    /\ Leave("failed")

\* COPY is disabled for the table: one multi-row upsert; if that is refused
\* the batch joins the end of the pass-through queue.
UpsertDisabledDrops == UNCHANGED <<passThrough, fate>>

UpsertDisabledFails ==
    /\ passThrough' = passThrough \o Current.events
    /\ UNCHANGED fate

UpsertInstead ==
    /\ pc = "write"
    /\ replay = <<>>
    /\ batches # <<>>
    /\ ~copyAllowed[Current.table]
    /\ Execute(Written(table, Current.events),
               ~Repeats(Current.events) /\ ~HasPoison(Current.events),
               /\ fate' = Mark(ToSet(Current.events), "applied")
               /\ UNCHANGED passThrough,
               UpsertDisabledFails)
    /\ batches' = Tail(batches)
    /\ UNCHANGED <<broker, pc, client, buffer, replay, run>>

\* BEGIN and COPY succeed; COMMIT is still to come.
Copy ==
    /\ pc = "write"
    /\ replay = <<>>
    /\ batches # <<>>
    /\ copyAllowed[Current.table]
    /\ session = "up"
    /\ ~Duplicate(Current.events)
    /\ ~HasPoison(Current.events)
    /\ pc' = "commit"
    /\ UNCHANGED <<broker, client, flush, run, session, table, fate>>

CommitCopy ==
    /\ pc = "commit"
    /\ Execute(Written(table, Current.events), TRUE,
               /\ fate' = Mark(ToSet(Current.events), "applied")
               /\ batches' = Tail(batches)
               /\ pc' = "write",
               pc' = "upsert" /\ UNCHANGED <<fate, batches>>)
    /\ UNCHANGED <<broker, client, buffer, replay, passThrough, run>>

\* BEGIN fails, or COPY fails and is rolled back.  A duplicate key, if that is
\* what PostgreSQL complains of first, disables COPY for the table.
CopyFails ==
    /\ pc = "write"
    /\ replay = <<>>
    /\ batches # <<>>
    /\ copyAllowed[Current.table]
    /\ \/ session' = "lost" /\ UNCHANGED copyAllowed
       \/ /\ session = "up"
          /\ HasPoison(Current.events)
          /\ UNCHANGED <<session, copyAllowed>>
       \/ /\ session = "up"
          /\ Duplicate(Current.events)
          /\ copyAllowed' = [copyAllowed EXCEPT ![Current.table] = FALSE]
          /\ UNCHANGED session
    /\ pc' = "upsert"
    /\ UNCHANGED <<broker, client, leaving, flush, incarnation, table, fate>>

\* The fallback multi-row upsert; PostgreSQL refuses one that repeats a key.
FallbackUpsert ==
    /\ pc = "upsert"
    /\ batches' = Tail(batches)
    /\ Execute(Written(table, Current.events),
               ~Repeats(Current.events) /\ ~HasPoison(Current.events),
               /\ fate' = Mark(ToSet(Current.events), "applied")
               /\ pc' = "write"
               /\ UNCHANGED replay,
               /\ replay' = Current.events
               /\ pc' = "write"
               /\ UNCHANGED fate)
    /\ UNCHANGED <<broker, client, buffer, passThrough, run>>

\* The single-row replay of a batch through write_to_pg, oldest event first.
ReplayApplies ==
    /\ fate' = Mark({Head(replay)}, "applied")
    /\ replay' = Tail(replay)
    /\ UNCHANGED <<pc, buffer, batches, passThrough>>

\* Not is_postgres_unavailable: the import gives up and the event is not
\* dead-lettered; otherwise the event goes to dlq_<collection>.
ReplayRefused ==
    \/ /\ Forget("failed")
       /\ fate' = [Mark(InHand, "lost") EXCEPT ![Head(replay)] = "rejected"]
    \/ /\ session' = "lost"
       /\ pc' = "dlq"
       /\ UNCHANGED <<flush, fate>>

Replay ==
    /\ pc = "write"
    /\ replay # <<>>
    /\ Execute(Written(table, <<Head(replay)>>),
               log[Head(replay)].kind # "poison",
               ReplayApplies, ReplayRefused)
    /\ UNCHANGED <<broker, client, run>>

\* The dead letter is published, or counted as dlq_failed; the replay goes on.
DeadLetter ==
    /\ pc = "dlq"
    /\ \E outcome \in {"dlq", "dropped"} : fate' = Mark({Head(replay)}, outcome)
    /\ replay' = Tail(replay)
    /\ pc' = "write"
    /\ UNCHANGED <<broker, client, buffer, batches, passThrough, run, session,
                   table>>

\* The pass-through queue through write_to_pg; a failure is only counted.
PassThrough ==
    /\ pc = "write"
    /\ replay = <<>> /\ batches = <<>>
    /\ passThrough # <<>>
    /\ passThrough' = Tail(passThrough)
    /\ LET o == Head(passThrough) IN
       \/ /\ IsSkipped(log[o])
          /\ fate' = Mark({o}, "skipped")
          /\ UNCHANGED <<table, session>>
       \/ /\ ~IsSkipped(log[o])
          /\ Execute(Written(table, <<o>>), log[o].kind # "poison",
                     fate' = Mark({o}, "applied"), fate' = Mark({o}, "dropped"))
    /\ UNCHANGED <<broker, pc, client, buffer, batches, replay, run>>

FlushDone ==
    /\ pc = "write"
    /\ replay = <<>> /\ batches = <<>> /\ passThrough = <<>>
    /\ pc' = IF leaving THEN "stopped" ELSE "poll"
    /\ UNCHANGED <<broker, client, flush, run, session, table, fate>>

-----------------------------------------------------------------------------
Consume ==
    \/ Deliver
    \/ IdleFlush
    \/ SortBuffer \/ SortFails
    \/ UpsertInstead \/ Copy \/ CommitCopy \/ CopyFails \/ FallbackUpsert
    \/ Replay \/ DeadLetter
    \/ PassThrough \/ FlushDone

Environment ==
    \/ Produce
    \/ OffsetCommit
    \/ Kill \/ Restart
    \/ LeaveLoop

Next == Consume \/ Environment

Spec == Init /\ [][Next]_vars

\* The process is one task: while it can take a step of its loop it does.
FairSpec == Spec /\ WF_vars(Consume)

-----------------------------------------------------------------------------
\* Properties

\* Every event is in exactly one place: settled or not yet delivered, or held
\* by exactly one of the buffer, a batch, the replay and the pass-through
\* queue.  (No hand-over between the stages of a flush loses or duplicates an
\* event.)
InOnePlace ==
    /\ IsInjective(Held)
    /\ ToSet(Held) = {o \in Offsets : fate[o] = "held"}

\* A row shows an older event than one applied for good only if the two took
\* different paths through one flush, the batch and the pass-through queue.
\* (A delete and an upsert of one key in one buffer can change places; two
\* upserts, or two deletes, cannot.)
OvertakenOnlyAcrossPaths ==
    \A o \in 1 .. Len(log) :
        LET shown == table[log[o].key] IN
        fate[o] = "applied" /\ shown < o /\ o < position /\ shown # NoEvent
            => Batchable(o) # Batchable(shown)

\* The group passes over at most one buffer of unsettled events per process.
\* (Auto-commit commits the offsets of events that are only buffered.)
PassedOver == {o \in 1 .. committed - 1 : fate[o] \notin Settled}
OneBufferAtRisk == Cardinality(PassedOver) <= BatchSize * incarnation

\* A process that keeps running on a healthy session keeps catching up: again
\* and again it has been handed all of the partition and holds nothing.
CatchesUp ==
    (<>[](pc \in Running /\ session = "up"))
        => []<>(position > Len(log) /\ InHand = {})

\* An event whose row PostgreSQL refuses in the replay after a failed COPY, over
\* a session that is up, is not left out of the dead-letter topic.
ReplayFailureIsDeadLettered ==
    \A o \in DOMAIN log :
        log[o].kind = "poison" /\ session = "up" => fate[o] # "rejected"

\* When a snapshot import has stopped, no row is left over from before it.
SnapshotStartsClean ==
    SnapshotMode /\ pc = "stopped" =>
        \A k \in Keys : Present(k) => table[k] # NoEvent
=============================================================================
