------------------------- MODULE KafkaImportProofs -------------------------
(***************************************************************************)
(* Theorems about KafkaImport, for every log length, batch size, set of    *)
(* documents and number of restarts.                                       *)
(***************************************************************************)
EXTENDS KafkaImport, SequenceLemmas

USE LogAssumption, KafkaAssumption

\* TypeOK without tx_open: the prover of the other parts does not take
\* Boolean-valued variables well.
TypeButTx ==
    /\ log \in Seq(Event) /\ Len(log) <= MaxLog
    /\ committed \in 1 .. MaxLog + 1
    /\ pc \in Running \union Ended
    /\ position \in 1 .. MaxLog + 1
    /\ stored \in 1 .. MaxLog + 1
    /\ pending \in Nat
    /\ commitFailed \in Nat
    /\ incarnation \in Nat
    /\ session \in {"up", "lost"}
    /\ table \in Rows
    /\ txTable \in Rows
    /\ fate \in [Offsets -> Fates]

\* TypeOK is its two parts.
LEMMA TypeSplit == TypeOK <=> TypeButTx /\ txOpen \in BOOLEAN
  BY DEF TypeOK, TypeButTx

\* The initial state of every process and row is well typed.
LEMMA TypeInit == Init => TypeOK
<1> SUFFICES ASSUME Init PROVE TypeOK
    OBVIOUS
<1>1. txOpen \in BOOLEAN
    BY DEF Init
<1>2. TypeButTx
    BY DEF Init, TypeButTx, Event, Rows, Offsets, Fates, Running, NoEvent
<1> QED
    BY <1>1, <1>2, TypeSplit

\* Settling events with a known fate keeps every fate a known one.
LEMMA SettleType ==
  ASSUME NEW from, NEW to \in Fates, fate \in [Offsets -> Fates]
  PROVE  Settle(from, to) \in [Offsets -> Fates]
  BY DEF Settle

\* A row shows the offset of an event of the log once it is written.
LEMMA WriteType ==
  ASSUME TypeButTx, NEW rows \in Rows
  PROVE  Write(rows, cur) \in Rows
<1>1. cur \in 0 .. MaxLog
    BY DEF TypeButTx, cur
<1> QED
    BY <1>1 DEF Write, Rows

\* Every step leaves tx_open a Boolean.
LEMMA TxTypeNext == TypeOK /\ [Next]_vars => txOpen' \in BOOLEAN
<1> SUFFICES ASSUME txOpen \in BOOLEAN, [Next]_vars PROVE txOpen' \in BOOLEAN
    BY DEF TypeOK
<1> QED
    BY DEF Next, Consume, Environment, vars, Produce, OffsetCommit, LoseSession,
       Kill, Leave, Restart, Deliver, BeginTx, BeginTxFails, SkipEvent,
       ApplyEvent, RejectEvent, WriteUnavailable, WriteUnanswered, DeadLetter,
       CommitOffset, CommitOffsetFails, BatchDue, BatchNotDue, BatchDueFails,
       IdleCommit, CommitUnanswered, CommitBatch, AbandonBatch, LeaveLoop,
       Finish

\* The type invariant is inductive as it stands.
LEMMA TypeNext == TypeOK /\ [Next]_vars => TypeOK'
<1> SUFFICES ASSUME TypeOK, [Next]_vars PROVE TypeButTx'
    BY TxTypeNext DEF TypeOK, TypeButTx
<1> USE DEF TypeOK, TypeButTx
<1>1. CASE UNCHANGED vars
    BY <1>1 DEF vars
<1>2. CASE Produce
    BY <1>2 DEF Produce, Event, counts
<1>3. CASE OffsetCommit
    BY <1>3 DEF OffsetCommit, counts
<1>4. CASE LoseSession
    BY <1>4 DEF LoseSession, counts, broker
<1>5. ASSUME NEW how \in Ended, Leave(how) PROVE TypeButTx'
    BY <1>5, SettleType DEF Leave, counts, Ended, Fates
<1>6. CASE Kill
    BY <1>6, <1>5 DEF Kill, Ended
<1>7. CASE Restart
    BY <1>7 DEF Restart, ResumeAt, broker, Running
<1>8. CASE Deliver
    BY <1>8 DEF Deliver, StoredOnDelivery, broker, counts, Running, Fates
<1>9. CASE BeginTx
    BY <1>9 DEF BeginTx, broker, counts, Running
<1>10. CASE BeginTxFails
    BY <1>10, <1>5 DEF BeginTxFails, Ended
<1>11. CASE SkipEvent
    BY <1>11 DEF SkipEvent, broker, counts, Running, Fates
<1>12. CASE ApplyEvent
    BY <1>12, WriteType DEF ApplyEvent, broker, counts, Running, Fates
<1>13. CASE RejectEvent
    BY <1>13, <1>5 DEF RejectEvent, Ended
<1>14. CASE WriteUnavailable
    BY <1>14, <1>5 DEF WriteUnavailable, Ended, Running, broker, counts
<1>15. CASE WriteUnanswered
  <2>1. fate' \in [Offsets -> Fates]
      BY <1>15 DEF WriteUnanswered, Fates
  <2>2. table' \in Rows
      BY <1>15, WriteType DEF WriteUnanswered
  <2> QED
      BY <1>15, <2>1, <2>2 DEF WriteUnanswered, broker, counts, Running, Ended
<1>16. CASE DeadLetter
  <2>1. Settle({"staged"}, "lost") \in [Offsets -> Fates]
      BY SettleType DEF Fates
  <2>2. fate' \in [Offsets -> Fates]
      BY <1>16, <2>1 DEF DeadLetter, Fates
  <2> QED
      BY <1>16, <2>2 DEF DeadLetter, broker, Running
<1>17. CASE CommitOffset
    BY <1>17 DEF CommitOffset, broker, Running
<1>18. CASE CommitOffsetFails
    BY <1>18 DEF CommitOffsetFails, broker, Running
<1>19. CASE BatchDue
    BY <1>19, SettleType DEF BatchDue, CommitBatch, broker, Running, Fates
<1>20. CASE BatchNotDue
    BY <1>20 DEF BatchNotDue, broker, counts, Running
<1>21. CASE BatchDueFails
    BY <1>21, <1>5 DEF BatchDueFails, Ended
<1>22. CASE IdleCommit
    BY <1>22, SettleType DEF IdleCommit, CommitBatch, AbandonBatch, broker, Fates
<1>23. CASE CommitUnanswered
    BY <1>23, SettleType DEF CommitUnanswered, CommitBatch, broker, Running, Ended, Fates
<1>24. CASE LeaveLoop
    BY <1>24 DEF LeaveLoop, broker, counts, Running
<1>25. CASE Finish
    BY <1>25, SettleType DEF Finish, CommitBatch, broker, Ended, Fates
<1> QED
    BY <1>1, <1>2, <1>3, <1>4, <1>6, <1>7, <1>8, <1>9, <1>10, <1>11, <1>12,
       <1>13, <1>14, <1>15, <1>16, <1>17, <1>18, <1>19, <1>20, <1>21, <1>22,
       <1>23, <1>24, <1>25
    DEF Next, Consume, Environment

\* Every reachable state is well typed.
THEOREM TypeCorrect == Spec => []TypeOK
  BY TypeInit, TypeNext, PTL DEF Spec

-----------------------------------------------------------------------------
\* Offsets are committed after they are stored, and stored after delivery.
OffsetOrder ==
    /\ committed <= stored
    /\ stored <= position
    /\ position <= Len(log) + 1
    /\ pc \in {"begin", "write", "dlq", "offset", "tally"} => position > 1

\* The committed, stored and next offsets stay in this order.
LEMMA OrderNext == TypeOK /\ OffsetOrder /\ [Next]_vars => OffsetOrder'
<1> SUFFICES ASSUME TypeOK, OffsetOrder, [Next]_vars PROVE OffsetOrder'
    OBVIOUS
<1> USE DEF OffsetOrder
<1>1. CASE Produce
    BY <1>1 DEF Produce, TypeOK, counts
<1>2. CASE Restart
    BY <1>2 DEF Restart, ResumeAt, TypeOK, broker
<1>3. CASE Deliver
    BY <1>3 DEF Deliver, StoredOnDelivery, TypeOK, broker
<1>4. CASE OffsetCommit
    BY <1>4 DEF OffsetCommit, TypeOK
<1>5. CASE CommitOffset
    BY <1>5 DEF CommitOffset, TypeOK, broker
<1>6. ASSUME UNCHANGED <<broker, position, stored>>,
             \/ pc' \notin {"begin", "write", "dlq", "offset", "tally"}
             \/ pc \in {"begin", "write", "dlq", "offset", "tally"}
      PROVE  OffsetOrder'
    BY <1>6 DEF TypeOK, broker
<1>7. CASE UNCHANGED vars
    BY <1>7, <1>6 DEF vars, broker
<1>8. CASE LoseSession \/ Kill \/ BeginTx \/ BeginTxFails \/ SkipEvent \/ ApplyEvent
    BY <1>8, <1>6 DEF LoseSession, Kill, Leave, BeginTx, BeginTxFails, SkipEvent,
       ApplyEvent, broker
<1>9. CASE RejectEvent \/ WriteUnavailable \/ WriteUnanswered \/ DeadLetter
    BY <1>9, <1>6 DEF RejectEvent, Leave, WriteUnavailable, WriteUnanswered,
       DeadLetter, broker
<1>10. CASE CommitOffsetFails \/ BatchDue \/ BatchNotDue \/ BatchDueFails
    BY <1>10, <1>6 DEF CommitOffsetFails, BatchDue, BatchNotDue, BatchDueFails,
       Leave, broker
<1>11. CASE IdleCommit \/ CommitUnanswered \/ LeaveLoop \/ Finish
    BY <1>11, <1>6 DEF IdleCommit, CommitUnanswered, LeaveLoop, Finish, broker
<1> QED
    BY <1>1, <1>2, <1>3, <1>4, <1>5, <1>7, <1>8, <1>9, <1>10, <1>11
    DEF Next, Consume, Environment

\* What an open transaction goes with.
TxShape ==
    /\ pc = "begin" => Batching /\ ~txOpen
    /\ txOpen => Batching
    /\ Batching /\ pc \in {"write", "offset", "tally"} => txOpen
    /\ pc = "tally" => Batching
    /\ pending > 0 => txOpen

\* A transaction is open exactly where the loop takes it to be.
LEMMA TxShapeNext == TypeOK /\ TxShape /\ [Next]_vars => TxShape'
<1> SUFFICES ASSUME TypeOK, TxShape, [Next]_vars PROVE TxShape'
    OBVIOUS
<1> USE DEF TxShape
<1>1. CASE UNCHANGED vars
    BY <1>1 DEF vars
<1>2. CASE Produce \/ OffsetCommit \/ LoseSession \/ Kill \/ Restart \/ LeaveLoop
    BY <1>2 DEF Produce, OffsetCommit, LoseSession, Kill, Leave, Restart,
       LeaveLoop, counts
<1>3. CASE Deliver
    BY <1>3 DEF Deliver, counts
<1>4. CASE BeginTx \/ BeginTxFails \/ SkipEvent \/ ApplyEvent \/ RejectEvent
    BY <1>4 DEF BeginTx, BeginTxFails, Leave, SkipEvent, ApplyEvent, RejectEvent,
       counts
<1>5. CASE WriteUnavailable \/ WriteUnanswered \/ DeadLetter
    BY <1>5 DEF WriteUnavailable, Leave, WriteUnanswered, DeadLetter, counts
<1>6. CASE CommitOffset \/ CommitOffsetFails
    BY <1>6 DEF CommitOffset, CommitOffsetFails, counts
<1>7. CASE BatchDue \/ BatchNotDue \/ BatchDueFails
    BY <1>7 DEF BatchDue, CommitBatch, BatchNotDue, BatchDueFails, Leave, counts
<1>8. CASE IdleCommit \/ CommitUnanswered \/ Finish
    BY <1>8 DEF IdleCommit, CommitUnanswered, CommitBatch, AbandonBatch, Finish,
       counts
<1> QED
    BY <1>1, <1>2, <1>3, <1>4, <1>5, <1>6, <1>7, <1>8
    DEF Next, Consume, Environment

\* What a transaction holds belongs to a running process.
StagedInTx ==
    \A o \in Offsets : fate[o] = "staged" => txOpen /\ pc \in Running

\* RowsShowLatestApplied, as it will be once the transaction commits.
TxRowsShowLatest ==
    txOpen =>
        \A o \in 1 .. Len(log) :
            fate[o] \in {"applied", "staged"} /\ o > txTable[log[o].key]
                => o >= position

\* Every way for a transaction to end settles or loses what it held.
LEMMA StagedNext ==
  TypeOK /\ TxShape /\ StagedInTx /\ [Next]_vars => StagedInTx'
<1> SUFFICES ASSUME TypeOK, TxShape, StagedInTx, [Next]_vars,
                    NEW o \in Offsets, fate'[o] = "staged"
             PROVE  txOpen' /\ pc' \in Running
    BY DEF StagedInTx
<1> USE DEF StagedInTx, Running
<1>1. CASE UNCHANGED vars
    BY <1>1 DEF vars
<1>2. CASE Produce \/ OffsetCommit \/ LoseSession \/ LeaveLoop
    BY <1>2 DEF Produce, OffsetCommit, LoseSession, LeaveLoop
<1>3. ASSUME NEW how, Leave(how) PROVE FALSE
    BY <1>3 DEF Leave, Settle
<1>4. CASE Kill \/ BeginTxFails \/ RejectEvent \/ BatchDueFails
    BY <1>4, <1>3 DEF Kill, BeginTxFails, RejectEvent, BatchDueFails
<1>5. CASE Restart
    BY <1>5 DEF Restart, Ended
<1>6. CASE Deliver
    BY <1>6 DEF Deliver, TypeOK
<1>7. CASE BeginTx \/ SkipEvent
    BY <1>7 DEF BeginTx, SkipEvent, TypeOK
<1>8. CASE ApplyEvent
    BY <1>8 DEF ApplyEvent, TypeOK
<1>9. CASE WriteUnavailable
    BY <1>9, <1>3 DEF WriteUnavailable
<1>10. CASE WriteUnanswered
    BY <1>10 DEF WriteUnanswered, TypeOK
<1>11. CASE DeadLetter
    BY <1>11 DEF DeadLetter, Settle, TypeOK
<1>12. CASE CommitOffset \/ CommitOffsetFails \/ BatchNotDue
    BY <1>12 DEF CommitOffset, CommitOffsetFails, BatchNotDue
<1>13. CASE BatchDue \/ IdleCommit \/ CommitUnanswered \/ Finish
    BY <1>13 DEF BatchDue, IdleCommit, CommitUnanswered, Finish, CommitBatch,
       AbandonBatch, Settle
<1> QED
    BY <1>1, <1>2, <1>4, <1>5, <1>6, <1>7, <1>8, <1>9, <1>10, <1>11, <1>12,
       <1>13
    DEF Next, Consume, Environment

\* No write, COMMIT, rollback, restart or redelivery makes a row regress.
LEMMA RowsNext ==
  /\ TypeOK /\ OffsetOrder /\ TxShape /\ StagedInTx
  /\ RowsShowLatestApplied /\ TxRowsShowLatest
  /\ [Next]_vars
  => RowsShowLatestApplied' /\ TxRowsShowLatest'
<1> SUFFICES ASSUME TypeOK, OffsetOrder, TxShape, StagedInTx,
                    RowsShowLatestApplied, TxRowsShowLatest, [Next]_vars
             PROVE  RowsShowLatestApplied' /\ TxRowsShowLatest'
    OBVIOUS
<1> USE DEF RowsShowLatestApplied, TxRowsShowLatest
<1>0. /\ position \in Nat /\ Len(log) \in Nat
      /\ 1 .. Len(log) \subseteq Offsets
      /\ \A o \in 1 .. Len(log) : log[o].key \in Keys
  <2>1. \A o \in 1 .. Len(log) : log[o] \in Event
      BY ElementOfSeq DEF TypeOK
  <2> QED
      BY <2>1 DEF TypeOK, Offsets, Event
\* Steps that write no row.
<1>1. ASSUME UNCHANGED <<log, position, table, txTable>>,
             txOpen' => txOpen,
             \A o \in Offsets :
                fate'[o] \in {"applied", "staged"} => fate'[o] = fate[o]
      PROVE  RowsShowLatestApplied' /\ TxRowsShowLatest'
    BY <1>0, <1>1
<1>2. CASE UNCHANGED vars \/ OffsetCommit \/ LoseSession
    BY <1>1, <1>2 DEF vars, OffsetCommit, LoseSession, broker
<1>3. ASSUME NEW how, Leave(how)
      PROVE  RowsShowLatestApplied' /\ TxRowsShowLatest'
    BY <1>1, <1>3 DEF Leave, Settle, broker
<1>4. CASE Kill \/ BeginTxFails \/ RejectEvent \/ BatchDueFails
    BY <1>3, <1>4 DEF Kill, BeginTxFails, RejectEvent, BatchDueFails
<1>5. CASE SkipEvent
    BY <1>1, <1>5 DEF SkipEvent, TypeOK, broker
<1>6. CASE WriteUnavailable
    BY <1>1, <1>3, <1>6 DEF WriteUnavailable, broker
<1>7. CASE DeadLetter
    BY <1>1, <1>7 DEF DeadLetter, Settle, TypeOK, broker
<1>8. CASE CommitOffset \/ CommitOffsetFails \/ BatchNotDue \/ LeaveLoop
    BY <1>1, <1>8 DEF CommitOffset, CommitOffsetFails, BatchNotDue, LeaveLoop,
       broker
\* Steps that move the consumer, or the end of the log.
<1>9. CASE Produce
    BY <1>0, <1>9 DEF Produce, OffsetOrder, TypeOK
<1>10. CASE Restart
    BY <1>0, <1>10 DEF Restart, ResumeAt, OffsetOrder, TypeOK, broker
<1>11. CASE Deliver
    BY <1>0, <1>11 DEF Deliver, TypeOK, broker
\* Steps that write a row, or make rows visible.
<1>12. CASE BeginTx
    BY <1>0, <1>12 DEF BeginTx, TxShape, StagedInTx, broker
<1>13. CASE ApplyEvent
  <2>1. /\ UNCHANGED <<log, position, txOpen>>
        /\ \A o \in Offsets : o # cur => fate'[o] = fate[o]
      BY <1>13 DEF ApplyEvent, TypeOK, broker
  <2>2. CASE txOpen
    <3>1. /\ UNCHANGED table
          /\ \A o \in Offsets : fate'[o] = "applied" => fate[o] = "applied"
          /\ \A o \in 1 .. Len(log) : o = cur => txTable'[log[o].key] = cur
          /\ \A k \in Keys : txTable'[k] \in {txTable[k], cur}
        BY <1>0, <1>13, <2>2 DEF ApplyEvent, Write, TypeOK, Rows
    <3> QED
        BY <1>0, <2>1, <2>2, <3>1 DEF cur
  <2>3. CASE ~txOpen
    <3>1. /\ \A o \in 1 .. Len(log) : o = cur => table'[log[o].key] = cur
          /\ \A k \in Keys : table'[k] \in {table[k], cur}
        BY <1>0, <1>13, <2>3 DEF ApplyEvent, Write, TypeOK, Rows
    <3> QED
        BY <1>0, <2>1, <2>3, <3>1 DEF cur
  <2> QED
      BY <2>2, <2>3
<1>14. CASE WriteUnanswered
    BY <1>0, <1>14 DEF WriteUnanswered, Write, cur, TypeOK, Rows, broker
<1>15. ASSUME txOpen, CommitBatch, UNCHANGED <<log, position>>
       PROVE  RowsShowLatestApplied' /\ TxRowsShowLatest'
    BY <1>0, <1>15 DEF CommitBatch, Settle
<1>16. CASE BatchDue \/ CommitUnanswered
    BY <1>15, <1>16 DEF BatchDue, CommitUnanswered, IdleDue, TxShape, broker
<1>17. CASE IdleCommit
    BY <1>1, <1>15, <1>17 DEF IdleCommit, IdleDue, AbandonBatch, Settle, broker
<1>18. CASE Finish
    BY <1>1, <1>15, <1>18 DEF Finish, TxShape, Settle, broker
<1> QED
    BY <1>2, <1>4, <1>5, <1>6, <1>7, <1>8, <1>9, <1>10, <1>11, <1>12, <1>13,
       <1>14, <1>16, <1>17, <1>18
    DEF Next, Consume, Environment

RowsInv ==
    /\ TypeOK /\ OffsetOrder /\ TxShape /\ StagedInTx
    /\ RowsShowLatestApplied /\ TxRowsShowLatest

\* The inductive invariant holds at first.
LEMMA RowsInit == Init => RowsInv
<1> SUFFICES ASSUME Init PROVE RowsInv
    OBVIOUS
<1>1. TypeOK
    BY TypeInit
<1>2. OffsetOrder
    BY DEF OffsetOrder, Init
<1>3. TxShape
    BY DEF TxShape, Init
<1>4. StagedInTx
    BY DEF StagedInTx, Init
<1>5. RowsShowLatestApplied /\ TxRowsShowLatest
    BY DEF RowsShowLatestApplied, TxRowsShowLatest, Init
<1> QED
    BY <1>1, <1>2, <1>3, <1>4, <1>5 DEF RowsInv

\* The inductive invariant of the streaming loop.
LEMMA RowsInvariant == Spec => []RowsInv
<1>1. RowsInv /\ [Next]_vars => RowsInv'
    BY TypeNext, OrderNext, TxShapeNext, StagedNext, RowsNext DEF RowsInv
<1> QED
    BY RowsInit, <1>1, PTL DEF Spec

\* Over any crashes, redeliveries, rolled-back and unanswered transactions: a
\* row never shows an older event than one applied to it for good.
THEOREM RowsCorrect == Spec => []RowsShowLatestApplied
<1>1. RowsInv => RowsShowLatestApplied
    BY DEF RowsInv
<1> QED
    BY RowsInvariant, <1>1, PTL

-----------------------------------------------------------------------------
\* Manual commits without batching.
OneByOne == ~AutoCommit /\ ~Batching

\* Everything delivered is settled, but for the event in hand or, once the
\* process has ended, the one it had in hand; that one is not yet stored.
DeliveredSettled ==
    OneByOne =>
        /\ \A o \in 1 .. stored - 1 : fate[o] \in Settled
        /\ \A o \in 1 .. position - 1 :
              \/ fate[o] \in Settled
              \/ o = cur /\ pc \in {"begin", "write", "dlq"} \union Ended
        /\ pc \in {"begin", "write", "dlq"} => fate[cur] = "inflight"
        /\ \A o \in Offsets :
              fate[o] = "inflight" => o = cur /\ pc \in {"begin", "write", "dlq"}

\* With manual commits and no batching, what is stored is settled.
LEMMA DeliveredNext ==
  RowsInv /\ DeliveredSettled /\ [Next]_vars => DeliveredSettled'
<1> SUFFICES ASSUME RowsInv, DeliveredSettled, [Next]_vars, OneByOne
             PROVE  DeliveredSettled'
    BY DEF DeliveredSettled, OneByOne
<1> USE DEF DeliveredSettled
<1>0. /\ position \in Nat /\ stored \in Nat /\ committed \in Nat
      /\ committed <= stored /\ stored <= position
      /\ 1 .. position - 1 \subseteq Offsets
      /\ ~txOpen
      /\ \A o \in Offsets : fate[o] # "staged"
      /\ pc \in {"begin", "write", "dlq", "offset", "tally"} => cur \in Offsets
      /\ fate \in [Offsets -> Fates]
      /\ "inflight" \notin Settled
    BY DEF RowsInv, TypeOK, OffsetOrder, TxShape, StagedInTx, OneByOne, Offsets,
       cur, Settled
\* Steps that neither deliver, store nor resume.
<1>1. ASSUME UNCHANGED <<position, stored, fate>>,
             \/ UNCHANGED pc
             \/ pc = "begin" /\ pc' = "write"
             \/ pc = "write" /\ pc' = "dlq"
             \/ pc \notin {"begin", "write", "dlq"} \union Ended
                /\ pc' \notin {"begin", "write", "dlq"}
      PROVE  DeliveredSettled'
    BY <1>0, <1>1 DEF cur
\* The event in hand is settled.
<1>2. ASSUME UNCHANGED <<position, stored>>,
             pc \in {"begin", "write", "dlq"}, pc' \in {"poll", "offset"},
             NEW f \in Settled, fate' = [fate EXCEPT ![cur] = f]
      PROVE  DeliveredSettled'
  <2>1. /\ cur' = cur /\ fate'[cur] \in Settled
        /\ \A o \in Offsets : o # cur => fate'[o] = fate[o]
      BY <1>0, <1>2 DEF cur
  <2> QED
      BY <1>0, <1>2, <2>1 DEF cur
\* The process ends.
<1>3. ASSUME UNCHANGED <<position, stored>>, pc' \in Ended,
             fate' = Settle({"inflight", "staged"}, "lost")
      PROVE  DeliveredSettled'
    BY <1>0, <1>3 DEF cur, Settle, Ended
<1>4. CASE UNCHANGED vars \/ Produce \/ OffsetCommit \/ LoseSession
    BY <1>1, <1>4 DEF vars, Produce, OffsetCommit, LoseSession
<1>5. ASSUME NEW how \in Ended, Leave(how) PROVE DeliveredSettled'
    BY <1>3, <1>5 DEF Leave
<1>6. CASE Kill \/ BeginTxFails \/ RejectEvent \/ BatchDueFails
    BY <1>5, <1>6 DEF Kill, BeginTxFails, RejectEvent, BatchDueFails, Ended
<1>7. CASE Restart
    BY <1>0, <1>7 DEF Restart, ResumeAt, Ended
<1>8. CASE Deliver
  <2>1. position \in Offsets /\ stored' = stored /\ position' = position + 1
      BY <1>8 DEF Deliver, StoredOnDelivery, RowsInv, TypeOK, Offsets, OneByOne
  <2>2. CASE fate' = [fate EXCEPT ![position] = "skipped"] /\ UNCHANGED pc
    <3>1. /\ fate'[position] \in Settled
          /\ \A o \in Offsets : o # position => fate'[o] = fate[o]
        BY <1>0, <2>1, <2>2 DEF Settled
    <3> QED
        BY <1>0, <1>8, <2>1, <2>2, <3>1 DEF Deliver, cur, Ended
  <2>3. CASE fate' = [fate EXCEPT ![position] = "inflight"]
             /\ pc' \in {"begin", "write"}
      BY <1>0, <1>8, <2>1, <2>3 DEF Deliver, cur, Ended
  <2> QED
      BY <1>8, <2>2, <2>3 DEF Deliver
<1>9. CASE BeginTx
    BY <1>0, <1>1, <1>9 DEF BeginTx, OneByOne, RowsInv, TxShape
<1>10. CASE SkipEvent
    BY <1>2, <1>10 DEF SkipEvent, Settled
<1>11. CASE ApplyEvent
    BY <1>0, <1>2, <1>11 DEF ApplyEvent, Settled
<1>12. CASE WriteUnavailable
    BY <1>1, <1>5, <1>12 DEF WriteUnavailable, Ended
<1>13. CASE WriteUnanswered
  <2>1. CASE pc' = "dlq"
    <3>1. fate' = fate
        BY <1>0, <1>13, <2>1 DEF WriteUnanswered
    <3> QED
        BY <1>1, <1>13, <2>1, <3>1 DEF WriteUnanswered
  <2>2. CASE pc' = "failed"
    <3>1. fate' = [fate EXCEPT ![cur] = "applied"]
        BY <1>13, <2>2 DEF WriteUnanswered
    <3> QED
        BY <1>0, <1>13, <2>2, <3>1 DEF WriteUnanswered, cur, Ended, Settled
  <2> QED
      BY <1>13, <2>1, <2>2 DEF WriteUnanswered
<1>14. CASE DeadLetter
  <2>1. PICK outcome \in {"dlq", "dropped"} :
           fate' = [Settle({"staged"}, "lost") EXCEPT ![cur] = outcome]
      BY <1>14 DEF DeadLetter
  <2>2. Settle({"staged"}, "lost") = fate
      BY <1>0 DEF Settle
  <2> QED
      BY <1>2, <1>14, <2>1, <2>2 DEF DeadLetter, Settled
<1>15. CASE CommitOffset
    BY <1>0, <1>15 DEF CommitOffset, OneByOne, cur, Ended
<1>16. CASE CommitOffsetFails \/ LeaveLoop
    BY <1>1, <1>16 DEF CommitOffsetFails, LeaveLoop, Ended
<1>17. CASE BatchDue \/ BatchNotDue
    BY <1>17 DEF BatchDue, BatchNotDue, OneByOne, RowsInv, TxShape
<1>18. CASE IdleCommit \/ CommitUnanswered
    BY <1>0, <1>18 DEF IdleCommit, IdleDue, CommitUnanswered, OneByOne, RowsInv,
       TxShape, TypeOK
<1>19. CASE Finish
  <2>1. pending = 0
      BY <1>0 DEF RowsInv, TxShape, TypeOK
  <2>2. Settle({"staged"}, "lost") = fate
      BY <1>0 DEF Settle
  <2> QED
      BY <1>1, <1>19, <2>1, <2>2 DEF Finish, Ended
<1> QED
    BY <1>4, <1>6, <1>7, <1>8, <1>9, <1>10, <1>11, <1>12, <1>13, <1>14, <1>15,
       <1>16, <1>17, <1>18, <1>19
    DEF Next, Consume, Environment

DeliveredInv == RowsInv /\ DeliveredSettled

\* The inductive invariant of manual commits without batching.
LEMMA DeliveredInvariant == Spec => []DeliveredInv
<1>1. Init => DeliveredInv
    BY RowsInit DEF Init, DeliveredInv, DeliveredSettled, Ended
<1>2. DeliveredInv /\ [Next]_vars => DeliveredInv'
    BY DeliveredNext, TypeNext, OrderNext, TxShapeNext, StagedNext, RowsNext
    DEF RowsInv, DeliveredInv
<1> QED
    BY <1>1, <1>2, PTL DEF Spec

\* What is committed is stored, and what is stored is settled.
LEMMA DeliveredImplies == DeliveredInv => NothingPassedOver
  BY DEF DeliveredInv, RowsInv, TypeOK, OffsetOrder, DeliveredSettled,
     NothingPassedOver, OneByOne

\* With manual commits and no batching the group never passes over an event
\* that was not settled.
THEOREM NothingPassedOverCorrect == Spec => []NothingPassedOver
  BY DeliveredInvariant, DeliveredImplies, PTL

\* The streaming loop, with manual commits and no batching, implements
\* at-least-once processing.
THEOREM AtLeastOnceCorrect ==
  ASSUME OneByOne
  PROVE  Spec => ImplementsAtLeastOnce
<1> DEFINE done == {o \in Offsets : fate[o] \in Settled}
<1>1. Init => AtLeastOnceSpec!Init
    BY DEF Init, AtLeastOnceSpec!Init, Settled
<1>2. ASSUME DeliveredInv, DeliveredInv', [Next]_vars
      PROVE  [AtLeastOnceSpec!Next]_(AtLeastOnceSpec!vars)
  <2>1. CASE OffsetCommit
    <3>1. committed' \in committed .. MaxLog + 1
        BY <2>1, <1>2 DEF OffsetCommit, DeliveredInv, RowsInv, TypeOK
    <3>2. 1 .. committed' - 1 \subseteq done /\ UNCHANGED done
        BY <2>1, <1>2
        DEF OffsetCommit, DeliveredInv, RowsInv, TypeOK, DeliveredSettled, Offsets
    <3> QED
        BY <3>1, <3>2 DEF AtLeastOnceSpec!Next, AtLeastOnceSpec!Commit
  <2>2. CASE UNCHANGED committed
    <3>1. done' \in SUBSET (1 .. MaxLog)
        BY DEF Offsets
    <3>2. \A o \in 1 .. committed - 1 : o \in done /\ o \in done'
      <4>1. 1 .. committed - 1 \subseteq Offsets /\ committed' = committed
          BY <2>2, <1>2 DEF DeliveredInv, RowsInv, TypeOK, Offsets
      <4>2. \A o \in 1 .. committed - 1 : fate[o] \in Settled
          BY <1>2 DEF DeliveredInv, RowsInv, TypeOK, DeliveredSettled, OffsetOrder
      <4>3. \A o \in 1 .. committed - 1 : fate'[o] \in Settled
        <5>1. \A o \in 1 .. stored' - 1 : fate'[o] \in Settled
          <6>1. DeliveredSettled'
              BY <1>2 DEF DeliveredInv
          <6>2. OneByOne'
              BY DEF OneByOne, Batching
          <6> QED
              BY <6>1, <6>2 DEF DeliveredSettled, Settled
        <5>2. PICK next \in 1 .. MaxLog + 1 : next = stored'
            BY <1>2 DEF DeliveredInv, RowsInv, TypeOK
        <5>3. committed <= next
            BY <1>2, <2>2, <5>2 DEF DeliveredInv, RowsInv, OffsetOrder
        <5>4. \A o \in 1 .. next - 1 : fate'[o] \in Settled
            BY <5>1, <5>2
        <5> QED
            BY <1>2, <5>3, <5>4 DEF DeliveredInv, RowsInv, TypeOK
      <4> QED
          BY <4>1, <4>2, <4>3
    <3> QED
        BY <2>2, <3>1, <3>2 DEF AtLeastOnceSpec!Next, AtLeastOnceSpec!Work
  <2>3. OffsetCommit \/ UNCHANGED committed
      BY <1>2 DEF Next, Consume, Environment, vars, Produce, LoseSession, Kill,
         Leave, Restart, Deliver, BeginTx, BeginTxFails, SkipEvent, ApplyEvent,
         RejectEvent, WriteUnavailable, WriteUnanswered, DeadLetter,
         CommitOffset, CommitOffsetFails, BatchDue, BatchNotDue, BatchDueFails,
         IdleCommit, CommitUnanswered, LeaveLoop, Finish, broker
  <2> QED
      BY <2>1, <2>2, <2>3
<1> QED
    BY <1>1, <1>2, DeliveredInvariant, PTL
    DEF Spec, ImplementsAtLeastOnce, AtLeastOnceSpec!Spec

----------------------------------------------------------------------------
(* At most one batch is at risk, in any mode.  The count of the events     *)
(* handed over and not settled is split in what earlier processes may have *)
(* left (Old) and what the running one may still add (Room): a transaction *)
(* in progress, or the one it has lost, never holds more than a batch, and *)
(* after a loss no other begins.                                           *)

\* Events handed over that are not settled; those that never will be.
Exposed == {o \in 1 .. position - 1 : fate[o] \notin Settled}
Gone    == {o \in Exposed : fate[o] \notin {"inflight", "staged"}}

InHand == {"begin", "write", "dlq"}     \* an event is in hand

\* After a transaction is given up over a lost session no other can be begun.
GivenUp == Batching /\ ~txOpen /\ session = "lost"

\* What the processes before this one may have left unsettled, with one more
\* event for each commit_message that failed.
Old == BatchSize * (incarnation - 1) + commitFailed

\* What this one may still add to it: the counted events of its transaction
\* and the event in hand, or in the end a whole batch.
Room ==
    IF pc \in Ended THEN BatchSize
    ELSE (IF GivenUp THEN BatchSize - 1 ELSE pending)
           + (IF pc \in InHand \/ (pc = "offset" /\ txOpen) THEN 1 ELSE 0)

\* The event in hand is the only one in flight.
OneInHand ==
    /\ pc \in InHand => fate[cur] = "inflight"
    /\ \A o \in Offsets : fate[o] = "inflight" => o = cur /\ pc \in InHand
    /\ pc = "dlq" => session = "lost"

\* A batch that is full is committed before the next event.
PendingBounded ==
    /\ pending <= BatchSize
    /\ pc \in Running \ {"tally"} => pending < BatchSize
    /\ incarnation >= 1

RiskBounded ==
    /\ Cardinality(Exposed) <= Old + Room
    /\ pc \in Running =>
         Cardinality(Gone) <= Old + (IF GivenUp THEN BatchSize - 1 ELSE 0)

\* The counted sets are finite.
LEMMA ExposedFinite ==
  ASSUME TypeOK
  PROVE  /\ IsFiniteSet(Exposed) /\ IsFiniteSet(Gone)
         /\ Cardinality(Exposed) \in Nat /\ Cardinality(Gone) \in Nat
         /\ Cardinality(Gone) <= Cardinality(Exposed)
         /\ Exposed \subseteq Offsets
<1>1. position \in Int /\ IsFiniteSet(1 .. position - 1)
    BY FS_Interval DEF TypeOK
<1>2. Exposed \subseteq 1 .. position - 1 /\ Gone \subseteq Exposed
    BY DEF Exposed, Gone
<1>3. 1 .. position - 1 \subseteq Offsets
    BY DEF TypeOK, Offsets
<1> QED
    BY <1>1, <1>2, <1>3, CardSub

\* The event in hand is the only one in flight, after every step.
LEMMA OneInHandNext ==
  RowsInv /\ OneInHand /\ [Next]_vars => OneInHand'
<1> SUFFICES ASSUME RowsInv, OneInHand, [Next]_vars PROVE OneInHand'
    OBVIOUS
<1> USE DEF OneInHand, InHand
<1>0. /\ position \in Nat /\ fate \in [Offsets -> Fates] /\ pc \in Running \union Ended
      /\ pc \in {"begin", "write", "dlq", "offset", "tally"} => cur \in Offsets
    BY DEF RowsInv, TypeOK, OffsetOrder, Offsets, cur
\* Steps that leave the event in hand where it is.
<1>1. ASSUME UNCHANGED <<position, fate>>, session' = "lost" \/ UNCHANGED session,
             \/ UNCHANGED pc
             \/ pc = "begin" /\ pc' = "write"
             \/ pc = "write" /\ pc' = "dlq" /\ session = "lost"
             \/ pc \notin InHand /\ pc' \notin InHand
      PROVE  OneInHand'
    BY <1>1 DEF cur
\* Steps after which no event is in hand.
<1>2. ASSUME UNCHANGED position, pc' \notin InHand,
             \A o \in Offsets : fate'[o] = "inflight" => fate[o] = "inflight",
             pc \in InHand => fate'[cur] # "inflight"
      PROVE  OneInHand'
    BY <1>2 DEF cur
<1>3. CASE UNCHANGED vars \/ Produce \/ OffsetCommit \/ LoseSession
    BY <1>1, <1>3 DEF vars, Produce, OffsetCommit, LoseSession
<1>4. ASSUME NEW how \in Ended, Leave(how) PROVE OneInHand'
    BY <1>0, <1>2, <1>4 DEF Leave, Settle, Ended
<1>5. CASE Kill \/ BeginTxFails \/ RejectEvent \/ BatchDueFails
    BY <1>4, <1>5 DEF Kill, BeginTxFails, RejectEvent, BatchDueFails, Ended
<1>6. CASE Restart
    BY <1>0, <1>6 DEF Restart, Ended
<1>7. CASE Deliver
    BY <1>0, <1>7 DEF Deliver, cur, RowsInv, TypeOK, Offsets
<1>8. CASE BeginTx
    BY <1>1, <1>8 DEF BeginTx
<1>9. CASE SkipEvent \/ ApplyEvent
    BY <1>0, <1>2, <1>9 DEF SkipEvent, ApplyEvent
<1>10. CASE WriteUnavailable
    BY <1>1, <1>4, <1>10 DEF WriteUnavailable, Ended
<1>11. CASE WriteUnanswered
    BY <1>0, <1>11 DEF WriteUnanswered, cur
<1>12. CASE DeadLetter
    BY <1>0, <1>2, <1>12 DEF DeadLetter, Settle
<1>13. CASE CommitOffset \/ CommitOffsetFails \/ BatchNotDue \/ LeaveLoop
    BY <1>1, <1>13 DEF CommitOffset, CommitOffsetFails, BatchNotDue, LeaveLoop
<1>14. CASE BatchDue \/ IdleCommit \/ CommitUnanswered \/ Finish
    BY <1>0, <1>2, <1>14 DEF BatchDue, IdleCommit, CommitUnanswered, Finish,
       CommitBatch, AbandonBatch, Settle
<1> QED
    BY <1>3, <1>5, <1>6, <1>7, <1>8, <1>9, <1>10, <1>11, <1>12, <1>13, <1>14
    DEF Next, Consume, Environment

\* No transaction outgrows its batch.
LEMMA PendingNext ==
  RowsInv /\ PendingBounded /\ [Next]_vars => PendingBounded'
<1> SUFFICES ASSUME RowsInv, PendingBounded, [Next]_vars PROVE PendingBounded'
    OBVIOUS
<1> USE DEF PendingBounded, Running
<1>0. pending \in Nat /\ incarnation \in Nat
    BY DEF RowsInv, TypeOK
<1>1. CASE UNCHANGED vars \/ Produce \/ OffsetCommit \/ LoseSession \/ LeaveLoop
    BY <1>1 DEF vars, counts, Produce, OffsetCommit, LoseSession, LeaveLoop
<1>2. ASSUME NEW how \in Ended, Leave(how) PROVE PendingBounded'
    BY <1>2 DEF Leave, counts, Ended
<1>3. CASE Kill \/ BeginTxFails \/ RejectEvent \/ BatchDueFails
    BY <1>2, <1>3 DEF Kill, BeginTxFails, RejectEvent, BatchDueFails, Ended
<1>4. CASE Restart \/ DeadLetter
    BY <1>0, <1>4 DEF Restart, DeadLetter
<1>5. CASE Deliver \/ BeginTx \/ SkipEvent \/ ApplyEvent
    BY <1>5 DEF Deliver, BeginTx, SkipEvent, ApplyEvent, counts
<1>6. CASE WriteUnavailable \/ WriteUnanswered
    BY <1>2, <1>6 DEF WriteUnavailable, WriteUnanswered, counts, Ended
<1>7. CASE CommitOffset \/ CommitOffsetFails
    BY <1>0, <1>7 DEF CommitOffset, CommitOffsetFails
<1>8. CASE BatchDue \/ BatchNotDue \/ IdleCommit
    BY <1>0, <1>8 DEF BatchDue, BatchNotDue, IdleCommit, CommitBatch, AbandonBatch,
       Full, counts
<1>9. CASE CommitUnanswered \/ Finish
    BY <1>0, <1>9 DEF CommitUnanswered, Finish, CommitBatch, counts
<1> QED
    BY <1>1, <1>3, <1>4, <1>5, <1>6, <1>7, <1>8, <1>9
    DEF Next, Consume, Environment

RiskInv == RowsInv /\ OneInHand /\ PendingBounded /\ RiskBounded

\* Room never goes below zero or beyond a batch.
LEMMA RoomBounds ==
  ASSUME RowsInv, PendingBounded
  PROVE  /\ Old \in Nat /\ Room \in Nat /\ Room <= BatchSize
         /\ pc \in InHand => Room >= 1
<1>1. BatchSize \in Nat /\ incarnation - 1 \in Nat /\ commitFailed \in Nat
    BY DEF RowsInv, TypeOK, PendingBounded
<1>2. BatchSize * (incarnation - 1) \in Nat
    BY <1>1
<1>3. pending \in Nat /\ pc \in Running \union Ended /\ BatchSize - 1 \in Nat
    BY DEF RowsInv, TypeOK
<1> QED
    BY <1>1, <1>2, <1>3 DEF Old, Room, PendingBounded, InHand, Running, Ended

\* The same after a step.
LEMMA RoomBoundsNext ==
  ASSUME RowsInv', PendingBounded'
  PROVE  Old' \in Nat /\ Room' \in Nat /\ Room' <= BatchSize
<1>0. TypeButTx'
    BY DEF RowsInv, TypeOK, TypeButTx
<1>1. BatchSize \in Nat /\ incarnation' - 1 \in Nat /\ commitFailed' \in Nat
  <2>1. \A n \in Nat : n >= 1 => n - 1 \in Nat
      OBVIOUS
  <2>2. incarnation' \in Nat /\ commitFailed' \in Nat /\ incarnation' >= 1
      BY <1>0 DEF TypeButTx, PendingBounded
  <2> QED
      BY <2>1, <2>2
<1>2. Old' \in Nat
  <2>1. \A n, m \in Nat : BatchSize * n + m \in Nat
      BY <1>1
  <2> QED
      BY <1>1, <2>1 DEF Old
<1>3. pending' \in Nat /\ pc' \in Running \union Ended /\ BatchSize - 1 \in Nat
    BY <1>0 DEF TypeButTx
<1>4. pending' <= BatchSize /\ (pc' \in Running \ {"tally"} => pending' < BatchSize)
    BY DEF PendingBounded
<1> QED
  <2>1. \A n, m, i \in Nat : n <= BatchSize - 1 /\ i \in {0, 1} =>
           n + i \in Nat /\ n + i <= BatchSize
      BY <1>1
  <2>2. \A n \in Nat : n <= BatchSize => n + 0 = n
      OBVIOUS
  <2>3. \A n \in Nat : n < BatchSize => n <= BatchSize - 1
      BY <1>1
  <2> DEFINE
        n == IF GivenUp' THEN BatchSize - 1 ELSE pending'
        i == IF pc' \in InHand \/ (pc' = "offset" /\ txOpen') THEN 1 ELSE 0
  <2>7. pc' \notin Ended => Room' = n + i
      BY Zenon DEF Room, InHand
  <2>8. /\ n \in Nat /\ n <= BatchSize
        /\ pc' \in Running \ {"tally"} => n <= BatchSize - 1
        /\ i \in {0, 1}
    <3>1. CASE GivenUp'
        BY <3>1, <1>1, <1>3
    <3>2. CASE ~GivenUp'
        BY <3>2, <2>3, <1>1, <1>3, <1>4
    <3> QED
        BY <3>1, <3>2
  <2>9. pc' = "tally" => i = 0
      BY DEF InHand
  <2> HIDE DEF n, i
  <2>4. pc' \in Running \ {"tally"} => Room' \in Nat /\ Room' <= BatchSize
      BY <2>1, <2>7, <2>8 DEF Running, Ended
  <2>5. pc' = "tally" => Room' \in Nat /\ Room' <= BatchSize
      BY <2>2, <2>7, <2>8, <2>9 DEF Ended
  <2>6. pc' \in Ended => Room' \in Nat /\ Room' <= BatchSize
      BY <1>1 DEF Room
  <2> QED
      BY <1>2, <1>3, <2>4, <2>5, <2>6

\* The events at risk stay within the bound.
LEMMA RiskNext == RiskInv /\ [Next]_vars => RiskBounded'
<1> SUFFICES ASSUME RiskInv, [Next]_vars PROVE RiskBounded'
    OBVIOUS
<1> DEFINE e == Cardinality(Exposed)   g == Cardinality(Gone)
<1>0. /\ RowsInv /\ OneInHand /\ PendingBounded /\ RiskBounded
      /\ TypeOK /\ TxShape /\ StagedInTx /\ OffsetOrder
    BY DEF RiskInv, RowsInv
<1>a. RowsInv' /\ PendingBounded' /\ TypeOK'
    BY <1>0, TypeNext, OrderNext, TxShapeNext, StagedNext, RowsNext, PendingNext
    DEF RowsInv
<1>b. /\ Old \in Nat /\ Room \in Nat /\ Room <= BatchSize
      /\ pc \in InHand => Room >= 1
      /\ Old' \in Nat /\ Room' \in Nat /\ Room' <= BatchSize
    BY <1>0, <1>a, RoomBounds, RoomBoundsNext
<1>c. /\ IsFiniteSet(Exposed) /\ IsFiniteSet(Gone) /\ e \in Nat /\ g \in Nat /\ g <= e
      /\ Exposed \subseteq Offsets
    BY <1>0, ExposedFinite
<1>d. ASSUME NEW S, IsFiniteSet(S), Exposed' \subseteq S
      PROVE  /\ e' \in Nat /\ g' \in Nat /\ g' <= e' /\ e' <= Cardinality(S)
  <2>1. Gone' \subseteq Exposed'
      BY DEF Gone
  <2>2. IsFiniteSet(Exposed') /\ e' \in Nat /\ e' <= Cardinality(S)
      BY <1>d, CardSub
  <2> QED
      BY <2>1, <2>2, CardSub
<1>e. /\ e <= Old + Room
      /\ pc \in Running => g <= Old + (IF GivenUp THEN BatchSize - 1 ELSE 0)
    BY <1>0 DEF RiskBounded
<1>f. /\ 1 .. position - 1 \subseteq Offsets
      /\ position \in Nat /\ fate \in [Offsets -> Fates] /\ pending \in Nat
      /\ pc \in {"begin", "write", "dlq", "offset", "tally"} =>
           cur \in Offsets /\ cur \in 1 .. position - 1
    BY <1>0 DEF TypeOK, OffsetOrder, Offsets, cur
<1>g. pc \in InHand => cur \in Exposed
    BY <1>0, <1>f DEF OneInHand, InHand, Exposed, Settled
<1> HIDE DEF e, g
\* Nothing new is exposed or gone.
<1>1. ASSUME Exposed' \subseteq Exposed, Gone' \subseteq Gone, Old <= Old', Room <= Room',
             pc' \in Running => pc \in Running /\ (GivenUp => GivenUp')
      PROVE  RiskBounded'
  <2>1. e' <= e /\ g' <= g /\ e' \in Nat /\ g' \in Nat
      BY <1>1, <1>c, <1>d, CardSub DEF e, g
  <2> QED
      BY <2>1, <1>1, <1>b, <1>c, <1>e DEF RiskBounded, e, g
\* The event in hand is settled.
<1>2. ASSUME pc \in InHand, Exposed' \subseteq Exposed \ {cur}, Gone' \subseteq Gone,
             Old' = Old, Room - 1 <= Room', GivenUp => GivenUp'
      PROVE  RiskBounded'
  <2>1. e' <= e - 1 /\ g' <= g /\ e' \in Nat /\ g' \in Nat
      BY <1>2, <1>c, <1>d, <1>g, CardSub, CardRemove DEF e, g
  <2>2. pc \in Running
      BY <1>2 DEF InHand, Running
  <2>3. \A i, j, k, l, m \in Nat :
           i <= j - 1 /\ j <= k + l /\ l - 1 <= m => i <= k + m
      OBVIOUS
  <2>4. e' <= Old' + Room'
      BY <2>1, <2>3, <1>2, <1>b, <1>c, <1>e
  <2>5. g' <= Old' + (IF GivenUp' THEN BatchSize - 1 ELSE 0)
      BY <2>1, <2>2, <1>2, <1>b, <1>c, <1>e
  <2> QED
      BY <2>4, <2>5 DEF RiskBounded, e, g
\* The transaction is committed.
<1>3. ASSUME Exposed' \subseteq Gone, pc \in Running, ~GivenUp, Old' = Old
      PROVE  RiskBounded'
  <2>1. e' <= g /\ g' <= e' /\ e' \in Nat /\ g' \in Nat
      BY <1>3, <1>c, <1>d DEF e, g
  <2> QED
      BY <2>1, <1>3, <1>b, <1>c, <1>e DEF RiskBounded, e, g
<1>4. CASE UNCHANGED vars \/ Produce \/ OffsetCommit \/ LeaveLoop
  <2>1. UNCHANGED <<position, fate, pending, session, incarnation, commitFailed>> /\ (txOpen' <=> txOpen)
      BY <1>4 DEF vars, Produce, OffsetCommit, LeaveLoop, counts
  <2>2. pc' = pc \/ (pc = "poll" /\ pc' = "final")
      BY <1>4 DEF vars, Produce, OffsetCommit, LeaveLoop
  <2>3. /\ Exposed' = Exposed /\ Gone' = Gone /\ Old' = Old /\ (GivenUp' <=> GivenUp)
        /\ pc' \in Running => pc \in Running
      BY <2>1, <2>2 DEF Exposed, Gone, Old, GivenUp, Running
  <2>4. Room' = Room
      BY <2>1, <2>2, <2>3 DEF Room, InHand, Ended
  <2> QED
      BY <2>3, <2>4, <1>1, <1>b
<1>5. CASE LoseSession
  <2>1. /\ UNCHANGED <<position, fate, pending, pc, incarnation, commitFailed>> /\ (txOpen' <=> txOpen)
        /\ session = "up"
      BY <1>5 DEF LoseSession, counts
  <2>2. Room <= Room'
      BY <2>1, <1>0, <1>f DEF Room, GivenUp, TxShape
  <2> QED
      BY <2>1, <2>2, <1>1, <1>b DEF Exposed, Gone, Old, GivenUp
<1>6. ASSUME NEW how \in Ended, Leave(how) PROVE RiskBounded'
  <2>1. /\ Exposed' = Exposed /\ Old' = Old
        /\ Room' = BatchSize /\ pc' \notin Running
      BY <1>6, <1>f DEF Leave, Settle, Settled, Exposed, Old, Room, Ended, Running, counts
  <2>2. e' = e
      BY <2>1 DEF e
  <2> QED
      BY <2>1, <2>2, <1>b, <1>c, <1>e DEF RiskBounded, e
<1>7. CASE Kill \/ BeginTxFails \/ RejectEvent \/ BatchDueFails
    BY <1>6, <1>7 DEF Kill, BeginTxFails, RejectEvent, BatchDueFails, Ended
<1>8. CASE Restart
  <2>1. /\ pc \in Ended /\ position' = committed /\ committed <= position
        /\ UNCHANGED <<fate, commitFailed>> /\ incarnation' = incarnation + 1
        /\ committed \in Nat
      BY <1>8, <1>0 DEF Restart, ResumeAt, OffsetOrder, TypeOK
  <2>2. Old' = Old + BatchSize
    <3>1. BatchSize * (incarnation' - 1) = BatchSize * (incarnation - 1) + BatchSize
        BY <2>1, <1>0 DEF TypeOK
    <3> QED
        BY <2>1, <3>1, <1>0 DEF Old, TypeOK
  <2>3. Exposed' \subseteq Exposed
      BY <2>1, <1>f DEF Exposed
  <2>4. e' <= e /\ g' <= e' /\ e' \in Nat /\ g' \in Nat
      BY <2>3, <1>c, <1>d DEF e
  <2>5. Room = BatchSize
      BY <2>1 DEF Room
  <2> QED
      BY <2>2, <2>4, <2>5, <1>b, <1>c, <1>e DEF RiskBounded, e, g
<1>9. CASE Deliver
  <2>1. /\ position \in Offsets /\ position' = position + 1 /\ pc = "poll"
        /\ UNCHANGED <<pending, commitFailed, incarnation, session>> /\ (txOpen' <=> txOpen)
      BY <1>9, <1>0 DEF Deliver, counts, TypeOK, Offsets
  <2>2. Old' = Old /\ (GivenUp' <=> GivenUp)
      BY <2>1 DEF Old, GivenUp
  <2>3. CASE fate' = [fate EXCEPT ![position] = "skipped"] /\ UNCHANGED pc
    <3>1. Exposed' \subseteq Exposed /\ Gone' \subseteq Gone
        BY <2>1, <2>3, <1>f DEF Exposed, Gone, Settled
    <3>2. Room' = Room
        BY <2>1, <2>3, <2>2 DEF Room
    <3> QED
        BY <2>2, <2>3, <3>1, <3>2, <1>1, <1>b
  <2>4. CASE fate' = [fate EXCEPT ![position] = "inflight"] /\ pc' \in {"begin", "write"}
    <3>1. /\ Exposed' \subseteq Exposed \union {position}
          /\ Gone' \subseteq Gone
        BY <2>1, <2>4, <1>f DEF Exposed, Gone
    <3>2. Room' = Room + 1
        BY <2>1, <2>2, <2>4, <1>f DEF Room, InHand, Ended
    <3>3. g' <= g /\ g' \in Nat
        BY <3>1, <1>c, CardSub DEF g
    <3>4. e' <= e + 1 /\ e' \in Nat
      <4>1. e' <= e + 1
          BY <3>1, <1>c, CardAdd DEF e
      <4>2. e' \in Nat
          BY <3>1, <1>c, <1>d, FS_AddElement
      <4> QED
          BY <4>1, <4>2
    <3>5. pc \in Running
        BY <2>1 DEF Running
    <3> QED
        BY <2>2, <3>2, <3>3, <3>4, <3>5, <1>b, <1>c, <1>e DEF RiskBounded, e, g
  <2> QED
      BY <1>9, <2>3, <2>4 DEF Deliver
<1>10. CASE BeginTx
  <2>1. /\ UNCHANGED <<position, fate, pending, incarnation, commitFailed, session>>
        /\ pc = "begin" /\ pc' = "write" /\ session = "up"
      BY <1>10 DEF BeginTx, counts
  <2>2. ~GivenUp /\ ~GivenUp'
      BY <2>1 DEF GivenUp
  <2>3. Room' = Room
      BY <2>1, <2>2 DEF Room, InHand, Ended
  <2>4. pc \in Running
      BY <2>1 DEF Running
  <2> QED
      BY <2>1, <2>2, <2>3, <2>4, <1>1, <1>b DEF Exposed, Gone, Old
<1>11. CASE SkipEvent
  <2>1. /\ UNCHANGED <<position, pending, incarnation, commitFailed, session>> /\ (txOpen' <=> txOpen)
        /\ pc = "write" /\ pc' = "poll" /\ fate' = [fate EXCEPT ![cur] = "skipped"]
      BY <1>11 DEF SkipEvent, counts
  <2>2. Exposed' \subseteq Exposed \ {cur} /\ Gone' \subseteq Gone
      BY <2>1, <1>f DEF Exposed, Gone, Settled
  <2>3. (GivenUp' <=> GivenUp) /\ Old' = Old
      BY <2>1 DEF GivenUp, Old
  <2>4. Room' = Room - 1
      BY <2>1, <2>3, <1>f DEF Room, InHand, Ended
  <2> QED
      BY <2>1, <2>2, <2>3, <2>4, <1>2, <1>b DEF InHand
<1>12. CASE ApplyEvent
  <2>1. /\ UNCHANGED <<position, pending, incarnation, commitFailed, session>> /\ (txOpen' <=> txOpen)
        /\ pc = "write" /\ pc' = "offset"
        /\ fate' = [fate EXCEPT ![cur] = IF txOpen THEN "staged" ELSE "applied"]
      BY <1>12 DEF ApplyEvent, counts
  <2>2. (GivenUp' <=> GivenUp) /\ Old' = Old /\ pc \in Running
      BY <2>1 DEF GivenUp, Old, Running
  <2>3. CASE txOpen
    <3>1. Exposed' \subseteq Exposed /\ Gone' \subseteq Gone
        BY <2>1, <2>3, <1>f, <1>g DEF Exposed, Gone, Settled, InHand
    <3>2. Room' = Room
        BY <2>1, <2>2, <2>3 DEF Room, InHand, Ended
    <3> QED
        BY <2>2, <3>1, <3>2, <1>1, <1>b
  <2>4. CASE ~txOpen
    <3>1. Exposed' \subseteq Exposed \ {cur} /\ Gone' \subseteq Gone
        BY <2>1, <2>4, <1>f DEF Exposed, Gone, Settled
    <3>2. Room' = Room - 1
        BY <2>1, <2>2, <2>4, <1>f DEF Room, InHand, Ended
    <3> QED
        BY <2>1, <2>2, <3>1, <3>2, <1>2, <1>b DEF InHand
  <2> QED
      BY <2>3, <2>4
<1>13. CASE WriteUnavailable
  <2>1. CASE /\ pc = "write" /\ pc' = "dlq"
             /\ UNCHANGED <<position, fate, counts, session>> /\ (txOpen' <=> txOpen)
      BY <2>1, <1>1, <1>b
      DEF Exposed, Gone, Old, Room, GivenUp, InHand, Running, Ended, counts
  <2> QED
      BY <1>13, <2>1, <1>6 DEF WriteUnavailable, Ended
<1>14. CASE WriteUnanswered
  <2>1. /\ UNCHANGED <<position, pending, incarnation, commitFailed>> /\ (txOpen' <=> txOpen)
        /\ pc = "write" /\ pc' \in {"dlq", "failed"} /\ ~txOpen
        /\ fate' = [fate EXCEPT ![cur] = IF pc' = "dlq" THEN "inflight" ELSE "applied"]
      BY <1>14 DEF WriteUnanswered, counts
  <2>2. ~GivenUp /\ ~GivenUp' /\ Old' = Old /\ pc \in Running
      BY <2>1, <1>0 DEF GivenUp, Old, Running, TxShape, Batching
  <2>3. Exposed' \subseteq Exposed /\ Gone' \subseteq Gone
      BY <2>1, <1>f, <1>g DEF Exposed, Gone, InHand, Settled
  <2>4. Room <= Room'
    <3>1. CASE pc' = "dlq"
      <4>1. Room' = Room
          BY <2>1, <2>2, <3>1 DEF Room, InHand, Ended
      <4> QED
          BY <4>1, <1>b
    <3>2. CASE pc' = "failed"
        BY <3>2, <1>b DEF Room, Ended
    <3> QED
        BY <2>1, <3>1, <3>2
  <2> QED
      BY <2>2, <2>3, <2>4, <1>1, <1>b
<1>15. CASE DeadLetter
  <2>1. PICK outcome \in {"dlq", "dropped"} :
           fate' = [Settle({"staged"}, "lost") EXCEPT ![cur] = outcome]
      BY <1>15 DEF DeadLetter
  <2>2. /\ UNCHANGED <<position, incarnation, commitFailed, session>>
        /\ pc = "dlq" /\ pc' = "poll" /\ ~txOpen' /\ pending' = 0 /\ session = "lost"
      BY <1>15, <1>0 DEF DeadLetter, OneInHand
  <2>3. /\ Exposed' \subseteq Exposed \ {cur} /\ Old' = Old
        /\ pc \in InHand /\ pc \in Running
      BY <2>1, <2>2, <1>f DEF Exposed, Settle, Settled, Old, InHand, Running
  <2>4. CASE Batching
    <3>1. e' <= e - 1
        BY <2>3, <1>c, <1>g, CardRemove DEF e
    <3>2. e' \in Nat /\ g' \in Nat /\ g' <= e'
        BY <2>3, <1>c, <1>d
    <3>3. GivenUp' /\ Room' = BatchSize - 1
        BY <2>2, <2>4 DEF GivenUp, Batching, Room, InHand, Ended
    <3> QED
        BY <2>3, <3>1, <3>2, <3>3, <1>b, <1>c, <1>e DEF RiskBounded, e, g
  <2>5. CASE ~Batching
    <3>1. ~txOpen /\ pending = 0 /\ ~GivenUp
        BY <2>5, <1>0, <1>f DEF TxShape, GivenUp
    <3>2. Gone' \subseteq Gone
        BY <2>1, <2>2, <3>1, <1>0, <1>f DEF Gone, Exposed, Settle, Settled, StagedInTx, Offsets
    <3>3. Room = 1
        BY <3>1, <2>2 DEF Room, InHand, Ended
    <3> QED
        BY <2>3, <3>1, <3>2, <3>3, <1>2, <1>b DEF InHand
  <2> QED
      BY <2>4, <2>5
<1>16. CASE CommitOffset
  <2>1. /\ UNCHANGED <<position, fate, incarnation, commitFailed, session>> /\ (txOpen' <=> txOpen)
        /\ pc = "offset"
        /\ pc' = (IF Batching THEN "tally" ELSE "poll")
        /\ pending' = (IF Batching THEN pending + 1 ELSE pending)
      BY <1>16 DEF CommitOffset
  <2>2. (GivenUp' <=> GivenUp) /\ Old' = Old /\ pc \in Running
      BY <2>1 DEF GivenUp, Old, Running
  <2>3. Room <= Room'
    <3>1. CASE Batching
      <4>1. txOpen /\ ~GivenUp
          BY <3>1, <2>1, <1>0 DEF TxShape, GivenUp
      <4> QED
          BY <4>1, <3>1, <2>1, <2>2, <1>f DEF Room, InHand, Ended
    <3>2. CASE ~Batching
      <4>1. ~txOpen
          BY <3>2, <1>0 DEF TxShape
      <4> QED
          BY <4>1, <3>2, <2>1, <2>2, <1>f DEF Room, InHand, Ended
    <3> QED
        BY <3>1, <3>2
  <2> QED
      BY <2>1, <2>2, <2>3, <1>1, <1>b DEF Exposed, Gone
<1>17. CASE CommitOffsetFails
  <2>1. /\ UNCHANGED <<position, fate, pending, incarnation, session>> /\ (txOpen' <=> txOpen)
        /\ pc = "offset" /\ pc' = "poll" /\ commitFailed' = commitFailed + 1
      BY <1>17 DEF CommitOffsetFails
  <2>2. (GivenUp' <=> GivenUp) /\ pc \in Running /\ Exposed' = Exposed /\ Gone' = Gone
      BY <2>1 DEF GivenUp, Running, Exposed, Gone
  <2>3. Old' = Old + 1
    <3>1. BatchSize * (incarnation - 1) \in Nat
        BY <1>0 DEF TypeOK, PendingBounded
    <3> QED
        BY <2>1, <3>1, <1>0 DEF Old, TypeOK
  <2>4. Room - 1 <= Room'
      BY <2>1, <2>2, <1>f DEF Room, InHand, Ended
  <2>5. e' = e /\ g' = g
      BY <2>2 DEF e, g
  <2>6. \A i, j, k, l \in Nat : i <= j + k /\ k - 1 <= l => i <= (j + 1) + l
      OBVIOUS
  <2>7. e' <= Old' + Room'
      BY <2>3, <2>4, <2>5, <2>6, <1>b, <1>c, <1>e
  <2>8. g' <= Old' + (IF GivenUp' THEN BatchSize - 1 ELSE 0)
      BY <2>2, <2>3, <2>5, <1>b, <1>c, <1>e
  <2> QED
      BY <2>7, <2>8 DEF RiskBounded, e, g
\* Outside the handling of an event, a COMMIT settles all that is not gone.
<1>18. ASSUME CommitBatch, session = "up", pc \in {"poll", "tally", "final"},
              UNCHANGED <<position, incarnation, commitFailed>>
       PROVE  RiskBounded'
  <2>1. Exposed' \subseteq Gone
      BY <1>18, <1>0, <1>c, <1>f
      DEF CommitBatch, Settle, Exposed, Gone, Settled, OneInHand, InHand, Offsets
  <2>2. ~GivenUp /\ pc \in Running /\ Old' = Old
      BY <1>18 DEF GivenUp, Running, Old
  <2> QED
      BY <2>1, <2>2, <1>3
<1>19. CASE BatchDue \/ CommitUnanswered
    BY <1>18, <1>19 DEF BatchDue, CommitUnanswered
<1>20. CASE BatchNotDue
  <2>1. /\ UNCHANGED <<position, fate, pending, incarnation, commitFailed, session>> /\ (txOpen' <=> txOpen)
        /\ pc = "tally" /\ pc' = "poll"
      BY <1>20 DEF BatchNotDue, counts
  <2> QED
      BY <2>1, <1>1, <1>b
      DEF Exposed, Gone, Old, Room, GivenUp, InHand, Running, Ended
<1>21. CASE IdleCommit
  <2>1. CASE session = "up" /\ CommitBatch
      BY <2>1, <1>18, <1>21 DEF IdleCommit
  <2>2. CASE session = "lost" /\ AbandonBatch
    <3>1. /\ UNCHANGED <<position, incarnation, commitFailed, session, pc>>
          /\ pc = "poll" /\ txOpen /\ ~txOpen' /\ fate' = Settle({"staged"}, "lost")
        BY <2>2, <1>21 DEF IdleCommit, IdleDue, AbandonBatch
    <3>2. Batching /\ ~GivenUp /\ GivenUp' /\ Old' = Old
        BY <3>1, <2>2, <1>0 DEF TxShape, GivenUp, Old, Batching
    <3>3. Exposed' \subseteq Exposed
        BY <3>1, <1>c, <1>f DEF Exposed, Settle, Settled, Offsets
    <3>4. e' <= e /\ g' <= e' /\ e' \in Nat /\ g' \in Nat
        BY <3>3, <1>c, <1>d DEF e
    <3>5. Room = pending /\ pending < BatchSize /\ Room' = BatchSize - 1
        BY <3>1, <3>2, <1>0, <1>f DEF Room, InHand, Ended, PendingBounded, Running
    <3> QED
        BY <3>2, <3>4, <3>5, <1>b, <1>c, <1>e, <1>f DEF RiskBounded, e, g
  <2> QED
      BY <2>1, <2>2, <1>21 DEF IdleCommit
<1>22. CASE Finish
  <2>1. CASE session = "up" /\ CommitBatch
      BY <2>1, <1>18, <1>22 DEF Finish
  <2>2. CASE fate' = Settle({"staged"}, "lost")
    <3>1. /\ Exposed' \subseteq Exposed /\ Old' = Old
          /\ Room' = BatchSize /\ pc' \notin Running
        BY <1>22, <2>2, <1>c, <1>f
        DEF Finish, Settle, Settled, Exposed, Old, Room, Ended, Running, Offsets
    <3>2. e' <= e /\ e' \in Nat
        BY <3>1, <1>c, <1>d DEF e
    <3> QED
        BY <3>1, <3>2, <1>b, <1>c, <1>e DEF RiskBounded, e
  <2> QED
      BY <2>1, <2>2, <1>22 DEF Finish
<1> QED
    BY <1>4, <1>5, <1>7, <1>8, <1>9, <1>10, <1>11, <1>12, <1>13, <1>14, <1>15,
       <1>16, <1>17, <1>19, <1>20, <1>21, <1>22
    DEF Next, Consume, Environment

\* The inductive invariant of the events at risk.
LEMMA RiskInvariant == Spec => []RiskInv
<1>1. Init => RiskInv
  <2> SUFFICES ASSUME Init PROVE RiskInv
      OBVIOUS
  <2>1. RowsInv /\ TypeOK
      BY RowsInit DEF RowsInv
  <2>2. OneInHand /\ PendingBounded
      BY <2>1 DEF Init, OneInHand, InHand, PendingBounded, TypeOK
  <2>3. Exposed = {} /\ Gone = {}
      BY DEF Init, Exposed, Gone
  <2>4. RiskBounded
      BY <2>1, <2>2, <2>3, RoomBounds, FS_EmptySet DEF RiskBounded, Init, GivenUp
  <2> QED
      BY <2>1, <2>2, <2>4 DEF RiskInv
<1>2. RiskInv /\ [Next]_vars => RiskInv'
    BY TypeNext, OrderNext, TxShapeNext, StagedNext, RowsNext, OneInHandNext,
       PendingNext, RiskNext DEF RiskInv, RowsInv
<1> QED
    BY <1>1, <1>2, PTL DEF Spec

\* What is passed over has been handed over: at most the room of this process
\* is added to what the earlier ones have left.
LEMMA RiskImplies == RiskInv => OneBatchAtRisk
<1> SUFFICES ASSUME RiskInv PROVE OneBatchAtRisk
    OBVIOUS
<1>1. /\ Old \in Nat /\ Room \in Nat /\ Room <= BatchSize
      /\ Cardinality(Exposed) <= Old + Room
    BY RoomBounds DEF RiskInv, RiskBounded
<1>2. PassedOver \subseteq Exposed
    BY DEF RiskInv, RowsInv, OffsetOrder, TypeOK, PassedOver, Exposed
<1>3. Cardinality(PassedOver) <= Cardinality(Exposed) /\ Cardinality(PassedOver) \in Nat
      /\ Cardinality(Exposed) \in Nat
    BY <1>2, ExposedFinite, CardSub DEF RiskInv, RowsInv
<1>4. Old + BatchSize = BatchSize * incarnation + commitFailed
    BY DEF Old, RiskInv, RowsInv, TypeOK
<1> QED
    BY <1>1, <1>3, <1>4 DEF OneBatchAtRisk

\* In any mode the events the group has passed over unsettled are at most one
\* batch per process started, and one per commit_message that failed.
THEOREM OneBatchAtRiskCorrect == Spec => []OneBatchAtRisk
  BY RiskInvariant, RiskImplies, PTL
=============================================================================
