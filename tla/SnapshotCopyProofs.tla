------------------------- MODULE SnapshotCopyProofs -------------------------
(***************************************************************************)
(* Theorems about SnapshotCopy, for every log length, buffer size, set of  *)
(* documents and tables, in snapshot mode or not, and for any number of    *)
(* restarts.                                                               *)
(*                                                                         *)
(* The invariants build on each other: where a flush is and what the four  *)
(* queues may hold there (Shape), that every held event is in one of them  *)
(* (Places), in which order (Orderly), and how many events may be at risk  *)
(* (Bounded).                                                              *)
(***************************************************************************)
EXTENDS SnapshotCopy, SequenceLemmas

USE LogAssumption, CopyAssumption

\* TypeOK without the Boolean-valued variables, which the prover of the other
\* parts does not take well.
TypeButFlags ==
    /\ log \in Seq(Event) /\ Len(log) <= MaxLog
    /\ committed \in 1 .. MaxLog + 1
    /\ pc \in Running \union Ended
    /\ position \in 1 .. MaxLog + 1
    /\ stored \in 1 .. MaxLog + 1
    /\ buffer \in Seq(Offsets) /\ Len(buffer) <= BatchSize
    /\ batches \in Seq(Batch)
    /\ replay \in Seq(Offsets)
    /\ passThrough \in Seq(Offsets)
    /\ incarnation \in Nat
    /\ session \in {"up", "lost"}
    /\ table \in Rows
    /\ fate \in [Offsets -> Fates]

Flags == leaving \in BOOLEAN /\ copyAllowed \in [Tables -> BOOLEAN]

\* What the queues of a flush may hold, by where the process is.
Shape ==
    /\ pc \in {"poll", "flush"} \union Ended =>
         batches = <<>> /\ replay = <<>> /\ passThrough = <<>>
    /\ pc \in {"write", "commit", "upsert", "dlq"} \union Ended => buffer = <<>>
    /\ pc \in {"commit", "upsert"} => batches # <<>> /\ replay = <<>>
    /\ pc = "dlq" => replay # <<>>
    /\ pc = "poll" => Len(buffer) < BatchSize

\* TypeOK is its two parts.
LEMMA TypeSplit == TypeOK <=> TypeButFlags /\ Flags
  BY DEF TypeOK, TypeButFlags, Flags

\* The initial state is well typed, with nothing in the queues.
LEMMA TypeInit == Init => TypeOK /\ Shape
<1> SUFFICES ASSUME Init PROVE TypeOK /\ Shape
    OBVIOUS
<1>1. Flags
    BY DEF Init, Flags
<1>2. TypeButFlags
    BY DEF Init, TypeButFlags, Event, Rows, Offsets, Fates, Running, NoEvent
<1>3. Shape
    BY DEF Init, Shape, Ended
<1> QED
    BY <1>1, <1>2, <1>3, TypeSplit

\* A row shows an offset of the log once it is written.
LEMMA WrittenType ==
  ASSUME NEW rows \in Rows, NEW s \in Seq(Offsets)
  PROVE  Written(rows, s) \in Rows
<1>1. ASSUME NEW k \in Keys
      PROVE  LET touching == {o \in ToSet(s) : log[o].key = k}
             IN  (IF touching = {} THEN rows[k] ELSE Max(touching)) \in 0 .. MaxLog
  <2> DEFINE touching == {o \in ToSet(s) : log[o].key = k}
  <2>1. touching \in SUBSET (0 .. MaxLog)
      BY ToSetFacts DEF Offsets
  <2>2. touching # {} => Max(touching) \in 0 .. MaxLog
    <3> HIDE DEF touching
    <3> QED
        BY <2>1, MaxOfBounded
  <2> QED
      BY <2>2 DEF Rows
<1> QED
    BY <1>1 DEF Written, Rows

\* Marking events with a known fate keeps every fate a known one.
LEMMA MarkType ==
  ASSUME fate \in [Offsets -> Fates], NEW S, NEW f \in Fates
  PROVE  Mark(S, f) \in [Offsets -> Fates]
  BY DEF Mark

\* The next batch of a flush.
LEMMA CurrentType ==
  ASSUME batches \in Seq(Batch), batches # <<>>
  PROVE  /\ Current \in Batch /\ Current.events \in Seq(Offsets) /\ Current.table \in Tables
         /\ Tail(batches) \in Seq(Batch)
         /\ ToSet(batches) = {Current} \union ToSet(Tail(batches))
<1>1. Current \in Batch /\ Tail(batches) \in Seq(Batch)
    BY DEF Current
<1>2. Current.events \in Seq(Offsets) /\ Current.table \in Tables
    BY <1>1 DEF Batch
<1> QED
    BY <1>1, <1>2, ToSetFacts DEF Current

\* An ascending sequence, and one that ascends in the order of Offsets.
Sorted(s) == \A i, j \in DOMAIN s : i < j => s[i] < s[j]

\* No two batches are of one table.
OneBatchPerTable(bs) ==
    \A i, j \in DOMAIN bs : i # j => bs[i].table # bs[j].table

\* An event is in one of the batches.
InBatches(bs, o) == \E b \in ToSet(bs) : o \in ToSet(b.events)

\* The rows of a batch are rows of its table, in offset order.
IsBatch(b) ==
    /\ Sorted(b.events)
    /\ \A o \in ToSet(b.events) : Batchable(o) /\ EventTable(o) = b.table

\* What is picked from an ascending sequence ascends.
LEMMA PickSorted ==
  ASSUME NEW s \in Seq(Offsets), Sorted(s), NEW T
  PROVE  Pick(s, T) \in Seq(Offsets) /\ Sorted(Pick(s, T))
<1> DEFINE p == Pick(s, T)
<1>1. /\ p \in Seq(Offsets)
      /\ \A i, j \in DOMAIN p : i < j =>
           \E a, b \in DOMAIN s : a < b /\ p[i] = s[a] /\ p[j] = s[b]
    BY PickProperties
<1> HIDE DEF p
<1>2. Sorted(p)
    BY <1>1 DEF Sorted
<1> QED
    BY <1>1, <1>2 DEF p

\* An ascending sequence repeats nothing.
LEMMA SortedInjective ==
  ASSUME NEW s \in Seq(Offsets), Sorted(s)
  PROVE  IsInjective(s)
<1> SUFFICES ASSUME NEW i \in DOMAIN s, NEW j \in DOMAIN s, s[i] = s[j], i # j PROVE FALSE
    BY DEF IsInjective
<1>1. i < j \/ j < i
    OBVIOUS
<1>2. s[i] \in Nat /\ s[j] \in Nat
    BY DEF Offsets
<1> QED
    BY <1>1, <1>2 DEF Sorted

\* Sorting the buffer makes one batch per table of all its batchable events,
\* and of no others.
LEMMA BatchesOfFacts ==
  ASSUME log \in Seq(Event), NEW s \in Seq(Offsets), Sorted(s), ToSet(s) \subseteq DOMAIN log
  PROVE  /\ BatchesOf(s) \in Seq(Batch)
         /\ OneBatchPerTable(BatchesOf(s))
         /\ \A b \in ToSet(BatchesOf(s)) : IsBatch(b)
         /\ \A o \in Offsets :
              InBatches(BatchesOf(s), o) <=> o \in ToSet(s) /\ Batchable(o)
<1> DEFINE
      built  == Pick(s, {o \in ToSet(s) : Batchable(o)})
      firsts == Pick(built, FirstOfTable(built))
      bs == BatchesOf(s)
<1>1. /\ built \in Seq(Offsets) /\ Sorted(built)
      /\ \A o : o \in ToSet(built) <=> o \in ToSet(s) /\ Batchable(o)
    BY PickSorted, PickProperties
<1>2. /\ firsts \in Seq(Offsets) /\ Sorted(firsts) /\ IsInjective(firsts)
      /\ ToSet(firsts) = FirstOfTable(built)
  <2> HIDE DEF built
  <2>1. firsts \in Seq(Offsets) /\ Sorted(firsts)
      BY <1>1, PickSorted
  <2>2. ToSet(firsts) = ToSet(built) \intersect FirstOfTable(built)
      BY <1>1, PickProperties
  <2>3. FirstOfTable(built) \subseteq ToSet(built)
      BY DEF FirstOfTable
  <2> HIDE DEF firsts
  <2> QED
      BY <2>1, <2>2, <2>3, SortedInjective
<1>3. bs = [i \in DOMAIN firsts |-> BatchOf(built, EventTable(firsts[i]))]
    BY DEF BatchesOf
<1> HIDE DEF built, firsts, bs
<1>4. ASSUME NEW i \in DOMAIN firsts
      PROVE  /\ firsts[i] \in ToSet(built) /\ firsts[i] \in DOMAIN log /\ firsts[i] \in Nat
             /\ \A p \in ToSet(built) : EventTable(p) = EventTable(firsts[i]) => firsts[i] <= p
             /\ EventTable(firsts[i]) \in Tables
  <2>1. firsts[i] \in FirstOfTable(built)
      BY <1>2, Zenon DEF ToSet
  <2>2. firsts[i] \in ToSet(built) /\ firsts[i] \in DOMAIN log
      BY <2>1, <1>1 DEF FirstOfTable
  <2>3. EventTable(firsts[i]) \in Tables
    <3>1. log[firsts[i]] \in Event
        BY <2>2
    <3>2. log[firsts[i]].key \in Keys
        BY <3>1 DEF Event
    <3> QED
        BY <3>2 DEF EventTable
  <2> QED
      BY <2>1, <2>2, <2>3 DEF FirstOfTable
<1>5. ASSUME NEW t \in Tables
      PROVE  LET b == BatchOf(built, t) IN
             /\ b \in Batch /\ b.table = t /\ IsBatch(b)
             /\ \A o : o \in ToSet(b.events) <=> o \in ToSet(built) /\ EventTable(o) = t
  <2> DEFINE q == Pick(built, {o \in ToSet(built) : EventTable(o) = t})
  <2>1. q \in Seq(Offsets) /\ Sorted(q)
      BY <1>1, PickSorted
  <2>2. \A o : o \in ToSet(q) <=> o \in ToSet(built) /\ EventTable(o) = t
      BY <1>1, PickProperties
  <2>3. BatchOf(built, t) = [table |-> t, events |-> q]
      BY DEF BatchOf
  <2> HIDE DEF q
  <2> QED
      BY <2>1, <2>2, <2>3, <1>1 DEF Batch, IsBatch
<1>6. /\ DOMAIN bs = DOMAIN firsts
      /\ \A i \in DOMAIN firsts : /\ bs[i] = BatchOf(built, EventTable(firsts[i]))
                                  /\ bs[i] \in Batch
                                  /\ bs[i].table = EventTable(firsts[i])
                                  /\ IsBatch(bs[i])
    BY <1>3, <1>4, <1>5
<1>7. bs \in Seq(Batch)
  <2>1. DOMAIN firsts = 1 .. Len(firsts) /\ Len(firsts) \in Nat
      BY <1>2
  <2> QED
      BY <2>1, <1>3, <1>6, IsASeq
<1>8. OneBatchPerTable(bs)
  <2> SUFFICES ASSUME NEW i \in DOMAIN firsts, NEW j \in DOMAIN firsts, i # j,
                      EventTable(firsts[i]) = EventTable(firsts[j])
               PROVE  FALSE
      BY <1>6 DEF OneBatchPerTable
  <2>1. firsts[i] <= firsts[j] /\ firsts[j] <= firsts[i]
      BY <1>4
  <2>2. firsts[i] = firsts[j]
      BY <2>1, <1>4
  <2> QED
      BY <2>2, <1>2 DEF IsInjective
<1>9. \A b \in ToSet(bs) : IsBatch(b)
    BY <1>6 DEF ToSet
<1>10. ASSUME NEW o \in Offsets, InBatches(bs, o) PROVE o \in ToSet(built)
  <2>1. PICK i \in DOMAIN firsts : o \in ToSet(bs[i].events)
      BY <1>6, <1>10 DEF InBatches, ToSet
  <2> QED
      BY <2>1, <1>4, <1>5, <1>6
<1>11. ASSUME NEW o \in ToSet(built) PROVE InBatches(bs, o)
  <2> DEFINE S == {p \in ToSet(built) : EventTable(p) = EventTable(o)}
  <2>1. S \in SUBSET Nat /\ S # {}
      BY <1>1, ToSetFacts DEF Offsets
  <2>2. PICK f \in S : \A p \in S : f <= p
    <3> HIDE DEF S
    <3> QED
        BY <2>1, LeastNat
  <2>3. f \in ToSet(firsts) /\ EventTable(f) = EventTable(o)
      BY <2>2, <1>2 DEF FirstOfTable
  <2>4. PICK i \in DOMAIN firsts : f = firsts[i]
      BY <2>3 DEF ToSet
  <2>5. o \in ToSet(bs[i].events)
      BY <2>3, <2>4, <1>4, <1>5, <1>6
  <2>6. bs[i] \in ToSet(bs)
      BY <1>6 DEF ToSet
  <2> QED
      BY <2>5, <2>6 DEF InBatches
<1> QED
    BY <1>1, <1>7, <1>8, <1>9, <1>10, <1>11 DEF bs

-----------------------------------------------------------------------------
\* Types, and what the queues hold where

\* The buffer is in offset order, of events handed over.
Buffered ==
    /\ Sorted(buffer)
    /\ \A o \in ToSet(buffer) : o < position

\* The group trails the client, which trails the log; everything before the
\* position has been seen.
OffsetOrder ==
    /\ committed <= stored /\ stored <= position /\ position <= Len(log) + 1
    /\ \A o \in Offsets : fate[o] = "unseen" => position <= o

Base == TypeOK /\ Shape /\ Buffered /\ OffsetOrder

\* Every step keeps the Boolean-valued variables Boolean.
LEMMA FlagsNext == TypeOK /\ [Next]_vars => Flags'
<1> SUFFICES ASSUME Flags, TypeOK, [Next]_vars PROVE Flags'
    BY TypeSplit
<1>1. CASE Restart
    BY <1>1 DEF Restart, Flags
<1>2. CASE LeaveLoop
    BY <1>2 DEF LeaveLoop, Flags
<1>3. CASE CopyFails
    BY <1>3, Zenon DEF CopyFails, Flags
<1>4. CASE UNCHANGED run \/ UNCHANGED vars
    BY <1>4 DEF run, vars, Flags
<1> QED
    BY <1>1, <1>2, <1>3, <1>4
    DEF Next, Consume, Environment, Produce, OffsetCommit, Kill, Leave, Deliver,
        IdleFlush, SortBuffer, SortFails, UpsertInstead, Copy, CommitCopy,
        FallbackUpsert, Replay, DeadLetter, PassThrough, FlushDone

\* A buffer that is sorted is one whose rows BatchesOf can put into batches.
LEMMA BufferInLog ==
  ASSUME TypeButFlags, Buffered, OffsetOrder
  PROVE  ToSet(buffer) \subseteq DOMAIN log /\ ToSet(buffer) \subseteq 1 .. Len(log)
<1>1. ASSUME NEW o \in ToSet(buffer) PROVE o \in 1 .. Len(log)
  <2>1. o \in Offsets /\ o < position
      BY ToSetFacts DEF TypeButFlags, Buffered
  <2> QED
      BY <2>1 DEF Offsets, TypeButFlags, OffsetOrder
<1> QED
    BY <1>1 DEF TypeButFlags

\* What a statement of a flush can do to the rows and the session.
LEMMA ExecuteType ==
  ASSUME TypeButFlags, NEW s \in Seq(Offsets),
         \/ session = "up" /\ table' = Written(table, s) /\ UNCHANGED session
         \/ session = "up" /\ UNCHANGED <<table, session>>
         \/ session' = "lost" /\ UNCHANGED table
         \/ session = "up" /\ table' = Written(table, s) /\ session' = "lost"
  PROVE  table' \in Rows /\ session' \in {"up", "lost"}
  BY WrittenType DEF TypeButFlags

\* Whatever ends the process leaves known fates and empty queues.
LEMMA ForgetType ==
  ASSUME TypeButFlags, NEW how \in Ended, Forget(how)
  PROVE  /\ pc' \in Running \union Ended
         /\ buffer' \in Seq(Offsets) /\ Len(buffer') <= BatchSize
         /\ batches' \in Seq(Batch) /\ replay' \in Seq(Offsets)
         /\ passThrough' \in Seq(Offsets)
         /\ Shape'
  BY DEF Forget, Shape, Ended, Running, TypeButFlags

\* The types of a step, given where its queues are.
LEMMA TypeNext == Base /\ [Next]_vars => TypeOK' /\ Shape'
<1> SUFFICES ASSUME Base, [Next]_vars PROVE TypeButFlags' /\ Shape'
    BY FlagsNext, TypeSplit DEF Base, TypeOK, TypeButFlags, Flags
<1>0. TypeButFlags /\ Shape /\ Buffered /\ OffsetOrder
    BY TypeSplit DEF Base
<1>a. /\ pc \in Running \union Ended /\ fate \in [Offsets -> Fates]
      /\ buffer \in Seq(Offsets) /\ batches \in Seq(Batch) /\ replay \in Seq(Offsets)
      /\ passThrough \in Seq(Offsets) /\ log \in Seq(Event)
      /\ position \in Nat /\ Len(buffer) <= BatchSize /\ table \in Rows
    BY <1>0 DEF TypeButFlags
<1>b. batches # <<>> => /\ Current.events \in Seq(Offsets)
                        /\ Tail(batches) \in Seq(Batch)
    BY <1>a, CurrentType
<1>c. \A S, f : f \in Fates => Mark(S, f) \in [Offsets -> Fates]
    BY <1>a, MarkType
<1>1. CASE UNCHANGED vars
    BY <1>0, <1>1 DEF vars, TypeButFlags, Shape
<1>2. CASE Produce
  <2>1. TypeButFlags'
      BY <1>0, <1>2 DEF Produce, TypeButFlags, Event, client, flush, run
  <2>2. Shape'
      BY <1>0, <1>2 DEF Produce, Shape, flush
  <2> QED
      BY <2>1, <2>2
<1>3. CASE OffsetCommit \/ IdleFlush \/ LeaveLoop
    BY <1>0, <1>3
    DEF OffsetCommit, IdleFlush, LeaveLoop, TypeButFlags, Shape, Running, Ended,
        broker, client, flush, run
<1>4. ASSUME NEW how \in Ended, Leave(how) PROVE TypeButFlags' /\ Shape'
  <2>1. fate' \in [Offsets -> Fates]
      BY <1>4, <1>c DEF Leave, Fates
  <2> QED
      BY <1>0, <1>4, <2>1, ForgetType DEF Leave, TypeButFlags, broker, client, run
<1>5. CASE Kill \/ SortFails
    BY <1>4, <1>5 DEF Kill, SortFails, Ended
<1>6. CASE Restart
    BY <1>0, <1>6 DEF Restart, TypeButFlags, Shape, Running, Ended, flush
<1>7. CASE Deliver
  <2>1. position \in Offsets /\ position' = position + 1 /\ stored' \in {stored, position + 1}
      BY <1>0, <1>7 DEF Deliver, TypeButFlags, Offsets
  <2>2. pc = "poll" /\ Len(buffer) < BatchSize
      BY <1>0, <1>7 DEF Deliver, Shape
  <2>3. fate' \in [Offsets -> Fates]
      BY <1>a, <1>7, <2>1 DEF Deliver, Fates
  <2>4. CASE UNCHANGED <<pc, buffer>>
      BY <1>0, <1>7, <2>1, <2>3, <2>4
      DEF Deliver, TypeButFlags, Shape, Offsets, broker, run
  <2>5. CASE /\ buffer' = Append(buffer, position)
             /\ pc' \in IF Full(buffer') THEN {"flush"}
                        ELSE IF FlushAfter THEN {"flush", "poll"} ELSE {"poll"}
    <3>1. buffer' \in Seq(Offsets) /\ Len(buffer') = Len(buffer) + 1
        BY <1>a, <2>1, <2>5
    <3>2. Len(buffer') <= BatchSize /\ Len(buffer') \in Nat
        BY <3>1, <2>2, <1>a
    <3>3. pc' \in {"flush", "poll"} /\ (pc' = "poll" => Len(buffer') < BatchSize)
        BY <2>5, <3>2 DEF Full
    <3> QED
        BY <1>0, <1>7, <2>1, <2>3, <3>1, <3>2, <3>3
        DEF Deliver, TypeButFlags, Shape, Offsets, Running, Ended, broker, run
  <2> QED
      BY <1>7, <2>4, <2>5 DEF Deliver
<1>8. CASE SortBuffer
  <2>1. BatchesOf(buffer) \in Seq(Batch)
      BY <1>0, <1>a, BatchesOfFacts, BufferInLog DEF Buffered
  <2>2. Bypassing(buffer) \in Seq(Offsets)
      BY <1>a, PickProperties DEF Bypassing
  <2>3. replay = <<>>
      BY <1>0, <1>8 DEF SortBuffer, Shape
  <2> QED
      BY <1>0, <1>8, <2>1, <2>2, <2>3
      DEF SortBuffer, TypeButFlags, Shape, Running, Ended, broker, client, run
<1>9. CASE UpsertInstead
  <2>1. fate' \in [Offsets -> Fates] /\ passThrough' \in Seq(Offsets)
    <3>1. "applied" \in Fates
        BY DEF Fates
    <3>2. passThrough \o Current.events \in Seq(Offsets)
        BY <1>9, <1>a, <1>b DEF UpsertInstead
    <3> QED
        BY <1>9, <1>a, <1>c, <3>1, <3>2 DEF UpsertInstead, UpsertDisabledFails, Execute
  <2>2. table' \in Rows /\ session' \in {"up", "lost"}
      BY <1>9, <1>0, <1>b, ExecuteType DEF UpsertInstead, Execute
  <2> QED
      BY <1>0, <1>9, <1>b, <2>1, <2>2
      DEF UpsertInstead, TypeButFlags, Shape, Ended, broker, client, run
<1>10. CASE Copy \/ CopyFails
    BY <1>0, <1>10
    DEF Copy, CopyFails, TypeButFlags, Shape, Running, Ended, broker, client, flush, run
<1>11. CASE CommitCopy
  <2>1. batches # <<>> /\ pc = "commit" /\ replay = <<>>
      BY <1>0, <1>11 DEF CommitCopy, Shape
  <2>2. fate' \in [Offsets -> Fates]
    <3>1. "applied" \in Fates
        BY DEF Fates
    <3> QED
        BY <1>11, <1>a, <1>c, <3>1 DEF CommitCopy, Execute
  <2>3. table' \in Rows /\ session' \in {"up", "lost"}
      BY <1>11, <1>0, <1>b, <2>1, ExecuteType DEF CommitCopy, Execute
  <2>4. \/ pc' = "write" /\ batches' = Tail(batches)
        \/ pc' = "upsert" /\ batches' = batches
      BY <1>11 DEF CommitCopy, Execute
  <2> QED
      BY <1>0, <1>11, <1>b, <2>1, <2>2, <2>3, <2>4
      DEF CommitCopy, TypeButFlags, Shape, Running, Ended, broker, client, run
<1>12. CASE FallbackUpsert
  <2>1. batches # <<>> /\ pc = "upsert"
      BY <1>0, <1>12 DEF FallbackUpsert, Shape
  <2>2. fate' \in [Offsets -> Fates] /\ replay' \in Seq(Offsets)
    <3>1. "applied" \in Fates
        BY DEF Fates
    <3> QED
        BY <1>12, <1>a, <1>b, <1>c, <2>1, <3>1 DEF FallbackUpsert, Execute
  <2>3. table' \in Rows /\ session' \in {"up", "lost"}
      BY <1>12, <1>0, <1>b, <2>1, ExecuteType DEF FallbackUpsert, Execute
  <2>4. pc' = "write"
      BY <1>12 DEF FallbackUpsert, Execute
  <2> QED
      BY <1>0, <1>12, <1>b, <2>1, <2>2, <2>3, <2>4
      DEF FallbackUpsert, TypeButFlags, Shape, Running, Ended, broker, client, run
<1>13. CASE Replay
  <2>1. replay # <<>> /\ pc = "write" /\ Head(replay) \in Offsets /\ Tail(replay) \in Seq(Offsets)
      BY <1>a, <1>13 DEF Replay
  <2>2. table' \in Rows /\ session' \in {"up", "lost"}
    <3>1. <<Head(replay)>> \in Seq(Offsets)
        BY <2>1
    <3> QED
        BY <1>13, <1>0, <3>1, ExecuteType DEF Replay, Execute
  <2>3. CASE ReplayApplies
    <3>1. fate' \in [Offsets -> Fates]
        BY <1>c, <2>3 DEF ReplayApplies, Fates
    <3> QED
        BY <1>0, <1>13, <2>1, <2>2, <2>3, <3>1
        DEF Replay, ReplayApplies, TypeButFlags, Shape, Ended, broker, client, run
  <2>4. CASE ReplayRefused
    <3>1. CASE pc' = "dlq" /\ UNCHANGED <<flush, fate>>
        BY <1>0, <1>13, <2>1, <2>2, <3>1
        DEF Replay, TypeButFlags, Shape, Running, Ended, broker, client, run, flush
    <3>2. CASE /\ Forget("failed")
               /\ fate' = [Mark(InHand, "lost") EXCEPT ![Head(replay)] = "rejected"]
      <4>1. Mark(InHand, "lost") \in [Offsets -> Fates] /\ "rejected" \in Fates
          BY <1>c DEF Fates
      <4>2. fate' \in [Offsets -> Fates]
          BY <3>2, <4>1, <2>1
      <4>3. "failed" \in Ended
          BY DEF Ended
      <4> QED
          BY <1>0, <1>13, <2>2, <3>2, <4>2, <4>3, ForgetType
          DEF Replay, TypeButFlags, broker, client, run
    <3> QED
        BY <2>4, <3>1, <3>2 DEF ReplayRefused
  <2> QED
      BY <1>13, <2>3, <2>4 DEF Replay, Execute
<1>14. CASE DeadLetter
  <2>1. replay # <<>> /\ pc = "dlq" /\ Tail(replay) \in Seq(Offsets) /\ pc' = "write"
      BY <1>0, <1>a, <1>14 DEF DeadLetter, Shape
  <2>2. fate' \in [Offsets -> Fates]
      BY <1>14, <1>c DEF DeadLetter, Fates
  <2> QED
      BY <1>0, <1>14, <2>1, <2>2
      DEF DeadLetter, TypeButFlags, Shape, Running, Ended, broker, client, run
<1>15. CASE PassThrough
  <2>1. /\ passThrough # <<>> /\ pc = "write" /\ Head(passThrough) \in Offsets
        /\ Tail(passThrough) \in Seq(Offsets)
      BY <1>a, <1>15 DEF PassThrough
  <2>2. <<Head(passThrough)>> \in Seq(Offsets)
      BY <2>1
  <2>3. table' \in Rows /\ session' \in {"up", "lost"}
      BY <1>15, <1>0, <2>2, ExecuteType DEF PassThrough, Execute, TypeButFlags
  <2>4. fate' \in [Offsets -> Fates]
    <3>1. {"skipped", "applied", "dropped"} \subseteq Fates
        BY DEF Fates
    <3> QED
        BY <1>15, <1>c, <3>1 DEF PassThrough, Execute
  <2> QED
      BY <1>0, <1>15, <2>1, <2>3, <2>4
      DEF PassThrough, TypeButFlags, Shape, Running, Ended, broker, client, run
<1>16. CASE FlushDone
    BY <1>0, <1>16
    DEF FlushDone, TypeButFlags, Shape, Running, Ended, broker, client, flush, run
<1> QED
    BY <1>1, <1>2, <1>3, <1>5, <1>6, <1>7, <1>8, <1>9, <1>10, <1>11, <1>12, <1>13,
       <1>14, <1>15, <1>16 DEF Next, Consume, Environment

\* The buffer stays in offset order.
LEMMA BufferedNext == Base /\ [Next]_vars => Buffered'
<1> SUFFICES ASSUME Base, [Next]_vars PROVE Buffered'
    OBVIOUS
<1>0. TypeButFlags /\ Shape /\ Buffered /\ OffsetOrder
    BY TypeSplit DEF Base
<1>1. ASSUME buffer' = <<>> PROVE Buffered'
    BY <1>1 DEF Buffered, Sorted, ToSet
<1>2. ASSUME UNCHANGED <<buffer, position>> PROVE Buffered'
    BY <1>0, <1>2 DEF Buffered, Sorted
<1>3. CASE Deliver
  <2>1. position' = position + 1 /\ position \in Offsets
      BY <1>0, <1>3 DEF Deliver, TypeButFlags, Offsets
  <2>2. CASE UNCHANGED buffer
      BY <1>0, <2>1, <2>2, ToSetFacts DEF Buffered, Sorted, TypeButFlags, Offsets
  <2>3. CASE buffer' = Append(buffer, position)
    <3>1. ToSet(buffer') = ToSet(buffer) \union {position}
        BY <1>0, <2>1, <2>3, ToSetAppend DEF TypeButFlags
    <3>2. \A o \in ToSet(buffer') : o < position'
        BY <1>0, <2>1, <3>1, ToSetFacts DEF Buffered, TypeButFlags, Offsets
    <3>3. /\ buffer \in Seq(Offsets) /\ DOMAIN buffer' = 1 .. Len(buffer) + 1
          /\ Len(buffer) \in Nat /\ DOMAIN buffer = 1 .. Len(buffer)
          /\ buffer'[Len(buffer) + 1] = position
          /\ \A k \in 1 .. Len(buffer) : buffer'[k] = buffer[k]
        BY <1>0, <2>3 DEF TypeButFlags
    <3>4. ASSUME NEW i \in DOMAIN buffer', NEW j \in DOMAIN buffer', i < j
          PROVE  buffer'[i] < buffer'[j]
      <4>1. i \in DOMAIN buffer /\ buffer'[i] = buffer[i] /\ buffer[i] \in ToSet(buffer)
          BY <3>3, <3>4 DEF ToSet
      <4>2. CASE j = Len(buffer) + 1
          BY <4>1, <4>2, <3>3, <1>0 DEF Buffered
      <4>3. CASE j # Len(buffer) + 1
        <5>1. j \in DOMAIN buffer /\ buffer'[j] = buffer[j]
            BY <3>3, <4>3
        <5> QED
            BY <4>1, <5>1, <3>4, <1>0 DEF Buffered, Sorted
      <4> QED
          BY <4>2, <4>3
    <3> QED
        BY <3>2, <3>4 DEF Buffered, Sorted
  <2> QED
      BY <1>3, <2>2, <2>3 DEF Deliver
<1>4. CASE Restart
    BY <1>0, <1>1, <1>4 DEF Restart, Shape, flush
<1>5. ASSUME Forget("failed") \/ \E how \in Ended : Leave(how) PROVE Buffered'
    BY <1>1, <1>5 DEF Leave, Forget
<1>6. CASE Kill \/ SortFails \/ SortBuffer \/ Replay
  <2>1. CASE Kill \/ SortFails
      BY <2>1, <1>5 DEF Kill, SortFails, Ended
  <2>2. CASE SortBuffer
      BY <2>2, <1>1 DEF SortBuffer
  <2>3. CASE Replay
      BY <2>3, <1>2, <1>5 DEF Replay, Execute, ReplayApplies, ReplayRefused, client, flush
  <2> QED
      BY <1>6, <2>1, <2>2, <2>3
<1> QED
    BY <1>2, <1>3, <1>4, <1>6
    DEF Next, Consume, Environment, Produce, OffsetCommit, IdleFlush, LeaveLoop,
        UpsertInstead, Copy, CommitCopy, CopyFails, FallbackUpsert, DeadLetter,
        PassThrough, FlushDone, vars, client, flush

\* Marked events, and no others, change their fate.
LEMMA MarkAt ==
  ASSUME fate \in [Offsets -> Fates], NEW S, NEW f, NEW o \in Offsets
  PROVE  Mark(S, f)[o] = IF o \in S THEN f ELSE fate[o]
  BY DEF Mark

\* The events before the position have been seen.
LEMMA OffsetNext == Base /\ [Next]_vars => OffsetOrder'
<1> SUFFICES ASSUME Base, [Next]_vars PROVE OffsetOrder'
    OBVIOUS
<1>0. TypeButFlags /\ Shape /\ OffsetOrder
    BY TypeSplit DEF Base
<1>a. /\ committed \in Nat /\ stored \in Nat /\ position \in Nat /\ log \in Seq(Event)
      /\ Len(log) \in Nat /\ fate \in [Offsets -> Fates]
    BY <1>0 DEF TypeButFlags
\* No step but a delivery and a restart moves the position; and no event
\* becomes unseen again.
<1>1. ASSUME UNCHANGED <<log, committed, stored, position>>,
             \A o \in Offsets : fate'[o] = "unseen" => fate[o] = "unseen"
      PROVE  OffsetOrder'
    BY <1>0, <1>1 DEF OffsetOrder
<1>2. ASSUME UNCHANGED <<log, committed, stored, position>>,
             NEW S, NEW f, f # "unseen", fate' = Mark(S, f)
      PROVE  OffsetOrder'
    BY <1>1, <1>2, <1>a, MarkAt
<1>3. CASE UNCHANGED vars \/ IdleFlush \/ LeaveLoop \/ Copy \/ CopyFails \/ FlushDone
    BY <1>1, <1>3 DEF vars, IdleFlush, LeaveLoop, Copy, CopyFails, FlushDone, broker, client
<1>4. CASE Produce
  <2>1. PICK e : log' = Append(log, e)
      BY <1>4 DEF Produce
  <2>2. Len(log) <= Len(log')
      BY <2>1, <1>a
  <2>3. UNCHANGED <<committed, stored, position, fate>>
      BY <1>4 DEF Produce, client
  <2>4. \A n, m, k \in Nat : n <= m + 1 /\ m <= k => n <= k + 1
      OBVIOUS
  <2>5. position <= Len(log') + 1
    <3>1. Len(log') = Len(log) + 1
        BY <2>1, <1>a
    <3> QED
        BY <3>1, <1>0, <1>a DEF OffsetOrder
  <2> QED
      BY <1>0, <2>3, <2>5 DEF OffsetOrder
<1>5. CASE OffsetCommit
    BY <1>0, <1>5, <1>a DEF OffsetCommit, OffsetOrder, client
<1>6. ASSUME NEW how \in Ended, Leave(how) PROVE OffsetOrder'
    BY <1>6, <1>2 DEF Leave, broker, client
<1>7. CASE Kill \/ SortFails
    BY <1>6, <1>7 DEF Kill, SortFails, Ended
<1>8. CASE Restart
  <2>1. /\ position' = committed' /\ stored' = committed' /\ committed' \in {1, committed}
        /\ UNCHANGED <<log, fate>>
      BY <1>8 DEF Restart
  <2>2. committed' \in Nat /\ committed' <= position /\ committed' <= Len(log) + 1
      BY <1>0, <1>a, <2>1 DEF OffsetOrder, TypeButFlags
  <2>3. \A o \in Offsets : fate[o] = "unseen" => committed' <= o
      BY <1>0, <1>a, <2>2 DEF OffsetOrder, Offsets
  <2> QED
      BY <2>1, <2>2, <2>3 DEF OffsetOrder
<1>9. CASE Deliver
  <2>1. /\ position <= Len(log) /\ position' = position + 1 /\ position \in Offsets
        /\ stored' \in {stored, position + 1} /\ UNCHANGED <<log, committed>>
        /\ \/ fate' = [fate EXCEPT ![position] = "skipped"]
           \/ fate' = [fate EXCEPT ![position] = "held"]
      BY <1>0, <1>9 DEF Deliver, TypeButFlags, Offsets, broker
  <2>2. ASSUME NEW o \in Offsets, fate'[o] = "unseen" PROVE position' <= o
    <3>1. o # position /\ fate[o] = "unseen"
        BY <1>a, <2>1, <2>2
    <3> QED
        BY <3>1, <1>0, <1>a, <2>1 DEF OffsetOrder, Offsets
  <2> QED
      BY <1>0, <1>a, <2>1, <2>2 DEF OffsetOrder
<1>10. CASE SortBuffer
    BY <1>1, <1>10 DEF SortBuffer, broker, client
<1>11. CASE UpsertInstead
    BY <1>1, <1>2, <1>11 DEF UpsertInstead, UpsertDisabledFails, Execute, broker, client
<1>12. CASE CommitCopy
    BY <1>1, <1>2, <1>12 DEF CommitCopy, Execute, broker, client
<1>13. CASE FallbackUpsert
    BY <1>1, <1>2, <1>13 DEF FallbackUpsert, Execute, broker, client
<1>14. CASE Replay
  <2>1. UNCHANGED <<log, committed, stored, position>>
      BY <1>14 DEF Replay, broker, client
  <2>2. CASE ReplayApplies
      BY <1>2, <2>1, <2>2 DEF ReplayApplies
  <2>3. CASE ReplayRefused
    <3>1. CASE UNCHANGED fate
        BY <3>1, <2>1, <1>1
    <3>2. CASE fate' = [Mark(InHand, "lost") EXCEPT ![Head(replay)] = "rejected"]
      <4>1. \A o \in Offsets : fate'[o] = "unseen" => fate[o] = "unseen"
          BY <3>2, <1>a DEF Mark
      <4> QED
          BY <4>1, <2>1, <1>1
    <3> QED
        BY <2>3, <3>1, <3>2 DEF ReplayRefused
  <2> QED
      BY <1>14, <2>2, <2>3 DEF Replay, Execute
<1>15. CASE DeadLetter
    BY <1>2, <1>15 DEF DeadLetter, broker, client
<1>16. CASE PassThrough
    BY <1>2, <1>16 DEF PassThrough, Execute, broker, client
<1> QED
    BY <1>3, <1>4, <1>5, <1>7, <1>8, <1>9, <1>10, <1>11, <1>12, <1>13, <1>14,
       <1>15, <1>16 DEF Next, Consume, Environment

\* The inductive invariant of types and order.
LEMMA BaseInit == Init => Base
<1> SUFFICES ASSUME Init PROVE Base
    OBVIOUS
<1>1. TypeOK /\ Shape
    BY TypeInit
<1>2. Buffered
    BY DEF Init, Buffered, Sorted, ToSet
<1>3. OffsetOrder
    BY DEF Init, OffsetOrder, Offsets
<1> QED
    BY <1>1, <1>2, <1>3 DEF Base

\* Base is inductive.
LEMMA BaseNext == Base /\ [Next]_vars => Base'
  BY TypeNext, BufferedNext, OffsetNext DEF Base

\* Every reachable state of the COPY path is well typed.
THEOREM TypeCorrect == Spec => []TypeOK
<1>1. Spec => []Base
    BY BaseInit, BaseNext, PTL DEF Spec
<1>2. Base => TypeOK
    BY DEF Base
<1> QED
    BY <1>1, <1>2, PTL

-----------------------------------------------------------------------------
\* The ways a step can move events between the queues.  Every step is one of
\* them: Deliver, SortBuffer, Restart, or one of the following.

Wrote(s)  == table' = Written(table, s)
Queues    == <<buffer, batches, replay, passThrough>>

\* An event is appended to the log.
Appended ==
    /\ pc = "poll" /\ log \in Seq(Event) /\ \E e \in Event : log' = Append(log, e)
    /\ UNCHANGED <<position, Queues, fate, table>>

\* Nothing moves, but a statement may have taken effect unanswered.
Waited ==
    /\ UNCHANGED <<log, position, Queues, fate>>
    /\ \/ UNCHANGED table
       \/ batches # <<>> /\ Wrote(Current.events)
       \/ replay # <<>> /\ Wrote(<<Head(replay)>>)

\* The process ends.
Emptied ==
    /\ UNCHANGED <<log, position>>
    /\ pc \in Running /\ \E how \in Ended : Forget(how)
    /\ \/ fate' = Mark(InHand, "lost")
       \/ /\ replay # <<>>
          /\ fate' = [Mark(InHand, "lost") EXCEPT ![Head(replay)] = "rejected"]
    /\ UNCHANGED table \/ (replay # <<>> /\ Wrote(<<Head(replay)>>))

\* A batch is written, or joins the pass-through queue, or is replayed.
BatchWritten ==
    /\ batches # <<>> /\ replay = <<>> /\ buffer = <<>>
    /\ Wrote(Current.events) /\ fate' = Mark(ToSet(Current.events), "applied")
    /\ batches' = Tail(batches)
    /\ UNCHANGED <<log, position, buffer, replay, passThrough>>

BatchPassed ==
    /\ batches # <<>> /\ replay = <<>> /\ buffer = <<>>
    /\ UNCHANGED table \/ Wrote(Current.events)
    /\ batches' = Tail(batches) /\ passThrough' = passThrough \o Current.events
    /\ UNCHANGED <<log, position, buffer, replay, fate>>

BatchReplayed ==
    /\ batches # <<>> /\ replay = <<>> /\ buffer = <<>>
    /\ UNCHANGED table \/ Wrote(Current.events)
    /\ batches' = Tail(batches) /\ replay' = Current.events
    /\ UNCHANGED <<log, position, buffer, passThrough, fate>>

\* The next event of the replay, or of the pass-through queue, is settled.
ReplaySettled ==
    /\ replay # <<>> /\ buffer = <<>>
    /\ \E f \in {"applied", "dlq", "dropped"} :
         /\ fate' = Mark({Head(replay)}, f)
         /\ \/ f = "applied" /\ Wrote(<<Head(replay)>>)
            \/ f # "applied" /\ UNCHANGED table
    /\ replay' = Tail(replay)
    /\ UNCHANGED <<log, position, buffer, batches, passThrough>>

PassSettled ==
    /\ passThrough # <<>> /\ replay = <<>> /\ batches = <<>> /\ buffer = <<>>
    /\ \E f \in {"applied", "skipped", "dropped"} :
         /\ fate' = Mark({Head(passThrough)}, f)
         /\ \/ Wrote(<<Head(passThrough)>>)
            \/ f # "applied" /\ UNCHANGED table
    /\ passThrough' = Tail(passThrough)
    /\ UNCHANGED <<log, position, buffer, batches, replay>>

\* Every step moves events in one of these ways.
LEMMA StepEffect ==
  ASSUME Base, [Next]_vars
  PROVE  \/ Appended \/ Waited \/ Emptied \/ Restart \/ Deliver \/ SortBuffer
         \/ BatchWritten \/ BatchPassed \/ BatchReplayed
         \/ ReplaySettled \/ PassSettled
<1>0. TypeButFlags /\ Shape
    BY TypeSplit DEF Base
<1>1. CASE UNCHANGED vars \/ OffsetCommit \/ IdleFlush \/ LeaveLoop \/ Copy
           \/ CopyFails \/ FlushDone
  <2>1. UNCHANGED <<log, position, buffer, batches, replay, passThrough, fate, table>>
      BY <1>1 DEF vars, OffsetCommit, IdleFlush, LeaveLoop, Copy, CopyFails,
                  FlushDone, broker, client, flush
  <2> QED
      BY <2>1 DEF Waited, Queues
<1>2. CASE Produce
  <2>1. [key : Keys, kind : Kinds] \subseteq Event
      BY DEF Event
  <2>2. \E e \in Event : log' = Append(log, e)
      BY <1>2, <2>1 DEF Produce
  <2>3. pc = "poll" /\ log \in Seq(Event)
      BY <1>0, <1>2 DEF Produce, TypeButFlags
  <2>4. UNCHANGED <<position, buffer, batches, replay, passThrough, fate, table>>
      BY <1>2 DEF Produce, client, flush
  <2> QED
      BY <2>2, <2>3, <2>4 DEF Appended, Queues
<1>3. ASSUME NEW how \in Ended, Leave(how), pc \in Running PROVE Emptied
    BY <1>3 DEF Leave, Emptied, broker, client
<1>4. CASE Kill \/ SortFails
    BY <1>3, <1>4 DEF Kill, SortFails, Ended, Running
<1>5. CASE UpsertInstead
  <2>1. buffer = <<>>
      BY <1>0, <1>5 DEF UpsertInstead, Shape
  <2> QED
      BY <1>5, <2>1
      DEF UpsertInstead, Execute, UpsertDisabledFails, BatchWritten, BatchPassed,
          Wrote, broker, client
<1>6. CASE CommitCopy
  <2>1. buffer = <<>> /\ batches # <<>> /\ replay = <<>>
      BY <1>0, <1>6 DEF CommitCopy, Shape
  <2> QED
      BY <1>6, <2>1
      DEF CommitCopy, Execute, BatchWritten, Waited, Queues, Wrote, broker, client
<1>7. CASE FallbackUpsert
  <2>1. buffer = <<>> /\ batches # <<>> /\ replay = <<>>
      BY <1>0, <1>7 DEF FallbackUpsert, Shape
  <2> QED
      BY <1>7, <2>1
      DEF FallbackUpsert, Execute, BatchWritten, BatchReplayed, Wrote, broker, client
<1>8. CASE Replay
  <2>1. buffer = <<>> /\ replay # <<>> /\ UNCHANGED <<log, position>> /\ pc \in Running
      BY <1>0, <1>8 DEF Replay, Shape, broker, client, Running
  <2>2. CASE table' = Written(table, <<Head(replay)>>) /\ ReplayApplies
    <3>1. /\ fate' = Mark({Head(replay)}, "applied") /\ Wrote(<<Head(replay)>>)
          /\ replay' = Tail(replay) /\ UNCHANGED <<buffer, batches, passThrough>>
        BY <2>2 DEF ReplayApplies, Wrote
    <3> QED
        BY <2>1, <3>1 DEF ReplaySettled
  <2>3. ASSUME UNCHANGED table \/ table' = Written(table, <<Head(replay)>>), ReplayRefused
        PROVE  Waited \/ Emptied
    <3>1. CASE UNCHANGED <<flush, fate>>
        BY <2>1, <2>3, <3>1 DEF Waited, Queues, flush, Wrote
    <3>2. CASE /\ Forget("failed")
               /\ fate' = [Mark(InHand, "lost") EXCEPT ![Head(replay)] = "rejected"]
        BY <2>1, <2>3, <3>2 DEF Emptied, Ended, Wrote
    <3> QED
        BY <2>3, <3>1, <3>2 DEF ReplayRefused
  <2> QED
      BY <1>8, <2>2, <2>3 DEF Replay, Execute
<1>9. CASE DeadLetter
  <2>1. buffer = <<>> /\ replay # <<>>
      BY <1>0, <1>9 DEF DeadLetter, Shape
  <2> QED
      BY <1>9, <2>1 DEF DeadLetter, ReplaySettled, broker, client
<1>10. CASE PassThrough
  <2>1. /\ buffer = <<>> /\ passThrough # <<>> /\ replay = <<>> /\ batches = <<>>
        /\ passThrough' = Tail(passThrough)
        /\ UNCHANGED <<log, position, buffer, batches, replay>>
      BY <1>0, <1>10 DEF PassThrough, Shape, broker, client
  <2> DEFINE o == Head(passThrough)
  <2>2. \/ fate' = Mark({o}, "skipped") /\ UNCHANGED table
        \/ fate' = Mark({o}, "applied") /\ Wrote(<<o>>)
        \/ fate' = Mark({o}, "dropped") /\ (UNCHANGED table \/ Wrote(<<o>>))
      BY <1>10 DEF PassThrough, Execute, Wrote
  <2>4. CASE fate' = Mark({o}, "skipped") /\ UNCHANGED table
      BY <2>1, <2>4 DEF PassSettled
  <2>5. CASE fate' = Mark({o}, "applied") /\ Wrote(<<o>>)
      BY <2>1, <2>5 DEF PassSettled
  <2>6. CASE fate' = Mark({o}, "dropped") /\ (UNCHANGED table \/ Wrote(<<o>>))
      BY <2>1, <2>6 DEF PassSettled
  <2> HIDE DEF o
  <2> QED
      BY <2>2, <2>4, <2>5, <2>6
<1> QED
    BY <1>1, <1>2, <1>4, <1>5, <1>6, <1>7, <1>8, <1>9, <1>10
    DEF Next, Consume, Environment

-----------------------------------------------------------------------------
\* Every held event is in one place

\* The queues, as sets, have no event in common, none of them repeats one, and
\* together they have the held ones, all of them handed over.
Places ==
    /\ \A b \in ToSet(batches) : IsBatch(b)
    /\ OneBatchPerTable(batches)
    /\ Sorted(replay)
    /\ IsInjective(passThrough)
    /\ \A o \in Offsets :
         /\ fate[o] = "held" <=> \/ o \in ToSet(buffer) \/ o \in ToSet(replay)
                                 \/ o \in ToSet(passThrough) \/ InBatches(batches, o)
         /\ ~ (o \in ToSet(replay) /\ o \in ToSet(passThrough))
         /\ InBatches(batches, o) => o \notin ToSet(replay) /\ o \notin ToSet(passThrough)
         /\ fate[o] = "held" => o < position

\* Taking the first batch away takes its events away and no others.
LEMMA TailBatches ==
  ASSUME batches \in Seq(Batch), batches # <<>>, OneBatchPerTable(batches),
         \A b \in ToSet(batches) : IsBatch(b)
  PROVE  /\ IsBatch(Current) /\ Current \in ToSet(batches)
         /\ \A b \in ToSet(Tail(batches)) : IsBatch(b) /\ b \in ToSet(batches)
         /\ OneBatchPerTable(Tail(batches))
         /\ \A o : o \in ToSet(Current.events) => InBatches(batches, o)
         /\ \A o : InBatches(Tail(batches), o) <=>
                     InBatches(batches, o) /\ o \notin ToSet(Current.events)
<1>1. ToSet(batches) = {Current} \union ToSet(Tail(batches))
    BY CurrentType
<1>2. /\ Current = batches[1] /\ Len(batches) \in Nat \ {0}
      /\ DOMAIN Tail(batches) = 1 .. Len(batches) - 1 /\ DOMAIN batches = 1 .. Len(batches)
      /\ \A i \in 1 .. Len(batches) - 1 : Tail(batches)[i] = batches[i + 1]
    BY DEF Current
<1>3. OneBatchPerTable(Tail(batches))
  <2> SUFFICES ASSUME NEW i \in DOMAIN Tail(batches), NEW j \in DOMAIN Tail(batches), i # j
               PROVE  Tail(batches)[i].table # Tail(batches)[j].table
      BY DEF OneBatchPerTable
  <2>1. i + 1 \in DOMAIN batches /\ j + 1 \in DOMAIN batches /\ i + 1 # j + 1
      BY <1>2
  <2> QED
      BY <2>1, <1>2 DEF OneBatchPerTable
<1>4. ASSUME NEW b \in ToSet(Tail(batches)) PROVE b.table # Current.table
  <2>1. PICK i \in DOMAIN Tail(batches) : b = Tail(batches)[i]
      BY DEF ToSet
  <2>2. i + 1 \in DOMAIN batches /\ 1 \in DOMAIN batches /\ i + 1 # 1 /\ b = batches[i + 1]
      BY <1>2, <2>1
  <2> QED
      BY <2>2, <1>2 DEF OneBatchPerTable
<1>5. ASSUME NEW o, InBatches(Tail(batches), o) PROVE o \notin ToSet(Current.events)
    BY <1>1, <1>4, <1>5 DEF InBatches, IsBatch
<1> QED
    BY <1>1, <1>3, <1>5 DEF InBatches

\* The rest of a sequence without repetitions does not repeat its head.
LEMMA TailInjective ==
  ASSUME NEW A, NEW s \in Seq(A), s # <<>>, IsInjective(s)
  PROVE  IsInjective(Tail(s)) /\ Head(s) \notin ToSet(Tail(s))
<1>1. /\ Len(s) \in Nat /\ Len(s) # 0 /\ Head(s) = s[1] /\ DOMAIN s = 1 .. Len(s)
      /\ DOMAIN Tail(s) = 1 .. Len(s) - 1
      /\ \A i \in DOMAIN Tail(s) : i \in Nat /\ i + 1 \in DOMAIN s /\ Tail(s)[i] = s[i + 1]
    OBVIOUS
<1>2. \A i, j \in DOMAIN s : s[i] = s[j] => i = j
    BY DEF IsInjective
<1>3. IsInjective(Tail(s))
  <2> SUFFICES ASSUME NEW i \in DOMAIN Tail(s), NEW j \in DOMAIN Tail(s), Tail(s)[i] = Tail(s)[j]
               PROVE  i = j
      BY DEF IsInjective
  <2>1. i + 1 = j + 1
      BY <1>1, <1>2
  <2> QED
      BY <2>1, <1>1
<1>4. ASSUME NEW i \in DOMAIN Tail(s), Tail(s)[i] = Head(s) PROVE FALSE
  <2>1. i + 1 = 1 /\ i # 0
      BY <1>1, <1>2, <1>4
  <2> QED
      BY <2>1, <1>1
<1> QED
    BY <1>3, <1>4 DEF ToSet

\* The rest of an ascending sequence ascends, above its head.
LEMMA TailSorted ==
  ASSUME NEW s \in Seq(Offsets), s # <<>>, Sorted(s)
  PROVE  /\ Sorted(Tail(s)) /\ Tail(s) \in Seq(Offsets) /\ Head(s) \in Offsets
         /\ \A o \in ToSet(Tail(s)) : Head(s) < o
<1>1. /\ Len(s) \in Nat /\ Len(s) # 0 /\ Head(s) = s[1] /\ 1 \in DOMAIN s
      /\ DOMAIN Tail(s) = 1 .. Len(s) - 1
      /\ \A i \in DOMAIN Tail(s) :
           i \in Nat /\ 1 < i + 1 /\ i + 1 \in DOMAIN s /\ Tail(s)[i] = s[i + 1]
    OBVIOUS
<1>2. \A i, j \in DOMAIN s : i < j => s[i] < s[j]
    BY DEF Sorted
<1>3. Sorted(Tail(s))
  <2> SUFFICES ASSUME NEW i \in DOMAIN Tail(s), NEW j \in DOMAIN Tail(s), i < j
               PROVE  Tail(s)[i] < Tail(s)[j]
      BY DEF Sorted
  <2>1. i + 1 < j + 1
      BY <1>1
  <2> QED
      BY <2>1, <1>1, <1>2
<1>4. ASSUME NEW i \in DOMAIN Tail(s) PROVE Head(s) < Tail(s)[i]
    BY <1>1, <1>2
<1> QED
    BY <1>1, <1>3, <1>4 DEF ToSet

\* A held event is in the log, before the position.
LEMMA HeldInLog ==
  ASSUME Base, Places, NEW o \in Offsets, fate[o] = "held" \/ o < position
  PROVE  o \in DOMAIN log /\ o < position
<1>1. TypeButFlags /\ OffsetOrder
    BY TypeSplit DEF Base
<1>2. o < position
    BY DEF Places
<1> QED
    BY <1>1, <1>2 DEF TypeButFlags, OffsetOrder, Offsets

\* No step changes an event of the log.
LEMMA LogKept ==
  ASSUME Base, [Next]_vars
  PROVE  \A o \in DOMAIN log : /\ o \in DOMAIN log' /\ log'[o] = log[o]
                               /\ Batchable(o)' <=> Batchable(o)
                               /\ EventTable(o)' = EventTable(o)
<1>1. log \in Seq(Event)
    BY TypeSplit DEF Base, TypeButFlags
<1>2. \/ UNCHANGED log
      \/ \E e \in Event : log' = Append(log, e)
    BY StepEffect
    DEF Appended, Waited, Emptied, Restart, Deliver, SortBuffer, BatchWritten, BatchPassed,
        BatchReplayed, ReplaySettled, PassSettled, broker
<1>3. \A o \in DOMAIN log : o \in DOMAIN log' /\ log'[o] = log[o]
    BY <1>1, <1>2
<1> QED
    BY <1>3 DEF Batchable, EventTable

\* A batch stays one, whatever happens to the log.
LEMMA BatchKept ==
  ASSUME Base, [Next]_vars, NEW b, IsBatch(b), ToSet(b.events) \subseteq DOMAIN log
  PROVE  IsBatch(b)'
<1>1. \A o \in ToSet(b.events) : /\ Batchable(o)' <=> Batchable(o)
                                 /\ EventTable(o)' = EventTable(o)
    BY LogKept
<1>2. Sorted(b.events) /\ \A o \in ToSet(b.events) : Batchable(o) /\ EventTable(o) = b.table
    BY DEF IsBatch
<1>3. \A o \in ToSet(b.events) : Batchable(o)' /\ EventTable(o)' = b.table
    BY <1>1, <1>2
<1> QED
    BY <1>2, <1>3 DEF IsBatch

\* The events of a batch are held, so in the log.
LEMMA BatchInLog ==
  ASSUME Base, Places, NEW b \in ToSet(batches)
  PROVE  /\ b.events \in Seq(Offsets) /\ ToSet(b.events) \subseteq DOMAIN log
         /\ \A o \in ToSet(b.events) : o \in Offsets /\ fate[o] = "held"
<1>1. batches \in Seq(Batch)
    BY TypeSplit DEF Base, TypeButFlags
<1>2. b \in Batch
    BY <1>1, ToSetFacts
<1>3. b.events \in Seq(Offsets)
    BY <1>2 DEF Batch
<1>4. \A o \in ToSet(b.events) : o \in Offsets /\ InBatches(batches, o)
    BY <1>3, ToSetFacts DEF InBatches
<1>5. \A o \in ToSet(b.events) : o \in Offsets /\ fate[o] = "held"
    BY <1>4 DEF Places
<1> QED
    BY <1>3, <1>5, HeldInLog

\* What is held is exactly what is in the four queues, and is there once.
LEMMA HeldFacts ==
  ASSUME Base, Places
  PROVE  IsInjective(Held) /\ ToSet(Held) = {o \in Offsets : fate[o] = "held"}
<1> DEFINE
      evs  == [i \in DOMAIN batches |-> batches[i].events]
      flat == FlattenSeq(evs)
<1>0. /\ TypeButFlags /\ Shape /\ Sorted(buffer)
      /\ buffer \in Seq(Offsets) /\ replay \in Seq(Offsets) /\ passThrough \in Seq(Offsets)
      /\ batches \in Seq(Batch)
    BY TypeSplit DEF Base, TypeButFlags, Buffered
<1>1. /\ DOMAIN batches = 1 .. Len(batches) /\ Len(batches) \in Nat
      /\ \A i \in DOMAIN batches :
           /\ batches[i] \in ToSet(batches) /\ batches[i].events \in Seq(Offsets)
           /\ Sorted(batches[i].events) /\ IsBatch(batches[i])
    BY <1>0, BatchInLog DEF ToSet, Places, IsBatch
<1>2. evs \in Seq(Seq(Offsets)) /\ DOMAIN evs = DOMAIN batches
    BY <1>1, IsASeq
<1>3. \A i \in DOMAIN evs : IsInjective(evs[i])
    BY <1>1, SortedInjective
<1>4. \A i, j \in DOMAIN evs : i # j => ToSet(evs[i]) \intersect ToSet(evs[j]) = {}
  <2> SUFFICES ASSUME NEW i \in DOMAIN batches, NEW j \in DOMAIN batches, i # j,
                      NEW o \in ToSet(batches[i].events), o \in ToSet(batches[j].events)
               PROVE  FALSE
      OBVIOUS
  <2>1. batches[i].table # batches[j].table
      BY DEF Places, OneBatchPerTable
  <2> QED
      BY <2>1, <1>1 DEF IsBatch
<1>5. /\ flat \in Seq(Offsets) /\ IsInjective(flat)
      /\ ToSet(flat) = UNION {ToSet(evs[i]) : i \in DOMAIN evs}
  <2> HIDE DEF evs
  <2> QED
      BY <1>2, <1>3, <1>4, FlattenProperties
<1>6. \A o : o \in ToSet(flat) <=> InBatches(batches, o)
  <2>1. \A o : o \in ToSet(flat) <=> \E i \in DOMAIN batches : o \in ToSet(batches[i].events)
      BY <1>5
  <2> QED
      BY <2>1 DEF InBatches, ToSet
<1>7. Held = ((buffer \o replay) \o passThrough) \o flat
    BY DEF Held
<1> HIDE DEF evs, flat
<1>8. /\ IsInjective(buffer) /\ IsInjective(replay) /\ IsInjective(passThrough)
      /\ \A o \in Offsets :
         /\ ~ (o \in ToSet(replay) /\ o \in ToSet(passThrough))
         /\ o \in ToSet(flat) => o \notin ToSet(replay) /\ o \notin ToSet(passThrough)
    BY <1>0, <1>6, SortedInjective DEF Places
<1>9. /\ ToSet(buffer) \subseteq Offsets /\ ToSet(replay) \subseteq Offsets
      /\ ToSet(passThrough) \subseteq Offsets /\ ToSet(flat) \subseteq Offsets
    BY <1>0, <1>5, ToSetFacts
<1>10. \/ ToSet(buffer) = {}
       \/ ToSet(replay) = {} /\ ToSet(passThrough) = {} /\ ToSet(flat) = {}
  <2>1. CASE buffer = <<>>
      BY <2>1, <1>0, ToSetFacts
  <2>2. CASE buffer # <<>>
    <3>1. batches = <<>> /\ replay = <<>> /\ passThrough = <<>>
        BY <1>0, <2>2 DEF Shape, TypeButFlags, Running
    <3>2. ToSet(batches) = {} /\ ToSet(replay) = {} /\ ToSet(passThrough) = {}
        BY <3>1, <1>0, ToSetFacts
    <3>3. ToSet(flat) = {}
        BY <3>2, <1>6 DEF InBatches
    <3> QED
        BY <3>2, <3>3
  <2> QED
      BY <2>1, <2>2
<1> DEFINE
      br  == buffer \o replay
      brp == br \o passThrough
<1>11. /\ br \in Seq(Offsets) /\ IsInjective(br)
       /\ ToSet(br) = ToSet(buffer) \union ToSet(replay)
    BY <1>0, <1>8, <1>10, ToSetConcat, InjectiveConcat, ConcatAt
<1>12. /\ brp \in Seq(Offsets) /\ IsInjective(brp)
       /\ ToSet(brp) = ToSet(br) \union ToSet(passThrough)
  <2> HIDE DEF br
  <2> QED
      BY <1>0, <1>8, <1>9, <1>10, <1>11, ToSetConcat, InjectiveConcat, ConcatAt
<1>13. Held = brp \o flat
    BY <1>7
<1> HIDE DEF br, brp
<1>14. IsInjective(Held) /\ ToSet(Held) = ToSet(brp) \union ToSet(flat)
  <2>1. ASSUME NEW o, o \in ToSet(brp), o \in ToSet(flat) PROVE FALSE
    <3>1. o \in Offsets /\ o \notin ToSet(replay) /\ o \notin ToSet(passThrough)
        BY <2>1, <1>8, <1>9
    <3>2. o \in ToSet(buffer) \/ o \in ToSet(replay) \/ o \in ToSet(passThrough)
        BY <2>1, <1>11, <1>12, Zenon
    <3> QED
        BY <2>1, <3>1, <3>2, <1>10
  <2>2. ToSet(brp) \intersect ToSet(flat) = {}
      BY <2>1
  <2>3. brp \in Seq(Offsets) /\ flat \in Seq(Offsets) /\ IsInjective(brp) /\ IsInjective(flat)
      BY <1>5, <1>12, Zenon
  <2>4. IsInjective(brp \o flat)
      BY <2>2, <2>3, InjectiveConcat
  <2>5. ToSet(brp \o flat) = ToSet(brp) \union ToSet(flat)
      BY <2>3, ToSetConcat
  <2> QED
      BY <2>4, <2>5, <1>13, Zenon
<1>15. ToSet(Held) = {o \in Offsets : fate[o] = "held"}
    BY <1>6, <1>9, <1>11, <1>12, <1>14 DEF Places
<1> QED
    BY <1>14, <1>15

\* Places in terms of one event.
PlaceOf(o) ==
    /\ fate[o] = "held" <=> \/ o \in ToSet(buffer) \/ o \in ToSet(replay)
                            \/ o \in ToSet(passThrough) \/ InBatches(batches, o)
    /\ ~ (o \in ToSet(replay) /\ o \in ToSet(passThrough))
    /\ InBatches(batches, o) => o \notin ToSet(replay) /\ o \notin ToSet(passThrough)
    /\ fate[o] = "held" => o < position

\* The queues together, apart from the batches themselves.
LEMMA PlacesSplit ==
  Places <=> /\ \A b \in ToSet(batches) : IsBatch(b)
             /\ OneBatchPerTable(batches)
             /\ Sorted(replay)
             /\ IsInjective(passThrough)
             /\ \A o \in Offsets : PlaceOf(o)
  BY DEF Places, PlaceOf

\* Nothing is held before the first event.
LEMMA PlacesInit == Init => Places
<1> SUFFICES ASSUME Init PROVE Places
    OBVIOUS
<1> DEFINE e == <<>>
<1>1. /\ buffer = e /\ replay = e /\ passThrough = e /\ batches = e
      /\ \A o \in Offsets : fate[o] = "unseen"
    BY DEF Init
<1>2. ToSet(e) = {} /\ DOMAIN e = {}
    BY DEF ToSet
<1> HIDE DEF e
<1> QED
    BY <1>1, <1>2 DEF Places, Sorted, IsInjective, OneBatchPerTable, InBatches

\* Every step keeps every held event in one place.
LEMMA PlacesNext == Base /\ Places /\ [Next]_vars => Places'
<1> SUFFICES ASSUME Base, Places, [Next]_vars PROVE Places'
    OBVIOUS
<1> DEFINE e == <<>>
<1>0. /\ TypeButFlags /\ Shape /\ Buffered
      /\ log \in Seq(Event) /\ buffer \in Seq(Offsets) /\ replay \in Seq(Offsets)
      /\ passThrough \in Seq(Offsets) /\ batches \in Seq(Batch)
      /\ fate \in [Offsets -> Fates] /\ position \in Nat
      /\ Offsets \subseteq Nat
    BY TypeSplit DEF Base, TypeButFlags, Offsets
<1>e. ToSet(e) = {} /\ DOMAIN e = {} /\ e = <<>>
    BY DEF ToSet
<1> HIDE DEF e
<1>p. \A o \in Offsets : PlaceOf(o)
    BY PlacesSplit
<1>b. ASSUME NEW b \in ToSet(batches) PROVE IsBatch(b)'
    BY BatchKept, BatchInLog DEF Places
\* Enough when the batches stay, or lose one.
<1>k. ASSUME ToSet(batches') \subseteq ToSet(batches), OneBatchPerTable(batches'),
             Sorted(replay'), IsInjective(passThrough'), \A o \in Offsets : PlaceOf(o)'
      PROVE  Places'
    BY <1>b, <1>k DEF Places, PlaceOf
<1>1. CASE Appended \/ Waited
  <2>1. UNCHANGED <<buffer, batches, replay, passThrough, fate, position>>
      BY <1>1 DEF Appended, Waited, Queues
  <2> QED
      BY <2>1, <1>k, <1>p DEF Places, PlaceOf, Sorted
<1>2. ASSUME batches' = <<>>, replay' = <<>>, passThrough' = <<>>,
             \A o \in Offsets : fate'[o] = "held" <=> o \in ToSet(buffer'),
             \A o \in Offsets : fate'[o] = "held" => o < position'
      PROVE  Places'
    BY <1>2, <1>e DEF Places, Sorted, IsInjective, OneBatchPerTable, InBatches
<1>3. CASE Emptied
  <2>1. /\ batches' = <<>> /\ replay' = <<>> /\ passThrough' = <<>> /\ buffer' = <<>>
      BY <1>3 DEF Emptied, Forget
  <2>2. ASSUME NEW o \in Offsets PROVE fate'[o] # "held"
    <3>1. fate[o] = "held" => o \in InHand
        BY HeldFacts DEF InHand
    <3>2. Mark(InHand, "lost")[o] # "held"
        BY <3>1, <1>0, MarkAt
    <3>3. Mark(InHand, "lost") \in [Offsets -> Fates]
        BY <1>0, MarkType DEF Fates
    <3> QED
        BY <3>2, <3>3, <1>3 DEF Emptied
  <2> QED
      BY <2>1, <2>2, <1>2, <1>e
<1>4. CASE Restart
  <2>1. UNCHANGED <<buffer, batches, replay, passThrough, fate>>
      BY <1>4 DEF Restart, flush
  <2>2. batches = <<>> /\ replay = <<>> /\ passThrough = <<>> /\ buffer = <<>>
      BY <1>0, <1>4 DEF Restart, Shape
  <2>3. \A o \in Offsets : fate[o] # "held"
      BY <2>2, <1>e, <1>p DEF PlaceOf, InBatches
  <2> QED
      BY <2>1, <2>2, <2>3, <1>2, <1>e
<1>5. CASE Deliver
  <2>1. batches = <<>> /\ replay = <<>> /\ passThrough = <<>>
      BY <1>0, <1>5 DEF Deliver, Shape
  <2>2. UNCHANGED <<batches, replay, passThrough>> /\ position' = position + 1
        /\ position \in Offsets
      BY <1>0, <1>5 DEF Deliver, TypeButFlags, Offsets
  <2>3. \A o \in Offsets : /\ fate[o] = "held" <=> o \in ToSet(buffer)
                           /\ fate[o] = "held" => o < position
      BY <2>1, <1>e, <1>p DEF PlaceOf, InBatches
  <2>4. CASE fate' = [fate EXCEPT ![position] = "skipped"] /\ UNCHANGED buffer
    <3>1. \A o \in Offsets : fate'[o] = "held" <=> fate[o] = "held" /\ o # position
        BY <1>0, <2>4
    <3>2. position \notin ToSet(buffer)
        BY <1>0 DEF Buffered
    <3> QED
        BY <1>0, <1>2, <2>1, <2>2, <2>3, <2>4, <3>1, <3>2
  <2>5. CASE fate' = [fate EXCEPT ![position] = "held"] /\ buffer' = Append(buffer, position)
    <3>1. \A o \in Offsets : fate'[o] = "held" <=> fate[o] = "held" \/ o = position
        BY <1>0, <2>5
    <3>2. ToSet(buffer') = ToSet(buffer) \union {position}
        BY <1>0, <2>2, <2>5, ToSetAppend
    <3> QED
        BY <1>0, <1>2, <2>1, <2>2, <2>3, <3>1, <3>2
  <2> QED
      BY <1>5, <2>4, <2>5 DEF Deliver
<1>6. CASE SortBuffer
  <2>1. /\ batches' = BatchesOf(buffer) /\ passThrough' = Bypassing(buffer)
        /\ UNCHANGED <<log, fate, position, replay>> /\ buffer' = <<>>
      BY <1>6 DEF SortBuffer, broker, client
  <2>2. batches = <<>> /\ replay = <<>> /\ passThrough = <<>>
      BY <1>0, <1>6 DEF SortBuffer, Shape
  <2>3. \A o \in Offsets : fate[o] = "held" <=> o \in ToSet(buffer)
      BY <2>2, <1>e, <1>p DEF PlaceOf, InBatches
  <2>4. Sorted(buffer) /\ ToSet(buffer) \subseteq DOMAIN log
    <3>1. ToSet(buffer) \subseteq Offsets
        BY <1>0, ToSetFacts
    <3> QED
        BY <3>1, <2>3, <1>0, HeldInLog DEF Buffered
  <2>5. /\ OneBatchPerTable(batches')
        /\ \A b \in ToSet(batches') : IsBatch(b)
        /\ \A o \in Offsets : InBatches(batches', o) <=> o \in ToSet(buffer) /\ Batchable(o)
      BY <1>0, <2>1, <2>4, BatchesOfFacts
  <2>6. /\ passThrough' \in Seq(Offsets) /\ IsInjective(passThrough')
        /\ \A o : o \in ToSet(passThrough') <=> o \in ToSet(buffer) /\ ~Batchable(o)
      BY <1>0, <2>1, <2>4, PickProperties, PickInjective, SortedInjective DEF Bypassing
  <2>7. \A b \in ToSet(batches') : IsBatch(b)'
      BY <2>1, <2>5 DEF IsBatch, Batchable, EventTable, Sorted
  <2>8. ASSUME NEW o \in Offsets PROVE PlaceOf(o)'
    <3>1. o \notin ToSet(buffer') /\ o \notin ToSet(replay')
        BY <2>1, <2>2, <1>e
    <3> QED
        BY <3>1, <2>1, <2>3, <2>5, <2>6, <1>p DEF PlaceOf
  <2>9. Sorted(replay')
      BY <2>1, <2>2, <1>e DEF Sorted
  <2> QED
      BY <2>5, <2>6, <2>7, <2>8, <2>9 DEF Places, PlaceOf
<1>7. ASSUME batches # <<>>
      PROVE  /\ IsBatch(Current) /\ Current \in ToSet(batches)
             /\ Current.events \in Seq(Offsets) /\ Sorted(Current.events)
             /\ ToSet(Tail(batches)) \subseteq ToSet(batches)
             /\ OneBatchPerTable(Tail(batches))
             /\ \A o : o \in ToSet(Current.events) => InBatches(batches, o)
             /\ \A o : InBatches(Tail(batches), o) <=>
                         InBatches(batches, o) /\ o \notin ToSet(Current.events)
  <2>1. /\ IsBatch(Current) /\ Current \in ToSet(batches)
        /\ ToSet(Tail(batches)) \subseteq ToSet(batches)
        /\ OneBatchPerTable(Tail(batches))
        /\ \A o : o \in ToSet(Current.events) => InBatches(batches, o)
        /\ \A o : InBatches(Tail(batches), o) <=>
                    InBatches(batches, o) /\ o \notin ToSet(Current.events)
      BY <1>0, <1>7, TailBatches DEF Places
  <2> QED
      BY <2>1, <1>0, <1>7, CurrentType DEF IsBatch
<1>8. CASE BatchWritten
  <2>1. /\ batches # <<>> /\ batches' = Tail(batches)
        /\ UNCHANGED <<buffer, replay, passThrough, position>>
        /\ \A o \in Offsets : fate'[o] = "held" <=>
                                fate[o] = "held" /\ o \notin ToSet(Current.events)
        /\ buffer = <<>> /\ replay = <<>>
    <3>1. \A o \in Offsets : fate'[o] = IF o \in ToSet(Current.events) THEN "applied" ELSE fate[o]
        BY <1>0, <1>8, MarkAt DEF BatchWritten
    <3> QED
        BY <3>1, <1>8 DEF BatchWritten
  <2>2. ASSUME NEW o \in Offsets PROVE PlaceOf(o)'
    <3>1. o \notin ToSet(buffer') /\ o \notin ToSet(replay')
        BY <2>1, <1>e
    <3>2. PlaceOf(o)
        BY <1>p
    <3> QED
        BY <3>1, <3>2, <2>1, <1>7 DEF PlaceOf
  <2> QED
      BY <2>1, <2>2, <1>7, <1>k DEF Places, Sorted
<1>9. CASE BatchPassed
  <2>1. /\ batches # <<>> /\ batches' = Tail(batches)
        /\ UNCHANGED <<buffer, replay, fate, position>>
        /\ passThrough' = passThrough \o Current.events
        /\ buffer = <<>> /\ replay = <<>>
      BY <1>9 DEF BatchPassed
  <2>2. ToSet(passThrough') = ToSet(passThrough) \union ToSet(Current.events)
      BY <1>0, <1>7, <2>1, ToSetConcat
  <2>3. IsInjective(passThrough')
    <3>1. ToSet(passThrough) \intersect ToSet(Current.events) = {}
        BY <1>0, <1>7, <1>p, <2>1, ToSetFacts DEF PlaceOf
    <3> QED
        BY <3>1, <1>0, <1>7, <2>1, SortedInjective, InjectiveConcat DEF Places
  <2>4. ASSUME NEW o \in Offsets PROVE PlaceOf(o)'
    <3>1. o \notin ToSet(buffer') /\ o \notin ToSet(replay')
        BY <2>1, <1>e
    <3>2. PlaceOf(o)
        BY <1>p
    <3> QED
        BY <3>1, <3>2, <2>1, <2>2, <1>7 DEF PlaceOf
  <2> QED
      BY <2>1, <2>3, <2>4, <1>7, <1>k DEF Places, Sorted
<1>10. CASE BatchReplayed
  <2>1. /\ batches # <<>> /\ batches' = Tail(batches)
        /\ UNCHANGED <<buffer, passThrough, fate, position>>
        /\ replay' = Current.events /\ buffer = <<>> /\ replay = <<>>
      BY <1>10 DEF BatchReplayed
  <2>2. Sorted(replay')
      BY <1>7, <2>1 DEF Sorted
  <2>4. ASSUME NEW o \in Offsets PROVE PlaceOf(o)'
    <3>1. o \notin ToSet(buffer') /\ o \notin ToSet(replay)
        BY <2>1, <1>e
    <3>2. PlaceOf(o)
        BY <1>p
    <3> QED
        BY <3>1, <3>2, <2>1, <1>7 DEF PlaceOf
  <2> QED
      BY <2>1, <2>2, <2>4, <1>7, <1>k DEF Places
<1>11. CASE ReplaySettled
  <2>1. /\ replay # <<>> /\ replay' = Tail(replay) /\ buffer = <<>>
        /\ UNCHANGED <<buffer, batches, passThrough, position>>
        /\ \A o \in Offsets : fate'[o] = "held" <=> fate[o] = "held" /\ o # Head(replay)
    <3>1. PICK f \in {"applied", "dlq", "dropped"} : fate' = Mark({Head(replay)}, f)
        BY <1>11 DEF ReplaySettled
    <3>2. \A o \in Offsets : fate'[o] = IF o \in {Head(replay)} THEN f ELSE fate[o]
        BY <3>1, <1>0, MarkAt
    <3> QED
        BY <3>2, <1>11 DEF ReplaySettled
  <2>2. /\ Sorted(Tail(replay)) /\ Head(replay) \in Offsets
        /\ ToSet(replay) = {Head(replay)} \union ToSet(Tail(replay))
        /\ Head(replay) \notin ToSet(Tail(replay))
      BY <1>0, <2>1, TailSorted, TailInjective, SortedInjective, ToSetFacts DEF Places
  <2>3. ASSUME NEW o \in Offsets PROVE PlaceOf(o)'
    <3>1. o \notin ToSet(buffer) /\ PlaceOf(o) /\ PlaceOf(Head(replay))
        BY <2>1, <2>2, <1>e, <1>p
    <3> QED
        BY <3>1, <2>1, <2>2 DEF PlaceOf
  <2> QED
      BY <2>1, <2>2, <2>3, <1>k DEF Places
<1>12. CASE PassSettled
  <2>1. /\ passThrough # <<>> /\ passThrough' = Tail(passThrough) /\ buffer = <<>>
        /\ UNCHANGED <<buffer, batches, replay, position>>
        /\ \A o \in Offsets : fate'[o] = "held" <=> fate[o] = "held" /\ o # Head(passThrough)
    <3>1. PICK f \in {"applied", "skipped", "dropped"} : fate' = Mark({Head(passThrough)}, f)
        BY <1>12 DEF PassSettled
    <3>2. \A o \in Offsets : fate'[o] = IF o \in {Head(passThrough)} THEN f ELSE fate[o]
        BY <3>1, <1>0, MarkAt
    <3> QED
        BY <3>2, <1>12 DEF PassSettled
  <2>2. /\ IsInjective(Tail(passThrough)) /\ Head(passThrough) \in Offsets
        /\ ToSet(passThrough) = {Head(passThrough)} \union ToSet(Tail(passThrough))
        /\ Head(passThrough) \notin ToSet(Tail(passThrough))
      BY <1>0, <2>1, TailInjective, ToSetFacts DEF Places
  <2>3. ASSUME NEW o \in Offsets PROVE PlaceOf(o)'
    <3>1. o \notin ToSet(buffer) /\ PlaceOf(o) /\ PlaceOf(Head(passThrough))
        BY <2>1, <2>2, <1>e, <1>p
    <3> QED
        BY <3>1, <2>1, <2>2 DEF PlaceOf
  <2> QED
      BY <2>1, <2>2, <2>3, <1>k DEF Places, Sorted
<1> QED
    BY <1>1, <1>3, <1>4, <1>5, <1>6, <1>8, <1>9, <1>10, <1>11, <1>12, StepEffect

\* Every event is settled, not yet delivered, or in exactly one place of a
\* flush: no hand-over between its stages loses or duplicates one.
THEOREM InOnePlaceCorrect == Spec => []InOnePlace
<1>1. Init => Base /\ Places
    BY BaseInit, PlacesInit
<1>2. Base /\ Places /\ [Next]_vars => (Base /\ Places)'
    BY BaseNext, PlacesNext
<1>3. Base /\ Places => InOnePlace
    BY HeldFacts DEF InOnePlace
<1> QED
    BY <1>1, <1>2, <1>3, PTL DEF Spec

-----------------------------------------------------------------------------
\* At most one buffer per process is at risk

InFlush == {o \in Offsets : fate[o] = "held"}
Gone    == {o \in Offsets : fate[o] \in {"lost", "rejected"}}

\* A process holds at most one buffer, and every process that has ended has
\* taken at most one with it.
Bounded ==
    /\ incarnation \in Nat \ {0}
    /\ Cardinality(InFlush) <= BatchSize
    /\ pc \in Running => Cardinality(Gone) <= BatchSize * (incarnation - 1)
    /\ pc \in Ended   => Cardinality(Gone) <= BatchSize * incarnation

\* One more process may lose one more buffer.
LEMMA OneMore ==
  ASSUME NEW n \in Nat \ {0}
  PROVE  /\ BatchSize * (n - 1) + BatchSize = BatchSize * n
         /\ BatchSize * (n - 1) \in Nat /\ BatchSize * n \in Nat
         /\ BatchSize * (n - 1) <= BatchSize * n
<1>1. n - 1 \in Nat
    OBVIOUS
<1>2. \A m \in Nat : BatchSize * m + BatchSize = BatchSize * (m + 1) /\ BatchSize * m \in Nat
    OBVIOUS
<1>3. BatchSize * (n - 1) + BatchSize = BatchSize * ((n - 1) + 1)
    BY <1>1, <1>2
<1>4. (n - 1) + 1 = n
    OBVIOUS
<1>5. BatchSize * (n - 1) \in Nat /\ BatchSize * n \in Nat
    BY <1>1, <1>2
<1>6. \A a, b \in Nat : a + BatchSize = b => a <= b
    OBVIOUS
<1> QED
    BY <1>3, <1>4, <1>5, <1>6

\* Sets of offsets are finite.
LEMMA OffsetSets ==
  ASSUME NEW S \in SUBSET Offsets
  PROVE  IsFiniteSet(S) /\ Cardinality(S) \in Nat
<1>1. IsFiniteSet(Offsets)
    BY FS_Interval DEF Offsets
<1> QED
    BY <1>1, FS_Subset, FS_CardinalityType

\* A process ends once, and only a restart starts another.
LEMMA ProcessStep ==
  ASSUME Base, [Next]_vars
  PROVE  Restart \/ /\ UNCHANGED incarnation
                    /\ \/ UNCHANGED pc
                       \/ pc \in Running /\ pc' \in Running \union Ended
<1>1. pc \in Running \union Ended /\ pc' \in Running \union Ended
    BY TypeNext, TypeSplit DEF Base, TypeOK
<1>2. CASE UNCHANGED vars \/ Produce \/ OffsetCommit
    BY <1>2 DEF vars, Produce, OffsetCommit, run
<1>3. CASE Kill \/ SortFails
    BY <1>1, <1>3 DEF Kill, SortFails, Leave, run, Running
<1>4. CASE \/ Deliver \/ IdleFlush \/ SortBuffer \/ UpsertInstead \/ Copy \/ CommitCopy
           \/ CopyFails \/ FallbackUpsert \/ Replay \/ DeadLetter \/ PassThrough
           \/ FlushDone \/ LeaveLoop
  <2>1. pc \in Running
      BY <1>4
      DEF Deliver, IdleFlush, SortBuffer, UpsertInstead, Copy, CommitCopy, CopyFails,
          FallbackUpsert, Replay, DeadLetter, PassThrough, FlushDone, LeaveLoop, Running
  <2>2. UNCHANGED incarnation
      BY <1>4
      DEF Deliver, IdleFlush, SortBuffer, UpsertInstead, Copy, CommitCopy, CopyFails,
          FallbackUpsert, Replay, DeadLetter, PassThrough, FlushDone, LeaveLoop, run
  <2> QED
      BY <1>1, <2>1, <2>2
<1> QED
    BY <1>2, <1>3, <1>4 DEF Next, Consume, Environment

\* Nothing is held or gone before the first event.
LEMMA BoundedInit == Init => Bounded
<1> SUFFICES ASSUME Init PROVE Bounded
    OBVIOUS
<1>1. InFlush = {} /\ Gone = {} /\ incarnation = 1 /\ pc = "poll"
    BY DEF Init, InFlush, Gone
<1>2. Cardinality({}) = 0
    BY FS_EmptySet
<1>3. 0 <= BatchSize /\ 0 <= BatchSize * (1 - 1)
    OBVIOUS
<1>4. "poll" \notin Ended
    BY DEF Ended
<1> QED
    BY <1>1, <1>2, <1>3, <1>4 DEF Bounded

\* In the loop the held events are the buffered ones.
LEMMA HeldInLoop ==
  ASSUME Base, Places, pc = "poll"
  PROVE  Cardinality(InFlush) < BatchSize
<1>1. /\ TypeButFlags /\ buffer \in Seq(Offsets) /\ Len(buffer) < BatchSize
      /\ batches = <<>> /\ replay = <<>> /\ passThrough = <<>>
      /\ batches \in Seq(Batch) /\ replay \in Seq(Offsets) /\ passThrough \in Seq(Offsets)
    BY TypeSplit DEF Base, TypeButFlags, Shape
<1>2. ToSet(batches) = {} /\ ToSet(replay) = {} /\ ToSet(passThrough) = {}
    BY <1>1, ToSetFacts
<1>3. InFlush \subseteq ToSet(buffer)
    BY <1>2 DEF InFlush, Places, InBatches
<1>4. /\ IsFiniteSet(ToSet(buffer)) /\ Cardinality(ToSet(buffer)) \in Nat
      /\ Cardinality(ToSet(buffer)) <= Len(buffer) /\ Len(buffer) \in Nat
    BY <1>1, ToSetFacts, CardToSet
<1>5. Cardinality(InFlush) <= Cardinality(ToSet(buffer)) /\ Cardinality(InFlush) \in Nat
    BY <1>3, <1>4, CardSub
<1> QED
    BY <1>1, <1>4, <1>5

\* Where nothing is handed over, nothing is held; a process that has ended
\* holds nothing.
LEMMA EndedHoldsNothing ==
  ASSUME Base, Places, pc \in Ended
  PROVE  InFlush = {}
<1>1. /\ batches = <<>> /\ replay = <<>> /\ passThrough = <<>> /\ buffer = <<>>
      /\ batches \in Seq(Batch) /\ replay \in Seq(Offsets) /\ passThrough \in Seq(Offsets)
      /\ buffer \in Seq(Offsets)
    BY TypeSplit DEF Base, TypeButFlags, Shape
<1>2. /\ ToSet(batches) = {} /\ ToSet(replay) = {} /\ ToSet(passThrough) = {}
      /\ ToSet(buffer) = {}
    BY <1>1, ToSetFacts
<1> QED
    BY <1>2 DEF InFlush, Places, InBatches

\* What a step does to the held events and to those that are gone.
LEMMA RiskStep ==
  ASSUME Base, Places, [Next]_vars
  PROVE  \/ InFlush' \subseteq InFlush /\ Gone' \subseteq Gone
         \/ /\ pc = "poll" /\ \E o \in Offsets : InFlush' \subseteq InFlush \union {o}
            /\ Gone' \subseteq Gone
         \/ pc \in Running /\ pc' \in Ended /\ Gone' \subseteq Gone \union InFlush
<1>0. fate \in [Offsets -> Fates] /\ position \in Nat \ {0}
    BY TypeSplit DEF Base, TypeButFlags
<1>1. ASSUME NEW S, NEW f, f \notin {"held", "lost", "rejected"}, fate' = Mark(S, f)
      PROVE  InFlush' \subseteq InFlush /\ Gone' \subseteq Gone
  <2>1. \A o \in Offsets : fate'[o] = IF o \in S THEN f ELSE fate[o]
      BY <1>0, <1>1, MarkAt
  <2> QED
      BY <1>1, <2>1 DEF InFlush, Gone
<1>2. CASE UNCHANGED fate
    BY <1>2 DEF InFlush, Gone
<1>3. CASE BatchWritten
    BY <1>1, <1>3 DEF BatchWritten
<1>4. CASE ReplaySettled
  <2>1. PICK f \in {"applied", "dlq", "dropped"} : fate' = Mark({Head(replay)}, f)
      BY <1>4 DEF ReplaySettled
  <2> QED
      BY <1>1, <2>1
<1>5. CASE PassSettled
  <2>1. PICK f \in {"applied", "skipped", "dropped"} : fate' = Mark({Head(passThrough)}, f)
      BY <1>5 DEF PassSettled
  <2> QED
      BY <1>1, <2>1
<1>6. CASE Emptied
  <2>1. pc \in Running /\ pc' \in Ended
      BY <1>6 DEF Emptied, Forget
  <2>2. \A o \in Offsets : Mark(InHand, "lost")[o] = IF o \in InHand THEN "lost" ELSE fate[o]
      BY <1>0, MarkAt
  <2>3. InHand = InFlush
      BY HeldFacts DEF InHand, InFlush
  <2>4. CASE fate' = Mark(InHand, "lost")
      BY <2>1, <2>2, <2>3, <2>4 DEF Gone
  <2>5. CASE /\ replay # <<>>
             /\ fate' = [Mark(InHand, "lost") EXCEPT ![Head(replay)] = "rejected"]
    <3>1. Mark(InHand, "lost") \in [Offsets -> Fates]
        BY <1>0, MarkType DEF Fates
    <3>2. replay \in Seq(Offsets)
        BY TypeSplit DEF Base, TypeButFlags
    <3>3. Head(replay) \in Offsets /\ Head(replay) \in ToSet(replay)
        BY <2>5, <3>2, ToSetFacts
    <3>4. Head(replay) \in InFlush
        BY <3>3 DEF InFlush, Places
    <3>5. \A o \in Offsets : fate'[o] = IF o = Head(replay) THEN "rejected"
                                        ELSE Mark(InHand, "lost")[o]
        BY <2>5, <3>1
    <3>6. Gone' \subseteq Gone \union InFlush
        BY <2>2, <2>3, <3>4, <3>5 DEF Gone
    <3> QED
        BY <2>1, <3>6
  <2> QED
      BY <1>6, <2>4, <2>5 DEF Emptied
<1>7. CASE Deliver
  <2>1. /\ pc = "poll"
        /\ \/ fate' = [fate EXCEPT ![position] = "skipped"]
           \/ fate' = [fate EXCEPT ![position] = "held"]
      BY <1>7 DEF Deliver
  <2>2. position \in Offsets
      BY <1>0, <1>7, TypeSplit DEF Base, TypeButFlags, Deliver, Offsets
  <2>3. \A o \in Offsets : o # position => fate'[o] = fate[o]
      BY <1>0, <2>1
  <2>4. fate'[position] \in {"skipped", "held"}
      BY <1>0, <2>1, <2>2
  <2>5. InFlush' \subseteq InFlush \union {position} /\ Gone' \subseteq Gone
      BY <2>3, <2>4 DEF InFlush, Gone
  <2> QED
      BY <2>1, <2>2, <2>5
<1> QED
    BY <1>2, <1>3, <1>4, <1>5, <1>6, <1>7, StepEffect
    DEF Appended, Waited, Restart, SortBuffer, BatchPassed, BatchReplayed

\* No step puts more than one buffer at risk.
LEMMA BoundedNext == Base /\ Places /\ Bounded /\ [Next]_vars => Bounded'
<1> SUFFICES ASSUME Base, Places, Bounded, [Next]_vars PROVE Bounded'
    OBVIOUS
<1> DEFINE
      h  == Cardinality(InFlush)
      h2 == Cardinality(InFlush')
      g  == Cardinality(Gone)
      g2 == Cardinality(Gone')
<1>0. /\ incarnation \in Nat \ {0} /\ h <= BatchSize
      /\ pc \in Running => g <= BatchSize * (incarnation - 1)
      /\ pc \in Ended   => g <= BatchSize * incarnation
    BY DEF Bounded
<1>1. /\ InFlush \in SUBSET Offsets /\ InFlush' \in SUBSET Offsets
      /\ Gone \in SUBSET Offsets /\ Gone' \in SUBSET Offsets
    BY DEF InFlush, Gone
<1>2. /\ h \in Nat /\ h2 \in Nat /\ g \in Nat /\ g2 \in Nat
      /\ IsFiniteSet(InFlush) /\ IsFiniteSet(Gone)
    BY <1>1, OffsetSets
<1>3. pc \in Running \union Ended /\ pc' \in Running \union Ended
    BY TypeNext, TypeSplit DEF Base, TypeOK
<1>4. InFlush' \subseteq InFlush => h2 <= h
    BY <1>2, CardSub
<1>5. Gone' \subseteq Gone => g2 <= g
    BY <1>2, CardSub
<1>6. \A o : InFlush' \subseteq InFlush \union {o} => h2 <= h + 1
    BY <1>2, CardAdd
<1>7. Gone' \subseteq Gone \union InFlush => g2 <= g + h
  <2>1. /\ IsFiniteSet(Gone \union InFlush)
        /\ Cardinality(Gone \union InFlush) =
             Cardinality(Gone) + Cardinality(InFlush) - Cardinality(Gone \intersect InFlush)
      BY <1>2, FS_Union
  <2>2. Cardinality(Gone \intersect InFlush) \in Nat
      BY <1>1, OffsetSets
  <2>3. Cardinality(Gone \union InFlush) <= g + h
      BY <1>2, <2>1, <2>2
  <2>4. Gone' \subseteq Gone \union InFlush =>
          g2 <= Cardinality(Gone \union InFlush) /\ Cardinality(Gone \union InFlush) \in Nat
      BY <2>1, CardSub
  <2> QED
      BY <1>2, <2>3, <2>4
<1>8. pc = "poll" => h < BatchSize
    BY HeldInLoop DEF InFlush
<1>9. pc' \in Ended => InFlush' = {}
  <2>1. Base' /\ Places'
      BY BaseNext, PlacesNext
  <2>2. pc' \in Ended => \A o \in Offsets : fate'[o] # "held"
    <3> SUFFICES ASSUME pc' \in Ended PROVE \A o \in Offsets : fate'[o] # "held"
        OBVIOUS
    <3>1. /\ batches' = <<>> /\ replay' = <<>> /\ passThrough' = <<>> /\ buffer' = <<>>
        BY <2>1 DEF Base, Shape
    <3>2. ToSet(<<>>) = {}
        BY DEF ToSet
    <3> QED
        BY <2>1, <3>1, <3>2 DEF Places, InBatches
  <2> QED
      BY <2>2 DEF InFlush
<1>10. h2 <= BatchSize
  <2>1. CASE InFlush' \subseteq InFlush
      BY <2>1, <1>0, <1>2, <1>4
  <2>2. CASE pc = "poll" /\ \E o \in Offsets : InFlush' \subseteq InFlush \union {o}
    <3>1. h2 <= h + 1 /\ h < BatchSize
        BY <2>2, <1>6, <1>8
    <3> QED
        BY <3>1, <1>2
  <2>3. CASE pc' \in Ended
    <3>1. h2 = 0
        BY <2>3, <1>9, FS_EmptySet
    <3> QED
        BY <3>1
  <2> QED
      BY <2>1, <2>2, <2>3, RiskStep
<1>11. /\ BatchSize * (incarnation - 1) + BatchSize = BatchSize * incarnation
       /\ BatchSize * (incarnation - 1) \in Nat /\ BatchSize * incarnation \in Nat
       /\ BatchSize * (incarnation - 1) <= BatchSize * incarnation
    BY <1>0, OneMore
<1>12. g2 <= g \/ (pc \in Running /\ pc' \in Ended /\ g2 <= g + h)
    BY RiskStep, <1>5, <1>7
<1>13. Running \intersect Ended = {}
    BY DEF Running, Ended
<1> HIDE DEF h, h2, g, g2
<1>14. CASE Restart
  <2>1. pc \in Ended /\ pc' \in Running /\ incarnation' = incarnation + 1
      BY <1>14 DEF Restart, Running
  <2>2. g2 <= g
      BY <2>1, <1>12, <1>13
  <2>3. g2 <= BatchSize * incarnation
      BY <2>1, <2>2, <1>0, <1>2, <1>11
  <2>4. incarnation' - 1 = incarnation /\ incarnation' \in Nat \ {0}
      BY <2>1, <1>0
  <2> QED
      BY <2>1, <2>3, <2>4, <1>10, <1>13 DEF Bounded, g2, h2
<1>15. CASE /\ UNCHANGED incarnation
            /\ \/ UNCHANGED pc
               \/ pc \in Running /\ pc' \in Running \union Ended
  <2>1. pc' \in Running => g2 <= BatchSize * (incarnation - 1)
    <3> SUFFICES ASSUME pc' \in Running PROVE g2 <= BatchSize * (incarnation - 1)
        OBVIOUS
    <3>1. pc \in Running /\ g2 <= g
        BY <1>12, <1>13, <1>15
    <3> QED
        BY <3>1, <1>0, <1>2, <1>11
  <2>2. pc' \in Ended => g2 <= BatchSize * incarnation
    <3> SUFFICES ASSUME pc' \in Ended PROVE g2 <= BatchSize * incarnation
        OBVIOUS
    <3>1. CASE pc \in Ended
      <4>1. g2 <= g /\ g <= BatchSize * incarnation
          BY <3>1, <1>0, <1>12, <1>13
      <4> QED
          BY <4>1, <1>2, <1>11
    <3>2. CASE pc \in Running
      <4>1. g2 <= g + h /\ g <= BatchSize * (incarnation - 1)
          BY <3>2, <1>0, <1>2, <1>12
      <4> QED
          BY <4>1, <1>0, <1>2, <1>11
    <3> QED
        BY <1>3, <3>1, <3>2
  <2>3. incarnation' = incarnation
      BY <1>15
  <2>4. /\ incarnation' \in Nat \ {0}
        /\ pc' \in Running => g2 <= BatchSize * (incarnation' - 1)
        /\ pc' \in Ended   => g2 <= BatchSize * incarnation'
      BY <2>1, <2>2, <2>3, <1>0, Zenon
  <2>5. /\ Cardinality(InFlush') <= BatchSize
        /\ pc' \in Running => Cardinality(Gone') <= BatchSize * (incarnation' - 1)
        /\ pc' \in Ended   => Cardinality(Gone') <= BatchSize * incarnation'
      BY <2>4, <1>10, Zenon DEF g2, h2
  <2> QED
      BY <2>4, <2>5, Zenon DEF Bounded
<1> QED
    BY <1>14, <1>15, ProcessStep

\* Bounded bounds what a commit can pass over.
LEMMA BoundedRisk == Base /\ Places /\ Bounded => OneBufferAtRisk
<1> SUFFICES ASSUME Base, Places, Bounded PROVE OneBufferAtRisk
    OBVIOUS
<1>0. /\ TypeButFlags /\ OffsetOrder /\ pc \in Running \union Ended
      /\ fate \in [Offsets -> Fates] /\ incarnation \in Nat \ {0}
    BY TypeSplit DEF Base, TypeButFlags, Bounded
<1>1. ASSUME NEW o \in PassedOver PROVE o \in InFlush \union Gone
  <2>0. /\ committed \in Nat /\ stored \in Nat /\ position \in Nat
        /\ committed <= stored /\ stored <= position /\ committed <= MaxLog + 1
      BY <1>0 DEF TypeButFlags, OffsetOrder
  <2>1. o \in Offsets /\ o < position
    <3>1. o \in 1 .. committed - 1
        BY Zenon DEF PassedOver
    <3>2. o \in Nat /\ 1 <= o /\ o < committed
        BY <3>1, <2>0
    <3> QED
        BY <3>2, <2>0 DEF Offsets
  <2>2. fate[o] # "unseen"
    <3>1. position <= o => ~(o < position)
        BY <2>0, <2>1 DEF Offsets
    <3> QED
        BY <3>1, <1>0, <2>1, Zenon DEF OffsetOrder
  <2>3. fate[o] \in Fates /\ fate[o] \notin Settled
      BY <1>0, <2>1 DEF PassedOver
  <2> QED
      BY <2>1, <2>2, <2>3 DEF InFlush, Gone, Fates, Settled
<1>2. InFlush \in SUBSET Offsets /\ Gone \in SUBSET Offsets
    BY DEF InFlush, Gone
<1> DEFINE
      h == Cardinality(InFlush)
      g == Cardinality(Gone)
      p == Cardinality(PassedOver)
<1>3. h \in Nat /\ g \in Nat /\ IsFiniteSet(InFlush) /\ IsFiniteSet(Gone)
    BY <1>2, OffsetSets
<1>4. /\ IsFiniteSet(Gone \union InFlush)
      /\ Cardinality(Gone \union InFlush) = g + h - Cardinality(Gone \intersect InFlush)
    BY <1>3, FS_Union
<1>5. Cardinality(Gone \intersect InFlush) \in Nat
    BY <1>2, OffsetSets
<1>6. p \in Nat /\ p <= g + h
  <2>1. PassedOver \subseteq Gone \union InFlush
      BY <1>1
  <2>2. p \in Nat /\ p <= Cardinality(Gone \union InFlush) /\ Cardinality(Gone \union InFlush) \in Nat
      BY <2>1, <1>4, CardSub
  <2> QED
      BY <2>2, <1>3, <1>4, <1>5
<1>7. /\ BatchSize * (incarnation - 1) + BatchSize = BatchSize * incarnation
      /\ BatchSize * (incarnation - 1) \in Nat /\ BatchSize * incarnation \in Nat
    BY <1>0, OneMore
<1>8. h <= BatchSize /\ (pc \in Running => g <= BatchSize * (incarnation - 1))
                     /\ (pc \in Ended => g <= BatchSize * incarnation)
    BY DEF Bounded
<1>9. pc \in Ended => h = 0
    BY EndedHoldsNothing, FS_EmptySet
<1> HIDE DEF h, g, p
<1>10. p <= BatchSize * incarnation
    BY <1>0, <1>3, <1>6, <1>7, <1>8, <1>9
<1> QED
    BY <1>10 DEF OneBufferAtRisk, p

\* However often the process ends, and wherever in a flush, the group passes
\* over at most one buffer of unsettled events per process.
THEOREM OneBufferAtRiskCorrect == Spec => []OneBufferAtRisk
<1>1. Init => Base /\ Places /\ Bounded
    BY BaseInit, PlacesInit, BoundedInit
<1>2. Base /\ Places /\ Bounded /\ [Next]_vars => (Base /\ Places /\ Bounded)'
    BY BaseNext, PlacesNext, BoundedNext
<1> QED
    BY <1>1, <1>2, BoundedRisk, PTL DEF Spec

-----------------------------------------------------------------------------
\* Which events overtake which

\* Two events take the same way through a flush: the batch of one table, or
\* the pass-through queue.
SamePath(a, b) == EventTable(a) = EventTable(b) /\ (Batchable(a) <=> Batchable(b))

\* The held events of one path are in one queue,
Together ==
    \A h \in Offsets : fate[h] = "held" =>
       /\ \A o \in ToSet(replay) : SamePath(o, h) => h \in ToSet(replay)
       /\ \A b \in ToSet(batches) : \A o \in ToSet(b.events) :
            SamePath(o, h) => h \in ToSet(b.events)

\* in offset order there (a batch and the replay are Sorted),
PassOrder ==
    \A i, j \in DOMAIN passThrough :
        i < j /\ SamePath(passThrough[i], passThrough[j])
            => passThrough[i] < passThrough[j]

\* and behind those that have been applied.
Later ==
    \A a, h \in Offsets :
        fate[a] = "applied" /\ a < position /\ fate[h] = "held" /\ SamePath(a, h)
            => a < h

Orderly == Together /\ PassOrder /\ Later

\* Nothing is out of order before the first event.
LEMMA OrderlyInit == Init => Orderly /\ OvertakenOnlyAcrossPaths
<1> SUFFICES ASSUME Init PROVE Orderly /\ OvertakenOnlyAcrossPaths
    OBVIOUS
<1> DEFINE e == <<>>
<1>1. passThrough = e /\ log = e /\ \A o \in Offsets : fate[o] = "unseen"
    BY DEF Init
<1>2. DOMAIN e = {} /\ Len(e) = 0
    OBVIOUS
<1> HIDE DEF e
<1>3. Orderly
    BY <1>1, <1>2 DEF Orderly, Together, PassOrder, Later
<1>4. 1 .. Len(log) = {}
    BY <1>1, <1>2
<1> QED
    BY <1>3, <1>4 DEF OvertakenOnlyAcrossPaths

\* No step changes the path of an event of the log.
LEMMA PathKept ==
  ASSUME Base, [Next]_vars
  PROVE  \A a, b \in DOMAIN log : SamePath(a, b)' <=> SamePath(a, b)
  BY LogKept DEF SamePath

\* Only a delivery adds to the held events.
LEMMA HeldStep ==
  ASSUME Base, Places, [Next]_vars
  PROVE  Deliver \/ \A o \in Offsets : fate'[o] = "held" => fate[o] = "held"
<1>0. fate \in [Offsets -> Fates]
    BY TypeSplit DEF Base, TypeButFlags
<1>1. ASSUME NEW S, NEW f, f # "held", fate' = Mark(S, f)
      PROVE  \A o \in Offsets : fate'[o] = "held" => fate[o] = "held"
  <2>1. \A o \in Offsets : fate'[o] = IF o \in S THEN f ELSE fate[o]
      BY <1>0, <1>1, MarkAt
  <2> QED
      BY <1>1, <2>1
<1>2. CASE BatchWritten
    BY <1>1, <1>2 DEF BatchWritten
<1>3. CASE ReplaySettled
    BY <1>1, <1>3 DEF ReplaySettled
<1>4. CASE PassSettled
    BY <1>1, <1>4 DEF PassSettled
<1>5. CASE Emptied
  <2>1. \A o \in Offsets : Mark(InHand, "lost")[o] = IF o \in InHand THEN "lost" ELSE fate[o]
      BY <1>0, MarkAt
  <2>2. Mark(InHand, "lost") \in [Offsets -> Fates]
      BY <1>0, MarkType DEF Fates
  <2> QED
      BY <1>5, <2>1, <2>2 DEF Emptied
<1> QED
    BY <1>2, <1>3, <1>4, <1>5, StepEffect
    DEF Appended, Waited, Restart, SortBuffer, BatchPassed, BatchReplayed

\* The events of one path stay together.
LEMMA TogetherNext == Base /\ Places /\ Together /\ [Next]_vars => Together'
<1> SUFFICES ASSUME Base, Places, Together, [Next]_vars PROVE Together'
    OBVIOUS
<1>0. /\ TypeButFlags /\ Shape /\ Buffered
      /\ log \in Seq(Event) /\ buffer \in Seq(Offsets) /\ replay \in Seq(Offsets)
      /\ passThrough \in Seq(Offsets) /\ batches \in Seq(Batch)
      /\ fate \in [Offsets -> Fates]
    BY TypeSplit DEF Base, TypeButFlags
<1>e. ToSet(<<>>) = {}
    BY DEF ToSet
<1>h. \A o \in Offsets : fate[o] = "held" => o \in DOMAIN log
    BY HeldInLog
<1>r. \A o \in ToSet(replay) : o \in Offsets /\ o \in DOMAIN log
    BY <1>0, <1>h, ToSetFacts DEF Places
<1>c. \A b \in ToSet(batches) : \A o \in ToSet(b.events) : o \in DOMAIN log
    BY BatchInLog
<1>1. ASSUME batches' = <<>>, replay' = <<>> PROVE Together'
    BY <1>1, <1>e DEF Together
<1>2. ASSUME \A o \in Offsets : fate'[o] = "held" => fate[o] = "held",
             ToSet(batches') \subseteq ToSet(batches),
             ToSet(replay') \subseteq ToSet(replay),
             \A h \in ToSet(replay) : fate'[h] = "held" => h \in ToSet(replay')
      PROVE  Together'
  <2> SUFFICES ASSUME NEW h \in Offsets, fate'[h] = "held"
               PROVE  /\ \A o \in ToSet(replay') : SamePath(o, h)' => h \in ToSet(replay')
                      /\ \A b \in ToSet(batches') : \A o \in ToSet(b.events) :
                           SamePath(o, h)' => h \in ToSet(b.events)
      BY DEF Together
  <2>1. fate[h] = "held" /\ h \in DOMAIN log
      BY <1>2, <1>h
  <2>2. ASSUME NEW o \in ToSet(replay'), SamePath(o, h)' PROVE h \in ToSet(replay')
    <3>1. o \in ToSet(replay) /\ SamePath(o, h)
        BY <1>2, <1>r, <2>1, <2>2, PathKept
    <3> QED
        BY <3>1, <2>1, <1>2 DEF Together
  <2>3. ASSUME NEW b \in ToSet(batches'), NEW o \in ToSet(b.events), SamePath(o, h)'
        PROVE  h \in ToSet(b.events)
    <3>1. b \in ToSet(batches) /\ SamePath(o, h)
        BY <1>2, <1>c, <2>1, <2>3, PathKept
    <3> QED
        BY <3>1, <2>1 DEF Together
  <2> QED
      BY <2>2, <2>3
<1>3. CASE Emptied
    BY <1>1, <1>3 DEF Emptied, Forget
<1>4. CASE Restart \/ Deliver
    BY <1>0, <1>1, <1>4 DEF Restart, Deliver, Shape, flush
<1>5. ASSUME ~Deliver PROVE \A o \in Offsets : fate'[o] = "held" => fate[o] = "held"
    BY <1>5, HeldStep
<1>6. CASE Appended \/ Waited
    BY <1>2, <1>6 DEF Appended, Waited, Queues
<1>7. ASSUME batches # <<>> PROVE ToSet(Tail(batches)) \subseteq ToSet(batches)
    BY <1>0, <1>7, ToSetFacts
<1>8. CASE BatchWritten \/ BatchPassed \/ PassSettled
  <2>1. UNCHANGED replay /\ ToSet(batches') \subseteq ToSet(batches)
      BY <1>7, <1>8 DEF BatchWritten, BatchPassed, PassSettled
  <2>2. CASE Deliver
      BY <1>4, <2>2
  <2> QED
      BY <1>2, <1>5, <2>1, <2>2
<1>9. CASE ReplaySettled
  <2>1. replay # <<>> /\ replay' = Tail(replay) /\ UNCHANGED batches
      BY <1>9 DEF ReplaySettled
  <2>2. ToSet(replay) = {Head(replay)} \union ToSet(replay') /\ Head(replay) \in Offsets
      BY <1>0, <2>1, ToSetFacts
  <2>3. fate'[Head(replay)] # "held"
    <3>1. PICK f \in {"applied", "dlq", "dropped"} : fate' = Mark({Head(replay)}, f)
        BY <1>9 DEF ReplaySettled
    <3>2. fate'[Head(replay)] = f
        BY <3>1, <2>2, <1>0, MarkAt
    <3> QED
        BY <3>2
  <2>4. CASE Deliver
      BY <1>4, <2>4
  <2> QED
      BY <1>2, <1>5, <2>1, <2>2, <2>3, <2>4
<1>10. CASE SortBuffer
  <2>1. /\ batches' = BatchesOf(buffer) /\ UNCHANGED <<log, fate>>
        /\ replay' = <<>> /\ batches = <<>> /\ replay = <<>> /\ passThrough = <<>>
      BY <1>0, <1>10 DEF SortBuffer, Shape, broker
  <2>2. \A o \in Offsets : fate[o] = "held" <=> o \in ToSet(buffer)
      BY <2>1, <1>e DEF Places, InBatches
  <2>3. Sorted(buffer) /\ ToSet(buffer) \subseteq DOMAIN log
    <3>1. ToSet(buffer) \subseteq Offsets
        BY <1>0, ToSetFacts
    <3> QED
        BY <3>1, <2>2, <1>0, <1>h DEF Buffered
  <2>4. /\ BatchesOf(buffer) \in Seq(Batch) /\ OneBatchPerTable(BatchesOf(buffer))
        /\ \A b \in ToSet(BatchesOf(buffer)) : IsBatch(b)
        /\ \A o \in Offsets :
             InBatches(BatchesOf(buffer), o) <=> o \in ToSet(buffer) /\ Batchable(o)
      BY <1>0, <2>3, BatchesOfFacts
  <2> DEFINE bs == BatchesOf(buffer)
  <2> HIDE DEF bs
  <2>5. ASSUME NEW h \in Offsets, fate[h] = "held", NEW b \in ToSet(bs),
               NEW o \in ToSet(b.events), SamePath(o, h)
        PROVE  h \in ToSet(b.events)
    <3>1. Batchable(h) /\ EventTable(h) = b.table
        BY <2>4, <2>5 DEF SamePath, IsBatch, bs
    <3>2. PICK c \in ToSet(bs) : h \in ToSet(c.events)
        BY <3>1, <2>2, <2>4, <2>5 DEF InBatches, bs
    <3>3. c.table = b.table
        BY <3>1, <3>2, <2>4 DEF IsBatch, bs
    <3>4. PICK i \in DOMAIN bs, j \in DOMAIN bs : b = bs[i] /\ c = bs[j]
        BY DEF ToSet
    <3>5. b = c
        BY <3>3, <3>4, <2>4 DEF OneBatchPerTable, bs
    <3> QED
        BY <3>2, <3>5
  <2>6. ASSUME NEW h \in Offsets, NEW o \in Offsets PROVE SamePath(o, h)' <=> SamePath(o, h)
      BY <2>1 DEF SamePath, EventTable, Batchable
  <2>7. \A b \in ToSet(bs) : \A o \in ToSet(b.events) : o \in Offsets
    <3>1. \A b \in ToSet(bs) : b \in Batch
        BY <2>4, ToSetFacts DEF bs
    <3>2. \A b \in ToSet(bs) : b.events \in Seq(Offsets)
        BY <3>1 DEF Batch
    <3> QED
        BY <3>2, ToSetFacts
  <2>8. \A b \in ToSet(bs) : \A o \in ToSet(b.events) : \A h \in Offsets :
          fate'[h] = "held" /\ SamePath(o, h)' => h \in ToSet(b.events)
      BY <2>1, <2>5, <2>6, <2>7
  <2>9. batches' = bs /\ ToSet(replay') = {}
      BY <2>1, <1>e DEF bs
  <2> QED
      BY <2>8, <2>9 DEF Together
<1>11. CASE BatchReplayed
  <2>1. /\ batches # <<>> /\ batches' = Tail(batches) /\ UNCHANGED fate
        /\ replay' = Current.events
      BY <1>11 DEF BatchReplayed
  <2>2. /\ Current \in ToSet(batches) /\ ToSet(batches') \subseteq ToSet(batches)
      BY <1>0, <2>1, CurrentType
  <2>3. \A o, h \in DOMAIN log : SamePath(o, h)' <=> SamePath(o, h)
      BY PathKept
  <2>4. ASSUME NEW h \in Offsets, fate'[h] = "held", NEW o \in ToSet(replay'), SamePath(o, h)'
        PROVE  h \in ToSet(replay')
    <3>1. SamePath(o, h)
        BY <2>1, <2>2, <2>3, <2>4, <1>c, <1>h
    <3> QED
        BY <3>1, <2>1, <2>2, <2>4 DEF Together
  <2>5. ASSUME NEW h \in Offsets, fate'[h] = "held", NEW b \in ToSet(batches'),
               NEW o \in ToSet(b.events), SamePath(o, h)'
        PROVE  h \in ToSet(b.events)
    <3>1. b \in ToSet(batches) /\ SamePath(o, h)
        BY <2>1, <2>2, <2>3, <2>5, <1>c, <1>h
    <3> QED
        BY <3>1, <2>1, <2>5 DEF Together
  <2> QED
      BY <2>4, <2>5 DEF Together
<1> QED
    BY <1>3, <1>4, <1>6, <1>8, <1>9, <1>10, <1>11, StepEffect

\* What is picked from an ascending sequence, and then queued behind another,
\* is in order by path.
LEMMA PassOrderNext ==
  Base /\ Places /\ Together /\ PassOrder /\ [Next]_vars => PassOrder'
<1> SUFFICES ASSUME Base, Places, Together, PassOrder, [Next]_vars PROVE PassOrder'
    OBVIOUS
<1>0. /\ TypeButFlags /\ Shape /\ Buffered
      /\ log \in Seq(Event) /\ buffer \in Seq(Offsets) /\ replay \in Seq(Offsets)
      /\ passThrough \in Seq(Offsets) /\ batches \in Seq(Batch)
    BY TypeSplit DEF Base, TypeButFlags
<1>h. \A o \in ToSet(passThrough) : o \in Offsets /\ fate[o] = "held" /\ o \in DOMAIN log
    BY <1>0, HeldInLog, ToSetFacts DEF Places
<1>i. \A i \in DOMAIN passThrough :
        /\ passThrough[i] \in ToSet(passThrough) /\ passThrough[i] \in DOMAIN log
        /\ passThrough[i] \in Offsets
    BY <1>h DEF ToSet
<1>p. \A a, b \in DOMAIN log : SamePath(a, b)' <=> SamePath(a, b)
    BY PathKept
<1>1. ASSUME passThrough' = <<>> PROVE PassOrder'
  <2>1. DOMAIN <<>> = {}
      OBVIOUS
  <2> QED
      BY <1>1, <2>1 DEF PassOrder
<1>2. CASE UNCHANGED passThrough
  <2> SUFFICES ASSUME NEW i \in DOMAIN passThrough, NEW j \in DOMAIN passThrough, i < j,
                      SamePath(passThrough[i], passThrough[j])'
               PROVE  passThrough[i] < passThrough[j]
      BY <1>2 DEF PassOrder
  <2>1. SamePath(passThrough[i], passThrough[j])
      BY <1>2, <1>i, <1>p
  <2> QED
      BY <2>1 DEF PassOrder
<1>3. CASE Emptied
    BY <1>1, <1>3 DEF Emptied, Forget
<1>4. CASE PassSettled
  <2>1. passThrough # <<>> /\ passThrough' = Tail(passThrough)
      BY <1>4 DEF PassSettled
  <2>2. \A i \in DOMAIN passThrough' :
          i \in Nat /\ i + 1 \in DOMAIN passThrough /\ passThrough'[i] = passThrough[i + 1]
      BY <1>0, <2>1
  <2> SUFFICES ASSUME NEW i \in DOMAIN passThrough', NEW j \in DOMAIN passThrough', i < j,
                      NEW a, NEW b, a = passThrough'[i], b = passThrough'[j],
                      SamePath(a, b)'
               PROVE  a < b
      BY DEF PassOrder, SamePath, EventTable, Batchable
  <2>4. SamePath(a, b)
      BY <2>2, <1>i, <1>p
  <2>5. i + 1 < j + 1 /\ i + 1 \in DOMAIN passThrough /\ j + 1 \in DOMAIN passThrough
      BY <2>2
  <2> QED
      BY <2>2, <2>4, <2>5 DEF PassOrder
<1>5. CASE SortBuffer
  <2>1. passThrough' = Bypassing(buffer)
      BY <1>5 DEF SortBuffer
  <2>2. passThrough' \in Seq(Offsets) /\ Sorted(passThrough')
      BY <1>0, <2>1, PickSorted DEF Bypassing, Buffered
  <2> QED
      BY <2>2 DEF PassOrder, Sorted
<1>6. CASE BatchPassed
  <2> DEFINE ev == Current.events
  <2>1. /\ batches # <<>> /\ passThrough' = passThrough \o ev /\ replay = <<>>
      BY <1>6 DEF BatchPassed
  <2>2. Current \in ToSet(batches) /\ IsBatch(Current)
      BY <1>0, <2>1, TailBatches DEF Places
  <2>3. /\ ev \in Seq(Offsets) /\ Sorted(ev)
        /\ \A o \in ToSet(ev) : o \in DOMAIN log /\ o \in Offsets /\ InBatches(batches, o)
      BY <2>2, BatchInLog DEF IsBatch, InBatches
  <2> HIDE DEF ev
  <2>4. \A i \in DOMAIN ev : ev[i] \in ToSet(ev) /\ ev[i] \in DOMAIN log /\ ev[i] \in Offsets
      BY <2>3 DEF ToSet
  <2> DEFINE n == Len(passThrough)
  <2>5. /\ n \in Nat /\ DOMAIN passThrough = 1 .. n
        /\ \A k \in DOMAIN passThrough' :
             \/ k \in DOMAIN passThrough /\ passThrough'[k] = passThrough[k]
             \/ \E j \in DOMAIN ev : k = j + n /\ passThrough'[k] = ev[j]
        /\ \A j \in DOMAIN ev : j \in Nat /\ j > 0
      BY <1>0, <2>1, <2>3, ConcatAt
  <2> HIDE DEF n
  <2> SUFFICES ASSUME NEW i \in DOMAIN passThrough', NEW j \in DOMAIN passThrough', i < j,
                      NEW a, NEW b, a = passThrough'[i], b = passThrough'[j],
                      SamePath(a, b)'
               PROVE  a < b
      BY DEF PassOrder, SamePath, EventTable, Batchable
  <2>6. a \in DOMAIN log /\ b \in DOMAIN log
      BY <2>4, <2>5, <1>i
  <2>7. SamePath(a, b)
      BY <2>6, <1>p
  <2>8. CASE i \in DOMAIN passThrough /\ j \in DOMAIN passThrough
    <3>1. CASE a = passThrough[i] /\ b = passThrough[j]
        BY <2>7, <2>8, <3>1 DEF PassOrder
    <3> QED
        BY <2>5, <2>8, <3>1
  <2>9. ASSUME i \in DOMAIN passThrough, a = passThrough[i], NEW q \in DOMAIN ev, b = ev[q]
        PROVE  FALSE
    <3>1. /\ passThrough[i] \in ToSet(passThrough) /\ passThrough[i] \in Offsets
          /\ fate[passThrough[i]] = "held"
        BY <2>9, <1>h, <1>i
    <3>2. SamePath(ev[q], passThrough[i])
        BY <2>7, <2>9 DEF SamePath
    <3>3. passThrough[i] \in ToSet(ev)
        BY <3>1, <3>2, <2>2, <2>4 DEF Together, ev
    <3>4. InBatches(batches, passThrough[i])
        BY <3>3, <2>3
    <3> QED
        BY <3>1, <3>4 DEF Places
  <2>10. ASSUME NEW p \in DOMAIN ev, i = p + n, a = ev[p],
                NEW q \in DOMAIN ev, j = q + n, b = ev[q]
         PROVE  a < b
    <3>1. p < q
        BY <2>5, <2>10
    <3> QED
        BY <3>1, <2>3, <2>10 DEF Sorted
  <2>11. ASSUME NEW p \in DOMAIN ev, i = p + n PROVE j \notin DOMAIN passThrough
      BY <2>5, <2>11
  <2> QED
      BY <2>5, <2>8, <2>9, <2>10, <2>11
<1>7. CASE Deliver \/ Restart
    BY <1>2, <1>7 DEF Deliver, Restart, flush
<1> QED
    BY <1>2, <1>3, <1>4, <1>5, <1>6, <1>7, StepEffect
    DEF Appended, Waited, Queues, BatchWritten, BatchReplayed, ReplaySettled

\* A write shows, for each key it touches, the last of its events.
LEMMA WroteRows ==
  ASSUME TypeButFlags, NEW s \in Seq(Offsets), ToSet(s) \subseteq DOMAIN log, Wrote(s)
  PROVE  /\ \A k \in Keys : \/ table'[k] = table[k]
                            \/ table'[k] \in ToSet(s) /\ log[table'[k]].key = k
         /\ \A o \in ToSet(s) : o <= table'[log[o].key]
<1>0. log \in Seq(Event)
    BY DEF TypeButFlags
<1>1. ASSUME NEW k \in Keys
      PROVE  LET touching == {o \in ToSet(s) : log[o].key = k} IN
             /\ table'[k] = IF touching = {} THEN table[k] ELSE Max(touching)
             /\ touching # {} => /\ Max(touching) \in touching
                                 /\ \A o \in touching : o <= Max(touching)
  <2> DEFINE touching == {o \in ToSet(s) : log[o].key = k}
  <2>1. touching \in SUBSET (0 .. MaxLog)
      BY ToSetFacts DEF Offsets
  <2>2. table'[k] = IF touching = {} THEN table[k] ELSE Max(touching)
      BY DEF Wrote, Written
  <2>3. touching # {} => Max(touching) \in touching /\ \A o \in touching : o <= Max(touching)
    <3> HIDE DEF touching
    <3> QED
        BY <2>1, MaxOfBounded
  <2> QED
      BY <2>2, <2>3
<1>2. ASSUME NEW k \in Keys
      PROVE  \/ table'[k] = table[k]
             \/ table'[k] \in ToSet(s) /\ log[table'[k]].key = k
    BY <1>1
<1>3. ASSUME NEW o \in ToSet(s) PROVE o <= table'[log[o].key]
  <2>1. log[o] \in Event
      BY <1>0
  <2>2. log[o].key \in Keys
      BY <2>1 DEF Event
  <2>3. o \in {p \in ToSet(s) : log[p].key = log[o].key}
      OBVIOUS
  <2> QED
      BY <1>1, <2>2, <2>3
<1> QED
    BY <1>2, <1>3

\* The rows of a step: S are events it has written or may have, each of them
\* held before.
RowsMove(S) ==
    /\ \A o \in Offsets : fate'[o] = "applied" =>
         fate[o] = "applied" \/ (o \in S /\ o <= table'[log[o].key])
    /\ \A k \in Keys : \/ table'[k] = table[k]
                       \/ table'[k] \in S /\ log[table'[k]].key = k

\* A step applies only what it writes, and writes only what is held.
LEMMA RowsStep ==
  ASSUME Base, Places, [Next]_vars
  PROVE  \E S \in SUBSET {o \in Offsets : fate[o] = "held"} : RowsMove(S)
<1> DEFINE H == {o \in Offsets : fate[o] = "held"}
<1> SUFFICES \E S \in SUBSET H : RowsMove(S)
    OBVIOUS
<1>0. /\ TypeButFlags /\ fate \in [Offsets -> Fates]
      /\ replay \in Seq(Offsets) /\ passThrough \in Seq(Offsets) /\ batches \in Seq(Batch)
      /\ position \in Nat
    BY TypeSplit DEF Base, TypeButFlags
<1>h. \A o \in H : o \in DOMAIN log
    BY HeldInLog
<1>1. ASSUME UNCHANGED table, \A o \in Offsets : fate'[o] = "applied" => fate[o] = "applied"
      PROVE  \E S \in SUBSET H : RowsMove(S)
  <2>1. RowsMove({})
      BY <1>1 DEF RowsMove
  <2> QED
      BY <2>1
<1>2. ASSUME NEW s \in Seq(Offsets), ToSet(s) \subseteq H, Wrote(s),
             \A o \in Offsets : fate'[o] = "applied" => fate[o] = "applied" \/ o \in ToSet(s)
      PROVE  \E S \in SUBSET H : RowsMove(S)
  <2>1. /\ \A k \in Keys : \/ table'[k] = table[k]
                           \/ table'[k] \in ToSet(s) /\ log[table'[k]].key = k
        /\ \A o \in ToSet(s) : o <= table'[log[o].key]
      BY <1>0, <1>2, <1>h, WroteRows
  <2>2. RowsMove(ToSet(s))
      BY <1>2, <2>1 DEF RowsMove
  <2> QED
      BY <1>2, <2>2
<1>3. ASSUME NEW S, NEW f, fate' = Mark(S, f)
      PROVE  \A o \in Offsets : fate'[o] = "applied" =>
               fate[o] = "applied" \/ (f = "applied" /\ o \in S)
  <2>1. \A o \in Offsets : fate'[o] = IF o \in S THEN f ELSE fate[o]
      BY <1>0, <1>3, MarkAt
  <2> QED
      BY <2>1
<1>4. ASSUME batches # <<>>
      PROVE  Current.events \in Seq(Offsets) /\ ToSet(Current.events) \subseteq H
  <2>1. Current \in ToSet(batches)
      BY <1>0, <1>4, CurrentType
  <2> QED
      BY <2>1, BatchInLog
<1>5. ASSUME NEW q \in Seq(Offsets), q # <<>>, ToSet(q) \subseteq H
      PROVE  <<Head(q)>> \in Seq(Offsets) /\ ToSet(<<Head(q)>>) = {Head(q)} /\ Head(q) \in H
  <2>1. Head(q) \in Offsets /\ Head(q) \in ToSet(q)
      BY <1>5, ToSetFacts
  <2> QED
      BY <1>5, <2>1 DEF ToSet
<1>6. ToSet(replay) \subseteq H /\ ToSet(passThrough) \subseteq H
    BY <1>0, ToSetFacts DEF Places
<1> HIDE DEF H
<1>7. CASE Appended \/ Restart \/ SortBuffer
    BY <1>1, <1>7 DEF Appended, Restart, SortBuffer
<1>8. CASE Deliver
  <2>1. /\ UNCHANGED table
        /\ \/ fate' = [fate EXCEPT ![position] = "skipped"]
           \/ fate' = [fate EXCEPT ![position] = "held"]
      BY <1>8 DEF Deliver
  <2>2. \A o \in Offsets : fate'[o] = "applied" => fate[o] = "applied"
      BY <1>0, <2>1
  <2> QED
      BY <1>1, <2>1, <2>2
<1>9. CASE Waited
    BY <1>0, <1>1, <1>2, <1>4, <1>5, <1>6, <1>9 DEF Waited
<1>10. CASE Emptied
  <2>1. \A o \in Offsets : fate'[o] = "applied" => fate[o] = "applied"
    <3>1. \A o \in Offsets : Mark(InHand, "lost")[o] = IF o \in InHand THEN "lost" ELSE fate[o]
        BY <1>0, MarkAt
    <3>2. Mark(InHand, "lost") \in [Offsets -> Fates]
        BY <1>0, MarkType DEF Fates
    <3> QED
        BY <1>10, <3>1, <3>2 DEF Emptied
  <2> QED
      BY <1>0, <1>1, <1>2, <1>5, <1>6, <1>10, <2>1 DEF Emptied
<1>11. CASE BatchWritten
  <2>1. batches # <<>> /\ Wrote(Current.events) /\ fate' = Mark(ToSet(Current.events), "applied")
      BY <1>11 DEF BatchWritten
  <2>2. \A o \in Offsets :
          fate'[o] = "applied" => fate[o] = "applied" \/ o \in ToSet(Current.events)
      BY <1>3, <2>1
  <2> QED
      BY <1>2, <1>4, <2>1, <2>2
<1>12. CASE BatchPassed \/ BatchReplayed
  <2>1. batches # <<>> /\ UNCHANGED fate /\ (UNCHANGED table \/ Wrote(Current.events))
      BY <1>12 DEF BatchPassed, BatchReplayed
  <2> QED
      BY <1>1, <1>2, <1>4, <2>1
<1>13. CASE ReplaySettled
  <2>1. PICK f \in {"applied", "dlq", "dropped"} :
          /\ fate' = Mark({Head(replay)}, f)
          /\ \/ f = "applied" /\ Wrote(<<Head(replay)>>)
             \/ f # "applied" /\ UNCHANGED table
      BY <1>13 DEF ReplaySettled
  <2>2. \A o \in Offsets : fate'[o] = "applied" =>
          fate[o] = "applied" \/ (f = "applied" /\ o \in {Head(replay)})
      BY <1>3, <2>1
  <2>3. replay # <<>>
      BY <1>13 DEF ReplaySettled
  <2> QED
      BY <1>0, <1>1, <1>2, <1>5, <1>6, <2>1, <2>2, <2>3
<1>14. CASE PassSettled
  <2>1. PICK f \in {"applied", "skipped", "dropped"} :
          /\ fate' = Mark({Head(passThrough)}, f)
          /\ \/ Wrote(<<Head(passThrough)>>)
             \/ f # "applied" /\ UNCHANGED table
      BY <1>14 DEF PassSettled
  <2>2. \A o \in Offsets : fate'[o] = "applied" =>
          fate[o] = "applied" \/ (f = "applied" /\ o \in {Head(passThrough)})
      BY <1>3, <2>1
  <2>3. passThrough # <<>>
      BY <1>14 DEF PassSettled
  <2> QED
      BY <1>0, <1>1, <1>2, <1>5, <1>6, <2>1, <2>2, <2>3
<1> QED
    BY <1>7, <1>8, <1>9, <1>10, <1>11, <1>12, <1>13, <1>14, StepEffect

\* What is applied is followed by what is held of its path.
LEMMA LaterNext == Base /\ Places /\ Orderly /\ [Next]_vars => Later'
<1> SUFFICES ASSUME Base, Places, Together, PassOrder, Later, [Next]_vars PROVE Later'
    BY DEF Orderly
<1>0. /\ TypeButFlags /\ Shape /\ OffsetOrder
      /\ replay \in Seq(Offsets) /\ passThrough \in Seq(Offsets) /\ batches \in Seq(Batch)
      /\ buffer \in Seq(Offsets)
      /\ fate \in [Offsets -> Fates] /\ position \in Nat /\ Len(log) \in Nat
      /\ log \in Seq(Event)
    BY TypeSplit DEF Base, TypeButFlags
<1>e. ToSet(<<>>) = {}
    BY DEF ToSet
<1> SUFFICES ASSUME NEW a \in Offsets, NEW h \in Offsets, fate'[a] = "applied",
                    a < position', fate'[h] = "held", SamePath(a, h)'
             PROVE  a < h
    BY DEF Later
\* If it was so before the step.
<1>1. ASSUME fate[a] = "applied", a < position, fate[h] = "held" PROVE a < h
  <2>1. a \in DOMAIN log /\ h \in DOMAIN log
      BY <1>1, HeldInLog
  <2>2. SamePath(a, h)
      BY <2>1, PathKept
  <2> QED
      BY <1>1, <2>2 DEF Later
<1>2. CASE Deliver
  <2>1. /\ position <= Len(log) /\ position' = position + 1
        /\ \/ fate' = [fate EXCEPT ![position] = "skipped"]
           \/ fate' = [fate EXCEPT ![position] = "held"]
      BY <1>2 DEF Deliver
  <2>2. fate[a] = "applied" /\ a # position
      BY <1>0, <2>1
  <2>3. a < position
      BY <1>0, <2>1, <2>2 DEF Offsets
  <2>4. h = position \/ fate[h] = "held"
      BY <1>0, <2>1
  <2> QED
      BY <1>1, <2>2, <2>3, <2>4
<1>3. CASE Restart
  <2>1. batches = <<>> /\ replay = <<>> /\ passThrough = <<>> /\ buffer = <<>> /\ UNCHANGED fate
      BY <1>0, <1>3 DEF Restart, Shape
  <2> QED
      BY <2>1, <1>e DEF Places, InBatches
<1>6. CASE UNCHANGED <<position, fate>>
    BY <1>1, <1>6
<1>7. CASE Emptied
  <2>1. \A o \in Offsets : Mark(InHand, "lost")[o] = IF o \in InHand THEN "lost" ELSE fate[o]
      BY <1>0, MarkAt
  <2>2. Mark(InHand, "lost") \in [Offsets -> Fates]
      BY <1>0, MarkType DEF Fates
  <2>3. fate[a] = "applied" /\ fate[h] = "held" /\ UNCHANGED position
      BY <1>7, <2>1, <2>2 DEF Emptied
  <2> QED
      BY <1>1, <2>3
\* If the step settles some events.
<1>8. ASSUME NEW S, NEW f, fate' = Mark(S, f), f # "held", UNCHANGED position,
             a \in S => a < h
      PROVE  a < h
  <2>1. fate'[a] = (IF a \in S THEN f ELSE fate[a]) /\ fate'[h] = (IF h \in S THEN f ELSE fate[h])
      BY <1>0, <1>8, MarkAt
  <2> QED
      BY <1>1, <1>8, <2>1
<1>9. CASE BatchWritten
  <2> DEFINE ev == Current.events
  <2>1. /\ batches # <<>> /\ fate' = Mark(ToSet(ev), "applied") /\ UNCHANGED <<log, position>>
      BY <1>9 DEF BatchWritten
  <2>2. Current \in ToSet(batches)
      BY <1>0, <2>1, CurrentType
  <2>3. ASSUME a \in ToSet(ev) PROVE FALSE
    <3>1. fate'[h] = IF h \in ToSet(ev) THEN "applied" ELSE fate[h]
        BY <1>0, <2>1, MarkAt
    <3>2. SamePath(a, h)
        BY <2>1 DEF SamePath, EventTable, Batchable
    <3>3. h \notin ToSet(ev) /\ fate[h] = "held"
        BY <3>1
    <3> QED
        BY <2>2, <2>3, <3>2, <3>3 DEF Together
  <2> QED
      BY <1>8, <2>1, <2>3
<1>10. CASE ReplaySettled
  <2>1. PICK f \in {"applied", "dlq", "dropped"} : fate' = Mark({Head(replay)}, f)
      BY <1>10 DEF ReplaySettled
  <2>2. replay # <<>> /\ UNCHANGED <<log, position>>
      BY <1>10 DEF ReplaySettled
  <2>3. /\ ToSet(replay) = {Head(replay)} \union ToSet(Tail(replay))
        /\ \A o \in ToSet(Tail(replay)) : Head(replay) < o
      BY <1>0, <2>2, TailSorted, ToSetFacts DEF Places
  <2>4. ASSUME a = Head(replay) PROVE a < h
    <3>1. h # Head(replay) /\ fate[h] = "held"
      <4>1. fate'[h] = IF h \in {Head(replay)} THEN f ELSE fate[h]
          BY <1>0, <2>1, MarkAt
      <4> QED
          BY <4>1
    <3>2. SamePath(a, h)
        BY <2>2 DEF SamePath, EventTable, Batchable
    <3>3. h \in ToSet(replay)
        BY <2>3, <2>4, <3>1, <3>2 DEF Together
    <3> QED
        BY <2>3, <2>4, <3>1, <3>3
  <2> QED
      BY <1>8, <2>1, <2>2, <2>4
<1>11. CASE PassSettled
  <2> DEFINE p == passThrough
  <2>1. PICK f \in {"applied", "skipped", "dropped"} : fate' = Mark({Head(p)}, f)
      BY <1>11 DEF PassSettled
  <2>2. /\ p # <<>> /\ UNCHANGED <<log, position>>
        /\ replay = <<>> /\ batches = <<>> /\ buffer = <<>>
      BY <1>11 DEF PassSettled
  <2>3. ASSUME a = Head(p) PROVE a < h
    <3>1. h # Head(p) /\ fate[h] = "held"
      <4>1. fate'[h] = IF h \in {Head(p)} THEN f ELSE fate[h]
          BY <1>0, <2>1, MarkAt
      <4> QED
          BY <4>1
    <3>2. SamePath(a, h)
        BY <2>2 DEF SamePath, EventTable, Batchable
    <3>3. h \in ToSet(p)
        BY <2>2, <3>1, <1>e DEF Places, InBatches
    <3>4. PICK j \in DOMAIN p : h = p[j]
        BY <3>3 DEF ToSet
    <3>5. a = p[1] /\ 1 \in DOMAIN p /\ 1 < j
        BY <1>0, <2>2, <2>3, <3>1, <3>4
    <3> QED
        BY <3>2, <3>4, <3>5 DEF PassOrder
  <2> QED
      BY <1>8, <2>1, <2>2, <2>3
<1> QED
    BY <1>2, <1>3, <1>6, <1>7, <1>9, <1>10, <1>11, StepEffect
    DEF Appended, Waited, SortBuffer, BatchPassed, BatchReplayed, client

\* Orderly is kept by every step.
LEMMA OrderlyNext == Base /\ Places /\ Orderly /\ [Next]_vars => Orderly'
  BY TogetherNext, PassOrderNext, LaterNext DEF Orderly

\* The row of a key goes back only to an event of the other path.
LEMMA OvertakenNext ==
  Base /\ Places /\ Orderly /\ OvertakenOnlyAcrossPaths /\ [Next]_vars
    => OvertakenOnlyAcrossPaths'
<1> SUFFICES ASSUME Base, Places, Later, OvertakenOnlyAcrossPaths, [Next]_vars
             PROVE  OvertakenOnlyAcrossPaths'
    BY DEF Orderly
<1>0. /\ TypeButFlags /\ OffsetOrder
      /\ fate \in [Offsets -> Fates] /\ position \in Nat /\ Len(log) \in Nat
      /\ log \in Seq(Event) /\ table \in Rows /\ Len(log) <= MaxLog
      /\ DOMAIN log = 1 .. Len(log)
    BY TypeSplit DEF Base, TypeButFlags
<1>1. log' \in Seq(Event) /\ Len(log') <= MaxLog
    BY TypeNext, TypeSplit DEF Base, TypeOK
<1> SUFFICES ASSUME NEW o \in 1 .. Len(log'), NEW m, m = table'[log'[o].key],
                    fate'[o] = "applied", m < o, o < position', m # NoEvent,
                    Batchable(o)' <=> Batchable(m)'
             PROVE  FALSE
    BY DEF OvertakenOnlyAcrossPaths, Batchable
<1>2. o \in Offsets
    BY <1>1 DEF Offsets
<1>3. o < position
  <2>1. CASE Deliver
    <3>1. /\ position' = position + 1
          /\ \/ fate' = [fate EXCEPT ![position] = "skipped"]
             \/ fate' = [fate EXCEPT ![position] = "held"]
        BY <2>1 DEF Deliver
    <3>2. o # position
        BY <1>0, <1>2, <3>1
    <3> QED
        BY <1>0, <1>2, <3>1, <3>2 DEF Offsets
  <2>2. CASE Restart
    <3>1. position' = committed \/ position' = 1
        BY <2>2 DEF Restart
    <3>2. committed \in Nat /\ stored \in Nat /\ committed <= stored /\ stored <= position
          /\ 1 <= position
        BY <1>0 DEF TypeButFlags, OffsetOrder
    <3> QED
        BY <1>0, <1>2, <3>1, <3>2 DEF Offsets
  <2>3. CASE UNCHANGED position
      BY <2>3
  <2> QED
      BY <2>1, <2>2, <2>3, StepEffect
      DEF Appended, Waited, Emptied, SortBuffer, BatchWritten, BatchPassed,
          BatchReplayed, ReplaySettled, PassSettled, client
<1>4. o \in DOMAIN log /\ log'[o] = log[o]
    BY <1>2, <1>3, HeldInLog, LogKept
<1> DEFINE k == log[o].key
<1>5. k \in Keys
  <2>1. log[o] \in Event
      BY <1>0, <1>4
  <2> QED
      BY <2>1 DEF Event
<1>6. m = table'[k]
    BY <1>4
<1> HIDE DEF k
<1>7. m \in 0 .. MaxLog /\ m \in Nat \ {0} /\ m \in DOMAIN log /\ m \in Offsets
  <2>1. table' \in Rows
      BY TypeNext, TypeSplit DEF Base, TypeOK
  <2>2. m \in 0 .. MaxLog
      BY <1>5, <1>6, <2>1 DEF Rows
  <2>3. m \in Nat \ {0}
      BY <2>2 DEF NoEvent
  <2> QED
      BY <2>2, <2>3, <1>0, <1>4 DEF Offsets
<1>8. Batchable(o) <=> Batchable(m)
    BY <1>4, <1>7, LogKept
<1>9. PICK S \in SUBSET {p \in Offsets : fate[p] = "held"} : RowsMove(S)
    BY RowsStep
<1>10. \/ fate[o] = "applied"
       \/ o \in S /\ o <= m
    BY <1>2, <1>6, <1>9 DEF RowsMove, k
<1>11. \/ m = table[k]
       \/ m \in S /\ log[m].key = k
    BY <1>5, <1>6, <1>9 DEF RowsMove
<1>12. fate[o] = "applied"
    BY <1>2, <1>7, <1>10 DEF Offsets
<1>13. CASE m = table[k]
    BY <1>0, <1>3, <1>4, <1>8, <1>12, <1>13 DEF OvertakenOnlyAcrossPaths, k, Batchable
<1>14. CASE m \in S /\ log[m].key = k
  <2>1. SamePath(o, m)
      BY <1>8, <1>14 DEF SamePath, EventTable, k
  <2>2. fate[m] = "held"
      BY <1>9, <1>14
  <2>3. o < m
      BY <1>2, <1>3, <1>7, <1>12, <2>1, <2>2 DEF Later
  <2> QED
      BY <1>2, <1>7, <2>3 DEF Offsets
<1> QED
    BY <1>11, <1>13, <1>14

\* A row falls behind an event applied for good only by one that went through
\* the flush on the other path.
THEOREM OvertakenOnlyAcrossPathsCorrect == Spec => []OvertakenOnlyAcrossPaths
<1> DEFINE I == Base /\ Places /\ Orderly /\ OvertakenOnlyAcrossPaths
<1>1. Init => I
    BY BaseInit, PlacesInit, OrderlyInit
<1>2. I /\ [Next]_vars => I'
    BY BaseNext, PlacesNext, OrderlyNext, OvertakenNext
<1>3. I => OvertakenOnlyAcrossPaths
    OBVIOUS
<1> QED
    BY <1>1, <1>2, <1>3, PTL DEF Spec
=============================================================================
