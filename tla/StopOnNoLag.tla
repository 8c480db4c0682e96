---------------------------- MODULE StopOnNoLag ----------------------------
(***************************************************************************)
(* When a mongo2pg kafka-import with stop_on_no_lag = true comes to an     *)
(* end: worker processes of one consumer group, the parent among them,     *)
(* each of which looks at its lag whenever no message arrives within       *)
(* idle_timeout, and stops after enough looks in a row at no lag or at no  *)
(* assigned partition.                                                     *)
(*                                                                         *)
(* The broker gives each partition to one member of the group and takes    *)
(* all of them back for a rebalance.  A message is a partition and an      *)
(* offset; what it does to PostgreSQL is in KafkaImport and SnapshotCopy.  *)
(* Offsets are committed by the client's timer, auto.offset.reset is       *)
(* earliest, and no message has expired (the low watermark is 0).          *)
(***************************************************************************)
EXTENDS Naturals, FiniteSets

CONSTANTS
    Workers,            \* worker processes
    Nobody,             \* owner of a partition that is not assigned
    Parent,             \* the one that started the others and waits for them
    Partitions,
    RequiredStreak,     \* stop_on_no_lag_required_streak: 4, or 3 with workers
    MaxLog,             \* bound: messages per partition
    MaxDisturbances     \* bound: rebalances that nobody's leaving explains,
                        \* failed lag snapshots, failed flushes, failed workers

ASSUME StopAssumption ==
    /\ IsFiniteSet(Workers) /\ Parent \in Workers /\ Nobody \notin Workers
    /\ IsFiniteSet(Partitions)
    /\ RequiredStreak \in Nat \ {0}
    /\ MaxLog \in Nat
    /\ MaxDisturbances \in Nat

VARIABLES
    end,            \* high watermark of each partition
    committed,      \* committed offset of each partition, 0 for none
    owner,          \* the member each partition is assigned to
    rebalancing,    \* the group is between revocation and assignment
    next,           \* the offset the owner is handed next
    known,          \* the owner's position() is known: it was handed a message
    members,        \* the group's members
    status,         \* of each worker: "running", or how it ended
    held,           \* messages in its buffer or its open transaction
    streak,         \* stop_on_no_lag_streak
    noneStreak,     \* stop_on_no_lag_no_assignment_streak
    seenEnd,        \* stop_on_no_lag_seen_end_offsets
    hadAssignment,  \* stop_on_no_lag_had_assignment
    ripe,           \* its minimum runtime, and no-assignment grace, is over
    applied,        \* messages flushed to PostgreSQL
    abandoned,      \* messages lost with a failed flush or a failed worker
    checked,        \* messages in its partitions when it last saw its lag
    disturbances    \* how many of them so far

partitions == <<end, committed, owner, rebalancing, next, known, members>>
checks     == <<streak, noneStreak, seenEnd, hadAssignment>>
outcome    == <<applied, abandoned>>
vars == <<end, committed, owner, rebalancing, next, known, members, status, held,
          streak, noneStreak, seenEnd, hadAssignment, ripe, applied, abandoned,
          checked, disturbances>>

Messages == Partitions \X (1 .. MaxLog)
Statuses == {"running", "caught_up", "unassigned", "failed"}
Stopped  == {"caught_up", "unassigned"}

TypeOK ==
    /\ end \in [Partitions -> 0 .. MaxLog]
    /\ committed \in [Partitions -> 0 .. MaxLog]
    /\ owner \in [Partitions -> Workers \union {Nobody}]
    /\ rebalancing \in BOOLEAN
    /\ next \in [Partitions -> 0 .. MaxLog]
    /\ known \in [Partitions -> BOOLEAN]
    /\ members \subseteq Workers
    /\ status \in [Workers -> Statuses]
    /\ held \in [Workers -> SUBSET Messages]
    /\ streak \in [Workers -> 0 .. RequiredStreak]
    /\ noneStreak \in [Workers -> 0 .. RequiredStreak]
    /\ seenEnd \in [Workers -> BOOLEAN]
    /\ hadAssignment \in [Workers -> BOOLEAN]
    /\ ripe \in [Workers -> BOOLEAN]
    /\ applied \subseteq Messages
    /\ abandoned \subseteq Messages
    /\ checked \in [Workers -> SUBSET Messages]
    /\ disturbances \in Nat

Init ==
    /\ end = [p \in Partitions |-> 0]
    /\ committed = [p \in Partitions |-> 0]
    /\ owner = [p \in Partitions |-> Nobody]
    /\ rebalancing = TRUE
    /\ next = [p \in Partitions |-> 0]
    /\ known = [p \in Partitions |-> FALSE]
    /\ members = Workers
    /\ status = [w \in Workers |-> "running"]
    /\ held = [w \in Workers |-> {}]
    /\ streak = [w \in Workers |-> 0]
    /\ noneStreak = [w \in Workers |-> 0]
    /\ seenEnd = [w \in Workers |-> FALSE]
    /\ hadAssignment = [w \in Workers |-> FALSE]
    /\ ripe = [w \in Workers |-> FALSE]
    /\ applied = {}
    /\ abandoned = {}
    /\ checked = [w \in Workers |-> {}]
    /\ disturbances = 0

Assigned(w) == {p \in Partitions : owner[p] = w}

-----------------------------------------------------------------------------
\* The broker

Produce(p) ==
    /\ end[p] < MaxLog
    /\ end' = [end EXCEPT ![p] = @ + 1]
    /\ UNCHANGED <<committed, owner, rebalancing, next, known, members, status,
                   held, checks, ripe, outcome, checked, disturbances>>

\* The members M form the group from now on: all partitions are taken back.
Revoke(M) ==
    /\ members' = M
    /\ owner' = [p \in Partitions |-> Nobody]
    /\ rebalancing' = TRUE
    /\ UNCHANGED <<end, committed, next, known>>

\* A member is evicted and joins again, or the subscription's topics change.
Rebalance ==
    /\ ~rebalancing
    /\ disturbances < MaxDisturbances
    /\ disturbances' = disturbances + 1
    /\ Revoke(members)
    /\ UNCHANGED <<status, held, checks, ripe, outcome, checked>>

\* Every partition gets an owner, who is handed its messages from the committed
\* offset on and has no position in it until then.
Assign ==
    /\ rebalancing
    /\ members # {}
    /\ owner' \in [Partitions -> members]
    /\ rebalancing' = FALSE
    /\ next' = committed
    /\ known' = [p \in Partitions |-> FALSE]
    /\ UNCHANGED <<end, committed, members, status, held, checks, ripe, outcome,
                   checked, disturbances>>

OffsetCommit(p) ==
    /\ owner[p] # Nobody
    /\ known[p]
    /\ committed[p] # next[p]
    /\ committed' = [committed EXCEPT ![p] = next[p]]
    /\ UNCHANGED <<end, owner, rebalancing, next, known, members, status, held,
                   checks, ripe, outcome, checked, disturbances>>

\* The parent no longer polls while it waits for the others: the broker evicts
\* it after max.poll.interval.ms.
EvictParent ==
    /\ Parent \in members
    /\ status[Parent] # "running"
    /\ Revoke(members \ {Parent})
    /\ UNCHANGED <<status, held, checks, ripe, outcome, checked,
                   disturbances>>

-----------------------------------------------------------------------------
\* A worker's loop

Deliver(w, p) ==
    /\ status[w] = "running"
    /\ owner[p] = w
    /\ next[p] < end[p]
    /\ next' = [next EXCEPT ![p] = @ + 1]
    /\ known' = [known EXCEPT ![p] = TRUE]
    /\ held' = [held EXCEPT ![w] = @ \union {<<p, next[p] + 1>>}]
    /\ UNCHANGED <<end, committed, owner, rebalancing, members, status, checks,
                   ripe, outcome, checked, disturbances>>

\* A full batch or buffer is written.
Flush(w) ==
    /\ status[w] = "running"
    /\ held[w] # {}
    /\ applied' = applied \union held[w]
    /\ held' = [held EXCEPT ![w] = {}]
    /\ UNCHANGED <<partitions, status, checks, ripe, abandoned, checked,
                   disturbances>>

MinRuntimeReached(w) ==
    /\ status[w] = "running"
    /\ ~ripe[w]
    /\ ripe' = [ripe EXCEPT ![w] = TRUE]
    /\ UNCHANGED <<partitions, status, held, checks, outcome, checked,
                   disturbances>>

\* run_kafka_import returns an error, or the process is killed.
Fail(w) ==
    /\ status[w] = "running"
    /\ disturbances < MaxDisturbances
    /\ disturbances' = disturbances + 1
    /\ status' = [status EXCEPT ![w] = "failed"]
    /\ abandoned' = abandoned \union held[w]
    /\ held' = [held EXCEPT ![w] = {}]
    /\ Revoke(members \ {w})
    /\ UNCHANGED <<checks, ripe, applied, checked>>

-----------------------------------------------------------------------------
\* The idle gap: a flush, then consumer_lag_snapshot

\* What is pending is written; an idle COMMIT that fails is only logged.
IdleFlush(w) ==
    /\ held' = [held EXCEPT ![w] = {}]
    /\ \/ /\ applied' = applied \union held[w]
          /\ UNCHANGED <<abandoned, disturbances>>
       \/ /\ held[w] # {}
          /\ disturbances < MaxDisturbances
          /\ disturbances' = disturbances + 1
          /\ abandoned' = abandoned \union held[w]
          /\ UNCHANGED applied

\* UnknownIsEnd, AlwaysCommitted and EnoughOneLate are faulty variants of the
\* operator below them, which nothing uses: put in its place, each must break a
\* property.  The first is effective_pos of consumer_lag_snapshot.
UnknownIsEnd(p)    == IF known[p] THEN next[p] ELSE end[p]
AlwaysCommitted(p) == committed[p]
EffectivePos(p)    == IF known[p] THEN next[p] ELSE committed[p]

EnoughOneLate(n) == n > RequiredStreak
Enough(n)        == n >= RequiredStreak

NoLag(w)     == \A p \in Assigned(w) : EffectivePos(p) >= end[p]
EndSeen(w)   == seenEnd[w] \/ \E p \in Assigned(w) : end[p] > 0

\* The worker leaves the loop; a child process exits, and so leaves the group,
\* while the parent stays a member until it is evicted.
Stop(w, how) ==
    /\ status' = [status EXCEPT ![w] = how]
    /\ IF w = Parent THEN UNCHANGED partitions ELSE Revoke(members \ {w})

GoOn == UNCHANGED <<partitions, status>>

\* Ok(Some): the worker has partitions.
IdleAssigned(w) ==
    /\ status[w] = "running"
    /\ Assigned(w) # {}
    /\ IdleFlush(w)
    /\ hadAssignment' = [hadAssignment EXCEPT ![w] = TRUE]
    /\ noneStreak' = [noneStreak EXCEPT ![w] = 0]
    /\ seenEnd' = [seenEnd EXCEPT ![w] = EndSeen(w)]
    /\ checked' = [checked EXCEPT ![w] =
                      {m \in Messages : m[1] \in Assigned(w) /\ m[2] <= end[m[1]]}]
    /\ \/ /\ EndSeen(w) /\ NoLag(w) /\ ripe[w]
          /\ streak' = [streak EXCEPT ![w] = @ + 1]
          /\ IF Enough(streak'[w]) THEN Stop(w, "caught_up") ELSE GoOn
       \/ /\ ~(EndSeen(w) /\ NoLag(w) /\ ripe[w])
          /\ streak' = [streak EXCEPT ![w] = 0]
          /\ GoOn
    /\ UNCHANGED ripe

\* Ok(None): it has none, at the moment or for good.
IdleUnassigned(w) ==
    /\ status[w] = "running"
    /\ Assigned(w) = {}
    /\ IdleFlush(w)
    /\ streak' = [streak EXCEPT ![w] = 0]
    /\ \/ /\ hadAssignment[w] \/ ripe[w]
          /\ noneStreak' = [noneStreak EXCEPT ![w] = @ + 1]
          /\ IF Enough(noneStreak'[w]) THEN Stop(w, "unassigned") ELSE GoOn
       \/ /\ ~(hadAssignment[w] \/ ripe[w])
          /\ GoOn
          /\ UNCHANGED noneStreak
    /\ UNCHANGED <<seenEnd, hadAssignment, ripe, checked>>

\* Err: the broker does not answer.
IdleUnanswered(w) ==
    /\ status[w] = "running"
    /\ disturbances < MaxDisturbances
    /\ disturbances' = disturbances + 1
    /\ applied' = applied \union held[w]
    /\ held' = [held EXCEPT ![w] = {}]
    /\ streak' = [streak EXCEPT ![w] = 0]
    /\ noneStreak' = [noneStreak EXCEPT ![w] = 0]
    /\ UNCHANGED <<partitions, status, seenEnd, hadAssignment, ripe, abandoned,
                   checked>>

-----------------------------------------------------------------------------
Idle(w) == IdleAssigned(w) \/ IdleUnassigned(w)

Worker(w) ==
    \/ \E p \in Partitions : Deliver(w, p)
    \/ Flush(w)
    \/ MinRuntimeReached(w)
    \/ Idle(w) \/ IdleUnanswered(w)
    \/ Fail(w)

Broker ==
    \/ \E p \in Partitions : Produce(p) \/ OffsetCommit(p)
    \/ Rebalance \/ Assign
    \/ EvictParent

Next == Broker \/ \E w \in Workers : Worker(w)

Spec == Init /\ [][Next]_vars

\* The broker hands over what there is, completes its rebalances and evicts
\* members that do not poll; time passes; and once no message arrives, a worker
\* finds its idle gaps.
FairSpec ==
    /\ Spec
    /\ WF_vars(Assign)
    /\ WF_vars(EvictParent)
    /\ \A w \in Workers :
          /\ WF_vars(MinRuntimeReached(w))
          /\ WF_vars(Idle(w))
          /\ \A p \in Partitions : WF_vars(Deliver(w, p))

-----------------------------------------------------------------------------
\* Properties

\* A worker that stops at zero lag leaves nothing behind in its partitions:
\* every message there at its last look was handed to some worker, and has been
\* applied, is held by a worker that still runs, or went down with a failure.
\* (A partition may have changed hands, with its position unknown and its
\* committed offset ahead of what its last owner has flushed.)
CaughtUpMeansDelivered ==
    \A w \in Workers :
        status[w] = "caught_up" =>
            checked[w] \subseteq
                applied \union abandoned \union UNION {held[v] : v \in Workers}

\* Once the partitions hold a message, every worker ends, and the parent, which
\* waits for its children, with them.  (A worker with only empty partitions
\* waits until another's leaving gives it one that is not.)
EveryWorkerEnds ==
    <>[](\E p \in Partitions : end[p] > 0)
        => <>(\A w \in Workers : status[w] # "running")

\* The import stops once lag is zero: when its last worker stops, one that has
\* had partitions, every message in the partitions has been handed to a worker.
StopsAtZeroLag ==
    [][ (/\ \E w \in Workers : status[w] = "running" /\ hadAssignment[w]
         /\ \A w \in Workers : status'[w] \in Stopped)
        => {m \in Messages : m[2] <= end[m[1]]} \subseteq applied' \union abandoned'
      ]_vars
=============================================================================
