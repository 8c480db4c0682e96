------------------------ MODULE StopOnNoLagProofs ------------------------
(***************************************************************************)
(* Theorems about StopOnNoLag, for any number of workers, partitions and   *)
(* messages, any streak and any number of disturbances.                    *)
(***************************************************************************)
EXTENDS StopOnNoLag, TLAPS

USE StopAssumption

(***************************************************************************)
(* Types.  The Boolean flags are apart from the rest: no prover takes both *)
(* arithmetic and Boolean-valued functions well.                           *)
(***************************************************************************)
TypeFlags ==
    /\ rebalancing \in BOOLEAN
    /\ known \in [Partitions -> BOOLEAN]
    /\ seenEnd \in [Workers -> BOOLEAN]
    /\ hadAssignment \in [Workers -> BOOLEAN]
    /\ ripe \in [Workers -> BOOLEAN]

TypeOffsets ==
    /\ end \in [Partitions -> 0 .. MaxLog]
    /\ committed \in [Partitions -> 0 .. MaxLog]
    /\ owner \in [Partitions -> Workers \union {Nobody}]
    /\ next \in [Partitions -> 0 .. MaxLog]
    /\ members \subseteq Workers
    /\ disturbances \in Nat

TypeMessages ==
    /\ held \in [Workers -> SUBSET Messages]
    /\ applied \subseteq Messages
    /\ abandoned \subseteq Messages
    /\ checked \in [Workers -> SUBSET Messages]

TypeChecks ==
    /\ status \in [Workers -> Statuses]
    /\ streak \in [Workers -> 0 .. RequiredStreak]
    /\ noneStreak \in [Workers -> 0 .. RequiredStreak]

\* A worker stops when a streak is long enough, so none is while it runs.
StreaksOpen ==
    \A w \in Workers :
        status[w] = "running" => streak[w] < RequiredStreak /\ noneStreak[w] < RequiredStreak

TypeInv == TypeFlags /\ TypeOffsets /\ TypeMessages /\ TypeChecks /\ StreaksOpen

\* TypeOK is its four parts.
LEMMA TypeSplit == TypeInv => TypeOK
  BY DEF TypeInv, TypeFlags, TypeOffsets, TypeMessages, TypeChecks, TypeOK

\* Before anything is assigned or delivered the types and the streaks are right.
LEMMA TypeInit == Init => TypeInv
<1> SUFFICES ASSUME Init PROVE TypeInv
    OBVIOUS
<1>1. TypeFlags
    BY DEF Init, TypeFlags
<1>2. TypeOffsets
    BY DEF Init, TypeOffsets
<1>3. TypeMessages
    BY DEF Init, TypeMessages
<1>4. TypeChecks /\ StreaksOpen
    BY DEF Init, TypeChecks, StreaksOpen, Statuses
<1> QED
    BY <1>1, <1>2, <1>3, <1>4 DEF TypeInv

\* Every step leaves the flags Boolean.
LEMMA FlagsNext == TypeFlags /\ [Next]_vars => TypeFlags'
<1> SUFFICES ASSUME TypeFlags, [Next]_vars PROVE TypeFlags'
    OBVIOUS
<1> USE DEF TypeFlags
<1>1. CASE UNCHANGED vars
    BY <1>1 DEF vars
<1>2. ASSUME NEW p \in Partitions, Produce(p) \/ OffsetCommit(p) PROVE TypeFlags'
    BY <1>2, Zenon DEF Produce, OffsetCommit, checks
<1>3. CASE Rebalance \/ EvictParent
    BY <1>3, Zenon DEF Rebalance, EvictParent, Revoke, checks
<1>4. CASE Assign
    BY <1>4, Zenon DEF Assign, checks
<1>5. ASSUME NEW w \in Workers, NEW p \in Partitions, Deliver(w, p) PROVE TypeFlags'
    BY <1>5 DEF Deliver, checks
<1>6. ASSUME NEW w \in Workers, Flush(w) PROVE TypeFlags'
    BY <1>6, Zenon DEF Flush, partitions, checks
<1>7. ASSUME NEW w \in Workers, MinRuntimeReached(w) PROVE TypeFlags'
    BY <1>7 DEF MinRuntimeReached, partitions, checks
<1>8. ASSUME NEW w \in Workers, Fail(w) PROVE TypeFlags'
    BY <1>8, Zenon DEF Fail, Revoke, checks
<1>9. ASSUME NEW w \in Workers, NEW how, Stop(w, how) \/ GoOn
      PROVE  rebalancing' \in BOOLEAN /\ known' \in [Partitions -> BOOLEAN]
    BY <1>9, Zenon DEF Stop, GoOn, Revoke, partitions
<1>10. ASSUME NEW w \in Workers, IdleAssigned(w) PROVE TypeFlags'
  <2>1. EndSeen(w) \in BOOLEAN
      BY DEF EndSeen
  <2>2. seenEnd' \in [Workers -> BOOLEAN] /\ hadAssignment' \in [Workers -> BOOLEAN]
      BY <1>10, <2>1 DEF IdleAssigned
  <2>3. Stop(w, "caught_up") \/ GoOn
      BY <1>10 DEF IdleAssigned
  <2>4. ripe' = ripe
      BY <1>10 DEF IdleAssigned
  <2> QED
      BY <2>2, <2>3, <2>4, <1>9
<1>11. ASSUME NEW w \in Workers, IdleUnassigned(w) PROVE TypeFlags'
  <2>1. Stop(w, "unassigned") \/ GoOn
      BY <1>11 DEF IdleUnassigned
  <2>2. UNCHANGED <<seenEnd, hadAssignment, ripe>>
      BY <1>11 DEF IdleUnassigned
  <2> QED
      BY <2>1, <2>2, <1>9
<1>12. ASSUME NEW w \in Workers, IdleUnanswered(w) PROVE TypeFlags'
    BY <1>12, Zenon DEF IdleUnanswered, partitions
<1> QED
    BY <1>1, <1>2, <1>3, <1>4, <1>5, <1>6, <1>7, <1>8, <1>10, <1>11, <1>12
    DEF Next, Broker, Worker, Idle

\* A message a worker is handed is one.
LEMMA NextMessage ==
  ASSUME TypeOffsets, NEW p \in Partitions, next[p] < end[p]
  PROVE  next[p] + 1 \in 1 .. MaxLog /\ <<p, next[p] + 1>> \in Messages
  BY DEF TypeOffsets, Messages

\* Leaving the loop and going on with it keep the broker's side well typed.
LEMMA StopType ==
  ASSUME TypeOffsets, NEW w \in Workers, NEW how, Stop(w, how) \/ GoOn,
         end' = end \/ GoOn \/ Stop(w, how)
  PROVE  /\ UNCHANGED <<end, committed, next>>
         /\ owner' \in [Partitions -> Workers \union {Nobody}]
         /\ members' \subseteq Workers
  BY DEF TypeOffsets, Stop, GoOn, Revoke, partitions

\* Every step leaves offsets, owners and members well typed.
LEMMA OffsetsNext == TypeOffsets /\ [Next]_vars => TypeOffsets'
<1> SUFFICES ASSUME TypeOffsets, [Next]_vars PROVE TypeOffsets'
    OBVIOUS
<1> USE DEF TypeOffsets
<1>1. CASE UNCHANGED vars
    BY <1>1 DEF vars
<1>2. ASSUME NEW p \in Partitions, Produce(p) \/ OffsetCommit(p) PROVE TypeOffsets'
    BY <1>2 DEF Produce, OffsetCommit
<1>3. CASE Rebalance \/ EvictParent
    BY <1>3 DEF Rebalance, EvictParent, Revoke
<1>4. CASE Assign
    BY <1>4 DEF Assign
<1>5. ASSUME NEW w \in Workers, NEW p \in Partitions, Deliver(w, p) PROVE TypeOffsets'
    BY <1>5, NextMessage DEF Deliver
<1>6. ASSUME NEW w \in Workers, Flush(w) \/ MinRuntimeReached(w) \/ IdleUnanswered(w)
      PROVE  TypeOffsets'
    BY <1>6 DEF Flush, MinRuntimeReached, IdleUnanswered, partitions
<1>7. ASSUME NEW w \in Workers, Fail(w) PROVE TypeOffsets'
    BY <1>7 DEF Fail, Revoke
<1>8. ASSUME NEW w \in Workers, IdleFlush(w) PROVE disturbances' \in Nat
    BY <1>8 DEF IdleFlush
<1>9. ASSUME NEW w \in Workers, Idle(w) PROVE TypeOffsets'
  <2>1. IdleFlush(w) /\ (Stop(w, "caught_up") \/ Stop(w, "unassigned") \/ GoOn)
      BY <1>9 DEF Idle, IdleAssigned, IdleUnassigned
  <2> QED
      BY <2>1, <1>8, StopType
<1> QED
    BY <1>1, <1>2, <1>3, <1>4, <1>5, <1>6, <1>7, <1>9 DEF Next, Broker, Worker

\* Every step leaves the sets of messages well typed.
LEMMA MessagesNext == TypeOffsets /\ TypeMessages /\ [Next]_vars => TypeMessages'
<1> SUFFICES ASSUME TypeOffsets, TypeMessages, [Next]_vars PROVE TypeMessages'
    OBVIOUS
<1> USE DEF TypeMessages
<1>1. CASE UNCHANGED vars
    BY <1>1 DEF vars
<1>2. CASE Broker
    BY <1>2 DEF Broker, Produce, OffsetCommit, Rebalance, Assign, EvictParent, outcome
<1>3. ASSUME NEW w \in Workers, NEW p \in Partitions, Deliver(w, p) PROVE TypeMessages'
    BY <1>3, NextMessage DEF Deliver, outcome
<1>4. ASSUME NEW w \in Workers,
             Flush(w) \/ MinRuntimeReached(w) \/ Fail(w) \/ IdleUnanswered(w)
      PROVE  TypeMessages'
    BY <1>4 DEF Flush, MinRuntimeReached, Fail, IdleUnanswered, outcome
<1>5. ASSUME NEW w \in Workers, IdleFlush(w)
      PROVE  /\ held' \in [Workers -> SUBSET Messages]
             /\ applied' \subseteq Messages /\ abandoned' \subseteq Messages
    BY <1>5 DEF IdleFlush
<1>6. ASSUME NEW w \in Workers, Idle(w) PROVE TypeMessages'
    BY <1>5, <1>6 DEF Idle, IdleAssigned, IdleUnassigned
<1> QED
    BY <1>1, <1>2, <1>3, <1>4, <1>6 DEF Next, Worker

\* Every step leaves the streaks in their bounds, and below the one that ends
\* the worker while it runs.
LEMMA ChecksNext ==
  TypeChecks /\ StreaksOpen /\ [Next]_vars => TypeChecks' /\ StreaksOpen'
<1> SUFFICES ASSUME TypeChecks, StreaksOpen, [Next]_vars PROVE TypeChecks' /\ StreaksOpen'
    OBVIOUS
<1> USE DEF TypeChecks, StreaksOpen, Statuses
<1>1. CASE UNCHANGED vars
    BY <1>1 DEF vars
<1>2. CASE Broker
    BY <1>2 DEF Broker, Produce, OffsetCommit, Rebalance, Assign, EvictParent, checks
<1>3. ASSUME NEW w \in Workers, NEW p \in Partitions, Deliver(w, p)
      PROVE  TypeChecks' /\ StreaksOpen'
    BY <1>3 DEF Deliver, checks
<1>4. ASSUME NEW w \in Workers, NEW s \in Statuses,
             NEW m \in 0 .. RequiredStreak, NEW n \in 0 .. RequiredStreak,
             s = "running" => m < RequiredStreak /\ n < RequiredStreak,
             status' = [status EXCEPT ![w] = s],
             streak' = [streak EXCEPT ![w] = m],
             noneStreak' = [noneStreak EXCEPT ![w] = n]
      PROVE  TypeChecks' /\ StreaksOpen'
    BY <1>4
<1>5. ASSUME NEW w \in Workers, Flush(w) \/ MinRuntimeReached(w)
      PROVE  TypeChecks' /\ StreaksOpen'
    BY <1>5 DEF Flush, MinRuntimeReached, checks
<1>6. ASSUME NEW w \in Workers, Fail(w) PROVE TypeChecks' /\ StreaksOpen'
  <2>1. /\ status' = [status EXCEPT ![w] = "failed"]
        /\ UNCHANGED <<streak, noneStreak>>
      BY <1>6 DEF Fail, checks
  <2> QED
      BY <2>1
<1>7. ASSUME NEW w \in Workers, IdleUnanswered(w) PROVE TypeChecks' /\ StreaksOpen'
  <2>1. /\ streak' = [streak EXCEPT ![w] = 0] /\ noneStreak' = [noneStreak EXCEPT ![w] = 0]
        /\ status' = status
      BY <1>7 DEF IdleUnanswered
  <2> QED
      BY <2>1
<1>8. ASSUME NEW w \in Workers, IdleAssigned(w) PROVE TypeChecks' /\ StreaksOpen'
  <2>1. /\ status[w] = "running"
        /\ noneStreak' = [noneStreak EXCEPT ![w] = 0]
        /\ \/ /\ streak' = [streak EXCEPT ![w] = streak[w] + 1]
              /\ IF Enough(streak'[w]) THEN status' = [status EXCEPT ![w] = "caught_up"]
                 ELSE status' = status
           \/ streak' = [streak EXCEPT ![w] = 0] /\ status' = status
      BY <1>8 DEF IdleAssigned, Stop, GoOn
  <2>2. streak[w] + 1 \in 0 .. RequiredStreak
      BY <2>1
  <2>3. CASE streak' = [streak EXCEPT ![w] = 0] /\ status' = status
      BY <2>1, <2>3
  <2>4. CASE streak' = [streak EXCEPT ![w] = streak[w] + 1] /\ Enough(streak'[w])
    <3>1. streak'[w] # 0
        BY <2>2, <2>4
    <3>2. status' = [status EXCEPT ![w] = "caught_up"]
        BY <2>1, <2>4, <3>1
    <3> QED
        BY <2>1, <2>2, <2>4, <3>2
  <2>5. CASE streak' = [streak EXCEPT ![w] = streak[w] + 1] /\ ~ Enough(streak'[w])
    <3>1. status' = status /\ streak[w] + 1 < RequiredStreak
        BY <2>1, <2>2, <2>5 DEF Enough
    <3> QED
        BY <2>1, <2>2, <2>5, <3>1
  <2> QED
      BY <2>1, <2>3, <2>4, <2>5
<1>9. ASSUME NEW w \in Workers, IdleUnassigned(w) PROVE TypeChecks' /\ StreaksOpen'
  <2>1. /\ status[w] = "running"
        /\ streak' = [streak EXCEPT ![w] = 0]
        /\ \/ /\ noneStreak' = [noneStreak EXCEPT ![w] = noneStreak[w] + 1]
              /\ IF Enough(noneStreak'[w]) THEN status' = [status EXCEPT ![w] = "unassigned"]
                 ELSE status' = status
           \/ noneStreak' = noneStreak /\ status' = status
      BY <1>9 DEF IdleUnassigned, Stop, GoOn
  <2>2. noneStreak[w] + 1 \in 0 .. RequiredStreak
      BY <2>1
  <2>3. CASE noneStreak' = noneStreak /\ status' = status
      BY <2>1, <2>3
  <2>4. CASE noneStreak' = [noneStreak EXCEPT ![w] = noneStreak[w] + 1]
             /\ Enough(noneStreak'[w])
      BY <1>4, <2>1, <2>2, <2>4
  <2>5. CASE noneStreak' = [noneStreak EXCEPT ![w] = noneStreak[w] + 1]
             /\ ~ Enough(noneStreak'[w])
    <3>1. status' = status /\ noneStreak[w] + 1 < RequiredStreak
        BY <2>1, <2>2, <2>5 DEF Enough
    <3> QED
        BY <2>1, <2>2, <2>5, <3>1
  <2> QED
      BY <2>1, <2>3, <2>4, <2>5
<1> QED
    BY <1>1, <1>2, <1>3, <1>5, <1>6, <1>7, <1>8, <1>9 DEF Next, Worker, Idle

\* Every step keeps the types and the streaks right.
LEMMA TypeNext == TypeInv /\ [Next]_vars => TypeInv'
  BY FlagsNext, OffsetsNext, MessagesNext, ChecksNext DEF TypeInv

\* The types and the streaks are right in every reachable state.
LEMMA TypeInvariant == Spec => []TypeInv
  BY TypeInit, TypeNext, PTL DEF Spec

\* Every variable has its type in every reachable state: above all, no streak
\* passes the one that is required.
THEOREM TypeCorrect == Spec => []TypeOK
  BY TypeInvariant, TypeSplit, PTL

(***************************************************************************)
(* Messages.  What a partition's next owner is not handed again has been   *)
(* handed to somebody before, so a partition at zero lag has none that was *)
(* not.                                                                    *)
(***************************************************************************)
Delivered == applied \union abandoned \union UNION {held[v] : v \in Workers}

BehindDelivered ==
    \A p \in Partitions : \A k \in 1 .. MaxLog :
        k <= next[p] \/ k <= committed[p] => <<p, k>> \in Delivered

\* The invariant, with what has been delivered by name.
LEMMA CaughtUpByName ==
  CaughtUpMeansDelivered <=>
      \A w \in Workers : status[w] = "caught_up" => checked[w] \subseteq Delivered
  BY DEF CaughtUpMeansDelivered, Delivered

\* No step forgets a message that was delivered: what a worker lets go of has
\* been applied or abandoned.
LEMMA DeliveredGrows ==
  ASSUME TypeMessages, [Next]_vars
  PROVE  Delivered \subseteq Delivered'
<1> USE DEF TypeMessages, Delivered
<1>1. CASE UNCHANGED vars
    BY <1>1 DEF vars
<1>2. CASE Broker
    BY <1>2 DEF Broker, Produce, OffsetCommit, Rebalance, Assign, EvictParent, outcome
<1>3. ASSUME NEW w \in Workers, NEW p \in Partitions, Deliver(w, p)
      PROVE  Delivered \subseteq Delivered'
    BY <1>3 DEF Deliver, outcome
<1>4. ASSUME NEW w \in Workers,
             held' = [held EXCEPT ![w] = {}],
             applied' \union abandoned' = applied \union abandoned \union held[w]
      PROVE  Delivered \subseteq Delivered'
    BY <1>4
<1>5. ASSUME NEW w \in Workers, Flush(w) \/ Fail(w) \/ IdleUnanswered(w) \/ IdleFlush(w)
      PROVE  Delivered \subseteq Delivered'
  <2>1. held' = [held EXCEPT ![w] = {}]
      BY <1>5 DEF Flush, Fail, IdleUnanswered, IdleFlush
  <2>2. applied' \union abandoned' = applied \union abandoned \union held[w]
      BY <1>5 DEF Flush, Fail, IdleUnanswered, IdleFlush
  <2> QED
      BY <1>4, <2>1, <2>2
<1>6. ASSUME NEW w \in Workers, MinRuntimeReached(w) PROVE Delivered \subseteq Delivered'
    BY <1>6 DEF MinRuntimeReached, outcome
<1>7. ASSUME NEW w \in Workers, Idle(w) PROVE Delivered \subseteq Delivered'
    BY <1>5, <1>7 DEF Idle, IdleAssigned, IdleUnassigned
<1> QED
    BY <1>1, <1>2, <1>3, <1>5, <1>6, <1>7 DEF Next, Worker

\* Offsets move over delivered messages only.
LEMMA BehindNext ==
  TypeOffsets /\ TypeMessages /\ BehindDelivered /\ [Next]_vars => BehindDelivered'
<1> SUFFICES ASSUME TypeOffsets, TypeMessages, BehindDelivered, [Next]_vars,
                    NEW q \in Partitions, NEW k \in 1 .. MaxLog,
                    k <= next'[q] \/ k <= committed'[q]
             PROVE  <<q, k>> \in Delivered'
    BY DEF BehindDelivered
<1>1. ASSUME k <= next[q] \/ k <= committed[q] PROVE <<q, k>> \in Delivered'
    BY <1>1, DeliveredGrows DEF BehindDelivered
<1>2. CASE next' = next /\ committed' = committed
    BY <1>1, <1>2
<1>3. ASSUME NEW p \in Partitions, OffsetCommit(p) PROVE <<q, k>> \in Delivered'
    BY <1>1, <1>3 DEF OffsetCommit, TypeOffsets
<1>4. CASE Assign
    BY <1>1, <1>4 DEF Assign
<1>5. ASSUME NEW w \in Workers, NEW p \in Partitions, Deliver(w, p)
      PROVE  <<q, k>> \in Delivered'
  <2>1. CASE k <= next[q] \/ k <= committed[q]
      BY <1>1, <2>1
  <2>2. CASE ~ (k <= next[q] \/ k <= committed[q])
    <3>1. q = p /\ k = next[p] + 1
        BY <1>5, <2>2 DEF Deliver, TypeOffsets
    <3>2. <<p, next[p] + 1>> \in held'[w]
        BY <1>5 DEF Deliver, TypeMessages
    <3> QED
        BY <3>1, <3>2 DEF Delivered
  <2> QED
      BY <2>1, <2>2
<1>6. ASSUME NEW p \in Partitions, Produce(p) PROVE next' = next /\ committed' = committed
    BY <1>6 DEF Produce
<1>7. CASE Rebalance \/ EvictParent
    BY <1>2, <1>7 DEF Rebalance, EvictParent, Revoke
<1>8. ASSUME NEW w \in Workers,
             \/ Flush(w) \/ MinRuntimeReached(w) \/ Fail(w)
             \/ Idle(w) \/ IdleUnanswered(w)
      PROVE  next' = next /\ committed' = committed
    BY <1>8 DEF Flush, MinRuntimeReached, Fail, Idle, IdleAssigned, IdleUnassigned,
                IdleUnanswered, Stop, GoOn, Revoke, partitions
<1>9. CASE UNCHANGED vars
    BY <1>2, <1>9 DEF vars
<1> QED
    BY <1>2, <1>3, <1>4, <1>5, <1>6, <1>7, <1>8, <1>9 DEF Next, Broker, Worker

\* A worker that stops at zero lag has looked at delivered messages only.
LEMMA LookIsDelivered ==
  ASSUME TypeOffsets, TypeMessages, BehindDelivered, [Next]_vars,
         NEW w \in Workers, IdleAssigned(w), NoLag(w)
  PROVE  checked'[w] \subseteq Delivered'
<1>0. checked'[w] = {m \in Messages : m[1] \in Assigned(w) /\ m[2] <= end[m[1]]}
    BY DEF IdleAssigned, TypeMessages
<1> SUFFICES ASSUME NEW p \in Assigned(w), NEW k \in 1 .. MaxLog, k <= end[p]
             PROVE  <<p, k>> \in Delivered'
    BY <1>0 DEF Messages
<1>1. p \in Partitions /\ EffectivePos(p) >= end[p]
    BY DEF Assigned, NoLag
<1>2. EffectivePos(p) \in {next[p], committed[p]}
    BY DEF EffectivePos
<1>3. k <= next[p] \/ k <= committed[p]
    BY <1>1, <1>2 DEF TypeOffsets
<1> QED
    BY <1>1, <1>3, DeliveredGrows DEF BehindDelivered

\* Workers that caught up stay with what they looked at.
LEMMA CaughtUpNext ==
  TypeInv /\ BehindDelivered /\ CaughtUpMeansDelivered /\ [Next]_vars
      => CaughtUpMeansDelivered'
<1> SUFFICES ASSUME TypeInv, BehindDelivered, CaughtUpMeansDelivered, [Next]_vars,
                    NEW v \in Workers, status'[v] = "caught_up"
             PROVE  checked'[v] \subseteq Delivered'
    BY DEF CaughtUpMeansDelivered, Delivered
<1> USE DEF TypeInv, TypeChecks, TypeMessages
<1>1. CASE status[v] = "caught_up" /\ checked'[v] = checked[v]
    BY <1>1, CaughtUpByName, DeliveredGrows
<1>2. CASE UNCHANGED vars
    BY <1>1, <1>2 DEF vars
<1>3. CASE Broker
    BY <1>1, <1>3 DEF Broker, Produce, OffsetCommit, Rebalance, Assign, EvictParent
<1>4. ASSUME NEW w \in Workers,
             \/ \E p \in Partitions : Deliver(w, p)
             \/ Flush(w) \/ MinRuntimeReached(w) \/ Fail(w)
             \/ IdleUnassigned(w) \/ IdleUnanswered(w)
      PROVE  checked'[v] \subseteq Delivered'
  <2>1. checked' = checked
      BY <1>4 DEF Deliver, Flush, MinRuntimeReached, Fail, IdleUnassigned, IdleUnanswered
  <2>2. \/ status' = status
        \/ \E how \in {"failed", "unassigned"} : status' = [status EXCEPT ![w] = how]
      BY <1>4 DEF Deliver, Flush, MinRuntimeReached, Fail, IdleUnassigned,
                  IdleUnanswered, Stop, GoOn
  <2> QED
      BY <1>1, <2>1, <2>2
<1>5. ASSUME NEW w \in Workers, IdleAssigned(w) PROVE checked'[v] \subseteq Delivered'
  <2>1. CASE v # w
      BY <1>1, <1>5, <2>1 DEF IdleAssigned, Stop, GoOn
  <2>2. CASE v = w
    <3>1. NoLag(w)
        BY <1>5, <2>2 DEF IdleAssigned, GoOn
    <3> QED
        BY <1>5, <2>2, <3>1, LookIsDelivered
  <2> QED
      BY <2>1, <2>2
<1> QED
    BY <1>2, <1>3, <1>4, <1>5 DEF Next, Worker, Idle

\* Before anything is delivered nobody has caught up.
LEMMA CaughtUpInit == Init => BehindDelivered /\ CaughtUpMeansDelivered
  BY DEF Init, BehindDelivered, CaughtUpMeansDelivered

\* A worker that stops at zero lag leaves nothing behind in its partitions,
\* whatever rebalances, failed flushes and failed workers came before.
THEOREM CaughtUpCorrect == Spec => []CaughtUpMeansDelivered
<1>1. Init => TypeInv /\ BehindDelivered /\ CaughtUpMeansDelivered
    BY TypeInit, CaughtUpInit
<1>2. TypeInv /\ BehindDelivered /\ CaughtUpMeansDelivered /\ [Next]_vars
          => (TypeInv /\ BehindDelivered /\ CaughtUpMeansDelivered)'
    BY TypeNext, BehindNext, CaughtUpNext DEF TypeInv
<1> QED
    BY <1>1, <1>2, PTL DEF Spec
=============================================================================
