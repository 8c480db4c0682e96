---------------------------- MODULE UpsertTree ----------------------------
(***************************************************************************)
(* How mongo2pg kafka-import writes one event to the tables of its         *)
(* document: apply_upsert_event and apply_delete_event, statement by       *)
(* statement.                                                              *)
(*                                                                         *)
(* A document is a row of the root table and, below it, rows of child      *)
(* tables that refer to their parent row by a foreign key on its id.  An   *)
(* upsert writes the root row, deletes the child rows table by table, and  *)
(* inserts the new ones parents first; a delete deletes the child rows and *)
(* then the root row.                                                      *)
(*                                                                         *)
(* The workers of a consumer group write with sessions of their own.  Each *)
(* statement is a transaction, or all the statements of an event are       *)
(* (transaction batching, with batches of one event).  The foreign keys    *)
(* are DEFERRABLE INITIALLY DEFERRED: PostgreSQL checks them at a commit.  *)
(* In a transaction a statement waits for a row that another transaction   *)
(* has written.                                                            *)
(***************************************************************************)
EXTENDS Naturals, Sequences, FiniteSets, SequencesExt, FiniteSetsExt,
        Subsequences

CONSTANTS
    Workers,        \* workers of the consumer group
    Docs,           \* documents, the primary keys of the root table
    Root,           \* the table of the root mapping
    Mappings,       \* tables of the other mappings, in the order of the file
    ParentOf,       \* the table each of them refers to
    Shapes,         \* child rows below each parent row, per child table
    Bad,            \* child tables that may meet a row without a required field
    MaxEvents,      \* bound: events of the partition
    MaxFaults,      \* bound: kills, lost sessions and evictions
    None            \* no parent, no event

Children == ToSet(Mappings)
Tables   == Children \union {Root}

\* The mappings of a collection, one for each table, form a tree of foreign
\* keys: the loop that follows them up to the root ends.
ASSUME TreeAssumption ==
    /\ Mappings \in Seq(Children) /\ IsInjective(Mappings)
    /\ Root \notin Children
    /\ ParentOf \in [Children -> Tables]
    /\ \E rank \in [Tables -> 0 .. Cardinality(Children)] :
         \A t \in Children : rank[ParentOf[t]] < rank[t]
    /\ Shapes \subseteq [Children -> Nat]
    /\ Bad \subseteq Children
    /\ None \notin Docs \union Nat
    /\ MaxEvents \in Nat /\ MaxFaults \in Nat

VARIABLES
    batching,       \* the statements of an event are one transaction
    log,            \* events of the partition
    owner,          \* the worker the partition is assigned to
    committed,      \* next offset of the group
    position,       \* next offset the owner is handed
    evictions,      \* times the partition was taken from a worker
    faults,         \* faults so far
    pc,             \* worker: what it does next
    session,        \* worker: its PostgreSQL session, "up" or "lost"
    at,             \* worker: offset of the event in hand
    doomed,         \* worker: tables whose child rows are still to be deleted
    pending,        \* worker: stack of rows whose children are to be inserted
    todo,           \* worker: rows still to be inserted below the last popped
    deleted,        \* worker: committed rows its transaction has deleted
    inserted,       \* worker: rows its transaction has written
    rows,           \* committed rows
    nextId,         \* next generated primary key
    shows           \* the event whose tree a document shows, or None

group  == <<batching, log, owner, evictions, faults>>
offset == <<committed, position>>
work   == <<at, doomed, pending, todo>>
store  == <<deleted, inserted, rows, nextId, shows>>
vars == <<batching, log, owner, evictions, faults, committed, position, pc,
          session, at, doomed, pending, todo, deleted, inserted, rows, nextId,
          shows>>

Event   == [doc : Docs, kind : {"upsert", "delete"}, shape : Shapes]
Writing == {"root", "prune", "grow", "fell", "settle", "commit"}
Ended   == {"failed", "refused", "killed"}

\* A row carries the offset of the event that wrote it.
Row == [table : {Root}, id : Docs, parent : {None}, event : 1 .. MaxEvents]
         \union
       [table : Children, id : Nat, parent : Docs \union Nat,
        event : 1 .. MaxEvents]

TypeOK ==
    /\ batching \in BOOLEAN
    /\ log \in Seq(Event) /\ Len(log) <= MaxEvents
    /\ owner \in Workers
    /\ committed \in 1 .. MaxEvents + 1 /\ position \in 1 .. MaxEvents + 1
    /\ evictions \in 0 .. MaxFaults /\ faults \in 0 .. MaxFaults
    /\ pc \in [Workers -> {"poll"} \union Writing \union Ended]
    /\ session \in [Workers -> {"up", "lost"}]
    /\ at \in [Workers -> 0 .. MaxEvents]
    /\ doomed \in [Workers -> Seq(Children)]
    /\ pending \in [Workers -> Seq(Row)]
    /\ \A w \in Workers : \A i \in DOMAIN todo[w] :
         todo[w][i] \in [table : Children, parent : Docs \union Nat]
    /\ deleted \in [Workers -> SUBSET Row]
    /\ inserted \in [Workers -> SUBSET Row]
    /\ rows \subseteq Row
    /\ nextId \in Nat
    /\ shows \in [Docs -> {None} \union (0 .. MaxEvents)]

----------------------------------------------------------------------------
(* The tree of mappings and the rows of a document.                        *)

\* Number of foreign keys from a table up to the root.
Depth[t \in Tables] == IF t = Root THEN 0 ELSE 1 + Depth[ParentOf[t]]

\* Faults: children are deleted in the order of the file; the tables that
\* refer to the root are left to a cascade that the keys do not have.
FileOrder  == Mappings
NestedOnly == Pick(Mappings, {t \in Children : Depth[t] > 1})

\* The child tables deepest first, equals in the order of the file.
DeleteOrder ==
    LET deepest == Max({Depth[t] : t \in Tables})
    IN  FlattenSeq([i \in 1 .. deepest |->
            Pick(Mappings, {t \in Children : Depth[t] = deepest + 1 - i})])

\* The mappings whose foreign key refers to a table.
DirectChildren(t) == Pick(Mappings, {c \in Children : ParentOf[c] = t})

\* The child rows of a document in V, per table: those that reach its primary
\* key through parent rows in V.
RowsBelow(V, d) ==
    LET below[t \in Children] ==
          {r \in V : /\ r.table = t
                     /\ IF ParentOf[t] = Root
                        THEN r.parent = d
                        ELSE \E p \in below[ParentOf[t]] : p.id = r.parent}
    IN  below

RootRow(V, d) == {r \in V : r.table = Root /\ r.id = d}

TreeOf(d) == RootRow(rows, d) \union UNION Range(RowsBelow(rows, d))

\* Every child row has its parent row.
KeysHold(R) ==
    \A r \in R : r.table # Root =>
        \E p \in R : p.table = ParentOf[r.table] /\ p.id = r.parent

----------------------------------------------------------------------------
(* Statements.                                                             *)

ev(w)      == log[at[w]]
Visible(w) == (rows \ deleted[w]) \union inserted[w]

\* Rows that the transactions of other workers have written.
Locked(w) == UNION {deleted[v] \union inserted[v] : v \in Workers \ {w}}

\* The rows the next statement of w writes over.
Target(w) ==
    IF pc[w] = "prune"
    THEN RowsBelow(Visible(w), ev(w).doc)[Head(doomed[w])]
    ELSE IF pc[w] \in {"root", "fell"}
    THEN RootRow(Visible(w) \union Locked(w), ev(w).doc)
    ELSE {}

\* It waits for the transaction that has written one of them.
Waits(w) == Target(w) \intersect Locked(w) # {}

\* A statement that replaces the rows old by the rows new and leads to next.
\* Outside a transaction it commits at once, and is refused when it breaks a
\* foreign key: an error that ends the process.
Statement(w, old, new, next) ==
    /\ session[w] = "up" /\ ~Waits(w)
    /\ IF batching
       THEN /\ deleted' = [deleted EXCEPT ![w] = @ \union (old \intersect rows)]
            /\ inserted' = [inserted EXCEPT ![w] = (@ \ old) \union new]
            /\ pc' = [pc EXCEPT ![w] = next]
            /\ UNCHANGED <<rows, shows>>
       ELSE /\ IF KeysHold((rows \ old) \union new)
               THEN /\ rows' = (rows \ old) \union new
                    /\ pc' = [pc EXCEPT ![w] = next]
               ELSE /\ pc' = [pc EXCEPT ![w] = "refused"]
                    /\ UNCHANGED rows
            /\ shows' = [shows EXCEPT ![ev(w).doc] = None]
            /\ UNCHANGED <<deleted, inserted>>

\* Fault: the offset after the next one is committed.
OffsetTwoAfter(i) == i + 2

\* The offset commit_offset commits.
OffsetAfter(i) == i + 1

\* What follows the deletes: the inserts of an upsert, the root of a delete.
AfterPrune(w, left) ==
    IF left # <<>> THEN "prune"
    ELSE IF ev(w).kind = "upsert" THEN "grow" ELSE "fell"

\* The transaction of w and what it remembers of its event are gone.
Forget(w) ==
    /\ deleted' = [deleted EXCEPT ![w] = {}]
    /\ inserted' = [inserted EXCEPT ![w] = {}]
    /\ doomed' = [doomed EXCEPT ![w] = <<>>]
    /\ pending' = [pending EXCEPT ![w] = <<>>]
    /\ todo' = [todo EXCEPT ![w] = <<>>]
    /\ at' = [at EXCEPT ![w] = 0]

----------------------------------------------------------------------------
Init ==
    /\ batching \in BOOLEAN
    /\ log = <<>>
    /\ owner \in Workers
    /\ committed = 1 /\ position = 1 /\ evictions = 0 /\ faults = 0
    /\ pc = [w \in Workers |-> "poll"]
    /\ session = [w \in Workers |-> "up"]
    /\ at = [w \in Workers |-> 0]
    /\ doomed = [w \in Workers |-> <<>>]
    /\ pending = [w \in Workers |-> <<>>]
    /\ todo = [w \in Workers |-> <<>>]
    /\ deleted = [w \in Workers |-> {}]
    /\ inserted = [w \in Workers |-> {}]
    /\ rows = {} /\ nextId = 1
    /\ shows = [d \in Docs |-> 0]

\* The connector adds an event; asked for when the owner has read all others.
Produce ==
    /\ Len(log) < MaxEvents /\ position > Len(log)
    /\ \E new \in Event : log' = Append(log, new)
    /\ UNCHANGED <<batching, owner, evictions, faults, offset, pc, session,
                   work, store>>

\* The owner is handed the next event; BEGIN fails on a lost session.
Deliver(w) ==
    /\ pc[w] = "poll" /\ owner = w /\ position <= Len(log)
    /\ position' = position + 1
    /\ at' = [at EXCEPT ![w] = position]
    /\ doomed' = [doomed EXCEPT ![w] = DeleteOrder]
    /\ pc' = [pc EXCEPT ![w] =
                IF batching /\ session[w] = "lost" THEN "failed"
                ELSE IF log[position].kind = "upsert" THEN "root"
                ELSE IF DeleteOrder # <<>> THEN "prune" ELSE "fell"]
    /\ UNCHANGED <<group, committed, session, pending, todo, store>>

\* Fault: DO NOTHING when the root row exists.
InsertRoot(w) ==
    LET new == [table |-> Root, id |-> ev(w).doc, parent |-> None,
                event |-> at[w]]
        old == RootRow(Visible(w), ev(w).doc)
    IN
    /\ pc[w] = "root"
    /\ Statement(w, {}, IF old = {} THEN {new} ELSE {},
                 AfterPrune(w, doomed[w]))
    /\ pending' = [pending EXCEPT ![w] = <<new>>]
    /\ UNCHANGED <<group, offset, session, at, doomed, todo, nextId>>

\* INSERT ... ON CONFLICT (pk) DO UPDATE on the root table.
UpsertRoot(w) ==
    LET new == [table |-> Root, id |-> ev(w).doc, parent |-> None,
                event |-> at[w]]
    IN
    /\ pc[w] = "root"
    /\ Statement(w, RootRow(Visible(w), ev(w).doc), {new},
                 AfterPrune(w, doomed[w]))
    /\ pending' = [pending EXCEPT ![w] = <<new>>]
    /\ UNCHANGED <<group, offset, session, at, doomed, todo, nextId>>

\* DELETE FROM one child table, joined to its parents up to the root key.
DeleteChildren(w) ==
    /\ pc[w] = "prune"
    /\ Statement(w, RowsBelow(Visible(w), ev(w).doc)[Head(doomed[w])], {},
                 AfterPrune(w, Tail(doomed[w])))
    /\ doomed' = [doomed EXCEPT ![w] = Tail(@)]
    /\ UNCHANGED <<group, offset, session, at, pending, todo, nextId>>

\* The last parent row pushed is popped: its child rows are to be inserted,
\* mapping by mapping.  When there is none left the event is written.
NextParent(w) ==
    LET parent == Last(pending[w])
        below(c) == [i \in 1 .. ev(w).shape[c] |->
                        [table |-> c, parent |-> parent.id]]
    IN
    /\ pc[w] = "grow" /\ todo[w] = <<>>
    /\ IF pending[w] = <<>>
       THEN /\ pc' = [pc EXCEPT ![w] = "settle"]
            /\ UNCHANGED <<pending, todo>>
       ELSE /\ pending' = [pending EXCEPT ![w] = Front(@)]
            /\ todo' = [todo EXCEPT ![w] =
                 FlattenSeq([i \in DOMAIN DirectChildren(parent.table) |->
                     below(DirectChildren(parent.table)[i])])]
            /\ UNCHANGED pc
    /\ UNCHANGED <<group, offset, session, at, doomed, store>>

\* INSERT ... RETURNING pk: the new row will be a parent in its turn.
InsertChild(w) ==
    LET new == [table |-> Head(todo[w]).table, id |-> nextId,
                parent |-> Head(todo[w]).parent, event |-> at[w]]
    IN
    /\ pc[w] = "grow" /\ todo[w] # <<>>
    /\ Statement(w, {}, {new}, "grow")
    /\ nextId' = nextId + 1
    /\ pending' = [pending EXCEPT ![w] = Append(@, new)]
    /\ todo' = [todo EXCEPT ![w] = Tail(@)]
    /\ UNCHANGED <<group, offset, session, at, doomed>>

\* A child row lacks a required field, or a value is too long: an error that
\* ends the process with the statements before it sent.
BadChild(w) ==
    /\ pc[w] = "grow" /\ todo[w] # <<>> /\ Head(todo[w]).table \in Bad
    /\ pc' = [pc EXCEPT ![w] = "failed"]
    /\ Forget(w)
    /\ UNCHANGED <<group, offset, session, rows, nextId, shows>>

\* DELETE FROM the root table.
DeleteRoot(w) ==
    /\ pc[w] = "fell"
    /\ Statement(w, RootRow(Visible(w), ev(w).doc), {}, "settle")
    /\ UNCHANGED <<group, offset, session, work, nextId>>

\* The last statement is answered: the offset is committed, which fails for a
\* worker that has lost the partition.  A transaction remains to be committed.
Settle(w) ==
    /\ pc[w] = "settle" /\ session[w] = "up"
    /\ committed' = IF owner = w THEN OffsetAfter(at[w]) ELSE committed
    /\ IF batching
       THEN /\ pc' = [pc EXCEPT ![w] = "commit"]
            /\ UNCHANGED <<work, deleted, inserted, shows>>
       ELSE /\ pc' = [pc EXCEPT ![w] = "poll"]
            /\ shows' = [shows EXCEPT ![ev(w).doc] = at[w]]
            /\ Forget(w)
    /\ UNCHANGED <<group, position, session, rows, nextId>>

\* COMMIT, where the foreign keys are checked; a failed one ends the process.
Commit(w) ==
    /\ pc[w] = "commit"
    /\ IF session[w] = "up" /\ KeysHold(Visible(w))
       THEN /\ rows' = Visible(w)
            /\ pc' = [pc EXCEPT ![w] = "poll"]
       ELSE /\ pc' = [pc EXCEPT ![w] =
                        IF session[w] = "up" THEN "refused" ELSE "failed"]
            /\ UNCHANGED rows
    /\ Forget(w)
    /\ UNCHANGED <<group, offset, session, nextId, shows>>

\* A statement fails on a lost session: the event goes to the dead-letter
\* topic, a transaction is rolled back, the loop goes on.
DeadLetter(w) ==
    /\ pc[w] \in Writing \ {"commit"} /\ session[w] = "lost"
    /\ pc' = [pc EXCEPT ![w] = "poll"]
    /\ Forget(w)
    /\ UNCHANGED <<group, offset, session, rows, nextId, shows>>

\* Two transactions wait for each other: PostgreSQL ends one of them with an
\* error, which ends its process.
DeadlockVictim(w) ==
    /\ session[w] = "up" /\ Waits(w)
    /\ \E v \in Workers \ {w} : session[v] = "up" /\ Waits(v)
    /\ pc' = [pc EXCEPT ![w] = "failed"]
    /\ Forget(w)
    /\ UNCHANGED <<group, offset, session, rows, nextId, shows>>

----------------------------------------------------------------------------
(* Failures.                                                               *)

\* The session of w ends; with it its transaction.
LoseSession(w) ==
    /\ faults < MaxFaults /\ pc[w] \in Writing /\ session[w] = "up"
    /\ session' = [session EXCEPT ![w] = "lost"]
    /\ faults' = faults + 1
    /\ deleted' = [deleted EXCEPT ![w] = {}]
    /\ inserted' = [inserted EXCEPT ![w] = {}]
    /\ UNCHANGED <<batching, log, owner, evictions, offset, pc, work, rows,
                   nextId, shows>>

Kill(w) ==
    /\ faults < MaxFaults /\ pc[w] \in Writing
    /\ faults' = faults + 1
    /\ pc' = [pc EXCEPT ![w] = "killed"]
    /\ Forget(w)
    /\ UNCHANGED <<batching, log, owner, evictions, offset, session, rows,
                   nextId, shows>>

\* A process that has ended is started again and reads from the committed
\* offset; the broker has given it the partition if it was the owner.
Restart(w) ==
    /\ pc[w] \in Ended /\ faults < MaxFaults
    /\ faults' = faults + 1
    /\ pc' = [pc EXCEPT ![w] = "poll"]
    /\ session' = [session EXCEPT ![w] = "up"]
    /\ position' = IF owner = w THEN committed ELSE position
    /\ Forget(w)
    /\ UNCHANGED <<batching, log, owner, evictions, committed, rows, nextId,
                   shows>>

\* The group takes the partition from a worker that has not polled in time,
\* even while it is writing an event.
Evict ==
    /\ faults < MaxFaults
    /\ \E w \in Workers \ {owner} : owner' = w
    /\ position' = committed
    /\ faults' = faults + 1 /\ evictions' = evictions + 1
    /\ UNCHANGED <<batching, log, committed, pc, session, work, store>>

Next ==
    \/ Produce
    \/ \E w \in Workers :
         \/ Deliver(w) \/ UpsertRoot(w) \/ DeleteChildren(w) \/ NextParent(w)
         \/ InsertChild(w) \/ BadChild(w) \/ DeleteRoot(w) \/ Settle(w)
         \/ Commit(w) \/ DeadLetter(w) \/ DeadlockVictim(w)
         \/ LoseSession(w) \/ Kill(w) \/ Restart(w)
    \/ Evict

Spec == Init /\ [][Next]_vars

----------------------------------------------------------------------------
(* Properties.                                                             *)

\* The rows of document d are exactly the tree of event i: one root row, below
\* each row the number of child rows its shape says, and nothing else.
IsTree(d, i) ==
    LET tree == TreeOf(d) IN
    IF i = 0 \/ (i > 0 /\ log[i].kind = "delete")
    THEN tree = {}
    ELSE /\ Cardinality(RootRow(rows, d)) = 1
         /\ \A r \in tree : r.event = i
         /\ \A p \in tree : \A c \in Children :
              ParentOf[c] = p.table =>
                Cardinality({r \in tree : r.table = c /\ r.parent = p.id})
                  = log[i].shape[c]

\* Whatever workers are evicted, killed or lose their session, with batching
\* the committed rows of a document are at any time the whole tree of one
\* event: apply_upsert_event never shows a tree in parts or two at once.
BatchedTreeIsWhole ==
    batching => \A d \in Docs : \E i \in 0 .. Len(log) :
        (i > 0 => log[i].doc = d) /\ IsTree(d, i)

\* Without batching a document that no interrupted event has touched since
\* shows the whole tree of the last event applied to it: the statements of an
\* event leave no row of an earlier tree, torn ones included.
AppliedTreeIsWhole ==
    ~batching /\ evictions = 0 =>
        \A d \in Docs : shows[d] # None => IsTree(d, shows[d])

\* As long as no partition changes hands, the order of the statements of an
\* event never makes PostgreSQL refuse one for a foreign key.
NeverRefused == evictions = 0 => \A w \in Workers : pc[w] # "refused"
============================================================================
