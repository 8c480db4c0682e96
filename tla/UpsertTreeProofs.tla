-------------------------- MODULE UpsertTreeProofs --------------------------
(***************************************************************************)
(* Proofs about UpsertTree: types, that no statement is refused, that an   *)
(* applied event leaves its tree and nothing else, and that transactions   *)
(* of several workers never show a tree in parts.                          *)
(***************************************************************************)
EXTENDS UpsertTree, SequenceLemmas

----------------------------------------------------------------------------
(* The tree of mappings.                                                   *)

\* Tables are finitely many, and a table ranks above the one it refers to.
LEMMA Ranked ==
  \E N \in Nat : \E rank \in [Tables -> 0 .. N] :
    \A t \in Children : rank[ParentOf[t]] < rank[t]
<1>1. Mappings \in Seq(Children)
    BY TreeAssumption
<1>2. Cardinality(Children) \in Nat
    BY <1>1, CardToSet DEF Children
<1> QED
    BY <1>2, TreeAssumption

\* Induction from the root: a set with the root, and with a table whenever it
\* has the one the table refers to, has all tables.
LEMMA TreeInduction ==
  ASSUME NEW S, Root \in S, \A t \in Children : ParentOf[t] \in S => t \in S
  PROVE  Tables \subseteq S
<1>1. PICK N \in Nat : \E rank \in [Tables -> 0 .. N] :
          \A t \in Children : rank[ParentOf[t]] < rank[t]
    BY Ranked
<1>2. PICK rank \in [Tables -> 0 .. N] :
          \A t \in Children : rank[ParentOf[t]] < rank[t]
    BY <1>1
<1>3. Tables = Children \union {Root} /\ ParentOf \in [Children -> Tables]
    BY TreeAssumption DEF Tables
<1> DEFINE T == {n \in 0 .. N : \A t \in Tables : rank[t] <= n => t \in S}
<1>4. 0 \in T
  <2>1. ASSUME NEW t \in Tables, rank[t] <= 0 PROVE t \in S
    <3>1. t \notin Children
        BY <2>1, <1>2, <1>3
    <3> QED
        BY <3>1, <1>3
  <2> QED
      BY <2>1, <1>1
<1>5. ASSUME NEW n \in 1 .. N, n - 1 \in T PROVE n \in T
  <2>1. ASSUME NEW t \in Tables, rank[t] <= n PROVE t \in S
    <3>1. CASE t \in Children
      <4>1. rank[ParentOf[t]] <= n - 1 /\ ParentOf[t] \in Tables
          BY <2>1, <3>1, <1>2, <1>3
      <4> QED
          BY <4>1, <3>1, <1>5
    <3> QED
        BY <3>1, <2>1, <1>3
  <2> QED
      BY <2>1
<1> HIDE DEF T
<1>6. 0 .. N \subseteq T
    BY <1>1, <1>4, <1>5, UpTo
<1>7. N \in T
    BY <1>1, <1>6
<1> QED
    BY <1>7, <1>2 DEF T

\* f has a given value at the root and, at a table, one computed by G from the
\* value at its parent.
Computes(f, first, G) ==
    /\ f[Root] = first
    /\ \A t \in Children : f[t] = G[<<t, f[ParentOf[t]]>>]

\* Recursion down the tree: there is such a function for every step G.
LEMMA TreeRecursion ==
  ASSUME NEW V, NEW first \in V, NEW G \in [Children \X V -> V]
  PROVE  \E f \in [Tables -> V] : Computes(f, first, G)
<1>1. PICK N \in Nat : \E rank \in [Tables -> 0 .. N] :
          \A t \in Children : rank[ParentOf[t]] < rank[t]
    BY Ranked
<1>2. PICK rank \in [Tables -> 0 .. N] :
          \A t \in Children : rank[ParentOf[t]] < rank[t]
    BY <1>1
<1>3. /\ Tables = Children \union {Root} /\ ParentOf \in [Children -> Tables]
      /\ Root \notin Children
    BY TreeAssumption DEF Tables
<1> DEFINE
      Good(f, n) == /\ f[Root] = first
                    /\ \A t \in Children :
                         rank[t] <= n => f[t] = G[<<t, f[ParentOf[t]]>>]
      T == {n \in 0 .. N : \E f \in [Tables -> V] : Good(f, n)}
<1>4. 0 \in T
  <2> DEFINE f == [t \in Tables |-> first]
  <2>1. \A t \in Children : ~(rank[t] <= 0)
      BY <1>2, <1>3
  <2>2. f \in [Tables -> V] /\ Good(f, 0)
      BY <2>1, <1>3
  <2> QED
      BY <2>2, <1>1
<1>5. ASSUME NEW n \in 1 .. N, n - 1 \in T PROVE n \in T
  <2>1. PICK f \in [Tables -> V] : Good(f, n - 1)
      BY <1>5
  <2> DEFINE g == [t \in Tables |->
                     IF t = Root THEN first
                     ELSE IF rank[t] <= n THEN G[<<t, f[ParentOf[t]]>>]
                     ELSE first]
  <2>2. g \in [Tables -> V]
    <3> SUFFICES ASSUME NEW t \in Tables, t # Root
                 PROVE  G[<<t, f[ParentOf[t]]>>] \in V
        OBVIOUS
    <3>1. <<t, f[ParentOf[t]]>> \in Children \X V
        BY <2>1, <1>3
    <3> QED
        BY <3>1
  <2>3. ASSUME NEW t \in Tables, rank[t] <= n - 1 PROVE g[t] = f[t]
    <3>1. CASE t = Root
        BY <3>1, <2>1
    <3>2. CASE t # Root
      <4>1. t \in Children /\ rank[t] <= n
          BY <3>2, <2>3, <1>2, <1>3
      <4> QED
          BY <4>1, <3>2, <2>1, <2>3
    <3> QED
        BY <3>1, <3>2
  <2>4. ASSUME NEW t \in Children, rank[t] <= n
        PROVE  g[t] = G[<<t, g[ParentOf[t]]>>]
    <3>1. rank[ParentOf[t]] <= n - 1 /\ ParentOf[t] \in Tables /\ t \in Tables /\ t # Root
        BY <2>4, <1>2, <1>3
    <3>2. g[ParentOf[t]] = f[ParentOf[t]]
        BY <3>1, <2>3
    <3> QED
        BY <3>1, <3>2, <2>4
  <2>5. g[Root] = first
      BY <1>3
  <2> HIDE DEF g
  <2> QED
      BY <2>2, <2>4, <2>5
<1> HIDE DEF T
<1>6. 0 .. N \subseteq T
    BY <1>1, <1>4, <1>5, UpTo
<1>7. PICK f \in [Tables -> V] : Good(f, N)
  <2>1. N \in T
      BY <1>1, <1>6
  <2> QED
      BY <2>1 DEF T
<1>8. \A t \in Children : rank[t] <= N
    BY <1>2, <1>3
<1> QED
    BY <1>7, <1>8 DEF Computes

\* mapping_fk_depth_to_root counts the foreign keys up to the root.
LEMMA DepthFacts ==
  /\ Depth \in [Tables -> Nat] /\ Depth[Root] = 0
  /\ \A t \in Children : Depth[t] = 1 + Depth[ParentOf[t]]
<1>1. /\ Tables = Children \union {Root} /\ ParentOf \in [Children -> Tables]
      /\ Root \notin Children
    BY TreeAssumption DEF Tables
<1> DEFINE G == [p \in Children \X Nat |-> 1 + p[2]]
           Eq(f) == f = [t \in Tables |-> IF t = Root THEN 0 ELSE 1 + f[ParentOf[t]]]
<1>2. PICK f \in [Tables -> Nat] : Computes(f, 0, G)
  <2> DEFINE V == Nat
             first == 0
  <2>1. first \in V /\ G \in [Children \X V -> V]
      OBVIOUS
  <2> HIDE DEF V, G, first
  <2>2. \E f \in [Tables -> V] : Computes(f, first, G)
      BY <2>1, TreeRecursion
  <2> QED
      BY <2>2 DEF V, first
<1>3. \A t \in Children : f[t] = 1 + f[ParentOf[t]]
    BY <1>1, <1>2 DEF Computes
<1>4. Eq(f)
    BY <1>1, <1>2, <1>3 DEF Computes
<1>5. Eq(Depth)
  <2>1. \E g : Eq(g)
      BY <1>4
  <2> HIDE DEF Eq
  <2> QED
      BY <2>1 DEF Depth, Eq
<1>6. Depth[Root] = 0 /\ \A t \in Children : Depth[t] = 1 + Depth[ParentOf[t]]
    BY <1>1, <1>5
<1>7. DOMAIN Depth = Tables
    BY <1>5
<1> DEFINE S == {t \in Tables : Depth[t] \in Nat}
<1>8. Tables \subseteq S
  <2>1. Root \in S /\ \A t \in Children : ParentOf[t] \in S => t \in S
      BY <1>1, <1>6
  <2> HIDE DEF S
  <2> QED
      BY <2>1, TreeInduction
<1>9. Depth = [t \in Tables |-> Depth[t]]
    BY <1>5
<1> QED
    BY <1>6, <1>8, <1>9

----------------------------------------------------------------------------
(* The rows below a document.                                              *)

\* p is the row that r refers to.
ParentRow(p, r) == p.table = ParentOf[r.table] /\ p.id = r.parent

\* The child rows of document d in V.
Below(V, d) == UNION {RowsBelow(V, d)[t] : t \in Children}

\* The rows of document d in V.
TreeIn(V, d) == RootRow(V, d) \union Below(V, d)

\* No two child rows have a primary key in common.
Unique(V) == \A r, s \in V :
    r.table \in Children /\ s.table \in Children /\ r.id = s.id => r = s

\* What build_delete_sql_for_mapping joins: the rows of a table whose parent is
\* the root key or one of the rows of the table they refer to.
LEMMA RowsBelowFacts ==
  ASSUME NEW V, NEW d
  PROVE  /\ DOMAIN RowsBelow(V, d) = Children
         /\ \A t \in Children :
              RowsBelow(V, d)[t] =
                {r \in V : /\ r.table = t
                           /\ IF ParentOf[t] = Root
                              THEN r.parent = d
                              ELSE \E p \in RowsBelow(V, d)[ParentOf[t]] : p.id = r.parent}
<1>1. /\ Tables = Children \union {Root} /\ ParentOf \in [Children -> Tables]
      /\ Root \notin Children
    BY TreeAssumption DEF Tables
<1> DEFINE
      Rows(t, B) == {r \in V : /\ r.table = t
                               /\ IF ParentOf[t] = Root
                                  THEN r.parent = d
                                  ELSE \E p \in B : p.id = r.parent}
      X == SUBSET V
      e == {}
      G == [p \in Children \X X |-> Rows(p[1], p[2])]
      Eq(f) == f = [t \in Children |->
                      {r \in V : /\ r.table = t
                                 /\ IF ParentOf[t] = Root
                                    THEN r.parent = d
                                    ELSE \E p \in f[ParentOf[t]] : p.id = r.parent}]
<1>2. PICK f \in [Tables -> X] : Computes(f, e, G)
  <2>1. e \in X /\ G \in [Children \X X -> X]
      OBVIOUS
  <2> HIDE DEF X, G, e
  <2> QED
      BY <2>1, TreeRecursion
<1>3. \A t \in Children : f[t] = Rows(t, f[ParentOf[t]])
  <2> SUFFICES ASSUME NEW t \in Children PROVE f[t] = Rows(t, f[ParentOf[t]])
      OBVIOUS
  <2>1. f[ParentOf[t]] \in X
      BY <1>1, <1>2
  <2>2. <<t, f[ParentOf[t]]>> \in Children \X X
      BY <2>1
  <2>3. f[t] = G[<<t, f[ParentOf[t]]>>]
      BY <1>2 DEF Computes
  <2> QED
      BY <2>2, <2>3
<1> DEFINE g == [t \in Children |-> f[t]]
<1>4. \A t \in Children : ParentOf[t] # Root => g[ParentOf[t]] = f[ParentOf[t]]
    BY <1>1
<1>5. \A t \in Children : g[t] =
         {r \in V : /\ r.table = t
                    /\ IF ParentOf[t] = Root
                       THEN r.parent = d
                       ELSE \E p \in g[ParentOf[t]] : p.id = r.parent}
  <2> SUFFICES ASSUME NEW t \in Children
               PROVE  g[t] =
                       {r \in V : /\ r.table = t
                                  /\ IF ParentOf[t] = Root
                                     THEN r.parent = d
                                     ELSE \E p \in g[ParentOf[t]] : p.id = r.parent}
      OBVIOUS
  <2>1. g[t] = f[t] /\ f[t] = Rows(t, f[ParentOf[t]])
      BY <1>3
  <2> HIDE DEF g
  <2> QED
      BY <2>1, <1>4
<1>6. Eq(g)
  <2>1. g = [t \in Children |-> g[t]]
      OBVIOUS
  <2> HIDE DEF g
  <2> QED
      BY <2>1, <1>5
<1>7. Eq(RowsBelow(V, d))
  <2>1. \E h : Eq(h)
      BY <1>6
  <2> HIDE DEF Eq
  <2> QED
      BY <2>1 DEF RowsBelow, Eq
<1> HIDE DEF Rows, X, G, g
<1> QED
    BY <1>7

\* The same, of the child rows of all tables.
LEMMA BelowFacts ==
  ASSUME NEW V, NEW d
  PROVE  /\ \A r : r \in Below(V, d) <=>
              /\ r \in V /\ r.table \in Children
              /\ IF ParentOf[r.table] = Root
                 THEN r.parent = d
                 ELSE \E p \in Below(V, d) : ParentRow(p, r)
         /\ \A t \in Children : RowsBelow(V, d)[t] = {r \in Below(V, d) : r.table = t}
         /\ UNION Range(RowsBelow(V, d)) = Below(V, d)
<1> DEFINE B == RowsBelow(V, d)
<1>1. /\ DOMAIN B = Children
      /\ \A t \in Children :
           B[t] = {r \in V : /\ r.table = t
                             /\ IF ParentOf[t] = Root
                                THEN r.parent = d
                                ELSE \E p \in B[ParentOf[t]] : p.id = r.parent}
    BY RowsBelowFacts
<1>2. Tables = Children \union {Root} /\ ParentOf \in [Children -> Tables]
    BY TreeAssumption DEF Tables
<1> HIDE DEF B
<1>3. Below(V, d) = UNION {B[t] : t \in Children}
    BY DEF Below, B
<1>4. \A t \in Children : \A r \in B[t] : r.table = t /\ r \in V
    BY <1>1
<1>5. \A t \in Children : B[t] = {r \in Below(V, d) : r.table = t}
    BY <1>3, <1>4
<1>6. \A r : r \in Below(V, d) <=> r.table \in Children /\ r \in B[r.table]
    BY <1>3, <1>4
<1>7. ASSUME NEW r, r.table \in Children
      PROVE  r \in B[r.table] <=>
               /\ r \in V
               /\ IF ParentOf[r.table] = Root
                  THEN r.parent = d
                  ELSE \E p \in Below(V, d) : ParentRow(p, r)
  <2>1. ParentOf[r.table] # Root =>
          B[ParentOf[r.table]] = {p \in Below(V, d) : p.table = ParentOf[r.table]}
      BY <1>2, <1>5, <1>7
  <2>2. r \in B[r.table] <=>
          /\ r \in V
          /\ IF ParentOf[r.table] = Root
             THEN r.parent = d
             ELSE \E p \in B[ParentOf[r.table]] : p.id = r.parent
      BY <1>1, <1>7
  <2> QED
      BY <2>1, <2>2 DEF ParentRow
<1>8. UNION Range(B) = Below(V, d)
    BY <1>1, <1>3 DEF Range
<1> QED
    BY <1>5, <1>6, <1>7, <1>8 DEF B

\* Induction: a set has all child rows of a document if it has each one whose
\* parent, unless that is the root row, it has.
LEMMA BelowInduction ==
  ASSUME NEW V, NEW d, NEW S,
         \A r \in Below(V, d) :
           (ParentOf[r.table] = Root \/ \E p \in Below(V, d) : ParentRow(p, r) /\ p \in S)
              => r \in S
  PROVE  Below(V, d) \subseteq S
<1> DEFINE T == {t \in Tables : \A r \in Below(V, d) : r.table = t => r \in S}
<1>1. /\ Tables = Children \union {Root} /\ ParentOf \in [Children -> Tables]
      /\ Root \notin Children
    BY TreeAssumption DEF Tables
<1>2. \A r \in Below(V, d) :
        /\ r.table \in Children
        /\ ParentOf[r.table] # Root => \E p \in Below(V, d) : ParentRow(p, r)
    BY BelowFacts
<1>3. Root \in T
    BY <1>1, <1>2
<1>4. ASSUME NEW t \in Children, ParentOf[t] \in T PROVE t \in T
  <2> SUFFICES ASSUME NEW r \in Below(V, d), r.table = t PROVE r \in S
      BY <1>1
  <2>1. CASE ParentOf[t] = Root
      BY <2>1
  <2>2. CASE ParentOf[t] # Root
    <3>1. PICK p \in Below(V, d) : ParentRow(p, r)
        BY <2>2, <1>2
    <3>2. p \in S
        BY <3>1, <1>4 DEF ParentRow
    <3> QED
        BY <3>1, <3>2
  <2> QED
      BY <2>1, <2>2
<1> HIDE DEF T
<1>5. Tables \subseteq T
    BY <1>3, <1>4, TreeInduction
<1> QED
    BY <1>1, <1>2, <1>5 DEF T

\* Child rows that are all in W are child rows there.
LEMMA BelowIn ==
  ASSUME NEW V, NEW W, NEW d, Below(V, d) \subseteq W
  PROVE  Below(V, d) \subseteq Below(W, d)
<1>1. ASSUME NEW r \in Below(V, d),
             ParentOf[r.table] = Root
               \/ \E p \in Below(V, d) : ParentRow(p, r) /\ p \in Below(W, d)
      PROVE  r \in Below(W, d)
  <2>1. /\ r \in W /\ r.table \in Children
        /\ ParentOf[r.table] = Root => r.parent = d
      BY BelowFacts
  <2> QED
      BY <2>1, <1>1, BelowFacts
<1> QED
    BY <1>1, BelowInduction

\* No child row is below two documents.
LEMMA BelowDisjoint ==
  ASSUME NEW V, Unique(V), NEW d, NEW e, d # e
  PROVE  Below(V, d) \intersect Below(V, e) = {}
<1> DEFINE S == V \ Below(V, e)
<1>1. ASSUME NEW r \in Below(V, d),
             ParentOf[r.table] = Root
               \/ \E p \in Below(V, d) : ParentRow(p, r) /\ p \in S
      PROVE  r \in S
  <2>1. r \in V
      BY BelowFacts
  <2> SUFFICES ASSUME r \in Below(V, e) PROVE FALSE
      BY <2>1
  <2>2. CASE ParentOf[r.table] = Root
    <3>1. r.parent = d /\ r.parent = e
        BY <2>2, BelowFacts
    <3> QED
        BY <3>1
  <2>3. CASE ParentOf[r.table] # Root
    <3>1. PICK p \in Below(V, d) : ParentRow(p, r) /\ p \in S
        BY <1>1, <2>3
    <3>2. PICK q \in Below(V, e) : ParentRow(q, r)
        BY <2>3, BelowFacts
    <3>3. p \in V /\ q \in V /\ p.table \in Children /\ q.table \in Children
        BY BelowFacts
    <3>4. p = q
        BY <3>1, <3>2, <3>3 DEF Unique, ParentRow
    <3> QED
        BY <3>1, <3>4
  <2> QED
      BY <2>2, <2>3
<1> HIDE DEF S
<1>2. Below(V, d) \subseteq S
    BY <1>1, BelowInduction
<1> QED
    BY <1>2 DEF S

\* Where every key holds, a document without a root row has no child rows.
LEMMA NoRootNoRows ==
  ASSUME NEW V, KeysHold(V), NEW d, RootRow(V, d) = {}
  PROVE  Below(V, d) = {}
<1> DEFINE S == {}
<1>1. ASSUME NEW r \in Below(V, d),
             ParentOf[r.table] = Root
               \/ \E p \in Below(V, d) : ParentRow(p, r) /\ p \in S
      PROVE  r \in S
  <2>1. r \in V /\ r.table \in Children /\ r.parent = d
      BY <1>1, BelowFacts
  <2>2. r.table # Root
      BY <2>1, TreeAssumption
  <2>3. PICK p \in V : p.table = Root /\ p.id = d
      BY <1>1, <2>1, <2>2 DEF KeysHold
  <2> QED
      BY <2>3 DEF RootRow
<1> HIDE DEF S
<1>2. Below(V, d) \subseteq S
    BY <1>1, BelowInduction
<1> QED
    BY <1>2 DEF S

\* Where every key holds and d is the only document, all child rows are its.
LEMMA AllBelow ==
  ASSUME NEW V, KeysHold(V), NEW d,
         \A r \in V : r.table \in Tables,
         \A r \in V : r.table = Root => r.id = d
  PROVE  \A r \in V : r.table # Root => r \in Below(V, d)
<1> DEFINE T == {t \in Tables : \A r \in V : r.table = t /\ t # Root => r \in Below(V, d)}
<1>1. /\ Tables = Children \union {Root} /\ ParentOf \in [Children -> Tables]
      /\ Root \notin Children
    BY TreeAssumption DEF Tables
<1>2. Root \in T
    BY <1>1
<1>3. ASSUME NEW t \in Children, ParentOf[t] \in T PROVE t \in T
  <2> SUFFICES ASSUME NEW r \in V, r.table = t PROVE r \in Below(V, d)
      BY <1>1
  <2>1. PICK p \in V : p.table = ParentOf[t] /\ p.id = r.parent
      BY <1>1 DEF KeysHold
  <2>2. ParentOf[t] # Root => p \in Below(V, d)
      BY <2>1, <1>3
  <2>3. ParentOf[t] = Root => r.parent = d
      BY <2>1
  <2> QED
      BY <2>1, <2>2, <2>3, BelowFacts DEF ParentRow
<1> HIDE DEF T
<1>4. Tables \subseteq T
    BY <1>2, <1>3, TreeInduction
<1> QED
    BY <1>4 DEF T

\* Rows of document d are replaced: those of other documents are the same.
LEMMA OtherTrees ==
  ASSUME NEW V, NEW W, Unique(V), Unique(W), NEW d,
         V \ W \subseteq TreeIn(V, d), W \ V \subseteq TreeIn(W, d),
         NEW e, e # d
  PROVE  RootRow(V, e) = RootRow(W, e) /\ Below(V, e) = Below(W, e)
<1>1. \A X : \A r : r \in RootRow(X, d) => r.table = Root /\ r.id = d
    BY DEF RootRow
<1>2. \A X : \A r : r \in Below(X, d) \union Below(X, e) => r.table # Root /\ r \in X
    BY BelowFacts, TreeAssumption
<1>3. RootRow(V, e) = RootRow(W, e)
    BY <1>1, <1>2 DEF RootRow, TreeIn
<1>4. Below(V, d) \intersect Below(V, e) = {} /\ Below(W, d) \intersect Below(W, e) = {}
    BY BelowDisjoint
<1>5. Below(V, e) \subseteq W /\ Below(W, e) \subseteq V
    BY <1>1, <1>2, <1>4 DEF TreeIn
<1>6. Below(V, e) \subseteq Below(W, e) /\ Below(W, e) \subseteq Below(V, e)
    BY <1>5, BelowIn
<1> QED
    BY <1>3, <1>6

----------------------------------------------------------------------------
(* The order of the deletes, and how often a sequence has an element.      *)

\* The sort in apply_upsert_event: all child tables, each one once, none after
\* a table that is nearer to the root.
LEMMA DeleteOrderFacts ==
  /\ DeleteOrder \in Seq(Children) /\ IsInjective(DeleteOrder)
  /\ ToSet(DeleteOrder) = Children
  /\ \A i, j \in DOMAIN DeleteOrder :
       i < j => Depth[DeleteOrder[j]] <= Depth[DeleteOrder[i]]
<1>1. /\ Tables = Children \union {Root} /\ ParentOf \in [Children -> Tables]
      /\ Root \notin Children /\ Mappings \in Seq(Children) /\ IsInjective(Mappings)
    BY TreeAssumption DEF Tables
<1>2. /\ Depth \in [Tables -> Nat] /\ Depth[Root] = 0
      /\ \A t \in Children : Depth[t] = 1 + Depth[ParentOf[t]]
    BY DepthFacts
<1> DEFINE D == {Depth[t] : t \in Tables}
           M == Max(D)
           ss == [i \in 1 .. M |-> Pick(Mappings, {t \in Children : Depth[t] = M + 1 - i})]
<1>3. M \in Nat /\ \A t \in Tables : Depth[t] <= M
  <2>1. PICK N \in Nat : \E rank \in [Tables -> 0 .. N] :
          \A t \in Children : rank[ParentOf[t]] < rank[t]
      BY Ranked
  <2>2. PICK rank \in [Tables -> 0 .. N] :
          \A t \in Children : rank[ParentOf[t]] < rank[t]
      BY <2>1
  <2> DEFINE S == {t \in Tables : Depth[t] <= rank[t]}
  <2>3. Root \in S /\ \A t \in Children : ParentOf[t] \in S => t \in S
      BY <1>1, <1>2, <2>2
  <2>4. Tables \subseteq S
    <3> HIDE DEF S
    <3> QED
        BY <2>3, TreeInduction
  <2>5. \A t \in Tables : Depth[t] \in 0 .. N
      BY <1>2, <2>2, <2>4
  <2>6. D \in SUBSET (0 .. N) /\ D # {}
      BY <2>5, <1>1
  <2>7. M \in D /\ \A x \in D : x <= M
    <3> HIDE DEF D
    <3> QED
        BY <2>1, <2>6, MaxOfBounded
  <2> HIDE DEF M
  <2> QED
      BY <2>6, <2>7
<1> HIDE DEF M
<1>4. \A i \in 1 .. M :
        /\ ss[i] \in Seq(Children) /\ IsInjective(ss[i])
        /\ ToSet(ss[i]) = {t \in Children : Depth[t] = M + 1 - i}
  <2> SUFFICES ASSUME NEW i \in 1 .. M
               PROVE  /\ ss[i] \in Seq(Children) /\ IsInjective(ss[i])
                      /\ ToSet(ss[i]) = {t \in Children : Depth[t] = M + 1 - i}
      OBVIOUS
  <2> DEFINE T == {t \in Children : Depth[t] = M + 1 - i}
  <2>1. ss[i] = Pick(Mappings, T)
      OBVIOUS
  <2>2. T \subseteq Children
      OBVIOUS
  <2>3. ToSet(Mappings) = Children
      BY DEF Children
  <2> HIDE DEF T, ss
  <2>4. /\ Pick(Mappings, T) \in Seq(Children) /\ IsInjective(Pick(Mappings, T))
        /\ ToSet(Pick(Mappings, T)) = ToSet(Mappings) \intersect T
      BY <1>1, PickProperties, PickInjective
  <2> QED
      BY <2>1, <2>2, <2>3, <2>4 DEF T
<1>5. ss \in Seq(Seq(Children)) /\ DOMAIN ss = 1 .. M
  <2>1. DOMAIN ss = 1 .. M
      OBVIOUS
  <2>2. ss \in [1 .. M -> Seq(Children)]
      BY <1>4
  <2> HIDE DEF ss
  <2> QED
      BY <2>1, <2>2, <1>3
<1>6. DeleteOrder = FlattenSeq(ss)
    BY DEF DeleteOrder, M
<1> HIDE DEF ss, D
<1>7. \A i, j \in DOMAIN ss : i # j => ToSet(ss[i]) \intersect ToSet(ss[j]) = {}
    BY <1>3, <1>4, <1>5
<1>8. /\ DeleteOrder \in Seq(Children) /\ IsInjective(DeleteOrder)
      /\ ToSet(DeleteOrder) = UNION {ToSet(ss[i]) : i \in DOMAIN ss}
    BY <1>4, <1>5, <1>6, <1>7, FlattenProperties
<1>9. ToSet(DeleteOrder) = Children
  <2>1. ASSUME NEW t \in Children PROVE \E i \in 1 .. M : t \in ToSet(ss[i])
    <3>0. t \in Tables /\ ParentOf[t] \in Tables
        BY <1>1
    <3>1. Depth[t] \in Nat /\ 1 <= Depth[t] /\ Depth[t] <= M
        BY <3>0, <1>2, <1>3
    <3>2. M + 1 - Depth[t] \in 1 .. M /\ M + 1 - (M + 1 - Depth[t]) = Depth[t]
        BY <3>1, <1>3
    <3> QED
        BY <3>2, <1>4
  <2> QED
      BY <2>1, <1>4, <1>5, <1>8
<1>10. ASSUME NEW i \in DOMAIN DeleteOrder, NEW j \in DOMAIN DeleteOrder, i < j
       PROVE  Depth[DeleteOrder[j]] <= Depth[DeleteOrder[i]]
  <2>1. PICK a \in DOMAIN ss, b \in DOMAIN ss :
          /\ a <= b /\ DeleteOrder[i] \in ToSet(ss[a]) /\ DeleteOrder[j] \in ToSet(ss[b])
      BY <1>5, <1>6, <1>10, FlattenOrder
  <2>2. Depth[DeleteOrder[i]] = M + 1 - a /\ Depth[DeleteOrder[j]] = M + 1 - b
      BY <2>1, <1>4, <1>5
  <2> QED
      BY <2>1, <2>2, <1>3, <1>5
<1> QED
    BY <1>8, <1>9, <1>10

\* How often s has x.
Count(s, x) == Cardinality({i \in DOMAIN s : s[i] = x})

\* Counts add up.
LEMMA CountConcat ==
  ASSUME NEW A, NEW s \in Seq(A), NEW t \in Seq(A), NEW x
  PROVE  /\ Count(s, x) \in Nat /\ Count(t, x) \in Nat
         /\ Count(s \o t, x) = Count(s, x) + Count(t, x)
<1> DEFINE m == Len(s)
           n == Len(t)
           I == {i \in 1 .. m : s[i] = x}
           J == {i \in 1 .. n : t[i] = x}
           J1 == {i \in m + 1 .. m + n : t[i - m] = x}
           K == {i \in 1 .. m + n : (s \o t)[i] = x}
<1>1. m \in Nat /\ n \in Nat /\ DOMAIN s = 1 .. m /\ DOMAIN t = 1 .. n
    OBVIOUS
<1>2. /\ DOMAIN (s \o t) = 1 .. m + n
      /\ \A i \in 1 .. m : (s \o t)[i] = s[i]
      /\ \A i \in m + 1 .. m + n : (s \o t)[i] = t[i - m]
    OBVIOUS
<1>3. Count(s, x) = Cardinality(I) /\ Count(t, x) = Cardinality(J)
        /\ Count(s \o t, x) = Cardinality(K)
    BY <1>1, <1>2 DEF Count
<1> HIDE DEF m, n
<1>4. IsFiniteSet(I) /\ IsFiniteSet(J)
  <2>1. IsFiniteSet(1 .. m) /\ IsFiniteSet(1 .. n)
      BY <1>1, FS_Interval
  <2>2. I \subseteq 1 .. m /\ J \subseteq 1 .. n
      OBVIOUS
  <2> HIDE DEF I, J
  <2> QED
      BY <2>1, <2>2, FS_Subset
<1>5. K = I \union J1 /\ I \intersect J1 = {}
  <2>1. \A i : i \in 1 .. m + n <=> i \in 1 .. m \/ i \in m + 1 .. m + n
      BY <1>1
  <2>2. \A i \in 1 .. m + n : i \in K <=> i \in I \/ i \in J1
      BY <1>2, <2>1
  <2>3. I \subseteq 1 .. m + n /\ J1 \subseteq 1 .. m + n
      BY <2>1
  <2>4. \A i \in 1 .. m : i \notin m + 1 .. m + n
      BY <1>1
  <2> QED
      BY <2>2, <2>3, <2>4
<1>6. ExistsBijection(J, J1)
  <2> DEFINE f == [i \in J |-> i + m]
  <2>1. f \in [J -> J1] /\ \A a, b \in J : f[a] = f[b] => a = b
      BY <1>1
  <2>2. \A y \in J1 : \E i \in J : f[i] = y
    <3> SUFFICES ASSUME NEW y \in J1 PROVE \E i \in J : f[i] = y
        OBVIOUS
    <3>1. y - m \in J /\ (y - m) + m = y
        BY <1>1
    <3> QED
        BY <3>1
  <2> HIDE DEF f, J, J1
  <2>3. f \in Bijection(J, J1)
      BY <2>1, <2>2 DEF Bijection, Injection, Surjection, IsInjective
  <2> QED
      BY <2>3 DEF ExistsBijection
<1> HIDE DEF I, J, J1, K
<1>7. IsFiniteSet(J1) /\ Cardinality(J1) = Cardinality(J)
    BY <1>4, <1>6, FS_Bijection
<1>8. Cardinality(K) = Cardinality(I) + Cardinality(J1) - Cardinality({})
    BY <1>4, <1>5, <1>7, FS_Union
<1>9. Cardinality(I) \in Nat /\ Cardinality(J) \in Nat /\ Cardinality({}) = 0
    BY <1>4, FS_CardinalityType, FS_EmptySet
<1> QED
    BY <1>3, <1>7, <1>8, <1>9

\* Counts in a sequence, element by element.
LEMMA CountFacts ==
  ASSUME NEW A, NEW s \in Seq(A), NEW x
  PROVE  /\ Count(s, x) \in Nat /\ Count(<<>>, x) = 0
         /\ (\A i \in DOMAIN s : s[i] # x) => Count(s, x) = 0
         /\ (\A i \in DOMAIN s : s[i] = x) => Count(s, x) = Len(s)
         /\ s # <<>> => Count(s, x) = Count(Tail(s), x) + (IF Head(s) = x THEN 1 ELSE 0)
<1>1. Count(s, x) \in Nat
    BY CountConcat
<1>2. Count(<<>>, x) = 0
  <2>1. {i \in DOMAIN <<>> : <<>>[i] = x} = {}
      OBVIOUS
  <2> QED
      BY <2>1, FS_EmptySet DEF Count
<1>3. ASSUME \A i \in DOMAIN s : s[i] # x PROVE Count(s, x) = 0
  <2>1. {i \in DOMAIN s : s[i] = x} = {}
      BY <1>3
  <2> QED
      BY <2>1, FS_EmptySet DEF Count
<1>4. ASSUME NEW t \in Seq(A), \A i \in DOMAIN t : t[i] = x PROVE Count(t, x) = Len(t)
  <2>1. {i \in DOMAIN t : t[i] = x} = 1 .. Len(t) /\ Len(t) \in Nat
      BY <1>4
  <2>2. Cardinality(1 .. Len(t)) = Len(t)
    <3>1. 1 \in Int /\ Len(t) \in Int
        BY <2>1
    <3>2. Cardinality(1 .. Len(t)) = IF 1 > Len(t) THEN 0 ELSE Len(t) - 1 + 1
        BY <3>1, FS_Interval
    <3> QED
        BY <2>1, <3>2
  <2> QED
      BY <2>1, <2>2 DEF Count
<1>5. ASSUME s # <<>>
      PROVE  Count(s, x) = Count(Tail(s), x) + (IF Head(s) = x THEN 1 ELSE 0)
  <2> DEFINE h == <<Head(s)>>
             r == Tail(s)
  <2>1. h \in Seq(A) /\ r \in Seq(A) /\ s = h \o r /\ Len(h) = 1 /\ DOMAIN h = {1} /\ h[1] = Head(s)
      BY <1>5
  <2> HIDE DEF h, r
  <2>2. Count(s, x) = Count(h, x) + Count(r, x) /\ Count(h, x) \in Nat /\ Count(r, x) \in Nat
      BY <2>1, CountConcat
  <2>3. Count(h, x) = IF Head(s) = x THEN 1 ELSE 0
    <3>1. CASE Head(s) = x
        BY <3>1, <2>1, <1>4
    <3>2. CASE Head(s) # x
      <4>1. {i \in DOMAIN h : h[i] = x} = {}
          BY <3>2, <2>1
      <4> QED
          BY <3>2, <4>1, FS_EmptySet DEF Count
    <3> QED
        BY <3>1, <3>2
  <2> QED
      BY <2>2, <2>3 DEF r
<1> QED
    BY <1>1, <1>2, <1>3, <1>4, <1>5

----------------------------------------------------------------------------
(* Types, and what the program counter of a worker says.                   *)

Todo == [table : Children, parent : Docs \union Nat]

Types ==
  /\ batching \in BOOLEAN
  /\ log \in Seq(Event) /\ Len(log) <= MaxEvents
  /\ owner \in Workers
  /\ committed \in 1 .. MaxEvents + 1 /\ position \in 1 .. MaxEvents + 1
  /\ evictions \in 0 .. MaxFaults /\ faults \in 0 .. MaxFaults /\ evictions <= faults
  /\ pc \in [Workers -> {"poll"} \union Writing \union Ended]
  /\ session \in [Workers -> {"up", "lost"}]
  /\ at \in [Workers -> 0 .. MaxEvents]
  /\ doomed \in [Workers -> Seq(Children)]
  /\ pending \in [Workers -> Seq(Row)]
  /\ todo \in [Workers -> Seq(Todo)]
  /\ deleted \in [Workers -> SUBSET Row]
  /\ inserted \in [Workers -> SUBSET Row]
  /\ rows \subseteq Row
  /\ nextId \in Nat
  /\ shows \in [Docs -> {None} \union (0 .. MaxEvents)]

\* They are the types of the specification, with a sequence for todo and a
\* fault for each eviction.
LEMMA TypesTypeOK ==
  ASSUME Types PROVE TypeOK
<1>1. \A v \in Workers : \A i \in DOMAIN todo[v] :
         todo[v][i] \in [table : Children, parent : Docs \union Nat]
  <2>1. \A v \in Workers : todo[v] \in Seq(Todo)
      BY DEF Types
  <2>2. \A s \in Seq(Todo) : \A i \in DOMAIN s : s[i] \in Todo
      OBVIOUS
  <2> QED
      BY <2>1, <2>2 DEF Todo
<1> QED
    BY <1>1 DEF Types, TypeOK

\* The row an upsert writes to the root table.
NewRoot(w) == [table |-> Root, id |-> ev(w).doc, parent |-> None, event |-> at[w]]

\* The tables are in the order of the deletes, and those that are not among
\* them are no nearer to the root: they have been deleted from.
Sorted(s) ==
  /\ IsInjective(s)
  /\ \A i, j \in DOMAIN s : i < j => Depth[s[j]] <= Depth[s[i]]
  /\ \A t \in ToSet(s) : \A u \in Children \ ToSet(s) : Depth[t] <= Depth[u]

Control(w) ==
  /\ at[w] \in 0 .. Len(log)
  /\ pc[w] \in Writing => at[w] # 0
  /\ pc[w] \in {"root", "grow"} => ev(w).kind = "upsert"
  /\ pc[w] = "fell" => ev(w).kind = "delete"
  /\ pc[w] = "commit" => batching
  /\ Sorted(doomed[w])
  /\ pc[w] = "root" => doomed[w] = DeleteOrder
  /\ pc[w] = "prune" => doomed[w] # <<>>
  /\ pc[w] \in {"grow", "fell", "settle", "commit"} => doomed[w] = <<>>
  /\ pc[w] \in {"poll", "root", "fell", "settle", "commit"} => pending[w] = <<>>
  /\ pc[w] = "prune" =>
       pending[w] = IF ev(w).kind = "upsert" THEN <<NewRoot(w)>> ELSE <<>>
  /\ pc[w] \notin Ended \union {"grow"} => todo[w] = <<>>
  /\ ~batching \/ session[w] = "lost" \/ pc[w] \notin Writing \ {"root"} =>
       deleted[w] = {} /\ inserted[w] = {}

Base == Types /\ \A w \in Workers : Control(w)

WorkerStep(w) ==
  \/ Deliver(w) \/ UpsertRoot(w) \/ DeleteChildren(w) \/ NextParent(w)
  \/ InsertChild(w) \/ BadChild(w) \/ DeleteRoot(w) \/ Settle(w)
  \/ Commit(w) \/ DeadLetter(w) \/ DeadlockVictim(w)
  \/ LoseSession(w) \/ Kill(w) \/ Restart(w)

\* Nothing of worker v changes.
Idle(v) ==
  /\ pc'[v] = pc[v] /\ session'[v] = session[v] /\ at'[v] = at[v]
  /\ doomed'[v] = doomed[v] /\ pending'[v] = pending[v] /\ todo'[v] = todo[v]
  /\ deleted'[v] = deleted[v] /\ inserted'[v] = inserted[v]

\* What a row is.
LEMMA RowFacts ==
  /\ \A r \in Row : /\ r.table \in Tables /\ r.event \in 1 .. MaxEvents
                    /\ r.id \in Docs \union Nat
                    /\ r.table = Root <=> r.table \notin Children
                    /\ r.table = Root => r.id \in Docs
                    /\ r.table # Root => r.id \in Nat /\ r.parent \in Docs \union Nat
  /\ Tables = Children \union {Root} /\ ParentOf \in [Children -> Tables]
  /\ Root \notin Children
  /\ \A V \in SUBSET Row : \A d : RootRow(V, d) \in SUBSET Row /\ Below(V, d) \in SUBSET Row
<1>1. /\ Tables = Children \union {Root} /\ ParentOf \in [Children -> Tables]
      /\ Root \notin Children
    BY TreeAssumption DEF Tables
<1>2. \A V \in SUBSET Row : \A d : RootRow(V, d) \in SUBSET Row /\ Below(V, d) \in SUBSET Row
    BY BelowFacts DEF RootRow
<1> QED
    BY <1>1, <1>2 DEF Row

\* Deleting from the next table leaves the rest in order.
LEMMA SortedTail ==
  ASSUME NEW s \in Seq(Children), s # <<>>, Sorted(s)
  PROVE  /\ Tail(s) \in Seq(Children) /\ Sorted(Tail(s)) /\ Head(s) \in Children
         /\ ToSet(Tail(s)) = ToSet(s) \ {Head(s)}
         /\ \A t \in ToSet(s) : Depth[t] <= Depth[Head(s)]
<1> DEFINE r == Tail(s)
<1>1. /\ r \in Seq(Children) /\ DOMAIN s = 1 .. Len(s) /\ DOMAIN r = 1 .. Len(s) - 1
      /\ Len(s) \in Nat \ {0} /\ Head(s) = s[1] /\ Head(s) \in Children
      /\ \A i \in DOMAIN r : r[i] = s[i + 1] /\ i + 1 \in DOMAIN s
    OBVIOUS
<1>2. ToSet(r) = ToSet(s) \ {Head(s)}
  <2>1. \A i \in DOMAIN s : i = 1 \/ (i - 1 \in DOMAIN r /\ (i - 1) + 1 = i)
      BY <1>1
  <2>2. \A i \in DOMAIN r : r[i] # s[1]
    <3>1. \A i \in DOMAIN r : i + 1 # 1 /\ 1 \in DOMAIN s
        BY <1>1
    <3> QED
        BY <1>1, <3>1 DEF Sorted, IsInjective
  <2> HIDE DEF r
  <2> QED
      BY <1>1, <2>1, <2>2 DEF ToSet
<1>3. Depth \in [Tables -> Nat] /\ Children \subseteq Tables
    BY DepthFacts DEF Tables
<1>4. \A t \in ToSet(s) : Depth[t] <= Depth[Head(s)]
  <2>1. \A i \in DOMAIN s : i = 1 \/ 1 < i
      BY <1>1
  <2>2. 1 \in DOMAIN s
      BY <1>1
  <2> QED
      BY <1>1, <1>3, <2>1, <2>2 DEF Sorted, ToSet
<1> HIDE DEF r
<1>5. IsInjective(r)
    BY <1>1 DEF Sorted, IsInjective
<1>6. \A i, j \in DOMAIN r : i < j => Depth[r[j]] <= Depth[r[i]]
    BY <1>1 DEF Sorted
<1>7. \A t \in ToSet(r) : \A u \in Children \ ToSet(r) : Depth[t] <= Depth[u]
    BY <1>2, <1>4 DEF Sorted
<1> QED
    BY <1>1, <1>2, <1>4, <1>5, <1>6, <1>7 DEF Sorted, r

\* What is known of a worker that does nothing stays.
LEMMA ControlKept ==
  ASSUME NEW v \in Workers, Types, Control(v), Idle(v), batching' = batching,
         Len(log') \in Nat, Len(log) <= Len(log'),
         \A i \in 1 .. Len(log) : log'[i] = log[i]
  PROVE  Control(v)'
<1>1. Len(log) \in Nat
    BY DEF Types
<1>2. at'[v] \in 0 .. Len(log') /\ at'[v] = at[v]
    BY <1>1 DEF Control, Idle
<1>3. pc[v] \in Writing => ev(v)' = ev(v) /\ NewRoot(v)' = NewRoot(v)
    BY <1>1, <1>2 DEF Control, ev, NewRoot
<1> QED
    BY <1>2, <1>3 DEF Control, Idle, Writing

\* What a statement writes.
LEMMA StatementEffect ==
  ASSUME Types, NEW w \in Workers, NEW old, NEW new \in SUBSET Row, NEW next,
         next \in {"poll"} \union Writing \union Ended, ev(w).doc \in Docs,
         Statement(w, old, new, next)
  PROVE  /\ session[w] = "up" /\ ~Waits(w)
         /\ batching => /\ deleted'[w] = deleted[w] \union (old \intersect rows)
                        /\ inserted'[w] = (inserted[w] \ old) \union new
                        /\ pc'[w] = next /\ rows' = rows /\ shows' = shows
         /\ ~batching => /\ shows' = [shows EXCEPT ![ev(w).doc] = None]
                         /\ deleted' = deleted /\ inserted' = inserted
                         /\ \/ /\ KeysHold((rows \ old) \union new) /\ pc'[w] = next
                               /\ rows' = (rows \ old) \union new
                            \/ /\ ~KeysHold((rows \ old) \union new)
                               /\ pc'[w] = "refused" /\ rows' = rows
         /\ pc' \in [Workers -> {"poll"} \union Writing \union Ended]
         /\ deleted' \in [Workers -> SUBSET Row] /\ inserted' \in [Workers -> SUBSET Row]
         /\ rows' \subseteq Row /\ shows' \in [Docs -> {None} \union (0 .. MaxEvents)]
         /\ \A v \in Workers \ {w} : /\ pc'[v] = pc[v] /\ deleted'[v] = deleted[v]
                                     /\ inserted'[v] = inserted[v]
<1>1. /\ pc \in [Workers -> {"poll"} \union Writing \union Ended]
      /\ deleted \in [Workers -> SUBSET Row] /\ inserted \in [Workers -> SUBSET Row]
      /\ rows \subseteq Row /\ shows \in [Docs -> {None} \union (0 .. MaxEvents)]
    BY DEF Types
<1>2. "refused" \in Ended
    BY DEF Ended
<1>3. session[w] = "up" /\ ~Waits(w)
    BY DEF Statement
<1>4. CASE batching
  <2>1. /\ deleted' = [deleted EXCEPT ![w] = @ \union (old \intersect rows)]
        /\ inserted' = [inserted EXCEPT ![w] = (@ \ old) \union new]
        /\ pc' = [pc EXCEPT ![w] = next]
        /\ rows' = rows /\ shows' = shows
      BY <1>4 DEF Statement
  <2> QED
      BY <1>1, <1>3, <1>4, <2>1
<1>5. CASE ~batching
  <2> DEFINE R == (rows \ old) \union new
  <2>0. R \subseteq Row
      BY <1>1
  <2>1. /\ shows' = [shows EXCEPT ![ev(w).doc] = None]
        /\ deleted' = deleted /\ inserted' = inserted
      BY <1>5 DEF Statement
  <2>2. \/ KeysHold(R) /\ rows' = R /\ pc' = [pc EXCEPT ![w] = next]
        \/ ~KeysHold(R) /\ rows' = rows /\ pc' = [pc EXCEPT ![w] = "refused"]
      BY <1>5 DEF Statement
  <2> HIDE DEF R
  <2>3. \/ KeysHold(R) /\ rows' = R /\ pc'[w] = next
        \/ ~KeysHold(R) /\ rows' = rows /\ pc'[w] = "refused"
      BY <1>1, <2>2
  <2>4. /\ pc' \in [Workers -> {"poll"} \union Writing \union Ended]
        /\ rows' \subseteq Row
        /\ \A v \in Workers \ {w} : pc'[v] = pc[v]
      BY <1>1, <1>2, <2>0, <2>2
  <2>5. shows' \in [Docs -> {None} \union (0 .. MaxEvents)]
      BY <1>1, <2>1
  <2> QED
      BY <1>1, <1>3, <1>5, <2>1, <2>3, <2>4, <2>5 DEF R
<1> QED
    BY <1>4, <1>5

\* What a statement leaves of the types and the program counters.
LEMMA StatementTypes ==
  ASSUME Types, NEW w \in Workers, NEW old, NEW new \in SUBSET Row, NEW next,
         next \in {"poll"} \union Writing \union Ended, ev(w).doc \in Docs,
         Statement(w, old, new, next)
  PROVE  /\ ~batching => /\ deleted' = deleted /\ inserted' = inserted
                         /\ pc'[w] \in {next, "refused"}
         /\ batching => pc'[w] = next
         /\ session[w] = "up"
         /\ pc' \in [Workers -> {"poll"} \union Writing \union Ended]
         /\ deleted' \in [Workers -> SUBSET Row] /\ inserted' \in [Workers -> SUBSET Row]
         /\ rows' \subseteq Row /\ shows' \in [Docs -> {None} \union (0 .. MaxEvents)]
         /\ \A v \in Workers \ {w} : /\ pc'[v] = pc[v] /\ deleted'[v] = deleted[v]
                                     /\ inserted'[v] = inserted[v]
<1>1. session[w] = "up"
    BY StatementEffect
<1>2. ASSUME batching PROVE pc'[w] = next
    BY <1>2 DEF Statement, Types
<1>3. ASSUME ~batching
      PROVE  deleted' = deleted /\ inserted' = inserted /\ pc'[w] \in {next, "refused"}
  <2>1. deleted' = deleted /\ inserted' = inserted
      BY <1>3, StatementEffect
  <2>2. \/ /\ KeysHold((rows \ old) \union new) /\ pc'[w] = next
           /\ rows' = (rows \ old) \union new
        \/ /\ ~KeysHold((rows \ old) \union new)
           /\ pc'[w] = "refused" /\ rows' = rows
      BY <1>3, StatementEffect
  <2> QED
      BY <2>1, <2>2
<1>4. /\ pc' \in [Workers -> {"poll"} \union Writing \union Ended]
      /\ deleted' \in [Workers -> SUBSET Row] /\ inserted' \in [Workers -> SUBSET Row]
      /\ rows' \subseteq Row /\ shows' \in [Docs -> {None} \union (0 .. MaxEvents)]
      /\ \A v \in Workers \ {w} : /\ pc'[v] = pc[v] /\ deleted'[v] = deleted[v]
                                  /\ inserted'[v] = inserted[v]
    BY StatementEffect
<1> QED
    BY <1>1, <1>2, <1>3, <1>4

\* What is left when a worker forgets.
LEMMA ForgetEffect ==
  ASSUME Types, NEW w \in Workers, Forget(w)
  PROVE  /\ deleted' \in [Workers -> SUBSET Row] /\ inserted' \in [Workers -> SUBSET Row]
         /\ doomed' \in [Workers -> Seq(Children)] /\ pending' \in [Workers -> Seq(Row)]
         /\ todo' \in [Workers -> Seq(Todo)] /\ at' \in [Workers -> 0 .. MaxEvents]
         /\ deleted'[w] = {} /\ inserted'[w] = {} /\ doomed'[w] = <<>>
         /\ pending'[w] = <<>> /\ todo'[w] = <<>> /\ at'[w] = 0
         /\ \A v \in Workers \ {w} :
              /\ at'[v] = at[v] /\ doomed'[v] = doomed[v] /\ pending'[v] = pending[v]
              /\ todo'[v] = todo[v] /\ deleted'[v] = deleted[v] /\ inserted'[v] = inserted[v]
<1>1. /\ deleted \in [Workers -> SUBSET Row] /\ inserted \in [Workers -> SUBSET Row]
      /\ doomed \in [Workers -> Seq(Children)] /\ pending \in [Workers -> Seq(Row)]
      /\ todo \in [Workers -> Seq(Todo)] /\ at \in [Workers -> 0 .. MaxEvents]
      /\ 0 \in 0 .. MaxEvents
    BY TreeAssumption DEF Types
<1>2. <<>> \in Seq(Children) /\ <<>> \in Seq(Row) /\ <<>> \in Seq(Todo)
    OBVIOUS
<1> QED
    BY <1>1, <1>2 DEF Forget

\* The event in hand.
LEMMA EventFacts ==
  ASSUME Base, NEW w \in Workers, pc[w] \in Writing
  PROVE  /\ at[w] \in 1 .. Len(log) /\ at[w] \in 1 .. MaxEvents /\ Len(log) \in Nat
         /\ ev(w).doc \in Docs /\ ev(w).kind \in {"upsert", "delete"}
         /\ ev(w).shape \in [Children -> Nat]
         /\ NewRoot(w) \in Row
<1>1. /\ log \in Seq(Event) /\ Len(log) <= MaxEvents /\ MaxEvents \in Nat
      /\ at[w] \in 0 .. Len(log) /\ at[w] # 0
    BY TreeAssumption DEF Base, Types, Control
<1>2. at[w] \in 1 .. Len(log) /\ at[w] \in 1 .. MaxEvents /\ Len(log) \in Nat
    BY <1>1
<1>3. ev(w) \in Event
    BY <1>1, <1>2 DEF ev
<1>4. ev(w).shape \in [Children -> Nat]
    BY <1>3, TreeAssumption DEF Event
<1>5. NewRoot(w) \in Row
    BY <1>2, <1>3 DEF NewRoot, Row, Event
<1> QED
    BY <1>2, <1>3, <1>4, <1>5 DEF Event

\* The child rows that are inserted below a parent, as apply_upsert_event
\* enumerates them: as many per mapping as the event has.
Below1(shape, q, c) == [i \in 1 .. shape[c] |-> [table |-> c, parent |-> q]]

TodoOf(shape, t, q) ==
  FlattenSeq([i \in DOMAIN DirectChildren(t) |-> Below1(shape, q, DirectChildren(t)[i])])

\* They refer to the parent, and to no other table than its own.
LEMMA TodoFacts ==
  ASSUME NEW shape \in [Children -> Nat], NEW t, NEW q \in Docs \union Nat
  PROVE  /\ TodoOf(shape, t, q) \in Seq(Todo)
         /\ \A x \in ToSet(TodoOf(shape, t, q)) : x.parent = q /\ ParentOf[x.table] = t
         /\ \A c \in Children : ParentOf[c] = t =>
              Count(TodoOf(shape, t, q), [table |-> c, parent |-> q]) = shape[c]
<1> DEFINE
      dc == DirectChildren(t)
      ss == [i \in DOMAIN dc |-> Below1(shape, q, dc[i])]
      C == {c \in Children : ParentOf[c] = t}
<1>1. dc \in Seq(Children) /\ IsInjective(dc) /\ ToSet(dc) = C
  <2>1. /\ Mappings \in Seq(Children) /\ IsInjective(Mappings) /\ ToSet(Mappings) = Children
      BY TreeAssumption DEF Children
  <2>2. dc = Pick(Mappings, C) /\ C \subseteq Children
      BY DEF DirectChildren
  <2> HIDE DEF C, dc
  <2>3. /\ Pick(Mappings, C) \in Seq(Children) /\ IsInjective(Pick(Mappings, C))
        /\ ToSet(Pick(Mappings, C)) = ToSet(Mappings) \intersect C
      BY <2>1, PickProperties, PickInjective
  <2> QED
      BY <2>1, <2>2, <2>3
<1>2. \A c \in Children : /\ Below1(shape, q, c) \in Seq(Todo)
                          /\ Len(Below1(shape, q, c)) = shape[c]
                          /\ DOMAIN Below1(shape, q, c) = 1 .. shape[c]
                          /\ \A i \in 1 .. shape[c] :
                               Below1(shape, q, c)[i] = [table |-> c, parent |-> q]
  <2> SUFFICES ASSUME NEW c \in Children
               PROVE  /\ Below1(shape, q, c) \in Seq(Todo)
                      /\ Len(Below1(shape, q, c)) = shape[c]
                      /\ DOMAIN Below1(shape, q, c) = 1 .. shape[c]
                      /\ \A i \in 1 .. shape[c] :
                           Below1(shape, q, c)[i] = [table |-> c, parent |-> q]
      OBVIOUS
  <2> DEFINE n == shape[c]
             x == [table |-> c, parent |-> q]
  <2>1. n \in Nat /\ x \in Todo
      BY DEF Todo
  <2>2. Below1(shape, q, c) = [i \in 1 .. n |-> x]
      BY DEF Below1
  <2> HIDE DEF n, x
  <2>3. /\ [i \in 1 .. n |-> x] \in Seq(Todo) /\ Len([i \in 1 .. n |-> x]) = n
        /\ DOMAIN [i \in 1 .. n |-> x] = 1 .. n
        /\ \A i \in 1 .. n : [j \in 1 .. n |-> x][i] = x
      BY <2>1
  <2> QED
      BY <2>2, <2>3 DEF n, x
<1> HIDE DEF dc
<1>3. ss \in Seq(Seq(Todo)) /\ DOMAIN ss = DOMAIN dc
  <2>1. DOMAIN ss = 1 .. Len(dc) /\ Len(dc) \in Nat
      BY <1>1
  <2>2. ss \in [1 .. Len(dc) -> Seq(Todo)]
    <3>1. \A i \in 1 .. Len(dc) : dc[i] \in Children
        BY <1>1
    <3>2. \A i \in 1 .. Len(dc) : Below1(shape, q, dc[i]) \in Seq(Todo)
        BY <1>2, <3>1
    <3>3. \A i \in 1 .. Len(dc) : ss[i] \in Seq(Todo)
        BY <2>1, <3>2
    <3>4. ss = [i \in 1 .. Len(dc) |-> ss[i]]
        BY <2>1
    <3> HIDE DEF ss
    <3> QED
        BY <3>3, <3>4
  <2> HIDE DEF ss
  <2> QED
      BY <1>1, <2>1, <2>2
<1>4. TodoOf(shape, t, q) = FlattenSeq(ss)
    BY DEF TodoOf, dc
<1>5. \A i \in DOMAIN dc : ss[i] = Below1(shape, q, dc[i]) /\ dc[i] \in C
    BY <1>1 DEF ToSet
<1> HIDE DEF ss
<1>6. /\ FlattenSeq(ss) \in Seq(Todo)
      /\ ToSet(FlattenSeq(ss)) = UNION {ToSet(ss[i]) : i \in DOMAIN ss}
    BY <1>3, FlattenProperties
<1>7. \A x \in ToSet(FlattenSeq(ss)) : x.parent = q /\ ParentOf[x.table] = t
  <2> SUFFICES ASSUME NEW i \in DOMAIN dc, NEW x \in ToSet(ss[i])
               PROVE  x.parent = q /\ ParentOf[x.table] = t
      BY <1>3, <1>6
  <2>0. PICK j \in DOMAIN ss[i] : x = ss[i][j]
      BY DEF ToSet
  <2>1. x = [table |-> dc[i], parent |-> q]
    <3>1. dc[i] \in Children /\ ss[i] = Below1(shape, q, dc[i])
        BY <1>5
    <3> QED
        BY <2>0, <3>1, <1>2
  <2> QED
      BY <2>1, <1>5
<1>8. ASSUME NEW c \in C
      PROVE  Count(FlattenSeq(ss), [table |-> c, parent |-> q]) = shape[c]
  <2> DEFINE N == Len(ss)
             x == [table |-> c, parent |-> q]
  <2>1. PICK f \in [0 .. N -> Seq(Todo)] :
           /\ FlattenSeq(ss) = f[N]
           /\ f[0] = <<>>
           /\ \A n \in 1 .. N : f[n] = f[n - 1] \o ss[n]
      BY <1>3, FlattenSteps
  <2>2. N \in Nat /\ DOMAIN ss = 1 .. N /\ DOMAIN dc = 1 .. N
      BY <1>3
  <2> DEFINE S == {n \in 0 .. N :
                     Count(f[n], x) = IF \E i \in 1 .. n : dc[i] = c THEN shape[c] ELSE 0}
  <2> HIDE DEF N, x
  <2>3. 0 \in S
    <3>1. Count(f[0], x) = 0
      <4>1. <<>> \in Seq(Todo)
          OBVIOUS
      <4> QED
          BY <2>1, <4>1, CountFacts
    <3> QED
        BY <2>2, <3>1
  <2>4. ASSUME NEW n \in 1 .. N, n - 1 \in S PROVE n \in S
    <3>1. /\ n \in 0 .. N /\ n - 1 \in 0 .. N /\ f[n] = f[n - 1] \o ss[n]
          /\ f[n - 1] \in Seq(Todo) /\ ss[n] \in Seq(Todo) /\ n \in DOMAIN dc
      <4>1. n \in 0 .. N /\ n - 1 \in 0 .. N /\ n \in DOMAIN dc /\ n \in DOMAIN ss
          BY <2>2
      <4>2. f[n - 1] \in Seq(Todo) /\ f[n] = f[n - 1] \o ss[n]
          BY <2>1, <4>1
      <4>3. \A i \in DOMAIN ss : ss[i] \in Seq(Todo)
          BY <1>3
      <4> QED
          BY <4>1, <4>2, <4>3
    <3>2. Count(f[n], x) = Count(f[n - 1], x) + Count(ss[n], x)
        BY <3>1, CountConcat
    <3>3. Count(ss[n], x) = IF dc[n] = c THEN shape[c] ELSE 0
      <4>1. /\ ss[n] = Below1(shape, q, dc[n]) /\ dc[n] \in Children
            /\ Len(ss[n]) = shape[dc[n]]
            /\ \A i \in DOMAIN ss[n] : ss[n][i] = [table |-> dc[n], parent |-> q]
          BY <1>2, <1>5, <3>1
      <4>2. CASE dc[n] = c
        <5>1. \A i \in DOMAIN ss[n] : ss[n][i] = x
            BY <4>1, <4>2 DEF x
        <5> QED
            BY <3>1, <4>1, <4>2, <5>1, CountFacts
      <4>3. CASE dc[n] # c
        <5>1. \A i \in DOMAIN ss[n] : ss[n][i] # x
            BY <4>1, <4>3 DEF x
        <5> QED
            BY <3>1, <4>3, <5>1, CountFacts
      <4> QED
          BY <4>2, <4>3
    <3>4. Count(f[n - 1], x) = IF \E i \in 1 .. n - 1 : dc[i] = c THEN shape[c] ELSE 0
        BY <2>4
    <3>5. \A i \in 1 .. n : i = n \/ i \in 1 .. n - 1
        BY <2>2
    <3>6. \A i \in 1 .. n - 1 : i \in 1 .. n /\ i # n /\ i \in DOMAIN dc
        BY <2>2
    <3>7. dc[n] = c => \A i \in 1 .. n - 1 : dc[i] # c
        BY <1>1, <3>1, <3>6 DEF IsInjective
    <3>8. shape[c] \in Nat /\ n \in 1 .. n
        BY <2>2
    <3>9. Count(f[n], x) = IF \E i \in 1 .. n : dc[i] = c THEN shape[c] ELSE 0
      <4>1. CASE dc[n] = c
        <5>1. Count(f[n - 1], x) = 0 /\ Count(ss[n], x) = shape[c]
            BY <3>3, <3>4, <3>7, <4>1
        <5> QED
            BY <3>2, <3>8, <4>1, <5>1
      <4>2. CASE dc[n] # c
        <5>1. (\E i \in 1 .. n : dc[i] = c) <=> (\E i \in 1 .. n - 1 : dc[i] = c)
            BY <3>5, <3>6, <4>2
        <5>2. Count(ss[n], x) = 0 /\ Count(f[n - 1], x) \in Nat
            BY <3>3, <3>4, <3>8, <4>2
        <5> QED
            BY <3>2, <3>4, <5>1, <5>2
      <4> QED
          BY <4>1, <4>2
    <3> QED
        BY <3>1, <3>9
  <2> HIDE DEF S
  <2>5. 0 .. N \subseteq S
      BY <2>2, <2>3, <2>4, UpTo
  <2>6. N \in S
      BY <2>2, <2>5
  <2>7. \E i \in 1 .. N : dc[i] = c
      BY <1>1, <2>2 DEF ToSet
  <2> QED
      BY <2>1, <2>6, <2>7 DEF S, x
<1> QED
    BY <1>4, <1>6, <1>7, <1>8

\* The types, listed.
LEMMA TypeFacts ==
  ASSUME Base
  PROVE  /\ batching \in BOOLEAN
         /\ log \in Seq(Event) /\ Len(log) \in Nat /\ Len(log) <= MaxEvents
         /\ MaxEvents \in Nat /\ MaxFaults \in Nat /\ owner \in Workers
         /\ committed \in 1 .. MaxEvents + 1 /\ position \in 1 .. MaxEvents + 1
         /\ evictions \in 0 .. MaxFaults /\ faults \in 0 .. MaxFaults /\ evictions <= faults
         /\ pc \in [Workers -> {"poll"} \union Writing \union Ended]
         /\ session \in [Workers -> {"up", "lost"}]
         /\ at \in [Workers -> 0 .. MaxEvents]
         /\ doomed \in [Workers -> Seq(Children)]
         /\ pending \in [Workers -> Seq(Row)]
         /\ todo \in [Workers -> Seq(Todo)]
         /\ deleted \in [Workers -> SUBSET Row] /\ inserted \in [Workers -> SUBSET Row]
         /\ rows \subseteq Row /\ nextId \in Nat
         /\ shows \in [Docs -> {None} \union (0 .. MaxEvents)]
  BY TreeAssumption DEF Base, Types

\* A step of one worker keeps the types and what its program counter says.
LEMMA BaseStep ==
  ASSUME Base, NEW w \in Workers, WorkerStep(w)
  PROVE  /\ Types' /\ Control(w)'
         /\ \A v \in Workers \ {w} : Idle(v)
         /\ batching' = batching /\ log' = log /\ owner' = owner /\ evictions' = evictions
<1> USE TypeFacts
<1>0. /\ Control(w) /\ Types
      /\ pc[w] \in Writing => /\ at[w] \in 1 .. Len(log) /\ at[w] \in 1 .. MaxEvents
                              /\ ev(w).doc \in Docs /\ ev(w).kind \in {"upsert", "delete"}
                              /\ ev(w).shape \in [Children -> Nat] /\ NewRoot(w) \in Row
    BY EventFacts DEF Base
<1>a. ASSUME Types', at'[w] = 0, doomed'[w] = <<>>, pending'[w] = <<>>, todo'[w] = <<>>,
             deleted'[w] = {}, inserted'[w] = {}, pc'[w] \notin Writing,
             log' = log
      PROVE  Control(w)'
  <2>1. Sorted(doomed[w])'
    <3>1. ToSet(doomed'[w]) = {} /\ DOMAIN doomed'[w] = {}
        BY <1>a DEF ToSet
    <3> QED
        BY <3>1 DEF Sorted, IsInjective
  <2> QED
      BY <1>a, <2>1 DEF Control, Writing, Ended
<1>1. CASE Deliver(w)
  <2>1. /\ pc[w] = "poll" /\ position <= Len(log) /\ position' = position + 1
        /\ at' = [at EXCEPT ![w] = position]
        /\ doomed' = [doomed EXCEPT ![w] = DeleteOrder]
        /\ pc' = [pc EXCEPT ![w] =
                    IF batching /\ session[w] = "lost" THEN "failed"
                    ELSE IF log[position].kind = "upsert" THEN "root"
                    ELSE IF DeleteOrder # <<>> THEN "prune" ELSE "fell"]
        /\ UNCHANGED <<batching, log, owner, evictions, faults, committed, session,
                       pending, todo, deleted, inserted, rows, nextId, shows>>
      BY <1>1 DEF Deliver, group, store
  <2>2. /\ pending[w] = <<>> /\ todo[w] = <<>> /\ deleted[w] = {} /\ inserted[w] = {}
      BY <1>0, <2>1 DEF Control, Writing, Ended
  <2>3. position \in 1 .. Len(log) /\ log[position] \in Event
      BY <2>1
  <2>4. DeleteOrder \in Seq(Children) /\ Sorted(DeleteOrder)
      BY DeleteOrderFacts DEF Sorted
  <2>5. Types'
    <3>1. pc' \in [Workers -> {"poll"} \union Writing \union Ended]
        BY <2>1 DEF Writing, Ended
    <3>2. position' \in 1 .. MaxEvents + 1 /\ position \in 0 .. MaxEvents
        BY <1>0, <2>1, <2>3
    <3>3. at' \in [Workers -> 0 .. MaxEvents] /\ doomed' \in [Workers -> Seq(Children)]
        BY <2>1, <2>4, <3>2
    <3> QED
        BY <1>0, <2>1, <2>4, <3>1, <3>2, <3>3 DEF Types
  <2>6. at'[w] = position /\ doomed'[w] = DeleteOrder /\ ev(w)' = log[position]
      BY <2>1, <2>3 DEF ev
  <2>7. log[position].kind \in {"upsert", "delete"}
      BY <2>3 DEF Event
  <2>8. pc'[w] = IF batching /\ session[w] = "lost" THEN "failed"
                 ELSE IF log[position].kind = "upsert" THEN "root"
                 ELSE IF DeleteOrder # <<>> THEN "prune" ELSE "fell"
      BY <2>1
  <2>9. Control(w)'
      BY <2>1, <2>2, <2>3, <2>4, <2>6, <2>7, <2>8 DEF Control, Writing, Ended
  <2> QED
      BY <2>1, <2>5, <2>9 DEF Idle
<1>2. CASE UpsertRoot(w)
  <2> DEFINE old == RootRow(Visible(w), ev(w).doc)
             new == {NewRoot(w)}
             after == AfterPrune(w, doomed[w])
  <2>1. /\ pc[w] = "root" /\ Statement(w, old, new, after)
        /\ pending' = [pending EXCEPT ![w] = <<NewRoot(w)>>]
        /\ UNCHANGED <<batching, log, owner, evictions, faults, committed, position,
                       session, at, doomed, todo, nextId>>
      BY <1>2 DEF UpsertRoot, NewRoot, group, offset
  <2>2. pc[w] \in Writing /\ ev(w).kind = "upsert" /\ doomed[w] = DeleteOrder
          /\ todo[w] = <<>>
      BY <1>0, <2>1 DEF Control, Writing, Ended
  <2>3. after = IF doomed[w] # <<>> THEN "prune" ELSE "grow"
      BY <2>2 DEF AfterPrune
  <2>4. new \in SUBSET Row /\ after \in {"poll"} \union Writing \union Ended
      BY <1>0, <2>2, <2>3 DEF Writing
  <2> HIDE DEF old, new, after
  <2>5. /\ ~batching => /\ deleted' = deleted /\ inserted' = inserted
                        /\ pc'[w] \in {after, "refused"}
        /\ batching => pc'[w] = after
        /\ session[w] = "up"
        /\ pc' \in [Workers -> {"poll"} \union Writing \union Ended]
        /\ deleted' \in [Workers -> SUBSET Row] /\ inserted' \in [Workers -> SUBSET Row]
        /\ rows' \subseteq Row /\ shows' \in [Docs -> {None} \union (0 .. MaxEvents)]
        /\ \A v \in Workers \ {w} : /\ pc'[v] = pc[v] /\ deleted'[v] = deleted[v]
                                    /\ inserted'[v] = inserted[v]
      BY <1>0, <2>1, <2>2, <2>4, StatementTypes
  <2>6. pending' \in [Workers -> Seq(Row)] /\ pending'[w] = <<NewRoot(w)>>
    <3> DEFINE n == NewRoot(w)
    <3>1. n \in Row
        BY <1>0, <2>2
    <3> HIDE DEF n
    <3>2. <<n>> \in Seq(Row)
        BY <3>1
    <3> QED
        BY <2>1, <3>2 DEF n
  <2>7. Types'
      BY <1>0, <2>1, <2>5, <2>6 DEF Types
  <2>8. ev(w)' = ev(w) /\ NewRoot(w)' = NewRoot(w)
      BY <2>1 DEF ev, NewRoot
  <2>9. deleted[w] = {} /\ inserted[w] = {}
      BY <1>0, <2>1 DEF Control
  <2>10. ~batching => deleted'[w] = {} /\ inserted'[w] = {}
      BY <2>5, <2>9
  <2>11. Control(w)'
    <3>1. Sorted(doomed[w])'
        BY <1>0, <2>1 DEF Control, Sorted
    <3>2. \/ pc'[w] = "prune" /\ doomed[w] # <<>>
          \/ pc'[w] = "grow" /\ doomed[w] = <<>>
          \/ pc'[w] = "refused" /\ ~batching
      <4>1. pc'[w] = after \/ (pc'[w] = "refused" /\ ~batching)
          BY <2>5
      <4> QED
          BY <2>3, <4>1
    <3> QED
        BY <1>0, <2>1, <2>2, <2>5, <2>6, <2>8, <2>10, <3>1, <3>2
           DEF Control, Writing, Ended
  <2> QED
      BY <2>1, <2>5, <2>7, <2>11 DEF Idle
<1>3. CASE DeleteChildren(w)
  <2> DEFINE old == RowsBelow(Visible(w), ev(w).doc)[Head(doomed[w])]
             new == {}
             after == AfterPrune(w, Tail(doomed[w]))
  <2>1. /\ pc[w] = "prune" /\ Statement(w, old, new, after)
        /\ doomed' = [doomed EXCEPT ![w] = Tail(@)]
        /\ UNCHANGED <<batching, log, owner, evictions, faults, committed, position,
                       session, at, pending, todo, nextId>>
      BY <1>3 DEF DeleteChildren, group, offset
  <2>2. pc[w] \in Writing /\ doomed[w] # <<>> /\ Sorted(doomed[w]) /\ todo[w] = <<>>
        /\ pending[w] = IF ev(w).kind = "upsert" THEN <<NewRoot(w)>> ELSE <<>>
      BY <1>0, <2>1 DEF Control, Writing, Ended
  <2>3. Tail(doomed[w]) \in Seq(Children) /\ Sorted(Tail(doomed[w]))
      BY <2>2, SortedTail
  <2>4. after = IF Tail(doomed[w]) # <<>> THEN "prune"
                ELSE IF ev(w).kind = "upsert" THEN "grow" ELSE "fell"
      BY DEF AfterPrune
  <2>5. new \in SUBSET Row /\ after \in {"poll"} \union Writing \union Ended
      BY <2>4 DEF Writing
  <2> HIDE DEF old, new, after
  <2>6. /\ ~batching => /\ deleted' = deleted /\ inserted' = inserted
                        /\ pc'[w] \in {after, "refused"}
        /\ batching => pc'[w] = after
        /\ session[w] = "up"
        /\ pc' \in [Workers -> {"poll"} \union Writing \union Ended]
        /\ deleted' \in [Workers -> SUBSET Row] /\ inserted' \in [Workers -> SUBSET Row]
        /\ rows' \subseteq Row /\ shows' \in [Docs -> {None} \union (0 .. MaxEvents)]
        /\ \A v \in Workers \ {w} : /\ pc'[v] = pc[v] /\ deleted'[v] = deleted[v]
                                    /\ inserted'[v] = inserted[v]
      BY <1>0, <2>1, <2>2, <2>5, StatementTypes
  <2>7. doomed' \in [Workers -> Seq(Children)] /\ doomed'[w] = Tail(doomed[w])
      BY <2>1, <2>3
  <2>8. Types'
      BY <1>0, <2>1, <2>6, <2>7 DEF Types
  <2>9. ev(w)' = ev(w) /\ NewRoot(w)' = NewRoot(w)
      BY <2>1 DEF ev, NewRoot
  <2>10. ~batching => deleted'[w] = {} /\ inserted'[w] = {}
      BY <1>0, <2>6 DEF Control
  <2>11. Control(w)'
    <3>1. Sorted(doomed[w])'
        BY <2>3, <2>7 DEF Sorted
    <3>2. \/ pc'[w] = "prune" /\ doomed'[w] # <<>>
          \/ pc'[w] = "grow" /\ doomed'[w] = <<>> /\ ev(w).kind = "upsert"
          \/ pc'[w] = "fell" /\ doomed'[w] = <<>> /\ ev(w).kind = "delete" /\ pending[w] = <<>>
          \/ pc'[w] = "refused" /\ ~batching
        BY <1>0, <2>2, <2>4, <2>6, <2>7
    <3> QED
        BY <1>0, <2>1, <2>2, <2>6, <2>9, <2>10, <3>1, <3>2 DEF Control, Writing, Ended
  <2> QED
      BY <2>1, <2>6, <2>8, <2>11 DEF Idle
<1>4. CASE NextParent(w)
  <2>1. /\ pc[w] = "grow" /\ todo[w] = <<>>
        /\ UNCHANGED <<batching, log, owner, evictions, faults, committed, position,
                       session, at, doomed, deleted, inserted, rows, nextId, shows>>
      BY <1>4 DEF NextParent, group, offset, store
  <2>2. /\ pc[w] \in Writing /\ doomed[w] = <<>> /\ Sorted(doomed[w]) /\ at[w] # 0
        /\ ev(w).kind = "upsert"
        /\ ~batching \/ session[w] = "lost" => deleted[w] = {} /\ inserted[w] = {}
      BY <1>0, <2>1 DEF Control, Writing
  <2>3. ev(w)' = ev(w)
      BY <2>1 DEF ev
  <2>4. Sorted(doomed[w])'
      BY <2>1, <2>2 DEF Sorted
  <2>5. CASE pending[w] = <<>>
    <3>1. pc' = [pc EXCEPT ![w] = "settle"] /\ pending' = pending /\ todo' = todo
        BY <1>4, <2>5 DEF NextParent
    <3>2. Types'
      <4>1. pc' \in [Workers -> {"poll"} \union Writing \union Ended]
          BY <3>1 DEF Writing
      <4> QED
          BY <1>0, <2>1, <3>1, <4>1 DEF Types
    <3>3. Control(w)'
        BY <1>0, <2>1, <2>2, <2>3, <2>4, <2>5, <3>1 DEF Control, Writing, Ended
    <3> QED
        BY <2>1, <3>1, <3>2, <3>3 DEF Idle
  <2>6. CASE pending[w] # <<>>
    <3> DEFINE parent == Last(pending[w])
               rest == Front(pending[w])
               more == TodoOf(ev(w).shape, parent.table, parent.id)
    <3>1. /\ pc' = pc /\ pending' = [pending EXCEPT ![w] = rest]
          /\ todo' = [todo EXCEPT ![w] = more]
        BY <1>4, <2>6 DEF NextParent, TodoOf, Below1
    <3>2. rest \in Seq(Row) /\ parent \in Row
        BY <2>6 DEF Last, Front
    <3>3. more \in Seq(Todo)
      <4>1. parent.id \in Docs \union Nat
          BY <3>2, RowFacts
      <4> HIDE DEF parent
      <4> QED
          BY <1>0, <2>2, <4>1, TodoFacts
    <3> HIDE DEF more, rest
    <3>4. pending' \in [Workers -> Seq(Row)] /\ todo' \in [Workers -> Seq(Todo)]
        BY <3>1, <3>2, <3>3
    <3>5. Types'
      BY <1>0, <2>1, <3>1, <3>4 DEF Types
    <3>6. Control(w)'
        BY <1>0, <2>1, <2>2, <2>3, <2>4, <3>1 DEF Control, Writing, Ended
    <3> QED
        BY <2>1, <3>1, <3>5, <3>6 DEF Idle
  <2> QED
      BY <2>5, <2>6
<1>5. CASE InsertChild(w)
  <2> DEFINE h == Head(todo[w])
             n == [table |-> h.table, id |-> nextId, parent |-> h.parent, event |-> at[w]]
             old == {}
             new == {n}
  <2>1. /\ pc[w] = "grow" /\ todo[w] # <<>> /\ Statement(w, old, new, "grow")
        /\ nextId' = nextId + 1
        /\ pending' = [pending EXCEPT ![w] = Append(@, n)]
        /\ todo' = [todo EXCEPT ![w] = Tail(@)]
        /\ UNCHANGED <<batching, log, owner, evictions, faults, committed, position,
                       session, at, doomed>>
      BY <1>5 DEF InsertChild, group, offset
  <2>2. /\ pc[w] \in Writing /\ doomed[w] = <<>> /\ Sorted(doomed[w]) /\ at[w] # 0
        /\ ev(w).kind = "upsert"
      BY <1>0, <2>1 DEF Control, Writing
  <2>3. h \in Todo /\ Tail(todo[w]) \in Seq(Todo)
      BY <2>1
  <2>4. n \in Row
      BY <1>0, <2>2, <2>3 DEF Row, Todo
  <2>5. new \in SUBSET Row /\ "grow" \in {"poll"} \union Writing \union Ended
      BY <2>4 DEF Writing
  <2> HIDE DEF n, old, new
  <2>6. /\ ~batching => /\ deleted' = deleted /\ inserted' = inserted
                        /\ pc'[w] \in {"grow", "refused"}
        /\ batching => pc'[w] = "grow"
        /\ session[w] = "up"
        /\ pc' \in [Workers -> {"poll"} \union Writing \union Ended]
        /\ deleted' \in [Workers -> SUBSET Row] /\ inserted' \in [Workers -> SUBSET Row]
        /\ rows' \subseteq Row /\ shows' \in [Docs -> {None} \union (0 .. MaxEvents)]
        /\ \A v \in Workers \ {w} : /\ pc'[v] = pc[v] /\ deleted'[v] = deleted[v]
                                    /\ inserted'[v] = inserted[v]
      BY <1>0, <2>1, <2>2, <2>5, StatementTypes
  <2>7. pending' \in [Workers -> Seq(Row)] /\ todo' \in [Workers -> Seq(Todo)]
    <3>1. Append(pending[w], n) \in Seq(Row)
        BY <2>4
    <3> QED
        BY <2>1, <2>3, <3>1
  <2>8. Types'
    <3>1. nextId' \in Nat
        BY <2>1
    <3> QED
        BY <1>0, <2>1, <2>6, <2>7, <3>1 DEF Types
  <2>9. ev(w)' = ev(w)
      BY <2>1 DEF ev
  <2>10. ~batching => deleted'[w] = {} /\ inserted'[w] = {}
      BY <1>0, <2>6 DEF Control
  <2>11. Control(w)'
    <3>1. Sorted(doomed[w])'
        BY <2>1, <2>2 DEF Sorted
    <3> QED
        BY <1>0, <2>1, <2>2, <2>6, <2>9, <2>10, <3>1 DEF Control, Writing, Ended
  <2> QED
      BY <2>1, <2>6, <2>8, <2>11 DEF Idle
<1>6. CASE BadChild(w) \/ DeadlockVictim(w) \/ DeadLetter(w)
  <2>1. /\ Forget(w)
        /\ pc' = [pc EXCEPT ![w] = "failed"] \/ pc' = [pc EXCEPT ![w] = "poll"]
        /\ UNCHANGED <<batching, log, owner, evictions, faults, committed, position,
                       session, rows, nextId, shows>>
      BY <1>6 DEF BadChild, DeadlockVictim, DeadLetter, group, offset
  <2>2. pc' \in [Workers -> {"poll"} \union Writing \union Ended] /\ pc'[w] \notin Writing
          /\ \A v \in Workers \ {w} : pc'[v] = pc[v]
      BY <2>1 DEF Writing, Ended
  <2>3. Types'
    BY <1>0, <2>1, <2>2, ForgetEffect DEF Types
  <2>4. Control(w)'
      BY <1>0, <1>a, <2>1, <2>2, <2>3, ForgetEffect
  <2> QED
      BY <1>0, <2>1, <2>2, <2>3, <2>4, ForgetEffect DEF Idle
<1>7. CASE DeleteRoot(w)
  <2> DEFINE old == RootRow(Visible(w), ev(w).doc)
             new == {}
  <2>1. /\ pc[w] = "fell" /\ Statement(w, old, new, "settle")
        /\ UNCHANGED <<batching, log, owner, evictions, faults, committed, position,
                       session, at, doomed, pending, todo, nextId>>
      BY <1>7 DEF DeleteRoot, group, offset, work
  <2>2. /\ pc[w] \in Writing /\ doomed[w] = <<>> /\ Sorted(doomed[w]) /\ at[w] # 0
        /\ pending[w] = <<>> /\ todo[w] = <<>>
      BY <1>0, <2>1 DEF Control, Writing, Ended
  <2>3. new \in SUBSET Row /\ "settle" \in {"poll"} \union Writing \union Ended
      BY DEF Writing
  <2> HIDE DEF old, new
  <2>4. /\ ~batching => /\ deleted' = deleted /\ inserted' = inserted
                        /\ pc'[w] \in {"settle", "refused"}
        /\ batching => pc'[w] = "settle"
        /\ session[w] = "up"
        /\ pc' \in [Workers -> {"poll"} \union Writing \union Ended]
        /\ deleted' \in [Workers -> SUBSET Row] /\ inserted' \in [Workers -> SUBSET Row]
        /\ rows' \subseteq Row /\ shows' \in [Docs -> {None} \union (0 .. MaxEvents)]
        /\ \A v \in Workers \ {w} : /\ pc'[v] = pc[v] /\ deleted'[v] = deleted[v]
                                    /\ inserted'[v] = inserted[v]
      BY <1>0, <2>1, <2>2, <2>3, StatementTypes
  <2>5. Types'
      BY <1>0, <2>1, <2>4 DEF Types
  <2>6. ~batching => deleted'[w] = {} /\ inserted'[w] = {}
      BY <1>0, <2>4 DEF Control
  <2>7. Control(w)'
    <3>1. Sorted(doomed[w])'
        BY <2>1, <2>2 DEF Sorted
    <3> QED
        BY <1>0, <2>1, <2>2, <2>4, <2>6, <3>1 DEF Control, Writing, Ended
  <2> QED
      BY <2>1, <2>4, <2>5, <2>7 DEF Idle
<1>8. CASE Settle(w)
  <2>1. /\ pc[w] = "settle" /\ session[w] = "up"
        /\ committed' = IF owner = w THEN at[w] + 1 ELSE committed
        /\ UNCHANGED <<batching, log, owner, evictions, faults, position,
                       session, rows, nextId>>
      BY <1>8 DEF Settle, OffsetAfter, group
  <2>2. /\ pc[w] \in Writing /\ doomed[w] = <<>> /\ Sorted(doomed[w]) /\ at[w] # 0
        /\ pending[w] = <<>> /\ todo[w] = <<>>
      BY <1>0, <2>1 DEF Control, Writing, Ended
  <2>3. committed' \in 1 .. MaxEvents + 1
      BY <1>0, <2>1, <2>2
  <2>4. CASE batching
    <3>1. /\ pc' = [pc EXCEPT ![w] = "commit"]
          /\ UNCHANGED <<at, doomed, pending, todo, deleted, inserted, shows>>
        BY <1>8, <2>4 DEF Settle, work
    <3>2. pc' \in [Workers -> {"poll"} \union Writing \union Ended]
        BY <3>1 DEF Writing
    <3>3. Types'
        BY <1>0, <2>1, <2>3, <3>1, <3>2 DEF Types
    <3>4. Control(w)'
      <4>1. Sorted(doomed[w])'
          BY <2>2, <3>1 DEF Sorted
      <4> QED
          BY <1>0, <2>1, <2>2, <2>4, <3>1, <4>1 DEF Control, Writing, Ended
    <3> QED
        BY <2>1, <3>1, <3>3, <3>4 DEF Idle
  <2>5. CASE ~batching
    <3>1. /\ pc' = [pc EXCEPT ![w] = "poll"] /\ Forget(w)
          /\ shows' = [shows EXCEPT ![ev(w).doc] = at[w]]
        BY <1>8, <2>5 DEF Settle
    <3>2. pc' \in [Workers -> {"poll"} \union Writing \union Ended] /\ pc'[w] \notin Writing
            /\ \A v \in Workers \ {w} : pc'[v] = pc[v]
        BY <3>1 DEF Writing
    <3>3. shows' \in [Docs -> {None} \union (0 .. MaxEvents)]
        BY <1>0, <2>2, <3>1
    <3>4. Types'
      BY <1>0, <2>1, <2>3, <3>1, <3>2, <3>3, ForgetEffect DEF Types
    <3>5. Control(w)'
        BY <1>0, <1>a, <2>1, <3>1, <3>2, <3>4, ForgetEffect
    <3> QED
        BY <1>0, <2>1, <3>1, <3>2, <3>4, <3>5, ForgetEffect DEF Idle
  <2> QED
      BY <2>4, <2>5
<1>9. CASE Commit(w)
  <2>1. /\ pc[w] = "commit" /\ Forget(w)
        /\ UNCHANGED <<batching, log, owner, evictions, faults, committed, position,
                       session, nextId, shows>>
        /\ \/ pc' = [pc EXCEPT ![w] = "poll"] /\ rows' = Visible(w)
           \/ /\ pc' = [pc EXCEPT ![w] = "failed"] \/ pc' = [pc EXCEPT ![w] = "refused"]
              /\ rows' = rows
      BY <1>9 DEF Commit, group, offset
  <2>2. pc' \in [Workers -> {"poll"} \union Writing \union Ended] /\ pc'[w] \notin Writing
          /\ \A v \in Workers \ {w} : pc'[v] = pc[v]
      BY <2>1 DEF Writing, Ended
  <2>3. rows' \subseteq Row
      BY <2>1 DEF Visible
  <2>4. Types'
    BY <1>0, <2>1, <2>2, <2>3, ForgetEffect DEF Types
  <2>5. Control(w)'
      BY <1>0, <1>a, <2>1, <2>2, <2>4, ForgetEffect
  <2> QED
      BY <1>0, <2>1, <2>2, <2>4, <2>5, ForgetEffect DEF Idle
<1>10. CASE LoseSession(w)
  <2>1. /\ pc[w] \in Writing /\ faults < MaxFaults /\ faults' = faults + 1
        /\ session' = [session EXCEPT ![w] = "lost"]
        /\ deleted' = [deleted EXCEPT ![w] = {}] /\ inserted' = [inserted EXCEPT ![w] = {}]
        /\ UNCHANGED <<batching, log, owner, evictions, committed, position, pc, at,
                       doomed, pending, todo, rows, nextId, shows>>
      BY <1>10 DEF LoseSession, offset, work
  <2>2. Types'
      BY <1>0, <2>1 DEF Types
  <2>3. ev(w)' = ev(w) /\ NewRoot(w)' = NewRoot(w) /\ deleted'[w] = {} /\ inserted'[w] = {}
      BY <2>1 DEF ev, NewRoot
  <2>4. Control(w)'
    <3>1. Sorted(doomed[w])'
        BY <1>0, <2>1 DEF Control, Sorted
    <3> QED
        BY <1>0, <2>1, <2>3, <3>1 DEF Control, Writing, Ended
  <2> QED
      BY <2>1, <2>2, <2>4 DEF Idle
<1>11. CASE Kill(w)
  <2>1. /\ Forget(w) /\ pc' = [pc EXCEPT ![w] = "killed"]
        /\ faults < MaxFaults /\ faults' = faults + 1
        /\ UNCHANGED <<batching, log, owner, evictions, committed, position,
                       session, rows, nextId, shows>>
      BY <1>11 DEF Kill, offset
  <2>2. pc' \in [Workers -> {"poll"} \union Writing \union Ended] /\ pc'[w] \notin Writing
          /\ \A v \in Workers \ {w} : pc'[v] = pc[v]
      BY <2>1 DEF Writing, Ended
  <2>3. Types'
    <3>1. faults' \in 0 .. MaxFaults /\ evictions' <= faults' /\ evictions' = evictions
        BY <2>1
    <3> QED
        BY <1>0, <2>1, <2>2, <3>1, ForgetEffect DEF Types
  <2>4. Control(w)'
      BY <1>0, <1>a, <2>1, <2>2, <2>3, ForgetEffect
  <2> QED
      BY <1>0, <2>1, <2>2, <2>3, <2>4, ForgetEffect DEF Idle
<1>12. CASE Restart(w)
  <2>1. /\ Forget(w) /\ pc' = [pc EXCEPT ![w] = "poll"]
        /\ session' = [session EXCEPT ![w] = "up"]
        /\ position' = IF owner = w THEN committed ELSE position
        /\ faults < MaxFaults /\ faults' = faults + 1
        /\ UNCHANGED <<batching, log, owner, evictions, committed, rows, nextId, shows>>
      BY <1>12 DEF Restart
  <2>2. pc' \in [Workers -> {"poll"} \union Writing \union Ended] /\ pc'[w] \notin Writing
          /\ \A v \in Workers \ {w} : pc'[v] = pc[v] /\ session'[v] = session[v]
      BY <2>1 DEF Writing, Ended
  <2>3. Types'
    <3>1. faults' \in 0 .. MaxFaults /\ evictions' <= faults' /\ evictions' = evictions
        BY <2>1
    <3> QED
        BY <1>0, <2>1, <2>2, <3>1, ForgetEffect DEF Types
  <2>4. Control(w)'
      BY <1>0, <1>a, <2>1, <2>2, <2>3, ForgetEffect
  <2> QED
      BY <1>0, <2>1, <2>2, <2>3, <2>4, ForgetEffect DEF Idle
<1> QED
    BY <1>1, <1>2, <1>3, <1>4, <1>5, <1>6, <1>7, <1>8, <1>9, <1>10, <1>11, <1>12
       DEF WorkerStep


\* Nothing but the log grows: no worker has done anything.
LEMMA BaseProduce ==
  ASSUME Base, Produce
  PROVE  /\ Base' /\ Len(log') = Len(log) + 1 /\ \A v \in Workers : Idle(v)
         /\ \A i \in 1 .. Len(log) : log'[i] = log[i]
         /\ UNCHANGED <<batching, owner, evictions, faults, committed, position, rows,
                        nextId, shows>>
<1> USE TypeFacts
<1>1. PICK new \in Event : log' = Append(log, new)
    BY DEF Produce
<1>2. /\ Len(log) < MaxEvents
      /\ UNCHANGED <<batching, owner, evictions, faults, committed, position, pc, session,
                     at, doomed, pending, todo, deleted, inserted, rows, nextId, shows>>
    BY DEF Produce, offset, work, store
<1>3. /\ log' \in Seq(Event) /\ Len(log') = Len(log) + 1 /\ Len(log') <= MaxEvents
      /\ \A i \in 1 .. Len(log) : log'[i] = log[i]
    BY <1>1, <1>2
<1>4. Types'
    BY <1>2, <1>3 DEF Types
<1>5. \A v \in Workers : Idle(v)
    BY <1>2 DEF Idle
<1>6. \A v \in Workers : Control(v)'
    BY <1>2, <1>3, <1>5, ControlKept DEF Base
<1> QED
    BY <1>2, <1>3, <1>4, <1>5, <1>6 DEF Base

\* The partition changes hands: no worker has done anything.
LEMMA BaseEvict ==
  ASSUME Base, Evict
  PROVE  /\ Base' /\ evictions' = evictions + 1 /\ \A v \in Workers : Idle(v)
         /\ UNCHANGED <<batching, log, committed, rows, nextId, shows>>
<1> USE TypeFacts
<1>1. /\ owner' \in Workers /\ position' = committed /\ faults < MaxFaults
      /\ faults' = faults + 1 /\ evictions' = evictions + 1
      /\ UNCHANGED <<batching, log, committed, pc, session,
                     at, doomed, pending, todo, deleted, inserted, rows, nextId, shows>>
    BY DEF Evict, work, store
<1>2. /\ faults' \in 0 .. MaxFaults /\ evictions' \in 0 .. MaxFaults
      /\ evictions' <= faults'
    BY <1>1
<1>3. \A v \in Workers : Idle(v)
    BY <1>1 DEF Idle
<1>4. \A v \in Workers : Control(v)'
    BY <1>1, <1>3, ControlKept DEF Base
<1> QED
    BY <1>1, <1>2, <1>3, <1>4 DEF Base, Types

\* The first state.
LEMMA BaseInit == Init => Base
<1> SUFFICES ASSUME Init PROVE Base
    OBVIOUS
<1>1. Types
  <2>1. /\ <<>> \in Seq(Event) /\ <<>> \in Seq(Children) /\ <<>> \in Seq(Row)
        /\ <<>> \in Seq(Todo) /\ Len(<<>>) = 0
      OBVIOUS
  <2>2. /\ 0 \in 0 .. MaxFaults /\ 1 \in 1 .. MaxEvents + 1 /\ 0 \in 0 .. MaxEvents
        /\ 0 <= MaxEvents /\ 0 <= 0 /\ 1 \in Nat
      BY TreeAssumption
  <2>3. /\ pc \in [Workers -> {"poll"} \union Writing \union Ended]
        /\ session \in [Workers -> {"up", "lost"}]
      BY DEF Init
  <2> QED
      BY <2>1, <2>2, <2>3 DEF Init, Types
<1>2. ASSUME NEW w \in Workers PROVE Control(w)
  <2>1. /\ at[w] = 0 /\ pc[w] = "poll" /\ doomed[w] = <<>> /\ pending[w] = <<>>
        /\ todo[w] = <<>> /\ deleted[w] = {} /\ inserted[w] = {} /\ Len(log) = 0
      BY DEF Init
  <2>2. Sorted(doomed[w])
    <3>1. ToSet(doomed[w]) = {} /\ DOMAIN doomed[w] = {}
        BY <2>1 DEF ToSet
    <3> QED
        BY <3>1 DEF Sorted, IsInjective
  <2> QED
      BY <2>1, <2>2 DEF Control, Writing, Ended
<1> QED
    BY <1>1, <1>2 DEF Base

\* Every step keeps the types and the program counters' meaning.
LEMMA BaseNext ==
  ASSUME Base, [Next]_vars PROVE Base'
<1>1. CASE Produce
    BY <1>1, BaseProduce
<1>2. ASSUME NEW w \in Workers, WorkerStep(w) PROVE Base'
  <2>1. /\ Types' /\ Control(w)' /\ \A v \in Workers \ {w} : Idle(v)
        /\ batching' = batching /\ log' = log
      BY <1>2, BaseStep
  <2>2. Types /\ Len(log) \in Nat /\ Len(log) <= Len(log')
      BY <2>1, TypeFacts DEF Base
  <2>3. ASSUME NEW v \in Workers \ {w} PROVE Control(v)'
      BY <2>1, <2>2, ControlKept DEF Base
  <2> QED
      BY <2>1, <2>3 DEF Base
<1>3. CASE Evict
    BY <1>3, BaseEvict
<1>4. CASE UNCHANGED vars
  <2>1. /\ Types' /\ \A v \in Workers : Idle(v)
        /\ UNCHANGED <<batching, log>> /\ Len(log) \in Nat /\ Len(log) <= Len(log)
      BY <1>4, TypeFacts DEF Base, vars, Types, Idle
  <2>2. \A v \in Workers : Control(v)'
      BY <2>1, ControlKept DEF Base
  <2> QED
      BY <2>1, <2>2 DEF Base
<1> QED
    BY <1>1, <1>2, <1>3, <1>4 DEF Next, WorkerStep

\* Type correctness: every variable stays within its type, whatever the
\* tables, documents and workers and however many events and faults.
THEOREM TypeCorrect == Spec => []TypeOK
<1>1. Init => Base
    BY BaseInit
<1>2. Base /\ [Next]_vars => Base'
    BY BaseNext
<1>3. Base => TypeOK
    BY TypesTypeOK DEF Base
<1> QED
    BY <1>1, <1>2, <1>3, PTL DEF Spec

----------------------------------------------------------------------------
(* What the statements do to the rows of a document.                       *)

Upserted(V, d, n)  == (V \ RootRow(V, d)) \union {n}
TableLess(V, d, t) == V \ RowsBelow(V, d)[t]
WithRow(V, n)      == V \union {n}
RootLess(V, d)     == V \ RootRow(V, d)
Replaced(V, d, T)  == (V \ TreeIn(V, d)) \union T

\* The rows of a document are its root row and child rows.
LEMMA TreeParts ==
  ASSUME NEW V, NEW d
  PROVE  /\ RootRow(TreeIn(V, d), d) = RootRow(V, d)
         /\ Below(V, d) \subseteq V /\ RootRow(V, d) \subseteq V /\ TreeIn(V, d) \subseteq V
         /\ \A r \in TreeIn(V, d) : /\ r.table = Root => r \in RootRow(V, d)
                                    /\ r.table # Root => r \in Below(V, d)
         /\ \A r \in Below(V, d) : r.table \in Children /\ r.table # Root
<1>1. \A r \in Below(V, d) : r.table \in Children /\ r.table # Root /\ r \in V
    BY BelowFacts, RowFacts
<1> QED
    BY <1>1 DEF TreeIn, RootRow

\* Every child row is below a root row.
LEMMA BelowSome ==
  ASSUME NEW V, KeysHold(V), \A r \in V : r.table \in Tables, NEW r \in V, r.table # Root
  PROVE  \E e : RootRow(V, e) # {} /\ r \in Below(V, e)
<1> DEFINE S == {t \in Tables : t = Root \/ \A q \in V : q.table = t =>
                                   \E e : RootRow(V, e) # {} /\ q \in Below(V, e)}
<1>0. Tables = Children \union {Root} /\ Root \notin Children /\ ParentOf \in [Children -> Tables]
    BY RowFacts
<1>1. Root \in S
    BY <1>0
<1>2. ASSUME NEW t \in Children, ParentOf[t] \in S PROVE t \in S
  <2> SUFFICES ASSUME NEW q \in V, q.table = t
               PROVE  \E e : RootRow(V, e) # {} /\ q \in Below(V, e)
      BY <1>0
  <2>1. PICK p \in V : p.table = ParentOf[t] /\ p.id = q.parent
      BY <1>0 DEF KeysHold
  <2>2. CASE ParentOf[t] = Root
    <3>1. p \in RootRow(V, q.parent)
        BY <2>1, <2>2 DEF RootRow
    <3>2. q \in Below(V, q.parent)
        BY <2>2, BelowFacts
    <3> QED
        BY <3>1, <3>2
  <2>3. CASE ParentOf[t] # Root
    <3>1. PICK e : RootRow(V, e) # {} /\ p \in Below(V, e)
        BY <1>2, <2>1, <2>3
    <3>2. q \in Below(V, e)
        BY <2>1, <2>3, <3>1, BelowFacts DEF ParentRow
    <3> QED
        BY <3>1, <3>2
  <2> QED
      BY <2>2, <2>3
<1> HIDE DEF S
<1>3. Tables \subseteq S
    BY <1>1, <1>2, TreeInduction
<1>4. r.table \in S
    BY <1>3
<1> QED
    BY <1>4 DEF S

\* INSERT ... ON CONFLICT DO UPDATE of a root row: the rows below are the same.
LEMMA RootReplaced ==
  ASSUME NEW V, KeysHold(V), NEW d, NEW n, n.table = Root, n.id = d,
         NEW W, W = Upserted(V, d, n)
  PROVE  /\ KeysHold(W) /\ RootRow(W, d) = {n} /\ Below(W, d) = Below(V, d)
<1> USE DEF Upserted
<1>1. KeysHold(W)
  <2> SUFFICES ASSUME NEW r \in W, r.table # Root
               PROVE  \E p \in W : p.table = ParentOf[r.table] /\ p.id = r.parent
      BY DEF KeysHold
  <2>1. PICK p \in V : p.table = ParentOf[r.table] /\ p.id = r.parent
      BY DEF KeysHold
  <2>2. p \in W \/ (n.table = p.table /\ n.id = p.id)
      BY DEF RootRow
  <2> QED
      BY <2>1, <2>2
<1>2. RootRow(W, d) = {n}
    BY DEF RootRow
<1>3. Below(V, d) \subseteq W /\ Below(W, d) \subseteq V
  <2>1. /\ \A r \in Below(V, d) : r.table # Root /\ r \in V
        /\ \A r \in Below(W, d) : r.table # Root /\ r \in W
      BY TreeParts
  <2> QED
      BY <2>1 DEF RootRow
<1> QED
    BY <1>1, <1>2, <1>3, BelowIn

\* DELETE FROM a child table: where no child row of the document is in a
\* deeper table, no row is left without its parent row, and the child rows of
\* other tables are the same.
LEMMA TablePruned ==
  ASSUME NEW V, KeysHold(V), \A r \in V : r.table \in Tables, NEW d, NEW t \in Children,
         \A r \in Below(V, d) : Depth[r.table] <= Depth[t],
         NEW W, W = TableLess(V, d, t)
  PROVE  /\ KeysHold(W) /\ RootRow(W, d) = RootRow(V, d)
         /\ Below(W, d) = {r \in Below(V, d) : r.table # t}
<1> USE DEF TableLess
<1>0. /\ RowsBelow(V, d)[t] = {r \in Below(V, d) : r.table = t}
      /\ \A r : r \in Below(V, d) <=>
              /\ r \in V /\ r.table \in Children
              /\ IF ParentOf[r.table] = Root
                 THEN r.parent = d
                 ELSE \E p \in Below(V, d) : ParentRow(p, r)
    BY BelowFacts
<1>a. /\ Tables = Children \union {Root} /\ Root \notin Children /\ ParentOf \in [Children -> Tables]
      /\ \A c \in Children : Depth[c] = 1 + Depth[ParentOf[c]]
      /\ \A c \in Tables : Depth[c] \in Nat
    BY RowFacts, DepthFacts
<1>1. ASSUME NEW r \in Below(V, d) PROVE ParentOf[r.table] # t
    BY <1>0, <1>a
<1>2. KeysHold(W)
  <2> SUFFICES ASSUME NEW r \in W, r.table # Root
               PROVE  \E p \in W : p.table = ParentOf[r.table] /\ p.id = r.parent
      BY DEF KeysHold
  <2>1. PICK p \in V : p.table = ParentOf[r.table] /\ p.id = r.parent
      BY DEF KeysHold
  <2>2. r.table \in Children /\ r \in V
      BY <1>a
  <2>3. p \notin RowsBelow(V, d)[t]
    <3> SUFFICES ASSUME p \in Below(V, d), p.table = t PROVE FALSE
        BY <1>0
    <3>1. r \in Below(V, d)
        BY <1>0, <1>a, <2>1, <2>2 DEF ParentRow
    <3> QED
        BY <1>1, <2>1, <3>1
  <2> QED
      BY <2>1, <2>3
<1>3. RootRow(W, d) = RootRow(V, d)
    BY <1>0, <1>a DEF RootRow
<1>4. Below(W, d) \subseteq Below(V, d)
  <2>1. Below(W, d) \subseteq V
      BY TreeParts
  <2> QED
      BY <2>1, BelowIn
<1>5. ASSUME NEW r \in Below(V, d), r.table # t PROVE r \in Below(W, d)
  <2> DEFINE S == {q \in Below(V, d) : q.table # t => q \in Below(W, d)}
  <2>1. ASSUME NEW q \in Below(V, d),
               ParentOf[q.table] = Root \/ \E p \in Below(V, d) : ParentRow(p, q) /\ p \in S
        PROVE  q \in S
    <3> SUFFICES ASSUME q.table # t PROVE q \in Below(W, d)
        OBVIOUS
    <3>1. q \in W /\ q.table \in Children
        BY <1>0
    <3>2. CASE ParentOf[q.table] = Root
      <4>1. q.parent = d
          BY <1>0, <3>2
      <4> QED
          BY <3>1, <3>2, <4>1, BelowFacts
    <3>3. CASE ParentOf[q.table] # Root
      <4>1. PICK p \in Below(V, d) : ParentRow(p, q) /\ p \in S
          BY <2>1, <3>3
      <4>2. p \in Below(W, d)
          BY <1>1, <4>1 DEF ParentRow
      <4> QED
          BY <3>1, <3>3, <4>1, <4>2, BelowFacts
    <3> QED
        BY <3>2, <3>3
  <2> HIDE DEF S
  <2>2. Below(V, d) \subseteq S
      BY <2>1, BelowInduction
  <2> QED
      BY <1>5, <2>2 DEF S
<1>6. \A r \in Below(W, d) : r.table # t
  <2>1. Below(W, d) \subseteq W
      BY TreeParts
  <2> QED
      BY <1>0, <1>4, <2>1
<1> QED
    BY <1>2, <1>3, <1>4, <1>5, <1>6

\* DELETE FROM the root table, once no child row is left.
LEMMA RootFelled ==
  ASSUME NEW V, KeysHold(V), \A r \in V : r.table \in Tables, NEW d, Below(V, d) = {},
         NEW W, W = RootLess(V, d)
  PROVE  KeysHold(W) /\ TreeIn(W, d) = {}
<1> USE DEF RootLess
<1>1. KeysHold(W)
  <2> SUFFICES ASSUME NEW r \in W, r.table # Root
               PROVE  \E p \in W : p.table = ParentOf[r.table] /\ p.id = r.parent
      BY DEF KeysHold
  <2>1. PICK p \in V : p.table = ParentOf[r.table] /\ p.id = r.parent
      BY DEF KeysHold
  <2>2. r.table \in Children /\ r \in V
      BY RowFacts
  <2>3. p \notin RootRow(V, d)
    <3> SUFFICES ASSUME p.table = Root, p.id = d PROVE FALSE
        BY DEF RootRow
    <3>1. r \in Below(V, d)
        BY <2>1, <2>2, BelowFacts
    <3> QED
        BY <3>1
  <2> QED
      BY <2>1, <2>3
<1>2. RootRow(W, d) = {}
    BY DEF RootRow
<1>3. Below(W, d) = {}
  <2>1. Below(W, d) \subseteq V
      BY TreeParts
  <2> QED
      BY <2>1, BelowIn
<1> QED
    BY <1>1, <1>2, <1>3 DEF TreeIn

\* Row n is new in V and no row refers to it.
Unreferred(V, n) ==
  n \notin V /\ \A r \in V : r.table # Root => n.id # r.parent \/ ParentOf[r.table] # n.table

\* Row n refers to a row of document d.
Hangs(V, d, n) == \E q \in TreeIn(V, d) : ParentRow(q, n)

\* INSERT of a child row below a row of the document.
LEMMA RowInserted ==
  ASSUME NEW V, KeysHold(V), NEW d, NEW n, n.table \in Children, Unreferred(V, n),
         Hangs(V, d, n), NEW W, W = WithRow(V, n)
  PROVE  KeysHold(W) /\ TreeIn(W, d) = WithRow(TreeIn(V, d), n)
<1> USE DEF WithRow, Unreferred
<1>q. PICK q \in TreeIn(V, d) : ParentRow(q, n)
    BY DEF Hangs
<1>a. /\ Tables = Children \union {Root} /\ Root \notin Children /\ ParentOf \in [Children -> Tables]
      /\ \A c \in Children : Depth[c] = 1 + Depth[ParentOf[c]]
      /\ \A c \in Tables : Depth[c] \in Nat
    BY RowFacts, DepthFacts
<1>b. ParentOf[n.table] # n.table
    BY <1>a
<1>c. q \in V /\ (q.table = Root => q.id = d) /\ (q.table # Root => q \in Below(V, d))
    BY TreeParts DEF RootRow, TreeIn
<1>1. KeysHold(W)
  <2> SUFFICES ASSUME NEW r \in W, r.table # Root
               PROVE  \E p \in W : p.table = ParentOf[r.table] /\ p.id = r.parent
      BY DEF KeysHold
  <2>1. CASE r = n
      BY <1>c, <1>q, <2>1 DEF ParentRow
  <2>2. CASE r # n
      BY <2>2 DEF KeysHold
  <2> QED
      BY <2>1, <2>2
<1>2. RootRow(W, d) = RootRow(V, d)
    BY <1>a DEF RootRow
<1>3. Below(V, d) \subseteq Below(W, d)
  <2>1. Below(V, d) \subseteq W
      BY TreeParts
  <2> QED
      BY <2>1, BelowIn
<1>4. n \in Below(W, d)
  <2>1. CASE ParentOf[n.table] = Root
      BY <1>c, <1>q, <2>1, BelowFacts DEF ParentRow
  <2>2. CASE ParentOf[n.table] # Root
    <3>1. q \in Below(W, d)
        BY <1>3, <1>c, <1>q, <2>2 DEF ParentRow
    <3> QED
        BY <1>q, <2>2, <3>1, BelowFacts
  <2> QED
      BY <2>1, <2>2
<1>5. Below(W, d) \subseteq Below(V, d) \union {n}
  <2> DEFINE S == Below(V, d) \union {n}
  <2>1. ASSUME NEW r \in Below(W, d),
               ParentOf[r.table] = Root \/ \E p \in Below(W, d) : ParentRow(p, r) /\ p \in S
        PROVE  r \in S
    <3> SUFFICES ASSUME r # n PROVE r \in Below(V, d)
        OBVIOUS
    <3>1. r \in V /\ r.table \in Children /\ r.table # Root
        BY BelowFacts, <1>a
    <3>2. CASE ParentOf[r.table] = Root
      <4>1. r.parent = d
          BY <3>2, BelowFacts
      <4> QED
          BY <3>1, <3>2, <4>1, BelowFacts
    <3>3. CASE ParentOf[r.table] # Root
      <4>1. PICK p \in Below(W, d) : ParentRow(p, r) /\ p \in S
          BY <2>1, <3>3
      <4>2. p # n
          BY <3>1, <4>1 DEF ParentRow
      <4> QED
          BY <3>1, <3>3, <4>1, <4>2, BelowFacts
    <3> QED
        BY <3>2, <3>3
  <2> HIDE DEF S
  <2>2. Below(W, d) \subseteq S
      BY <2>1, BelowInduction
  <2> QED
      BY <2>2 DEF S
<1> QED
    BY <1>1, <1>2, <1>3, <1>4, <1>5 DEF TreeIn

\* COMMIT of an upsert: the rows of a document are replaced by a tree of new
\* rows, T.
LEMMA TreeReplaced ==
  ASSUME NEW V, KeysHold(V), \A r \in V : r.table \in Tables, NEW d,
         NEW T, KeysHold(T), Unique(V \union T), \A r \in T : r.table \in Tables,
         \A r \in T : (r.table = Root => r.id = d) /\ (r.table # Root => r \notin V),
         NEW W, W = Replaced(V, d, T)
  PROVE  KeysHold(W) /\ TreeIn(W, d) = T
<1> USE DEF Replaced
<1>a. /\ Tables = Children \union {Root} /\ Root \notin Children /\ ParentOf \in [Children -> Tables]
    BY RowFacts
<1>1. ASSUME NEW r \in V \ TreeIn(V, d), r.table # Root,
             NEW p \in V, p.table = ParentOf[r.table], p.id = r.parent
      PROVE  p \notin TreeIn(V, d)
  <2> SUFFICES ASSUME p \in TreeIn(V, d) PROVE FALSE
      OBVIOUS
  <2>0. r.table \in Children
      BY <1>1, <1>a
  <2>1. CASE p.table = Root
    <3>1. r.parent = d
        BY <1>1, <2>1, TreeParts DEF RootRow
    <3>2. r \in Below(V, d)
        BY <1>1, <2>0, <2>1, <3>1, BelowFacts
    <3> QED
        BY <3>2 DEF TreeIn
  <2>2. CASE p.table # Root
    <3>1. p \in Below(V, d)
        BY <2>2, TreeParts
    <3>2. r \in Below(V, d)
        BY <1>1, <2>0, <2>2, <3>1, BelowFacts DEF ParentRow
    <3> QED
        BY <3>2 DEF TreeIn
  <2> QED
      BY <2>1, <2>2
<1>2. KeysHold(W)
  <2> SUFFICES ASSUME NEW r \in W, r.table # Root
               PROVE  \E p \in W : p.table = ParentOf[r.table] /\ p.id = r.parent
      BY DEF KeysHold
  <2>1. CASE r \in T
      BY <2>1 DEF KeysHold
  <2>2. CASE r \in V \ TreeIn(V, d)
    <3>1. PICK p \in V : p.table = ParentOf[r.table] /\ p.id = r.parent
        BY <2>2 DEF KeysHold
    <3> QED
        BY <1>1, <2>2, <3>1
  <2> QED
      BY <2>1, <2>2
<1>3. RootRow(W, d) = {r \in T : r.table = Root}
    BY DEF RootRow, TreeIn
<1>4. Below(W, d) \subseteq T
  <2>1. ASSUME NEW r \in Below(W, d),
               ParentOf[r.table] = Root \/ \E p \in Below(W, d) : ParentRow(p, r) /\ p \in T
        PROVE  r \in T
    <3> SUFFICES ASSUME r \in V \ TreeIn(V, d) PROVE FALSE
        BY TreeParts
    <3>1. r.table \in Children /\ r.table # Root
        BY TreeParts
    <3>2. CASE ParentOf[r.table] = Root
      <4>1. r.parent = d
          BY <3>2, BelowFacts
      <4>2. r \in Below(V, d)
          BY <3>1, <3>2, <4>1, BelowFacts
      <4> QED
          BY <4>2 DEF TreeIn
    <3>3. CASE ParentOf[r.table] # Root
      <4>1. PICK p \in Below(W, d) : ParentRow(p, r) /\ p \in T
          BY <2>1, <3>3
      <4>2. PICK q \in V : q.table = ParentOf[r.table] /\ q.id = r.parent
          BY <3>1 DEF KeysHold
      <4>3. p = q
          BY <1>a, <3>1, <3>3, <4>1, <4>2 DEF Unique, ParentRow
      <4> QED
          BY <3>3, <4>1, <4>2, <4>3
    <3> QED
        BY <3>2, <3>3
  <2> QED
      BY <2>1, BelowInduction
<1>5. {r \in T : r.table # Root} \subseteq Below(W, d)
  <2>1. \A r \in T : r.table # Root => r \in Below(T, d)
      BY AllBelow
  <2>2. Below(T, d) \subseteq W
      BY TreeParts
  <2> QED
      BY <2>1, <2>2, BelowIn
<1>6. \A r \in Below(W, d) : r.table # Root
    BY TreeParts
<1> QED
    BY <1>2, <1>3, <1>4, <1>5, <1>6 DEF TreeIn

\* The next table to be deleted from is pruned: the rows of the document there
\* that the transaction has not deleted are those that its own join finds.
LEMMA JoinFindsAll ==
  ASSUME NEW V, NEW d, NEW s, Sorted(s), NEW W,
         \A r \in W : r \in V \/ r.table = Root,
         \A r \in V : r.table # Root /\ r.table \in ToSet(s) => r \in W,
         NEW t \in ToSet(s), ToSet(s) \subseteq Children
  PROVE  RowsBelow(W, d)[t] = {r \in Below(V, d) : r.table = t}
<1>a. /\ Tables = Children \union {Root} /\ Root \notin Children /\ ParentOf \in [Children -> Tables]
      /\ \A c \in Children : Depth[c] = 1 + Depth[ParentOf[c]]
      /\ \A c \in Tables : Depth[c] \in Nat
    BY RowFacts, DepthFacts
<1>1. Below(W, d) \subseteq Below(V, d)
  <2>1. Below(W, d) \subseteq V
      BY TreeParts
  <2> QED
      BY <2>1, BelowIn
<1>2. ASSUME NEW c \in ToSet(s), ParentOf[c] # Root PROVE ParentOf[c] \in ToSet(s)
  <2> SUFFICES ASSUME ParentOf[c] \notin ToSet(s) PROVE FALSE
      OBVIOUS
  <2>1. c \in Children /\ ParentOf[c] \in Children \ ToSet(s)
      BY <1>2, <1>a
  <2>2. Depth[c] <= Depth[ParentOf[c]]
      BY <2>1 DEF Sorted
  <2> QED
      BY <1>a, <2>1, <2>2
<1> DEFINE S == {r \in Below(V, d) : r.table \in ToSet(s) => r \in Below(W, d)}
<1>3. ASSUME NEW r \in Below(V, d),
             ParentOf[r.table] = Root \/ \E p \in Below(V, d) : ParentRow(p, r) /\ p \in S
      PROVE  r \in S
  <2> SUFFICES ASSUME r.table \in ToSet(s) PROVE r \in Below(W, d)
      OBVIOUS
  <2>1. r \in V /\ r.table \in Children /\ r.table # Root /\ r \in W
      BY TreeParts
  <2>2. CASE ParentOf[r.table] = Root
    <3>1. r.parent = d
        BY <2>2, BelowFacts
    <3> QED
        BY <2>1, <2>2, <3>1, BelowFacts
  <2>3. CASE ParentOf[r.table] # Root
    <3>1. PICK p \in Below(V, d) : ParentRow(p, r) /\ p \in S
        BY <1>3, <2>3
    <3>2. p \in Below(W, d)
        BY <1>2, <2>3, <3>1 DEF ParentRow
    <3> QED
        BY <2>1, <2>3, <3>1, <3>2, BelowFacts
  <2> QED
      BY <2>2, <2>3
<1> HIDE DEF S
<1>4. Below(V, d) \subseteq S
    BY <1>3, BelowInduction
<1>5. RowsBelow(W, d)[t] = {r \in Below(W, d) : r.table = t}
    BY BelowFacts
<1> QED
    BY <1>1, <1>4, <1>5 DEF S

----------------------------------------------------------------------------
(* A tree that grows.                                                      *)

\* The rows of table c below the row with key q.
Kids(T, c, q) == {r \in T : r.table = c /\ r.parent = q}

\* The rows in T are part of one tree: n is its root row.
Part(T, n) ==
  /\ n \in T /\ IsFiniteSet(T)
  /\ \A r \in T : /\ r.table \in Tables /\ r.event = n.event
                  /\ r.table = Root => r = n
  /\ KeysHold(T)
  /\ \A p, q \in T : p.table = q.table /\ p.id = q.id => p = q

\* What is still to be inserted (td) has its parent among the rows that are not
\* on the stack.
Stacked(T, pend, td) ==
  /\ IsInjective(pend) /\ ToSet(pend) \subseteq T
  /\ \A x \in ToSet(td) : \E p \in T \ ToSet(pend) : ParentOf[x.table] = p.table /\ x.parent = p.id

\* Each row has the child rows the event has for it, those that are still to be
\* inserted included, unless it is on the stack.
Counted(T, shape, pend, td) ==
  \A p \in T : \A c \in Children : ParentOf[c] = p.table =>
       Cardinality(Kids(T, c, p.id)) + Count(td, [table |-> c, parent |-> p.id])
         = IF p \in ToSet(pend) THEN 0 ELSE shape[c]

\* The tree of an upsert, as far as it has been inserted.
Grow(T, n, shape, pend, td) ==
  Part(T, n) /\ Stacked(T, pend, td) /\ Counted(T, shape, pend, td)

\* The whole tree of an upsert.
Whole(T, n, shape) ==
  /\ n \in T
  /\ \A r \in T : /\ r.table \in Tables /\ r.event = n.event
                  /\ r.table = Root => r = n
  /\ KeysHold(T)
  /\ \A p \in T : \A c \in Children :
       ParentOf[c] = p.table => Cardinality(Kids(T, c, p.id)) = shape[c]

\* The root row alone, before its child rows are enumerated.
LEMMA GrowStart ==
  ASSUME NEW n, n.table = Root, NEW shape
  PROVE  Grow({n}, n, shape, <<n>>, <<>>)
<1>1. ToSet(<<n>>) = {n} /\ IsInjective(<<n>>) /\ ToSet(<<>>) = {}
    BY DEF ToSet, IsInjective
<1>2. IsFiniteSet({n})
    BY FS_Singleton
<1>3. ASSUME NEW c \in Children
      PROVE  /\ Cardinality(Kids({n}, c, n.id)) = 0
             /\ Count(<<>>, [table |-> c, parent |-> n.id]) = 0
  <2>1. Kids({n}, c, n.id) = {}
      BY RowFacts DEF Kids
  <2>2. Cardinality({}) = 0
      BY FS_EmptySet
  <2>3. <<>> \in Seq(Todo)
      OBVIOUS
  <2>4. Count(<<>>, [table |-> c, parent |-> n.id]) = 0
      BY <2>3, CountFacts
  <2> QED
      BY <2>1, <2>2, <2>4
<1>4. KeysHold({n}) /\ Root \in Tables
    BY RowFacts DEF KeysHold
<1>5. ASSUME NEW p \in {n}, NEW c \in Children
      PROVE  Cardinality(Kids({n}, c, p.id)) + Count(<<>>, [table |-> c, parent |-> p.id])
               = IF p \in ToSet(<<n>>) THEN 0 ELSE shape[c]
  <2>1. p = n /\ p \in ToSet(<<n>>) /\ 0 + 0 = 0
      BY <1>1
  <2> QED
      BY <1>3, <2>1
<1> DEFINE T == {n}
           s == <<n>>
           e == <<>>
<1>6. /\ n \in T /\ \A r \in T : r = n /\ r.table \in Tables
      /\ ToSet(s) \subseteq T
    BY <1>1, <1>4
<1>7. IsInjective(s) /\ IsFiniteSet(T) /\ KeysHold(T) /\ ToSet(e) = {}
    BY <1>1, <1>2, <1>4
<1>8. \A p \in T : \A c \in Children :
         Cardinality(Kids(T, c, p.id)) + Count(e, [table |-> c, parent |-> p.id])
           = IF p \in ToSet(s) THEN 0 ELSE shape[c]
    BY <1>5
<1> HIDE DEF T, s, e
<1>9. Part(T, n)
    BY <1>6, <1>7 DEF Part
<1>10. Stacked(T, s, e) /\ Counted(T, shape, s, e)
    BY <1>6, <1>7, <1>8 DEF Stacked, Counted
<1> QED
    BY <1>9, <1>10 DEF T, s, e, Grow

\* A sequence of different elements loses its last one.
LEMMA FrontFacts ==
  ASSUME NEW A, NEW s \in Seq(A), s # <<>>, IsInjective(s)
  PROVE  /\ Front(s) \in Seq(A) /\ IsInjective(Front(s)) /\ Last(s) \in ToSet(s)
         /\ Last(s) \in A /\ ToSet(Front(s)) = ToSet(s) \ {Last(s)}
<1> DEFINE r == Front(s)
<1>1. /\ r \in Seq(A) /\ DOMAIN s = 1 .. Len(s) /\ DOMAIN r = 1 .. Len(s) - 1
      /\ Len(s) \in Nat \ {0} /\ Last(s) = s[Len(s)] /\ Last(s) \in A
      /\ \A i \in DOMAIN r : r[i] = s[i] /\ i \in DOMAIN s /\ i # Len(s)
      /\ Len(s) \in DOMAIN s
    BY DEF Front, Last
<1>2. \A i \in DOMAIN s : i = Len(s) \/ i \in DOMAIN r
    BY <1>1
<1> HIDE DEF r
<1>3. \A i \in DOMAIN r : r[i] # Last(s)
    BY <1>1 DEF IsInjective
<1>4. ToSet(r) = ToSet(s) \ {Last(s)}
    BY <1>1, <1>2, <1>3 DEF ToSet
<1>5. IsInjective(r)
    BY <1>1 DEF IsInjective
<1>6. Last(s) \in ToSet(s)
    BY <1>1 DEF ToSet
<1> QED
    BY <1>1, <1>4, <1>5, <1>6 DEF r

\* The last row pushed is popped and its children are enumerated.
LEMMA GrowPop ==
  ASSUME NEW T \in SUBSET Row, NEW n, NEW shape \in [Children -> Nat],
         NEW pend \in Seq(Row), pend # <<>>,
         Grow(T, n, shape, pend, <<>>)
  PROVE  Grow(T, n, shape, Front(pend), TodoOf(shape, Last(pend).table, Last(pend).id))
<1> DEFINE p0 == Last(pend)
           rest == Front(pend)
           td == TodoOf(shape, p0.table, p0.id)
<1>1. /\ IsInjective(rest) /\ p0 \in ToSet(pend) /\ p0 \in Row
      /\ ToSet(rest) = ToSet(pend) \ {p0}
    BY FrontFacts DEF Grow, Part, Stacked, Counted
<1>2. p0.id \in Docs \union Nat /\ p0 \in T
    BY <1>1, RowFacts DEF Grow, Part, Stacked, Counted
<1> HIDE DEF p0, rest
<1>3. /\ td \in Seq(Todo)
      /\ \A x \in ToSet(td) : x.parent = p0.id /\ ParentOf[x.table] = p0.table
      /\ \A c \in Children : ParentOf[c] = p0.table =>
              Count(td, [table |-> c, parent |-> p0.id]) = shape[c]
    BY <1>2, TodoFacts
<1> HIDE DEF td
<1>4. \A x \in ToSet(td) : \E p \in T \ ToSet(rest) : ParentOf[x.table] = p.table /\ x.parent = p.id
    BY <1>1, <1>2, <1>3
<1>5. ASSUME NEW p \in T, NEW c \in Children, ParentOf[c] = p.table
      PROVE  Cardinality(Kids(T, c, p.id)) + Count(td, [table |-> c, parent |-> p.id])
               = IF p \in ToSet(rest) THEN 0 ELSE shape[c]
  <2> DEFINE k == Cardinality(Kids(T, c, p.id))
             x == [table |-> c, parent |-> p.id]
  <2>1. /\ k \in Nat /\ Count(<<>>, x) = 0 /\ shape[c] \in Nat
        /\ k + Count(<<>>, x) = IF p \in ToSet(pend) THEN 0 ELSE shape[c]
    <3>1. k \in Nat
      <4>1. IsFiniteSet(Kids(T, c, p.id))
          BY FS_Subset DEF Grow, Part, Stacked, Counted, Kids
      <4> QED
          BY <4>1, FS_CardinalityType
    <3>2. <<>> \in Seq(Todo)
        OBVIOUS
    <3>3. Count(<<>>, x) = 0
        BY <3>2, CountFacts
    <3>4. k + Count(<<>>, x) = IF p \in ToSet(pend) THEN 0 ELSE shape[c]
        BY <1>5 DEF Grow, Part, Stacked, Counted
    <3> QED
        BY <3>1, <3>3, <3>4
  <2>2. CASE p = p0
    <3>1. Count(td, x) = shape[c]
        BY <1>3, <1>5, <2>2
    <3> QED
        BY <1>1, <2>1, <2>2, <3>1
  <2>3. CASE p # p0
    <3>1. x \notin ToSet(td)
      <4> SUFFICES ASSUME x \in ToSet(td) PROVE FALSE
          OBVIOUS
      <4>1. p.id = p0.id /\ p.table = p0.table
          BY <1>3, <1>5
      <4> QED
          BY <1>2, <2>3, <4>1 DEF Grow, Part, Stacked, Counted
    <3>2. Count(td, x) = 0
      <4>1. \A i \in DOMAIN td : td[i] # x
          BY <3>1 DEF ToSet
      <4> HIDE DEF x
      <4> QED
          BY <1>3, <4>1, CountFacts
    <3> QED
        BY <1>1, <2>1, <2>3, <3>2
  <2> QED
      BY <2>2, <2>3
<1>6. ToSet(rest) \subseteq T
    BY <1>1 DEF Grow, Part, Stacked, Counted
<1>7. Stacked(T, rest, td)
    BY <1>1, <1>4, <1>6 DEF Stacked
<1>8. Counted(T, shape, rest, td)
    BY <1>5 DEF Counted
<1> QED
    BY <1>7, <1>8 DEF rest, td, p0, Grow

\* A row enumerated is inserted, with a key that no row has.
LEMMA GrowInsert ==
  ASSUME NEW T \in SUBSET Row, NEW n, n.table = Root, NEW shape \in [Children -> Nat],
         NEW pend \in Seq(Row), NEW td \in Seq(Todo), td # <<>>,
         Grow(T, n, shape, pend, td),
         NEW m \in Row, m.table = Head(td).table, m.parent = Head(td).parent,
         m.event = n.event,
         \A r \in T : r.table # Root => r.id # m.id
  PROVE  /\ Grow(T \union {m}, n, shape, Append(pend, m), Tail(td))
         /\ m \notin T /\ m.table \in Children /\ \E p \in T : ParentRow(p, m)
<1> DEFINE h == Head(td)
           rest == Tail(td)
           more == Append(pend, m)
           U == T \union {m}
<1>a. /\ Tables = Children \union {Root} /\ Root \notin Children /\ ParentOf \in [Children -> Tables]
      /\ \A c \in Children : Depth[c] = 1 + Depth[ParentOf[c]]
      /\ \A c \in Tables : Depth[c] \in Nat
    BY RowFacts, DepthFacts
<1>1. /\ h \in Todo /\ h \in ToSet(td) /\ rest \in Seq(Todo) /\ ToSet(rest) \subseteq ToSet(td)
  <2>1. /\ h = td[1] /\ 1 \in DOMAIN td /\ h \in Todo /\ rest \in Seq(Todo)
        /\ \A i \in DOMAIN rest : rest[i] = td[i + 1] /\ i + 1 \in DOMAIN td
      OBVIOUS
  <2> HIDE DEF h, rest
  <2> QED
      BY <2>1 DEF ToSet
<1>2. m.table \in Children /\ m.table # Root /\ h.table = m.table /\ h.parent = m.parent
    BY <1>1, <1>a DEF Todo
<1> HIDE DEF h, rest, more
<1>3. \E p \in T : ParentRow(p, m)
    BY <1>1, <1>2 DEF Grow, Part, Stacked, Counted, ParentRow
<1>4. m \notin T /\ \A r \in T : ~(r.table = m.table /\ r.id = m.id)
    BY <1>2
<1>5. KeysHold(U)
  <2> SUFFICES ASSUME NEW r \in U, r.table # Root
               PROVE  \E p \in U : p.table = ParentOf[r.table] /\ p.id = r.parent
      BY DEF KeysHold
  <2>1. CASE r = m
      BY <1>3, <2>1 DEF ParentRow
  <2>2. CASE r # m
    <3>1. KeysHold(T)
        BY DEF Grow, Part, Stacked, Counted
    <3> QED
        BY <2>2, <3>1 DEF KeysHold
  <2> QED
      BY <2>1, <2>2
<1>6. IsFiniteSet(U)
    BY FS_AddElement DEF Grow, Part, Stacked, Counted
<1>7. ToSet(more) = ToSet(pend) \union {m} /\ IsInjective(more)
  <2>1. /\ DOMAIN more = 1 .. Len(pend) + 1 /\ DOMAIN pend = 1 .. Len(pend) /\ Len(pend) \in Nat
        /\ \A i \in DOMAIN pend : more[i] = pend[i] /\ i # Len(pend) + 1
        /\ more[Len(pend) + 1] = m
      BY DEF more
  <2>2. \A i \in DOMAIN more : i \in DOMAIN pend \/ i = Len(pend) + 1
      BY <2>1
  <2>3. \A i \in DOMAIN pend : pend[i] # m /\ i \in DOMAIN more
      BY <1>4, <2>1 DEF Grow, Part, Stacked, Counted, ToSet
  <2>4. Len(pend) + 1 \in DOMAIN more
      BY <2>1
  <2>5. IsInjective(pend)
      BY DEF Grow, Part, Stacked, Counted
  <2> DEFINE k == Len(pend) + 1
  <2> HIDE DEF k
  <2>6. ToSet(more) = ToSet(pend) \union {m}
      BY <2>1, <2>2, <2>3, <2>4 DEF ToSet
  <2>7. IsInjective(more)
      BY <2>1, <2>2, <2>3, <2>5 DEF IsInjective
  <2> QED
      BY <2>6, <2>7
<1>8. \A x \in ToSet(rest) : \E p \in U \ ToSet(more) : ParentOf[x.table] = p.table /\ x.parent = p.id
  <2> SUFFICES ASSUME NEW x \in ToSet(rest)
               PROVE  \E p \in U \ ToSet(more) : ParentOf[x.table] = p.table /\ x.parent = p.id
      OBVIOUS
  <2>1. PICK p \in T \ ToSet(pend) : ParentOf[x.table] = p.table /\ x.parent = p.id
      BY <1>1 DEF Grow, Part, Stacked, Counted
  <2> QED
      BY <1>4, <1>7, <2>1
<1>9. ASSUME NEW p \in U, NEW c \in Children, ParentOf[c] = p.table
      PROVE  Cardinality(Kids(U, c, p.id)) + Count(rest, [table |-> c, parent |-> p.id])
               = IF p \in ToSet(more) THEN 0 ELSE shape[c]
  <2> DEFINE x == [table |-> c, parent |-> p.id]
  <2>0. c # p.table
      BY <1>9, <1>a
  <2>1. CASE p = m
    <3>1. Kids(U, c, m.id) = {}
      <4> SUFFICES ASSUME NEW r \in U, r.table = c, r.parent = m.id PROVE FALSE
          BY DEF Kids
      <4>1. r \in T /\ r.table # Root
          BY <2>0, <2>1, <1>a
      <4>2. \E q \in T : q.table = ParentOf[r.table] /\ q.id = r.parent
          BY <4>1 DEF Grow, Part, Stacked, Counted, KeysHold
      <4> QED
          BY <1>4, <1>9, <2>1, <4>2
    <3>2. Count(rest, x) = 0
      <4>1. ASSUME NEW i \in DOMAIN rest, rest[i] = x PROVE FALSE
        <5>1. x \in ToSet(td)
            BY <1>1, <4>1 DEF ToSet
        <5>2. \E q \in T : ParentOf[x.table] = q.table /\ x.parent = q.id
            BY <5>1 DEF Grow, Part, Stacked, Counted
        <5> QED
            BY <1>4, <1>9, <2>1, <5>2
      <4> HIDE DEF x
      <4> QED
          BY <1>1, <4>1, CountFacts
    <3>3. Cardinality({}) = 0
        BY FS_EmptySet
    <3>4. Cardinality(Kids(U, c, p.id)) = 0 /\ p \in ToSet(more)
        BY <1>7, <2>1, <3>1, <3>3
    <3> HIDE DEF x
    <3> QED
        BY <3>2, <3>4 DEF x
  <2>2. CASE p # m
    <3>0. p \in T
        BY <2>2
    <3>1. /\ Count(td, x) = Count(rest, x) + (IF h = x THEN 1 ELSE 0)
          /\ Count(rest, x) \in Nat
      <4> HIDE DEF x
      <4> QED
          BY <1>1, CountFacts DEF h, rest
    <3>2. h = x <=> m.table = c /\ m.parent = p.id
        BY <1>1, <1>2 DEF Todo
    <3>3. IsFiniteSet(Kids(T, c, p.id)) /\ m \notin Kids(T, c, p.id)
        BY <1>4, FS_Subset DEF Kids, Grow, Part
    <3>4. /\ Cardinality(Kids(T, c, p.id)) \in Nat
          /\ Cardinality(Kids(T, c, p.id) \union {m}) = Cardinality(Kids(T, c, p.id)) + 1
        BY <3>3, FS_CardinalityType, FS_AddElement
    <3>5. Kids(U, c, p.id) = IF m.table = c /\ m.parent = p.id
                             THEN Kids(T, c, p.id) \union {m} ELSE Kids(T, c, p.id)
        BY DEF Kids
    <3>6. Cardinality(Kids(T, c, p.id)) + Count(td, x)
               = IF p \in ToSet(pend) THEN 0 ELSE shape[c]
        BY <1>9, <3>0 DEF Grow, Part, Stacked, Counted
    <3>7. p \in ToSet(more) <=> p \in ToSet(pend)
        BY <1>7, <2>2
    <3> HIDE DEF x
    <3>8. Cardinality(Kids(U, c, p.id)) + Count(rest, x) = Cardinality(Kids(T, c, p.id)) + Count(td, x)
      <4>1. CASE h = x
          BY <3>1, <3>2, <3>4, <3>5, <4>1
      <4>2. CASE h # x
        <5>1. Kids(U, c, p.id) = Kids(T, c, p.id)
            BY <3>2, <3>5, <4>2
        <5> QED
            BY <3>1, <3>4, <4>2, <5>1
      <4> QED
          BY <4>1, <4>2
    <3> QED
        BY <3>6, <3>7, <3>8 DEF x
  <2> QED
      BY <2>1, <2>2
<1>10. /\ n \in U /\ \A r \in U : /\ r.table \in Tables /\ r.event = n.event
                                  /\ r.table = Root => r = n
       /\ ToSet(more) \subseteq U
       /\ \A p, q \in U : p.table = q.table /\ p.id = q.id => p = q
  <2>1. ToSet(more) \subseteq U
      BY <1>7 DEF Grow, Part, Stacked, Counted
  <2>2. \A p, q \in U : p.table = q.table /\ p.id = q.id => p = q
      BY <1>4 DEF Grow, Part, Stacked, Counted
  <2> QED
      BY <1>2, <1>a, <2>1, <2>2 DEF Grow, Part, Stacked, Counted
<1>11. \A p \in U : \A c \in Children : ParentOf[c] = p.table =>
         Cardinality(Kids(U, c, p.id)) + Count(rest, [table |-> c, parent |-> p.id])
           = IF p \in ToSet(more) THEN 0 ELSE shape[c]
    BY <1>9
<1> HIDE DEF U
<1>12. Part(U, n)
    BY <1>5, <1>6, <1>10 DEF Part
<1>13. Stacked(U, more, rest)
    BY <1>7, <1>8, <1>10 DEF Stacked
<1>14. Counted(U, shape, more, rest)
    BY <1>11 DEF Counted
<1> QED
    BY <1>2, <1>3, <1>4, <1>12, <1>13, <1>14 DEF more, rest, U, Grow

\* Nothing is left to be inserted: the tree is whole.
LEMMA GrowDone ==
  ASSUME NEW T, NEW n, NEW shape, Grow(T, n, shape, <<>>, <<>>)
  PROVE  Whole(T, n, shape)
<1> SUFFICES ASSUME NEW p \in T, NEW c \in Children, ParentOf[c] = p.table
             PROVE  Cardinality(Kids(T, c, p.id)) = shape[c]
    BY DEF Whole, Grow, Part
<1> DEFINE x == [table |-> c, parent |-> p.id]
           k == Cardinality(Kids(T, c, p.id))
<1>1. k \in Nat
  <2>1. IsFiniteSet(Kids(T, c, p.id))
      BY FS_Subset DEF Grow, Part, Stacked, Counted, Kids
  <2> QED
      BY <2>1, FS_CardinalityType
<1>2. <<>> \in Seq(Todo) /\ ToSet(<<>>) = {}
    BY DEF ToSet
<1>3. k + Count(<<>>, x) = shape[c]
    BY <1>2 DEF Grow, Part, Stacked, Counted
<1> HIDE DEF x
<1>4. Count(<<>>, x) = 0
    BY <1>2, CountFacts
<1> QED
    BY <1>1, <1>3, <1>4

----------------------------------------------------------------------------
(* The invariant.                                                          *)

Upserts(w) == ev(w).kind = "upsert"

\* The child rows of the document in the tables that w is done with are deleted.
Pruned(w) == \A r \in Below(rows, ev(w).doc) : r.table \notin ToSet(doomed[w]) => r \in deleted[w]

\* T is what an upsert has made of the tree of its document.
Made(w, T) ==
  /\ pc[w] = "prune" => T = {NewRoot(w)}
  /\ pc[w] = "grow" => Grow(T, NewRoot(w), ev(w).shape, pending[w], todo[w])
  /\ pc[w] \in {"settle", "commit"} => Whole(T, NewRoot(w), ev(w).shape)

\* What the transaction of w has deleted and inserted.  The root row that an
\* upsert has written is locked, so that no other worker touches the document;
\* a delete locks it last.
Transaction(w) ==
  batching /\ session[w] = "up" /\ pc[w] \in Writing \ {"root"} =>
    /\ deleted[w] \subseteq TreeIn(rows, ev(w).doc)
    /\ \A r \in deleted[w] : r.table # Root => r.table \notin ToSet(doomed[w])
    /\ Upserts(w) =>
         RootRow(rows, ev(w).doc) \subseteq deleted[w] /\ Pruned(w) /\ Made(w, inserted[w])
    /\ ~Upserts(w) =>
         /\ inserted[w] = {}
         /\ pc[w] \in {"prune", "fell"} => \A r \in deleted[w] : r.table # Root
         /\ pc[w] \in {"settle", "commit"} =>
              deleted[w] = {} \/ RootRow(rows, ev(w).doc) \subseteq deleted[w]
         /\ evictions = 0 =>
              /\ Pruned(w)
              /\ pc[w] \in {"settle", "commit"} => RootRow(rows, ev(w).doc) \subseteq deleted[w]

\* What the statements of w have done to the rows of its document, each one a
\* transaction, as long as no partition changes hands.
Direct(w) ==
  ~batching /\ evictions = 0 /\ pc[w] \in Writing \ {"root"} =>
    /\ pc[w] \in {"prune", "fell"} =>
         \A r \in Below(rows, ev(w).doc) : r.table \in ToSet(doomed[w])
    /\ Upserts(w) => Made(w, IF pc[w] = "prune" THEN RootRow(rows, ev(w).doc)
                                                ELSE TreeIn(rows, ev(w).doc))
    /\ ~Upserts(w) /\ pc[w] = "settle" => TreeIn(rows, ev(w).doc) = {}

\* Only the owner writes.
Solo == evictions = 0 => \A v \in Workers \ {owner} : pc[v] = "poll"

\* Child rows have keys of their own, of those given out; those a transaction
\* has inserted are not in the table and not in another transaction.
Stored == rows \union UNION {inserted[w] : w \in Workers}

Keyed ==
  /\ \A r \in Stored : r.table # Root => r.id < nextId
  /\ Unique(Stored)
  /\ \A w \in Workers : \A r \in inserted[w] : r.table # Root =>
       r \notin rows /\ \A v \in Workers \ {w} : r \notin inserted[v]

\* No two transactions have deleted the same row, or inserted the same root.
Apart(v, w) ==
  /\ deleted[v] \intersect deleted[w] = {}
  /\ \A r \in inserted[v], s \in inserted[w] : r.table = Root /\ s.table = Root => r.id # s.id

\* T is the tree of event i for document d.
IsTreeOf(T, d, i) ==
  IF i = 0 \/ (i > 0 /\ log[i].kind = "delete")
  THEN T = {}
  ELSE /\ Cardinality(RootRow(T, d)) = 1
       /\ \A r \in T : r.event = i
       /\ \A p \in T : \A c \in Children :
            ParentOf[c] = p.table => Cardinality(Kids(T, c, p.id)) = log[i].shape[c]

\* With batching a document is the tree of one of its events.
Trees ==
  batching => \A d \in Docs : \E i \in 0 .. Len(log) :
    (i > 0 => log[i].doc = d) /\ IsTreeOf(TreeIn(rows, d), d, i)

\* Without, a document shows the event it is said to show.
Shown ==
  ~batching /\ evictions = 0 => \A d \in Docs : shows[d] # None =>
    shows[d] \in 0 .. Len(log) /\ IsTreeOf(TreeIn(rows, d), d, shows[d])

Inv ==
  /\ Base
  /\ Solo
  /\ KeysHold(rows)
  /\ Keyed
  /\ \A v, w \in Workers : v # w => Apart(v, w)
  /\ \A w \in Workers : Transaction(w)
  /\ \A w \in Workers : Direct(w)
  /\ Trees
  /\ Shown
  /\ NeverRefused

\* What is known of a worker that does nothing stays, if the rows do.
LEMMA ClaimsKept ==
  ASSUME Base, NEW v \in Workers, Idle(v), batching' = batching, rows' = rows,
         \A i \in 1 .. Len(log) : log'[i] = log[i],
         evictions' = evictions \/ evictions' # 0,
         Transaction(v), Direct(v)
  PROVE  Transaction(v)' /\ Direct(v)'
<1>1. CASE pc[v] \notin Writing
    BY <1>1 DEF Idle, Transaction, Direct, Writing
<1>2. CASE pc[v] \in Writing
  <2>1. at[v] \in 1 .. Len(log)
      BY <1>2, EventFacts
  <2>2. ev(v)' = ev(v) /\ NewRoot(v)' = NewRoot(v) /\ (Upserts(v)' <=> Upserts(v))
      BY <2>1 DEF ev, NewRoot, Idle, Upserts
  <2>3. \A T : Made(v, T) => Made(v, T)'
      BY <2>2 DEF Made, Idle
  <2>4. Pruned(v) => Pruned(v)'
      BY <2>2 DEF Pruned, Idle
  <2>5. Transaction(v)'
      BY <2>2, <2>3, <2>4 DEF Transaction, Idle
  <2>6. Direct(v)'
      BY <2>2, <2>3 DEF Direct, Idle
  <2> QED
      BY <2>5, <2>6
<1> QED
    BY <1>1, <1>2

\* Child rows keep their keys when no new one is written.
LEMMA KeyedKept ==
  ASSUME Keyed, nextId' = nextId,
         \A r \in Stored' : r.table # Root => r \in Stored,
         \A w \in Workers : \A r \in inserted'[w] : r.table # Root =>
           r \notin rows' /\ \A v \in Workers \ {w} : r \notin inserted'[v]
  PROVE  Keyed'
<1>1. \A r \in Stored' : r.table # Root => r.id < nextId'
    BY DEF Keyed
<1>2. Unique(Stored)'
    BY RowFacts DEF Keyed, Unique
<1> QED
    BY <1>1, <1>2 DEF Keyed

\* A new child row takes the next key.
LEMMA KeyedNext ==
  ASSUME Keyed, nextId \in Nat, nextId' = nextId + 1,
         \A r \in Stored : r.table # Root => r.id \in Nat,
         NEW m, m.id = nextId,
         \A r \in Stored' : r.table # Root => r \in Stored \/ r = m,
         \A w \in Workers : \A r \in inserted'[w] : r.table # Root =>
           r \notin rows' /\ \A v \in Workers \ {w} : r \notin inserted'[v]
  PROVE  Keyed'
<1>1. \A r \in Stored' : r.table # Root => r.id < nextId'
    BY DEF Keyed
<1>2. Unique(Stored)'
    BY RowFacts DEF Keyed, Unique
<1> QED
    BY <1>1, <1>2 DEF Keyed

\* Transactions stay apart as long as no row is written.
LEMMA ApartKept ==
  ASSUME NEW v \in Workers, NEW w \in Workers, Apart(v, w),
         deleted'[v] \subseteq deleted[v], deleted'[w] \subseteq deleted[w],
         inserted'[v] \subseteq inserted[v], inserted'[w] \subseteq inserted[w]
  PROVE  Apart(v, w)'
  BY DEF Apart

\* The tree of an event is the same when the log grows.
LEMMA TreeKept ==
  ASSUME NEW T, NEW d, NEW i \in 0 .. Len(log), Len(log) \in Nat,
         \A j \in 1 .. Len(log) : log'[j] = log[j], IsTreeOf(T, d, i)
  PROVE  IsTreeOf(T, d, i)'
<1>1. i = 0 \/ i \in 1 .. Len(log)
    OBVIOUS
<1> QED
    BY <1>1 DEF IsTreeOf

\* So are the trees shown when the rows are.
LEMMA TreesKept ==
  ASSUME Base, Trees, Shown, batching' = batching, rows' = rows, shows' = shows,
         evictions' = evictions \/ evictions' # 0,
         Len(log) <= Len(log'), Len(log') \in Nat, \A i \in 1 .. Len(log) : log'[i] = log[i]
  PROVE  Trees' /\ Shown'
<1>0. Len(log) \in Nat /\ 0 .. Len(log) \subseteq 0 .. Len(log')
    BY TypeFacts
<1>1. Trees'
  <2> SUFFICES ASSUME batching, NEW d \in Docs
               PROVE  \E i \in 0 .. Len(log') :
                        (i > 0 => log'[i].doc = d) /\ IsTreeOf(TreeIn(rows, d), d, i)'
      BY DEF Trees
  <2>1. PICK i \in 0 .. Len(log) : (i > 0 => log[i].doc = d) /\ IsTreeOf(TreeIn(rows, d), d, i)
      BY DEF Trees
  <2> DEFINE T == TreeIn(rows, d)
  <2>2. T' = T
      OBVIOUS
  <2> HIDE DEF T
  <2>3. IsTreeOf(T, d, i)'
    <3> SUFFICES ASSUME NEW U, U = T PROVE IsTreeOf(U, d, i)'
        BY <2>2
    <3> QED
        BY <1>0, <2>1, TreeKept DEF T
  <2>4. i > 0 => log'[i].doc = d
      BY <1>0, <2>1
  <2> QED
      BY <1>0, <2>3, <2>4 DEF T
<1>2. Shown'
  <2> SUFFICES ASSUME ~batching, evictions = 0, NEW d \in Docs, shows[d] # None
               PROVE  shows[d] \in 0 .. Len(log') /\ IsTreeOf(TreeIn(rows, d), d, shows[d])'
      BY DEF Shown
  <2>1. shows[d] \in 0 .. Len(log) /\ IsTreeOf(TreeIn(rows, d), d, shows[d])
      BY DEF Shown
  <2> QED
      BY <1>0, <2>1, TreeKept
<1> QED
    BY <1>1, <1>2

----------------------------------------------------------------------------
(* Steps that write no row.                                                *)

\* With no eviction only the owner takes a step.
LEMMA OwnerSteps ==
  ASSUME Base, Solo, NEW w \in Workers, WorkerStep(w), evictions = 0
  PROVE  w = owner
<1> SUFFICES ASSUME pc[w] = "poll", w # owner PROVE FALSE
    BY DEF Solo
<1>1. Target(w) = {} /\ ~Waits(w)
    BY DEF Target, Waits
<1>2. ~Deliver(w)
    BY DEF Deliver
<1>3. ~UpsertRoot(w) /\ ~DeleteChildren(w) /\ ~NextParent(w) /\ ~InsertChild(w)
    BY DEF UpsertRoot, DeleteChildren, NextParent, InsertChild
<1>4. ~BadChild(w) /\ ~DeleteRoot(w) /\ ~Settle(w) /\ ~Commit(w)
    BY DEF BadChild, DeleteRoot, Settle, Commit
<1>5. ~DeadLetter(w) /\ ~DeadlockVictim(w) /\ ~LoseSession(w) /\ ~Kill(w) /\ ~Restart(w)
    BY <1>1 DEF DeadLetter, DeadlockVictim, LoseSession, Kill, Restart, Writing, Ended
<1> QED
    BY <1>2, <1>3, <1>4, <1>5 DEF WorkerStep

\* The others are where they were.
LEMMA SoloKept ==
  ASSUME Base, Solo, NEW w \in Workers, WorkerStep(w)
  PROVE  Solo'
<1>1. /\ \A v \in Workers \ {w} : Idle(v)
      /\ owner' = owner /\ evictions' = evictions
    BY BaseStep
<1> QED
    BY <1>1, OwnerSteps DEF Solo, Idle

\* The same rows, and transactions that are the same or gone.
LEMMA RowsKept ==
  ASSUME Inv, Base', Solo', NeverRefused',
         batching' = batching, rows' = rows, nextId' = nextId,
         evictions' = evictions \/ evictions' # 0,
         Len(log) <= Len(log'), \A i \in 1 .. Len(log) : log'[i] = log[i],
         \A v \in Workers : \/ deleted'[v] = deleted[v] /\ inserted'[v] = inserted[v]
                            \/ deleted'[v] = {} /\ inserted'[v] = {},
         \A v \in Workers : Idle(v) \/ (Transaction(v)' /\ Direct(v)'),
         Trees', Shown'
  PROVE  Inv'
<1>0. Base /\ Len(log) \in Nat
    BY TypeFacts DEF Inv
<1>1. /\ \A v \in Workers : deleted'[v] \subseteq deleted[v] /\ inserted'[v] \subseteq inserted[v]
      /\ Stored' \subseteq Stored
    BY DEF Stored
<1>2. Keyed'
  <2>1. \A w \in Workers : \A r \in inserted'[w] : r.table # Root =>
           r \notin rows' /\ \A v \in Workers \ {w} : r \notin inserted'[v]
      BY <1>1 DEF Inv, Keyed
  <2> QED
      BY <1>1, <2>1, KeyedKept DEF Inv
<1>3. \A v, w \in Workers : v # w => Apart(v, w)'
    BY <1>1, ApartKept DEF Inv
<1>4. \A v \in Workers : Transaction(v)' /\ Direct(v)'
    BY <1>0, ClaimsKept DEF Inv
<1>5. KeysHold(rows)'
    BY DEF Inv
<1> QED
    BY <1>2, <1>3, <1>4, <1>5 DEF Inv

\* What every step of a worker leaves.
LEMMA StepFacts ==
  ASSUME Inv, NEW w \in Workers, WorkerStep(w)
  PROVE  /\ Base /\ Base' /\ Solo'
         /\ \A v \in Workers \ {w} : Idle(v)
         /\ batching' = batching /\ log' = log /\ owner' = owner /\ evictions' = evictions
         /\ Len(log) \in Nat
         /\ (pc'[w] = "refused" => evictions # 0) => NeverRefused'
         /\ evictions = 0 => w = owner /\ \A v \in Workers \ {w} : pc[v] = "poll"
<1>1. Base /\ Solo /\ NeverRefused
    BY DEF Inv
<1>2. Base'
    BY <1>1, BaseNext DEF Next, WorkerStep
<1>3. /\ \A v \in Workers \ {w} : Idle(v)
      /\ batching' = batching /\ log' = log /\ owner' = owner /\ evictions' = evictions
    BY <1>1, BaseStep
<1>4. Solo'
    BY <1>1, SoloKept
<1>5. ASSUME pc'[w] = "refused" => evictions # 0 PROVE NeverRefused'
    BY <1>1, <1>3, <1>5 DEF NeverRefused, Idle
<1>6. ASSUME evictions = 0 PROVE w = owner /\ \A v \in Workers \ {w} : pc[v] = "poll"
    BY <1>1, <1>6, OwnerSteps DEF Solo
<1>7. Len(log) \in Nat
    BY <1>1, TypeFacts
<1> QED
    BY <1>1, <1>2, <1>3, <1>4, <1>5, <1>6, <1>7

\* A step after which only the program counters and the memory of w differ.
LEMMA QuietStep ==
  ASSUME Inv, NEW w \in Workers, WorkerStep(w), rows' = rows, nextId' = nextId,
         shows' = shows, pc'[w] = "refused" => evictions # 0,
         \/ deleted'[w] = deleted[w] /\ inserted'[w] = inserted[w]
         \/ deleted'[w] = {} /\ inserted'[w] = {},
         Transaction(w)', Direct(w)'
  PROVE  Inv'
<1>1. /\ Base' /\ Solo' /\ NeverRefused' /\ Base
      /\ \A v \in Workers \ {w} : Idle(v)
      /\ batching' = batching /\ log' = log /\ evictions' = evictions
      /\ Len(log) \in Nat
    BY StepFacts
<1>2. Trees' /\ Shown'
    BY <1>1, TreesKept DEF Inv
<1>3. \A v \in Workers : \/ deleted'[v] = deleted[v] /\ inserted'[v] = inserted[v]
                         \/ deleted'[v] = {} /\ inserted'[v] = {}
    BY <1>1 DEF Idle
<1>4. Len(log) <= Len(log') /\ \A i \in 1 .. Len(log) : log'[i] = log[i]
    BY <1>1
<1> QED
    BY <1>1, <1>2, <1>3, <1>4, RowsKept

\* The event is given up.
LEMMA GivenUp ==
  ASSUME Inv, NEW w \in Workers, WorkerStep(w), Forget(w), pc'[w] \notin Writing,
         pc'[w] = "refused" => evictions # 0, rows' = rows, nextId' = nextId, shows' = shows
  PROVE  Inv'
<1>1. Types
    BY DEF Inv, Base
<1>2. deleted'[w] = {} /\ inserted'[w] = {}
    BY <1>1, ForgetEffect
<1>3. Transaction(w)' /\ Direct(w)'
    BY DEF Transaction, Direct, Writing
<1> QED
    BY <1>2, <1>3, QuietStep

\* An event is added to the log: no row and no transaction changes.
LEMMA InvProduce ==
  ASSUME Inv, Produce PROVE Inv'
<1>1. /\ Base' /\ Len(log') = Len(log) + 1 /\ \A v \in Workers : Idle(v)
      /\ \A i \in 1 .. Len(log) : log'[i] = log[i] /\ Len(log) \in Nat /\ Base
      /\ UNCHANGED <<batching, owner, evictions, rows, nextId, shows>>
    BY BaseProduce, TypeFacts DEF Inv
<1>2. Solo' /\ NeverRefused'
    BY <1>1 DEF Inv, Solo, NeverRefused, Idle
<1>3. Trees' /\ Shown'
    BY <1>1, TreesKept DEF Inv
<1>4. \A v \in Workers : deleted'[v] = deleted[v] /\ inserted'[v] = inserted[v]
    BY <1>1 DEF Idle
<1> QED
    BY <1>1, <1>2, <1>3, <1>4, RowsKept

\* An eviction lifts what holds only while the partition stays with its owner,
\* and touches no transaction.
LEMMA InvEvict ==
  ASSUME Inv, Evict PROVE Inv'
<1>1. /\ Base' /\ evictions' = evictions + 1 /\ \A v \in Workers : Idle(v)
      /\ UNCHANGED <<batching, log, rows, nextId, shows>> /\ Base
    BY BaseEvict DEF Inv
<1>2. evictions' # 0 /\ Len(log) \in Nat
    BY <1>1, TypeFacts
<1>3. Solo' /\ NeverRefused'
    BY <1>2 DEF Solo, NeverRefused
<1>4. Trees' /\ Shown'
    BY <1>1, <1>2, TreesKept DEF Inv
<1>5. \A v \in Workers : deleted'[v] = deleted[v] /\ inserted'[v] = inserted[v]
    BY <1>1 DEF Idle
<1> QED
    BY <1>1, <1>2, <1>3, <1>4, <1>5, RowsKept

\* A worker that has not written keeps no transaction.
LEMMA NothingWritten ==
  ASSUME Base, NEW w \in Workers,
         ~batching \/ session[w] = "lost" \/ pc[w] \notin Writing \ {"root"}
  PROVE  deleted[w] = {} /\ inserted[w] = {}
  BY DEF Base, Control

\* An event is taken in hand with all child tables still to be deleted from.
LEMMA InvDeliver ==
  ASSUME Inv, NEW w \in Workers, Deliver(w) PROVE Inv'
<1>1. /\ pc[w] = "poll" /\ position <= Len(log)
      /\ at' = [at EXCEPT ![w] = position]
      /\ doomed' = [doomed EXCEPT ![w] = DeleteOrder]
      /\ pc' = [pc EXCEPT ![w] =
                  IF batching /\ session[w] = "lost" THEN "failed"
                  ELSE IF log[position].kind = "upsert" THEN "root"
                  ELSE IF DeleteOrder # <<>> THEN "prune" ELSE "fell"]
      /\ UNCHANGED <<batching, log, deleted, inserted, rows, nextId, shows>>
    BY DEF Deliver, group, store
<1>2. Base /\ WorkerStep(w)
    BY DEF Inv, WorkerStep
<1> USE TypeFacts
<1>3. deleted'[w] = {} /\ inserted'[w] = {}
  <2>1. deleted[w] = {} /\ inserted[w] = {}
      BY <1>1, <1>2, NothingWritten DEF Writing
  <2> QED
      BY <1>1, <2>1
<1>4. /\ pc'[w] \in {"failed", "root", "prune", "fell"}
      /\ doomed'[w] = DeleteOrder /\ at'[w] = position
    BY <1>1, <1>2
<1>5. pc'[w] \in {"prune", "fell"} => ~Upserts(w)'
    BY <1>1, <1>2, <1>4 DEF Upserts, ev
<1>6. \A r \in Below(rows', ev(w).doc') : r.table \in ToSet(doomed'[w])
    BY <1>4, DeleteOrderFacts, TreeParts
<1>7. Transaction(w)'
  <2>1. Pruned(w)'
      BY <1>6 DEF Pruned
  <2> QED
      BY <1>3, <1>4, <1>5, <2>1 DEF Transaction, Writing
<1>8. Direct(w)'
    BY <1>4, <1>5, <1>6 DEF Direct, Writing
<1> QED
    BY <1>1, <1>2, <1>3, <1>4, <1>7, <1>8, QuietStep

\* The stack of an upsert.
LEMMA NextMade ==
  ASSUME Base, NEW w \in Workers, NextParent(w), NEW T \in SUBSET Row, Made(w, T)
  PROVE  Made(w, T)'
<1> USE TypeFacts
<1>0. /\ pc[w] = "grow" /\ todo[w] = <<>> /\ pc[w] \in Writing
      /\ UNCHANGED <<log, at>>
    BY DEF NextParent, group, Writing
<1>1. ev(w)' = ev(w) /\ NewRoot(w)' = NewRoot(w) /\ ev(w).shape \in [Children -> Nat]
    BY <1>0, EventFacts DEF ev, NewRoot
<1>2. Grow(T, NewRoot(w), ev(w).shape, pending[w], <<>>)
    BY <1>0 DEF Made
<1>3. CASE pending[w] = <<>>
  <2>1. pc'[w] = "settle"
      BY <1>3 DEF NextParent
  <2>2. Whole(T, NewRoot(w), ev(w).shape)
      BY <1>2, <1>3, GrowDone
  <2> QED
      BY <1>1, <2>1, <2>2 DEF Made
<1>4. CASE pending[w] # <<>>
  <2> DEFINE n == NewRoot(w)
             shape == ev(w).shape
             pend == pending[w]
             rest == Front(pending[w])
             more == TodoOf(ev(w).shape, Last(pending[w]).table, Last(pending[w]).id)
  <2>1. pc' = pc /\ pending'[w] = rest /\ todo'[w] = more
      BY <1>4 DEF NextParent, TodoOf, Below1
  <2>2. pend \in Seq(Row)
      OBVIOUS
  <2>3. Grow(T, n, shape, rest, more)
    <3> HIDE DEF n
    <3> QED
        BY <1>1, <1>2, <1>4, <2>2, GrowPop DEF n
  <2> HIDE DEF rest, more
  <2> QED
      BY <1>0, <1>1, <2>1, <2>3 DEF Made
<1> QED
    BY <1>3, <1>4

\* A parent row is popped, or the tree is whole.
LEMMA InvNextParent ==
  ASSUME Inv, NEW w \in Workers, NextParent(w) PROVE Inv'
<1> USE TypeFacts
<1>1. /\ pc[w] = "grow" /\ todo[w] = <<>>
      /\ UNCHANGED <<batching, log, owner, evictions, session, at, doomed, deleted,
                     inserted, rows, nextId, shows>>
    BY DEF NextParent, group, store
<1>2. Base /\ WorkerStep(w) /\ Control(w) /\ Transaction(w) /\ Direct(w)
    BY DEF Inv, Base, WorkerStep
<1>3. pc'[w] \in {"grow", "settle"}
    BY <1>1, <1>2 DEF NextParent
<1>4. Upserts(w) /\ Upserts(w)' /\ ev(w)' = ev(w)
    BY <1>1, <1>2 DEF Upserts, ev, Control
<1>5. \A T \in SUBSET Row : Made(w, T) => Made(w, T)'
    BY <1>2, NextMade
<1>6. inserted[w] \in SUBSET Row /\ TreeIn(rows, ev(w).doc) \in SUBSET Row
    BY <1>2, TreeParts
<1>7. Transaction(w)'
  <2>1. Pruned(w) => Pruned(w)'
      BY <1>1, <1>4 DEF Pruned
  <2>2. Made(w, inserted[w]) => Made(w, inserted[w])'
      BY <1>1, <1>5, <1>6
  <2> QED
      BY <1>1, <1>2, <1>3, <1>4, <2>1, <2>2 DEF Transaction, Writing
<1>8. Direct(w)'
  <2>1. Made(w, TreeIn(rows, ev(w).doc)) => Made(w, TreeIn(rows, ev(w).doc))'
      BY <1>1, <1>4, <1>5, <1>6
  <2> QED
      BY <1>1, <1>2, <1>3, <1>4, <2>1 DEF Direct, Writing
<1> QED
    BY <1>1, <1>2, <1>3, <1>7, <1>8, QuietStep

\* An event that fails, and a process that ends or starts, leave the committed
\* rows and forget the rest.
LEMMA InvGivenUp ==
  ASSUME Inv, NEW w \in Workers,
         BadChild(w) \/ DeadLetter(w) \/ DeadlockVictim(w) \/ Kill(w) \/ Restart(w)
  PROVE  Inv'
<1>1. WorkerStep(w) /\ pc \in [Workers -> {"poll"} \union Writing \union Ended]
    BY TypeFacts DEF Inv, WorkerStep
<1>2. Forget(w) /\ rows' = rows /\ nextId' = nextId /\ shows' = shows
    BY DEF BadChild, DeadLetter, DeadlockVictim, Kill, Restart
<1>3. pc'[w] \in {"failed", "poll", "killed"}
    BY <1>1 DEF BadChild, DeadLetter, DeadlockVictim, Kill, Restart
<1> QED
    BY <1>1, <1>2, <1>3, GivenUp DEF Writing

\* A lost session takes its transaction with it and leaves the committed rows.
LEMMA InvLoseSession ==
  ASSUME Inv, NEW w \in Workers, LoseSession(w) PROVE Inv'
<1> USE TypeFacts
<1>1. /\ session' = [session EXCEPT ![w] = "lost"]
      /\ deleted' = [deleted EXCEPT ![w] = {}] /\ inserted' = [inserted EXCEPT ![w] = {}]
      /\ UNCHANGED <<batching, log, evictions, pc, at, doomed, pending, todo, rows,
                     nextId, shows>>
    BY DEF LoseSession, work
<1>2. Base /\ WorkerStep(w) /\ Direct(w)
    BY DEF Inv, WorkerStep
<1>3. session'[w] = "lost" /\ deleted'[w] = {} /\ inserted'[w] = {}
    BY <1>1, <1>2
<1>4. Transaction(w)'
    BY <1>3 DEF Transaction
<1>5. ev(w)' = ev(w) /\ NewRoot(w)' = NewRoot(w)
    BY <1>1 DEF ev, NewRoot
<1>6. Direct(w)'
    BY <1>1, <1>2, <1>5 DEF Direct, Made, Upserts
<1>7. pc'[w] # "refused"
    BY <1>1 DEF LoseSession, Writing
<1> QED
    BY <1>1, <1>2, <1>3, <1>4, <1>6, <1>7, QuietStep

\* The whole tree of an upsert is the tree of its event.
LEMMA WholeIsTree ==
  ASSUME NEW T, NEW n, n.table = Root, NEW d, n.id = d, n.event \in Nat \ {0},
         log[n.event].kind = "upsert", Whole(T, n, log[n.event].shape)
  PROVE  IsTreeOf(T, d, n.event)
<1>1. RootRow(T, d) = {n}
    BY DEF Whole, RootRow
<1>2. Cardinality(RootRow(T, d)) = 1
    BY <1>1, FS_Singleton
<1>3. \A r \in T : r.event = n.event
    BY DEF Whole
<1>4. \A p \in T : \A c \in Children :
        ParentOf[c] = p.table => Cardinality(Kids(T, c, p.id)) = log[n.event].shape[c]
    BY DEF Whole
<1> QED
    BY <1>2, <1>3, <1>4 DEF IsTreeOf

\* An event is settled: its statements have left its tree, or their transaction
\* is about to.
LEMMA InvSettle ==
  ASSUME Inv, NEW w \in Workers, Settle(w) PROVE Inv'
<1> USE TypeFacts
<1>1. /\ pc[w] = "settle" /\ pc[w] \in Writing
      /\ UNCHANGED <<batching, log, owner, evictions, session, rows, nextId>>
    BY DEF Settle, group, Writing
<1>2. Base /\ WorkerStep(w) /\ Control(w) /\ Transaction(w) /\ Direct(w) /\ Types
    BY DEF Inv, Base, WorkerStep
<1>3. CASE batching
  <2>1. /\ pc' = [pc EXCEPT ![w] = "commit"]
        /\ UNCHANGED <<at, doomed, pending, todo, deleted, inserted, shows>>
      BY <1>3 DEF Settle, work
  <2>2. pc'[w] = "commit"
      BY <1>2, <2>1
  <2>3. ev(w)' = ev(w) /\ NewRoot(w)' = NewRoot(w) /\ (Upserts(w)' <=> Upserts(w))
      BY <1>1, <2>1 DEF ev, NewRoot, Upserts
  <2>4. Pruned(w) => Pruned(w)'
      BY <1>1, <2>1, <2>3 DEF Pruned
  <2>5. Made(w, inserted[w]) => Made(w, inserted[w])'
      BY <1>1, <2>1, <2>2, <2>3 DEF Made
  <2>6. Transaction(w)'
      BY <1>1, <1>2, <2>1, <2>2, <2>3, <2>4, <2>5 DEF Transaction, Writing
  <2>7. Direct(w)'
      BY <1>1, <1>3 DEF Direct
  <2> QED
      BY <1>1, <1>2, <2>1, <2>2, <2>6, <2>7, QuietStep
<1>4. CASE ~batching
  <2>1. /\ pc' = [pc EXCEPT ![w] = "poll"] /\ Forget(w)
        /\ shows' = [shows EXCEPT ![ev(w).doc] = at[w]]
      BY <1>4 DEF Settle
  <2>2. pc'[w] = "poll" /\ pc'[w] \notin Writing
      BY <1>2, <2>1 DEF Writing
  <2>3. /\ Base' /\ Solo' /\ NeverRefused' /\ \A v \in Workers \ {w} : Idle(v)
      BY <1>2, <2>2, StepFacts
  <2>4. deleted'[w] = {} /\ inserted'[w] = {}
      BY <1>2, <2>1, ForgetEffect
  <2>5. \A v \in Workers : \/ deleted'[v] = deleted[v] /\ inserted'[v] = inserted[v]
                           \/ deleted'[v] = {} /\ inserted'[v] = {}
      BY <2>3, <2>4 DEF Idle
  <2>6. Transaction(w)' /\ Direct(w)'
      BY <2>2 DEF Transaction, Direct
  <2>7. Trees'
      BY <1>1, <1>4 DEF Trees
  <2>8. Shown'
    <3> SUFFICES ASSUME evictions = 0, NEW d \in Docs, shows'[d] # None
                 PROVE  /\ shows'[d] \in 0 .. Len(log)
                        /\ IsTreeOf(TreeIn(rows, d), d, shows'[d])
        BY <1>1 DEF Shown, IsTreeOf
    <3>0. /\ at[w] \in 1 .. Len(log) /\ at[w] \in Nat \ {0} /\ at[w] \in 0 .. Len(log)
          /\ ev(w).doc \in Docs /\ ev(w).kind \in {"upsert", "delete"} /\ ev(w) = log[at[w]]
        BY <1>1, <1>2, EventFacts DEF ev
    <3>1. CASE d # ev(w).doc
      <4>1. shows'[d] = shows[d]
          BY <1>2, <2>1, <3>1
      <4> QED
          BY <1>4, <4>1 DEF Inv, Shown
    <3>2. CASE d = ev(w).doc
      <4>1. shows'[d] = at[w]
          BY <1>2, <2>1, <3>2
      <4>2. CASE ev(w).kind = "delete"
        <5>1. TreeIn(rows, d) = {}
            BY <1>1, <1>2, <1>4, <3>2, <4>2 DEF Direct, Upserts
        <5> QED
            BY <3>0, <4>1, <4>2, <5>1 DEF IsTreeOf
      <4>3. CASE ev(w).kind = "upsert"
        <5> DEFINE T == TreeIn(rows, d)
                   n == NewRoot(w)
        <5>1. Whole(T, n, ev(w).shape)
            BY <1>1, <1>2, <1>4, <3>2, <4>3 DEF Direct, Upserts, Made
        <5>2. n.table = Root /\ n.id = d /\ n.event = at[w]
            BY <3>2 DEF NewRoot
        <5> HIDE DEF n, T
        <5>3. IsTreeOf(T, d, n.event)
            BY <3>0, <4>3, <5>1, <5>2, WholeIsTree
        <5> QED
            BY <3>0, <4>1, <5>2, <5>3 DEF T
      <4> QED
          BY <3>0, <4>2, <4>3
    <3> QED
        BY <3>1, <3>2
  <2> QED
      BY <1>1, <1>2, <2>3, <2>5, <2>6, <2>7, <2>8, RowsKept
<1> QED
    BY <1>3, <1>4

----------------------------------------------------------------------------
(* Statements of a transaction.                                            *)

\* A statement of a transaction writes no committed row.
LEMMA InTransaction ==
  ASSUME Inv, NEW w \in Workers, WorkerStep(w), batching, rows' = rows, shows' = shows,
         pc'[w] # "refused", Keyed', \A v \in Workers \ {w} : Apart(v, w)', Transaction(w)'
  PROVE  Inv'
<1>1. /\ Base' /\ Solo' /\ NeverRefused' /\ Base
      /\ \A v \in Workers \ {w} : Idle(v)
      /\ batching' = batching /\ log' = log /\ evictions' = evictions
      /\ Len(log) \in Nat
    BY StepFacts
<1>2. Trees' /\ Shown'
    BY <1>1, TreesKept DEF Inv
<1>3. \A v \in Workers \ {w} : Transaction(v)' /\ Direct(v)'
    BY <1>1, ClaimsKept DEF Inv
<1>4. Direct(w)'
    BY <1>1 DEF Direct
<1>5. ASSUME NEW v \in Workers, NEW u \in Workers, v # u PROVE Apart(v, u)'
  <2>1. CASE u = w
      BY <1>5, <2>1
  <2>2. CASE v = w
    <3>1. Apart(u, w)'
        BY <1>5, <2>2
    <3> QED
        BY <2>2, <3>1 DEF Apart
  <2>3. CASE u # w /\ v # w
    <3>1. Apart(v, u)
        BY <1>5 DEF Inv
    <3>2. Idle(u) /\ Idle(v)
        BY <1>1, <2>3
    <3> QED
        BY <3>1, <3>2, ApartKept DEF Idle
  <2> QED
      BY <2>1, <2>2, <2>3
<1>6. KeysHold(rows)'
    BY DEF Inv
<1> QED
    BY <1>1, <1>2, <1>3, <1>4, <1>5, <1>6 DEF Inv

\* It writes no child row.
LEMMA NoChildWritten ==
  ASSUME Inv, NEW w \in Workers, WorkerStep(w), nextId' = nextId,
         \A r \in rows' : r.table # Root => r \in rows,
         \A r \in inserted'[w] : r.table # Root => r \in inserted[w]
  PROVE  Keyed'
<1>1. \A v \in Workers \ {w} : Idle(v)
    BY StepFacts
<1>2. \A v \in Workers : \A r \in inserted'[v] : r.table # Root => r \in inserted[v]
    BY <1>1 DEF Idle
<1>3. \A r \in Stored' : r.table # Root => r \in Stored
    BY <1>2 DEF Stored
<1>4. \A u \in Workers : \A r \in inserted'[u] : r.table # Root =>
           r \notin rows' /\ \A v \in Workers \ {u} : r \notin inserted'[v]
    BY <1>2 DEF Inv, Keyed
<1> QED
    BY <1>3, <1>4, KeyedKept DEF Inv

\* The rows it writes over are in no other transaction.
LEMMA ApartStep ==
  ASSUME Inv, NEW w \in Workers, WorkerStep(w), NEW v \in Workers \ {w},
         \A r \in deleted'[w] : r \in deleted[w] \/ r \notin deleted[v],
         \A r \in inserted'[w] : r.table = Root =>
           r \in inserted[w] \/ \A s \in inserted[v] : s.table = Root => s.id # r.id
  PROVE  Apart(v, w)'
<1>1. Idle(v)
    BY StepFacts
<1>2. Apart(v, w)
    BY DEF Inv
<1> QED
    BY <1>1, <1>2 DEF Apart, Idle

\* What w sees, and what it waits for.
LEMMA NotLocked ==
  ASSUME NEW w \in Workers, ~Waits(w), NEW v \in Workers \ {w}
  PROVE  Target(w) \intersect (deleted[v] \union inserted[v]) = {}
  BY DEF Waits, Locked

\* A statement in a transaction.
LEMMA StatementTxn ==
  ASSUME Types, NEW w \in Workers, NEW old, NEW new, NEW next, batching,
         Statement(w, old, new, next)
  PROVE  /\ deleted'[w] = deleted[w] \union (old \intersect rows)
         /\ inserted'[w] = (inserted[w] \ old) \union new
         /\ pc'[w] = next /\ rows' = rows /\ shows' = shows /\ ~Waits(w)
  BY DEF Statement, Types

\* In a transaction, the root row is written and locks the document.
LEMMA InvUpsertRootTxn ==
  ASSUME Inv, NEW w \in Workers, UpsertRoot(w), batching PROVE Inv'
<1> USE TypeFacts
<1> DEFINE d == ev(w).doc
           n == NewRoot(w)
           old == RootRow(Visible(w), d)
           new == {n}
           after == AfterPrune(w, doomed[w])
<1>0. /\ Base /\ WorkerStep(w) /\ Control(w) /\ Types
      /\ pc[w] = "root" /\ pc[w] \in Writing
    BY DEF Inv, Base, WorkerStep, UpsertRoot, Writing
<1>1. /\ Statement(w, old, new, after)
      /\ pending' = [pending EXCEPT ![w] = <<n>>]
      /\ UNCHANGED <<batching, log, evictions, session, at, doomed, todo, nextId>>
    BY DEF UpsertRoot, NewRoot, group, offset
<1>2. /\ ev(w).kind = "upsert" /\ doomed[w] = DeleteOrder /\ todo[w] = <<>>
      /\ d \in Docs /\ n \in Row /\ ev(w).shape \in [Children -> Nat]
    BY <1>0, EventFacts DEF Control, Writing, Ended
<1>3. after = IF doomed[w] # <<>> THEN "prune" ELSE "grow"
    BY <1>2 DEF AfterPrune
<1>4. deleted[w] = {} /\ inserted[w] = {}
    BY <1>0, NothingWritten
<1>5. old = RootRow(rows, d) /\ old \subseteq rows
    BY <1>4 DEF Visible, RootRow
<1>6. new \in SUBSET Row /\ after \in {"poll"} \union Writing \union Ended
    BY <1>2, <1>3 DEF Writing
<1> HIDE DEF old, new, after, d
<1>7. /\ deleted'[w] = deleted[w] \union (old \intersect rows)
      /\ inserted'[w] = (inserted[w] \ old) \union new
      /\ pc'[w] = after /\ rows' = rows /\ shows' = shows /\ ~Waits(w)
    BY <1>0, <1>1, StatementTxn
<1>8. deleted'[w] = RootRow(rows, d) /\ inserted'[w] = {n}
    BY <1>4, <1>5, <1>7 DEF new
<1>9. n.table = Root /\ n.id = d
    BY DEF NewRoot, d
<1>10. Keyed'
  <2>1. \A r \in inserted'[w] : r.table = Root
      BY <1>8, <1>9
  <2> QED
      BY <1>0, <1>1, <1>7, <2>1, NoChildWritten
<1>11. ASSUME NEW v \in Workers \ {w} PROVE Apart(v, w)'
  <2>1. Target(w) = RootRow(Visible(w) \union Locked(w), d)
      BY <1>0 DEF Target, d
  <2>2. RootRow(rows, d) \subseteq Target(w)
      BY <1>4, <2>1 DEF Visible, RootRow
  <2>3. \A s \in inserted[v] : s.table = Root /\ s.id = d => s \in Target(w)
      BY <2>1 DEF Locked, RootRow
  <2>4. Target(w) \intersect (deleted[v] \union inserted[v]) = {}
      BY <1>7, NotLocked
  <2>5. \A r \in deleted'[w] : r \notin deleted[v]
      BY <1>8, <2>2, <2>4
  <2>6. \A r \in inserted'[w] : \A s \in inserted[v] : s.table = Root => s.id # r.id
      BY <1>8, <1>9, <2>3, <2>4
  <2> QED
      BY <1>0, <2>5, <2>6, ApartStep
<1>12. ev(w)' = ev(w) /\ NewRoot(w)' = n /\ Upserts(w)' /\ d' = d
    BY <1>1, <1>2 DEF ev, NewRoot, Upserts, d
<1>13. \A r \in Below(rows, d) : r.table \in ToSet(doomed'[w])
    BY <1>1, <1>2, DeleteOrderFacts, TreeParts
<1>14. Made(w, inserted[w])'
  <2>1. CASE after = "prune"
      BY <1>7, <1>8, <1>12, <2>1 DEF Made
  <2>2. CASE after = "grow"
    <3>1. pending'[w] = <<n>> /\ todo'[w] = <<>>
        BY <1>0, <1>1, <1>2
    <3> HIDE DEF n
    <3>2. Grow({n}, n, ev(w).shape, <<n>>, <<>>)
        BY <1>9, GrowStart
    <3> QED
        BY <1>7, <1>8, <1>12, <2>2, <3>1, <3>2 DEF Made
  <2> QED
      BY <1>3, <2>1, <2>2
<1>15. Transaction(w)'
  <2>1. Pruned(w)'
      BY <1>7, <1>12, <1>13 DEF Pruned, d
  <2>2. RootRow(rows, d) \subseteq TreeIn(rows, d) /\ \A r \in RootRow(rows, d) : r.table = Root
      BY DEF TreeIn, RootRow
  <2> QED
      BY <1>7, <1>8, <1>12, <1>14, <2>1, <2>2 DEF Transaction, d
<1>16. pc'[w] # "refused"
    BY <1>3, <1>7
<1> QED
    BY <1>0, <1>7, <1>10, <1>11, <1>15, <1>16, InTransaction

\* In a transaction, the child rows of a table are deleted.
LEMMA InvDeleteChildrenTxn ==
  ASSUME Inv, NEW w \in Workers, DeleteChildren(w), batching PROVE Inv'
<1> USE TypeFacts
<1> DEFINE d == ev(w).doc
           n == NewRoot(w)
           h == Head(doomed[w])
           rest == Tail(doomed[w])
           old == RowsBelow(Visible(w), d)[h]
           after == AfterPrune(w, rest)
<1>0. /\ Base /\ WorkerStep(w) /\ Control(w) /\ Types /\ Transaction(w)
      /\ pc[w] = "prune" /\ pc[w] \in Writing
    BY DEF Inv, Base, WorkerStep, DeleteChildren, Writing
<1>1. /\ Statement(w, old, {}, after)
      /\ doomed' = [doomed EXCEPT ![w] = Tail(@)]
      /\ UNCHANGED <<batching, log, evictions, session, at, pending, todo, nextId>>
    BY DEF DeleteChildren, group, offset
<1>2. /\ doomed[w] # <<>> /\ Sorted(doomed[w]) /\ todo[w] = <<>>
      /\ pending[w] = IF Upserts(w) THEN <<n>> ELSE <<>>
      /\ doomed[w] \in Seq(Children) /\ session[w] = "up"
      /\ ev(w).kind \in {"upsert", "delete"}
    BY <1>0, <1>1, EventFacts DEF Control, Writing, Ended, Upserts, Statement
<1>3. /\ h \in ToSet(doomed[w]) /\ ToSet(rest) = ToSet(doomed[w]) \ {h} /\ h \in Children
      /\ ToSet(doomed[w]) \subseteq Children /\ rest \in Seq(Children)
    BY <1>2, SortedTail, ToSetFacts
<1>4. after = IF rest # <<>> THEN "prune" ELSE IF Upserts(w) THEN "grow" ELSE "fell"
    BY DEF AfterPrune, Upserts
<1>5. /\ deleted[w] \subseteq TreeIn(rows, d)
      /\ \A r \in deleted[w] : r.table # Root => r.table \notin ToSet(doomed[w])
      /\ Upserts(w) => RootRow(rows, d) \subseteq deleted[w] /\ Pruned(w) /\ inserted[w] = {n}
      /\ ~Upserts(w) => inserted[w] = {} /\ (\A r \in deleted[w] : r.table # Root)
                        /\ (evictions = 0 => Pruned(w))
    BY <1>0, <1>2 DEF Transaction, Made
<1>6. \A r \in inserted[w] : r.table = Root
    BY <1>5 DEF NewRoot
<1>7. old = {r \in Below(rows, d) : r.table = h}
  <2> DEFINE W == Visible(w)
             s == doomed[w]
  <2>1. /\ Sorted(s) /\ h \in ToSet(s) /\ ToSet(s) \subseteq Children
        /\ \A r \in W : r \in rows \/ r.table = Root
        /\ \A r \in rows : r.table # Root /\ r.table \in ToSet(s) => r \in W
      BY <1>2, <1>3, <1>5, <1>6 DEF Visible
  <2> HIDE DEF W, s, d, h
  <2>2. RowsBelow(W, d)[h] = {r \in Below(rows, d) : r.table = h}
      BY <2>1, JoinFindsAll
  <2> QED
      BY <2>2 DEF W
<1>8. old \subseteq rows /\ \A r \in old : r.table # Root
    BY <1>7, TreeParts
<1>9. Target(w) = old
    BY <1>0 DEF Target
<1> HIDE DEF old, after, d, h, rest
<1>10. /\ deleted'[w] = deleted[w] \union (old \intersect rows)
       /\ inserted'[w] = (inserted[w] \ old) \union {}
       /\ pc'[w] = after /\ rows' = rows /\ shows' = shows /\ ~Waits(w)
    BY <1>0, <1>1, StatementTxn
<1>11. deleted'[w] = deleted[w] \union old /\ inserted'[w] = inserted[w]
    BY <1>6, <1>8, <1>10
<1>12. doomed'[w] = rest
    BY <1>0, <1>1 DEF rest
<1>13. Keyed'
    BY <1>0, <1>1, <1>10, <1>11, NoChildWritten
<1>14. ASSUME NEW v \in Workers \ {w} PROVE Apart(v, w)'
  <2>1. old \intersect (deleted[v] \union inserted[v]) = {}
      BY <1>9, <1>10, NotLocked
  <2> QED
      BY <1>0, <1>11, <2>1, ApartStep
<1>15. ev(w)' = ev(w) /\ NewRoot(w)' = n /\ (Upserts(w)' <=> Upserts(w)) /\ ev(w)'.doc = d
    BY <1>1 DEF ev, NewRoot, Upserts, d
<1>16. Pruned(w) => Pruned(w)'
    BY <1>3, <1>7, <1>10, <1>11, <1>12, <1>15 DEF Pruned, d
<1>17. Upserts(w) => Made(w, inserted[w])'
  <2> SUFFICES ASSUME Upserts(w) PROVE Made(w, inserted[w])'
      OBVIOUS
  <2>1. CASE after = "prune"
      BY <1>5, <1>10, <1>11, <1>15, <2>1 DEF Made
  <2>2. CASE after = "grow"
    <3>1. pending'[w] = <<n>> /\ todo'[w] = <<>> /\ n.table = Root
        BY <1>1, <1>2 DEF NewRoot
    <3> HIDE DEF n
    <3>2. Grow({n}, n, ev(w).shape, <<n>>, <<>>)
        BY <3>1, GrowStart
    <3> QED
        BY <1>5, <1>10, <1>11, <1>15, <2>2, <3>1, <3>2 DEF Made
  <2> QED
      BY <1>4, <2>1, <2>2
<1>18. Transaction(w)'
  <2>1. deleted'[w] \subseteq TreeIn(rows, d)
      BY <1>5, <1>7, <1>11 DEF TreeIn
  <2>2. \A r \in deleted'[w] : r.table # Root => r.table \notin ToSet(rest)
      BY <1>3, <1>5, <1>7, <1>11
  <2>3. ~Upserts(w) => pc'[w] \in {"prune", "fell"} /\ \A r \in deleted'[w] : r.table # Root
      BY <1>4, <1>5, <1>8, <1>10, <1>11
  <2>4. RootRow(rows, d) \subseteq deleted[w] => RootRow(rows, d) \subseteq deleted'[w]
      BY <1>11
  <2> QED
      BY <1>1, <1>5, <1>10, <1>11, <1>12, <1>15, <1>16, <1>17, <2>1, <2>2, <2>3, <2>4
         DEF Transaction, d
<1>19. pc'[w] # "refused"
    BY <1>4, <1>10
<1> QED
    BY <1>0, <1>10, <1>13, <1>14, <1>18, <1>19, InTransaction

\* In a transaction, the root row is deleted.
LEMMA InvDeleteRootTxn ==
  ASSUME Inv, NEW w \in Workers, DeleteRoot(w), batching PROVE Inv'
<1> USE TypeFacts
<1> DEFINE d == ev(w).doc
           old == RootRow(Visible(w), d)
<1>0. /\ Base /\ WorkerStep(w) /\ Control(w) /\ Types /\ Transaction(w)
      /\ pc[w] = "fell" /\ pc[w] \in Writing
    BY DEF Inv, Base, WorkerStep, DeleteRoot, Writing
<1>1. /\ Statement(w, old, {}, "settle")
      /\ UNCHANGED <<batching, log, evictions, session, at, doomed, pending, todo, nextId>>
    BY DEF DeleteRoot, group, offset, work
<1>2. ~Upserts(w) /\ doomed[w] = <<>> /\ session[w] = "up" /\ ToSet(doomed[w]) = {}
    BY <1>0, <1>1 DEF Control, Upserts, Statement, ToSet
<1>3. /\ deleted[w] \subseteq TreeIn(rows, d) /\ inserted[w] = {}
      /\ \A r \in deleted[w] : r.table # Root
      /\ evictions = 0 => Pruned(w)
    BY <1>0, <1>2 DEF Transaction
<1>4. old = RootRow(rows, d) /\ old \subseteq rows /\ \A r \in old : r.table = Root
    BY <1>3 DEF Visible, RootRow
<1>5. old \subseteq Target(w)
    BY <1>0 DEF Target, RootRow
<1> HIDE DEF old, d
<1>6. /\ deleted'[w] = deleted[w] \union (old \intersect rows)
      /\ inserted'[w] = (inserted[w] \ old) \union {}
      /\ pc'[w] = "settle" /\ rows' = rows /\ shows' = shows /\ ~Waits(w)
    BY <1>0, <1>1, StatementTxn
<1>7. deleted'[w] = deleted[w] \union old /\ inserted'[w] = {}
    BY <1>3, <1>4, <1>6
<1>8. Keyed'
    BY <1>0, <1>1, <1>6, <1>7, NoChildWritten
<1>9. ASSUME NEW v \in Workers \ {w} PROVE Apart(v, w)'
  <2>1. Target(w) \intersect (deleted[v] \union inserted[v]) = {}
      BY <1>6, NotLocked
  <2> QED
      BY <1>0, <1>5, <1>7, <2>1, ApartStep
<1>10. ev(w)' = ev(w) /\ (Upserts(w)' <=> Upserts(w)) /\ ev(w)'.doc = d
    BY <1>1 DEF ev, Upserts, d
<1>11. Pruned(w) => Pruned(w)'
    BY <1>1, <1>6, <1>7, <1>10 DEF Pruned, d
<1>12. Transaction(w)'
  <2>1. deleted'[w] \subseteq TreeIn(rows, d) /\ RootRow(rows, d) \subseteq deleted'[w]
      BY <1>3, <1>4, <1>7 DEF TreeIn
  <2>2. doomed'[w] = <<>> /\ ToSet(doomed'[w]) = {}
      BY <1>1, <1>2
  <2> QED
      BY <1>1, <1>2, <1>3, <1>6, <1>7, <1>10, <1>11, <2>1, <2>2 DEF Transaction, d
<1> QED
    BY <1>0, <1>6, <1>8, <1>9, <1>12, InTransaction

\* What an insert writes: a row with the next key.
LEMMA NewChild ==
  ASSUME Inv, NEW w \in Workers, pc[w] = "grow", todo[w] # <<>>, NEW m,
         m = [table |-> Head(todo[w]).table, id |-> nextId,
              parent |-> Head(todo[w]).parent, event |-> at[w]]
  PROVE  /\ m \in Row /\ m.table \in Children /\ m.table # Root
         /\ m.table = Head(todo[w]).table /\ m.parent = Head(todo[w]).parent
         /\ m.id = nextId /\ m.event = NewRoot(w).event
         /\ \A r \in Stored : r.table # Root => r.id \in Nat /\ r.id # m.id
         /\ m \notin Stored
<1> USE TypeFacts
<1>0. Base /\ Keyed /\ pc[w] \in Writing
    BY DEF Inv, Writing
<1>1. Head(todo[w]) \in Todo /\ at[w] \in 1 .. MaxEvents
    BY <1>0, EventFacts
<1>2. m \in Row /\ m.table \in Children
    BY <1>0, <1>1 DEF Row, Todo
<1>3. m.table # Root
    BY <1>2, RowFacts
<1>4. Stored \subseteq Row
    BY <1>0 DEF Stored
<1>5. \A r \in Stored : r.table # Root => r.id \in Nat /\ r.id # m.id
  <2>1. \A r \in Stored : r.table # Root => r.id \in Nat
      BY <1>4, RowFacts
  <2>2. \A r \in Stored : r.table # Root => r.id < nextId
      BY <1>0 DEF Keyed
  <2> QED
      BY <1>0, <2>1, <2>2
<1>6. m \notin Stored
    BY <1>3, <1>5
<1> QED
    BY <1>2, <1>3, <1>5, <1>6 DEF NewRoot

\* In a transaction, a child row is inserted.
LEMMA InvInsertChildTxn ==
  ASSUME Inv, NEW w \in Workers, InsertChild(w), batching PROVE Inv'
<1> USE TypeFacts
<1> DEFINE d == ev(w).doc
           n == NewRoot(w)
           T == inserted[w]
           m == [table |-> Head(todo[w]).table, id |-> nextId,
                 parent |-> Head(todo[w]).parent, event |-> at[w]]
<1>0. /\ Base /\ WorkerStep(w) /\ Control(w) /\ Types /\ Transaction(w)
      /\ pc[w] = "grow" /\ pc[w] \in Writing /\ todo[w] # <<>>
    BY DEF Inv, Base, WorkerStep, InsertChild, Writing
<1>1. /\ Statement(w, {}, {m}, "grow") /\ nextId' = nextId + 1
      /\ pending' = [pending EXCEPT ![w] = Append(@, m)]
      /\ todo' = [todo EXCEPT ![w] = Tail(@)]
      /\ UNCHANGED <<batching, log, evictions, session, at, doomed>>
    BY DEF InsertChild, group, offset
<1>2. /\ Upserts(w) /\ session[w] = "up" /\ ev(w).shape \in [Children -> Nat]
      /\ n.table = Root
    BY <1>0, <1>1, EventFacts DEF Control, Upserts, Statement, NewRoot
<1>3. /\ deleted[w] \subseteq TreeIn(rows, d)
      /\ \A r \in deleted[w] : r.table # Root => r.table \notin ToSet(doomed[w])
      /\ RootRow(rows, d) \subseteq deleted[w] /\ Pruned(w)
      /\ Grow(T, n, ev(w).shape, pending[w], todo[w])
    BY <1>0, <1>2 DEF Transaction, Made
<1>4. /\ m \in Row /\ m.table \in Children /\ m.table # Root
      /\ m.table = Head(todo[w]).table /\ m.parent = Head(todo[w]).parent
      /\ m.id = nextId /\ m.event = n.event
      /\ \A r \in Stored : r.table # Root => r.id \in Nat /\ r.id # m.id
      /\ m \notin Stored
    BY <1>0, NewChild
<1> HIDE DEF m, n, d
<1>5. /\ deleted'[w] = deleted[w] \union ({} \intersect rows)
      /\ inserted'[w] = (inserted[w] \ {}) \union {m}
      /\ pc'[w] = "grow" /\ rows' = rows /\ shows' = shows /\ ~Waits(w)
    BY <1>0, <1>1, StatementTxn
<1>6. deleted'[w] = deleted[w] /\ inserted'[w] = T \union {m}
    BY <1>5
<1>7. \A r \in T : r.table # Root => r.id # m.id
    BY <1>4 DEF Stored
<1>8. Grow(T \union {m}, n, ev(w).shape, Append(pending[w], m), Tail(todo[w]))
  <2> DEFINE shape == ev(w).shape
             pend == pending[w]
             td == todo[w]
  <2>1. /\ T \in SUBSET Row /\ pend \in Seq(Row) /\ td \in Seq(Todo) /\ td # <<>>
        /\ shape \in [Children -> Nat] /\ Grow(T, n, shape, pend, td)
        /\ m.table = Head(td).table /\ m.parent = Head(td).parent
      BY <1>0, <1>2, <1>3, <1>4
  <2> HIDE DEF T, shape, pend, td
  <2>2. Grow(T \union {m}, n, shape, Append(pend, m), Tail(td))
      BY <1>2, <1>4, <1>7, <2>1, GrowInsert
  <2> QED
      BY <2>2 DEF shape, pend, td
<1>9. ev(w)' = ev(w) /\ NewRoot(w)' = n /\ Upserts(w)' /\ ev(w)'.doc = d
    BY <1>1, <1>2 DEF ev, NewRoot, Upserts, d, n
<1>10. Made(w, inserted[w])'
  <2>1. pending'[w] = Append(pending[w], m) /\ todo'[w] = Tail(todo[w])
      BY <1>0, <1>1
  <2> QED
      BY <1>5, <1>6, <1>8, <1>9, <2>1 DEF Made
<1>11. Transaction(w)'
  <2>1. Pruned(w)'
      BY <1>1, <1>3, <1>5, <1>6, <1>9 DEF Pruned, d
  <2> QED
      BY <1>1, <1>3, <1>5, <1>6, <1>9, <1>10, <2>1 DEF Transaction, d
<1>12. \A v \in Workers \ {w} : Idle(v)
    BY <1>0, StepFacts
<1>13. Keyed'
  <2>1. \A v \in Workers : inserted'[v] \subseteq inserted[v] \union {m}
      BY <1>6, <1>12 DEF Idle
  <2>2. \A r \in Stored' : r \in Stored \/ r = m
      BY <1>5, <2>1 DEF Stored
  <2>3. \A v \in Workers \ {w} : inserted'[v] = inserted[v] /\ m \notin inserted[v]
      BY <1>4, <1>12 DEF Idle, Stored
  <2>4. \A u \in Workers : \A r \in inserted'[u] : r.table # Root =>
           r \notin rows' /\ \A v \in Workers \ {u} : r \notin inserted'[v]
    <3>1. m \notin rows
        BY <1>4 DEF Stored
    <3>2. \A u \in Workers : \A r \in inserted[u] : r.table # Root =>
           r \notin rows /\ \A v \in Workers \ {u} : r \notin inserted[v]
        BY DEF Inv, Keyed
    <3> QED
        BY <1>5, <1>6, <2>3, <3>1, <3>2
  <2> QED
      BY <1>0, <1>1, <1>4, <2>2, <2>4, KeyedNext DEF Inv
<1>14. ASSUME NEW v \in Workers \ {w} PROVE Apart(v, w)'
  <2>1. \A r \in inserted'[w] : r.table = Root => r \in inserted[w]
      BY <1>4, <1>6
  <2> QED
      BY <1>0, <1>6, <2>1, ApartStep
<1>15. pc'[w] # "refused"
    BY <1>5
<1> QED
    BY <1>0, <1>5, <1>11, <1>13, <1>14, <1>15, InTransaction

----------------------------------------------------------------------------
(* Statements that are transactions of their own.                          *)

\* The rows with old replaced by new.
Rewritten(old, new) == (rows \ old) \union new

\* What such a statement leaves.
LEMMA StatementDirect ==
  ASSUME Types, NEW w \in Workers, NEW old, NEW new, NEW next, ~batching,
         Statement(w, old, new, next)
  PROVE  /\ shows' = [shows EXCEPT ![ev(w).doc] = None] /\ session[w] = "up"
         /\ KeysHold(Rewritten(old, new)) => pc'[w] = next /\ rows' = Rewritten(old, new)
         /\ ~KeysHold(Rewritten(old, new)) => pc'[w] = "refused" /\ rows' = rows
<1> DEFINE R == Rewritten(old, new)
<1>1. /\ shows' = [shows EXCEPT ![ev(w).doc] = None] /\ session[w] = "up"
      /\ \/ KeysHold(R) /\ rows' = R /\ pc' = [pc EXCEPT ![w] = next]
         \/ ~KeysHold(R) /\ rows' = rows /\ pc' = [pc EXCEPT ![w] = "refused"]
    BY DEF Statement, Rewritten
<1> QED
    BY <1>1 DEF Types

\* It keeps the invariant when it keeps the keys and what it has done to the
\* document is what the next one relies on.
LEMMA DirectStep ==
  ASSUME Inv, NEW w \in Workers, WorkerStep(w), ~batching, pc[w] \in Writing,
         KeysHold(rows)', Keyed', shows' = [shows EXCEPT ![ev(w).doc] = None],
         evictions = 0 => /\ pc'[w] # "refused" /\ Direct(w)'
                          /\ \A e : e # ev(w).doc => TreeIn(rows', e) = TreeIn(rows, e)
  PROVE  Inv'
<1>1. /\ Base /\ Base' /\ Solo' /\ NeverRefused'
      /\ \A v \in Workers \ {w} : Idle(v)
      /\ batching' = batching /\ log' = log /\ evictions' = evictions
      /\ evictions = 0 => \A v \in Workers \ {w} : pc[v] = "poll"
    BY StepFacts
<1>2. \A v \in Workers : deleted'[v] = {} /\ inserted'[v] = {}
    BY <1>1 DEF Base, Control
<1>3. \A v, u \in Workers : v # u => Apart(v, u)'
    BY <1>2 DEF Apart
<1>4. \A v \in Workers : Transaction(v)'
    BY <1>1 DEF Transaction
<1>5. \A v \in Workers : Direct(v)'
  <2> SUFFICES ASSUME NEW v \in Workers, evictions' = 0, pc'[v] \in Writing PROVE Direct(v)'
      BY DEF Direct
  <2>1. v = w
      BY <1>1 DEF Idle, Writing
  <2> QED
      BY <1>1, <2>1
<1>6. Trees'
    BY <1>1 DEF Trees
<1>7. Shown'
  <2> SUFFICES ASSUME evictions = 0, NEW d \in Docs, shows'[d] # None
               PROVE  /\ shows'[d] \in 0 .. Len(log)
                      /\ IsTreeOf(TreeIn(rows', d), d, shows'[d])
      BY <1>1 DEF Shown, IsTreeOf
  <2>1. d # ev(w).doc /\ shows'[d] = shows[d]
    <3>1. ev(w).doc \in Docs /\ shows \in [Docs -> {None} \union (0 .. MaxEvents)]
        BY <1>1, EventFacts, TypeFacts
    <3> QED
        BY <3>1
  <2> QED
      BY <2>1 DEF Inv, Shown
<1> QED
    BY <1>1, <1>3, <1>4, <1>5, <1>6, <1>7 DEF Inv

\* Without transactions a worker sees the committed rows.
LEMMA SeesRows ==
  ASSUME Base, NEW w \in Workers, ~batching
  PROVE  Visible(w) = rows /\ deleted[w] = {} /\ inserted[w] = {}
  BY NothingWritten DEF Visible

\* A step writes rows of document d only.
WritesOnly(d) ==
  rows \ rows' \subseteq TreeIn(rows, d) /\ rows' \ rows \subseteq TreeIn(rows', d)

\* It leaves the other documents alone.
LEMMA OthersKept ==
  ASSUME Keyed, Keyed', NEW d, WritesOnly(d)
  PROVE  \A e : e # d => /\ RootRow(rows', e) = RootRow(rows, e)
                         /\ Below(rows', e) = Below(rows, e)
                         /\ TreeIn(rows', e) = TreeIn(rows, e)
<1>1. Unique(rows) /\ Unique(rows')
    BY DEF Keyed, Stored, Unique
<1> SUFFICES ASSUME NEW e, e # d
             PROVE  RootRow(rows', e) = RootRow(rows, e) /\ Below(rows', e) = Below(rows, e)
    BY DEF TreeIn
<1> DEFINE V == rows
           W == rows'
<1>2. Unique(V) /\ Unique(W) /\ V \ W \subseteq TreeIn(V, d) /\ W \ V \subseteq TreeIn(W, d)
    BY <1>1 DEF WritesOnly
<1> HIDE DEF V, W
<1>3. RootRow(V, e) = RootRow(W, e) /\ Below(V, e) = Below(W, e)
    BY <1>2, OtherTrees
<1> QED
    BY <1>3 DEF V, W

\* The root row is written.
LEMMA InvUpsertRootDirect ==
  ASSUME Inv, NEW w \in Workers, UpsertRoot(w), ~batching PROVE Inv'
<1> USE TypeFacts
<1> DEFINE d == ev(w).doc
           n == NewRoot(w)
           old == RootRow(Visible(w), d)
           new == {n}
           after == AfterPrune(w, doomed[w])
           R == (rows \ RootRow(rows, d)) \union {n}
<1>0. /\ Base /\ WorkerStep(w) /\ Control(w) /\ Types
      /\ pc[w] = "root" /\ pc[w] \in Writing
    BY DEF Inv, Base, WorkerStep, UpsertRoot, Writing
<1>1. /\ Statement(w, old, new, after)
      /\ pending' = [pending EXCEPT ![w] = <<n>>]
      /\ UNCHANGED <<batching, log, evictions, session, at, doomed, todo, nextId>>
    BY DEF UpsertRoot, NewRoot, group, offset
<1>2. /\ ev(w).kind = "upsert" /\ doomed[w] = DeleteOrder /\ todo[w] = <<>>
      /\ n.table = Root /\ n.id = d
    BY <1>0, EventFacts DEF Control, Writing, Ended, NewRoot
<1>3. after = IF doomed[w] # <<>> THEN "prune" ELSE "grow"
    BY <1>2 DEF AfterPrune
<1>4. Visible(w) = rows /\ inserted'[w] = {}
  <2>1. Base' /\ batching' = batching
      BY <1>0, StepFacts
  <2> QED
      BY <1>0, <2>1, SeesRows DEF Base, Control
<1>5. R = Rewritten(old, new)
    BY <1>4 DEF Rewritten
<1>6. /\ ev(w)' = ev(w) /\ NewRoot(w)' = n /\ Upserts(w)' /\ ev(w)'.doc = d
    BY <1>1, <1>2 DEF ev, NewRoot, Upserts
<1>7. KeysHold(R) /\ RootRow(R, d) = {n} /\ Below(R, d) = Below(rows, d)
  <2>1. KeysHold(rows)
      BY DEF Inv
  <2>2. R = Upserted(rows, d, n)
      BY DEF Upserted
  <2> HIDE DEF R, d, n
  <2> QED
      BY <1>2, <2>1, <2>2, RootReplaced
<1> HIDE DEF R, old, new, after
<1>8. shows' = [shows EXCEPT ![d] = None] /\ pc'[w] = after /\ rows' = R
    BY <1>0, <1>1, <1>5, <1>7, StatementDirect
<1>9. Keyed'
    BY <1>0, <1>1, <1>2, <1>4, <1>8, NoChildWritten DEF R
<1>10. \A e : e # d => TreeIn(rows', e) = TreeIn(rows, e)
  <2>1. WritesOnly(d)
      BY <1>7, <1>8 DEF R, TreeIn, WritesOnly
  <2> HIDE DEF d
  <2> QED
      BY <1>9, <2>1, OthersKept DEF Inv
<1>11. ToSet(doomed[w]) = Children
    BY <1>2, DeleteOrderFacts
<1>12. \A r \in Below(rows', d) : r.table \in ToSet(doomed'[w])
    BY <1>1, <1>11, TreeParts
<1>13. Made(w, IF pc[w] = "prune" THEN RootRow(rows, d) ELSE TreeIn(rows, d))'
  <2>1. CASE after = "prune"
      BY <1>6, <1>7, <1>8, <2>1 DEF Made
  <2>2. CASE after = "grow"
    <3>1. pending'[w] = <<n>> /\ todo'[w] = <<>>
        BY <1>0, <1>1, <1>2
    <3>2. Children = {}
      <4>1. doomed[w] = <<>> /\ ToSet(<<>>) = {}
          BY <1>3, <2>2 DEF ToSet
      <4> QED
          BY <1>11, <4>1
    <3>3. TreeIn(rows', d) = {n}
      <4>1. Below(rows', d) = {}
          BY <3>2, TreeParts
      <4> QED
          BY <1>7, <1>8, <4>1 DEF TreeIn
    <3> HIDE DEF n
    <3>4. Grow({n}, n, ev(w).shape, <<n>>, <<>>)
        BY <1>2, GrowStart
    <3> QED
        BY <1>6, <1>8, <2>2, <3>1, <3>3, <3>4 DEF Made
  <2> QED
      BY <1>3, <2>1, <2>2
<1>14. Direct(w)'
    BY <1>3, <1>6, <1>8, <1>12, <1>13 DEF Direct
<1>15. pc'[w] # "refused"
    BY <1>3, <1>8
<1> QED
    BY <1>0, <1>7, <1>8, <1>9, <1>10, <1>14, <1>15, DirectStep

\* The child rows of a table are deleted.
LEMMA InvDeleteChildrenDirect ==
  ASSUME Inv, NEW w \in Workers, DeleteChildren(w), ~batching PROVE Inv'
<1> USE TypeFacts
<1> DEFINE d == ev(w).doc
           n == NewRoot(w)
           h == Head(doomed[w])
           rest == Tail(doomed[w])
           old == RowsBelow(Visible(w), d)[h]
           after == AfterPrune(w, rest)
           R == TableLess(rows, d, h)
<1>0. /\ Base /\ WorkerStep(w) /\ Control(w) /\ Types /\ Direct(w)
      /\ pc[w] = "prune" /\ pc[w] \in Writing
    BY DEF Inv, Base, WorkerStep, DeleteChildren, Writing
<1>1. /\ Statement(w, old, {}, after)
      /\ doomed' = [doomed EXCEPT ![w] = Tail(@)]
      /\ UNCHANGED <<batching, log, evictions, session, at, pending, todo, nextId>>
    BY DEF DeleteChildren, group, offset
<1>2. /\ doomed[w] # <<>> /\ Sorted(doomed[w]) /\ todo[w] = <<>>
      /\ pending[w] = IF Upserts(w) THEN <<n>> ELSE <<>>
      /\ doomed[w] \in Seq(Children) /\ n.table = Root
    BY <1>0, <1>1 DEF Control, Writing, Ended, Upserts, NewRoot
<1>3. /\ h \in ToSet(doomed[w]) /\ ToSet(rest) = ToSet(doomed[w]) \ {h} /\ h \in Children
      /\ \A t \in ToSet(doomed[w]) : Depth[t] <= Depth[h]
    BY <1>2, SortedTail, ToSetFacts
<1>4. after = IF rest # <<>> THEN "prune" ELSE IF Upserts(w) THEN "grow" ELSE "fell"
    BY DEF AfterPrune, Upserts
<1>5. Visible(w) = rows /\ inserted'[w] = {}
  <2>1. Base' /\ batching' = batching
      BY <1>0, StepFacts
  <2> QED
      BY <1>0, <2>1, SeesRows DEF Base, Control
<1>6. R = Rewritten(old, {}) /\ R = rows \ old
    BY <1>5 DEF TableLess, Rewritten
<1>7. old = {r \in Below(rows, d) : r.table = h}
    BY <1>3, <1>5, BelowFacts
<1>8. /\ ev(w)' = ev(w) /\ NewRoot(w)' = n /\ (Upserts(w)' <=> Upserts(w)) /\ ev(w)'.doc = d
      /\ doomed'[w] = rest
    BY <1>0, <1>1 DEF ev, NewRoot, Upserts
<1>9. evictions = 0 =>
        /\ \A r \in Below(rows, d) : r.table \in ToSet(doomed[w])
        /\ Upserts(w) => RootRow(rows, d) = {n}
    BY <1>0 DEF Direct, Made
<1> HIDE DEF R, old, after, d, n, h, rest
<1>10. evictions = 0 => /\ KeysHold(R) /\ RootRow(R, d) = RootRow(rows, d)
                        /\ Below(R, d) = {r \in Below(rows, d) : r.table # h}
  <2> SUFFICES ASSUME evictions = 0
               PROVE  /\ KeysHold(R) /\ RootRow(R, d) = RootRow(rows, d)
                      /\ Below(R, d) = {r \in Below(rows, d) : r.table # h}
      OBVIOUS
  <2>1. \A r \in Below(rows, d) : Depth[r.table] <= Depth[h]
      BY <1>3, <1>9
  <2>2. KeysHold(rows) /\ \A r \in rows : r.table \in Tables
      BY <1>0, RowFacts DEF Inv
  <2>3. R = TableLess(rows, d, h)
      BY DEF R
  <2> QED
      BY <1>3, <2>1, <2>2, <2>3, TablePruned
<1>11. /\ shows' = [shows EXCEPT ![ev(w).doc] = None]
       /\ KeysHold(R) => pc'[w] = after /\ rows' = R
       /\ ~KeysHold(R) => pc'[w] = "refused" /\ rows' = rows
    BY <1>0, <1>1, <1>6, StatementDirect
<1>12. KeysHold(rows') /\ rows' \subseteq rows /\ rows \ rows' \subseteq old
  <2>1. CASE KeysHold(R)
      BY <1>6, <1>11, <2>1
  <2>2. CASE ~KeysHold(R)
    <3>1. KeysHold(rows) /\ rows' = rows
        BY <1>11, <2>2 DEF Inv
    <3> QED
        BY <3>1
  <2> QED
      BY <2>1, <2>2
<1>13. Keyed'
    BY <1>0, <1>1, <1>5, <1>12, NoChildWritten
<1>14. \A e : e # d => TreeIn(rows', e) = TreeIn(rows, e)
  <2>1. WritesOnly(d)
      BY <1>7, <1>12 DEF TreeIn, WritesOnly
  <2> QED
      BY <1>13, <2>1, OthersKept DEF Inv
<1>15. ASSUME evictions = 0 PROVE Direct(w)'
  <2>1. pc'[w] = after /\ rows' = R
      BY <1>10, <1>11, <1>15
  <2>2. \A r \in Below(rows', d) : r.table \in ToSet(doomed'[w])
      BY <1>3, <1>8, <1>9, <1>10, <1>15, <2>1
  <2>3. Upserts(w) => RootRow(rows', d) = {n}
      BY <1>9, <1>10, <1>15, <2>1
  <2>4. Upserts(w) => Made(w, IF pc[w] = "prune" THEN RootRow(rows, d) ELSE TreeIn(rows, d))'
    <3> SUFFICES ASSUME Upserts(w)
                 PROVE  Made(w, IF pc[w] = "prune" THEN RootRow(rows, d) ELSE TreeIn(rows, d))'
        OBVIOUS
    <3>1. CASE after = "prune"
        BY <1>8, <2>1, <2>3, <3>1 DEF Made, d
    <3>2. CASE after = "grow"
      <4>1. pending'[w] = <<n>> /\ todo'[w] = <<>>
          BY <1>0, <1>1, <1>2
      <4>2. TreeIn(rows', d) = {n}
        <5>1. ToSet(doomed'[w]) = {}
          <6>1. rest = <<>> /\ ToSet(<<>>) = {}
              BY <1>4, <3>2 DEF ToSet
          <6> QED
              BY <1>8, <6>1
        <5>2. Below(rows', d) = {}
            BY <2>2, <5>1
        <5> QED
            BY <2>3, <5>2 DEF TreeIn
      <4>3. Grow({n}, n, ev(w).shape, <<n>>, <<>>)
          BY <1>2, GrowStart
      <4>4. d' = d
          BY <1>8 DEF d
      <4> QED
          BY <1>8, <2>1, <3>2, <4>1, <4>2, <4>3, <4>4 DEF Made
    <3> QED
        BY <1>4, <3>1, <3>2
  <2>5. d' = d /\ d = ev(w).doc
      BY <1>8 DEF d
  <2> QED
      BY <1>4, <1>8, <2>1, <2>2, <2>4, <2>5 DEF Direct
<1>16. evictions = 0 => pc'[w] # "refused"
    BY <1>4, <1>10, <1>11
<1> QED
    BY <1>0, <1>11, <1>12, <1>13, <1>14, <1>15, <1>16, DirectStep DEF d

\* The root row is deleted.
LEMMA InvDeleteRootDirect ==
  ASSUME Inv, NEW w \in Workers, DeleteRoot(w), ~batching PROVE Inv'
<1> USE TypeFacts
<1> DEFINE d == ev(w).doc
           old == RootRow(Visible(w), d)
           R == RootLess(rows, d)
<1>0. /\ Base /\ WorkerStep(w) /\ Control(w) /\ Types /\ Direct(w)
      /\ pc[w] = "fell" /\ pc[w] \in Writing
    BY DEF Inv, Base, WorkerStep, DeleteRoot, Writing
<1>1. /\ Statement(w, old, {}, "settle")
      /\ UNCHANGED <<batching, log, evictions, session, at, doomed, pending, todo, nextId>>
    BY DEF DeleteRoot, group, offset, work
<1>2. ~Upserts(w) /\ ToSet(doomed[w]) = {}
    BY <1>0 DEF Control, Upserts, ToSet
<1>3. Visible(w) = rows /\ inserted'[w] = {}
  <2>1. Base' /\ batching' = batching
      BY <1>0, StepFacts
  <2> QED
      BY <1>0, <2>1, SeesRows DEF Base, Control
<1>4. R = Rewritten(old, {}) /\ R = rows \ old /\ old = RootRow(rows, d)
    BY <1>3 DEF RootLess, Rewritten
<1>5. ev(w)' = ev(w) /\ (Upserts(w)' <=> Upserts(w)) /\ ev(w)'.doc = d
    BY <1>1 DEF ev, Upserts
<1>6. evictions = 0 => Below(rows, d) = {}
    BY <1>0, <1>2 DEF Direct
<1> HIDE DEF R, old, d
<1>7. evictions = 0 => KeysHold(R) /\ TreeIn(R, d) = {}
  <2>1. KeysHold(rows) /\ \A r \in rows : r.table \in Tables
      BY <1>0, RowFacts DEF Inv
  <2>2. R = RootLess(rows, d)
      BY DEF R
  <2> QED
      BY <1>6, <2>1, <2>2, RootFelled
<1>8. /\ shows' = [shows EXCEPT ![ev(w).doc] = None]
      /\ KeysHold(R) => pc'[w] = "settle" /\ rows' = R
      /\ ~KeysHold(R) => pc'[w] = "refused" /\ rows' = rows
    BY <1>0, <1>1, <1>4, StatementDirect
<1>9. KeysHold(rows') /\ rows' \subseteq rows /\ rows \ rows' \subseteq old
  <2>1. CASE KeysHold(R)
      BY <1>4, <1>8, <2>1
  <2>2. CASE ~KeysHold(R)
    <3>1. KeysHold(rows) /\ rows' = rows
        BY <1>8, <2>2 DEF Inv
    <3> QED
        BY <3>1
  <2> QED
      BY <2>1, <2>2
<1>10. Keyed'
    BY <1>0, <1>1, <1>3, <1>9, NoChildWritten
<1>11. \A e : e # d => TreeIn(rows', e) = TreeIn(rows, e)
  <2>1. WritesOnly(d)
      BY <1>4, <1>9 DEF TreeIn, WritesOnly
  <2> QED
      BY <1>10, <2>1, OthersKept DEF Inv
<1>12. ASSUME evictions = 0 PROVE Direct(w)'
  <2>1. pc'[w] = "settle" /\ TreeIn(rows', d) = {} /\ d = ev(w)'.doc /\ ~Upserts(w)'
      BY <1>2, <1>5, <1>7, <1>8, <1>12
  <2> QED
      BY <2>1 DEF Direct
<1>13. evictions = 0 => pc'[w] # "refused"
    BY <1>7, <1>8
<1> QED
    BY <1>0, <1>8, <1>9, <1>10, <1>11, <1>12, <1>13, DirectStep DEF d

\* A child row is inserted.
LEMMA InvInsertChildDirect ==
  ASSUME Inv, NEW w \in Workers, InsertChild(w), ~batching PROVE Inv'
<1> USE TypeFacts
<1> DEFINE d == ev(w).doc
           n == NewRoot(w)
           T == TreeIn(rows, d)
           m == [table |-> Head(todo[w]).table, id |-> nextId,
                 parent |-> Head(todo[w]).parent, event |-> at[w]]
           R == WithRow(rows, m)
           shape == ev(w).shape
           pend == pending[w]
           td == todo[w]
<1>0. /\ Base /\ WorkerStep(w) /\ Control(w) /\ Types /\ Direct(w)
      /\ pc[w] = "grow" /\ pc[w] \in Writing /\ todo[w] # <<>>
    BY DEF Inv, Base, WorkerStep, InsertChild, Writing
<1>1. /\ Statement(w, {}, {m}, "grow") /\ nextId' = nextId + 1
      /\ pending' = [pending EXCEPT ![w] = Append(@, m)]
      /\ todo' = [todo EXCEPT ![w] = Tail(@)]
      /\ UNCHANGED <<batching, log, evictions, session, at, doomed>>
    BY DEF InsertChild, group, offset
<1>2. /\ Upserts(w) /\ shape \in [Children -> Nat] /\ n.table = Root
      /\ T \in SUBSET Row /\ pend \in Seq(Row) /\ td \in Seq(Todo)
    BY <1>0, EventFacts, TreeParts DEF Control, Upserts, NewRoot
<1>3. evictions = 0 => Grow(T, n, shape, pend, td)
    BY <1>0, <1>2 DEF Direct, Made
<1>4. /\ m \in Row /\ m.table \in Children /\ m.table # Root
      /\ m.table = Head(td).table /\ m.parent = Head(td).parent
      /\ m.id = nextId /\ m.event = n.event
      /\ \A r \in Stored : r.table # Root => r.id \in Nat /\ r.id # m.id
      /\ m \notin Stored
    BY <1>0, NewChild
<1>5. inserted' = [v \in Workers |-> {}] /\ inserted = [v \in Workers |-> {}]
  <2>1. Base' /\ batching' = batching
      BY <1>0, StepFacts
  <2>2. inserted' \in [Workers -> SUBSET Row] /\ inserted \in [Workers -> SUBSET Row]
      BY <1>0, <2>1 DEF Base, Types
  <2>3. \A v \in Workers : inserted'[v] = {} /\ inserted[v] = {}
      BY <1>0, <2>1 DEF Base, Control
  <2> QED
      BY <2>2, <2>3
<1>6. R = Rewritten({}, {m}) /\ R = rows \union {m}
    BY DEF WithRow, Rewritten
<1>7. /\ ev(w)' = ev(w) /\ NewRoot(w)' = n /\ Upserts(w)' /\ ev(w)'.doc = d
      /\ pending'[w] = Append(pend, m) /\ todo'[w] = Tail(td)
    BY <1>0, <1>1, <1>2 DEF ev, NewRoot, Upserts
<1>8. \A r \in rows : r \in Stored
    BY DEF Stored
<1>9. \A r \in T : r.table # Root => r.id # m.id
    BY <1>4, <1>8, TreeParts
<1>10. evictions = 0 => /\ Grow(T \union {m}, n, shape, Append(pend, m), Tail(td))
                        /\ \E p \in T : ParentRow(p, m)
  <2> SUFFICES ASSUME evictions = 0
               PROVE  /\ Grow(T \union {m}, n, shape, Append(pend, m), Tail(td))
                      /\ \E p \in T : ParentRow(p, m)
      OBVIOUS
  <2>1. td # <<>> /\ Grow(T, n, shape, pend, td)
      BY <1>0, <1>3
  <2> HIDE DEF T, shape, pend, td, n, m
  <2>2. Grow(T \union {m}, n, shape, Append(pend, m), Tail(td))
      BY <1>2, <1>4, <1>9, <2>1, GrowInsert
  <2>3. \E p \in T : ParentRow(p, m)
      BY <1>2, <1>4, <1>9, <2>1, <2>2, GrowInsert
  <2> QED
      BY <2>2, <2>3
<1> HIDE DEF R, m, n, d, T, shape, pend, td
<1>11. evictions = 0 => KeysHold(R) /\ TreeIn(R, d) = T \union {m}
  <2> SUFFICES ASSUME evictions = 0
               PROVE  KeysHold(R) /\ TreeIn(R, d) = WithRow(TreeIn(rows, d), m)
      BY DEF T, WithRow
  <2>1. Hangs(rows, d, m)
      BY <1>10 DEF T, Hangs
  <2>2. KeysHold(rows) /\ m \notin rows
      BY <1>4, <1>8 DEF Inv
  <2>3. Unreferred(rows, m)
    <3> SUFFICES ASSUME NEW r \in rows, r.table # Root, m.id = r.parent,
                        ParentOf[r.table] = m.table
                 PROVE  FALSE
        BY <2>2 DEF Unreferred
    <3>1. PICK p \in rows : p.table = ParentOf[r.table] /\ p.id = r.parent
        BY <2>2 DEF KeysHold
    <3> QED
        BY <1>4, <1>8, <3>1
  <2>4. R = WithRow(rows, m)
      BY DEF R
  <2> QED
      BY <1>4, <2>1, <2>2, <2>3, <2>4, RowInserted
<1>12. /\ shows' = [shows EXCEPT ![ev(w).doc] = None]
       /\ KeysHold(R) => pc'[w] = "grow" /\ rows' = R
       /\ ~KeysHold(R) => pc'[w] = "refused" /\ rows' = rows
    BY <1>0, <1>1, <1>6, StatementDirect
<1>13. KeysHold(rows') /\ rows \subseteq rows' /\ rows' \subseteq rows \union {m}
  <2>1. CASE KeysHold(R)
      BY <1>6, <1>12, <2>1
  <2>2. CASE ~KeysHold(R)
    <3>1. KeysHold(rows) /\ rows' = rows
        BY <1>12, <2>2 DEF Inv
    <3> QED
        BY <3>1
  <2> QED
      BY <2>1, <2>2
<1>14. Keyed'
  <2>1. \A r \in Stored' : r \in Stored \/ r = m
      BY <1>5, <1>13 DEF Stored
  <2>2. \A u \in Workers : \A r \in inserted'[u] : r.table # Root =>
           r \notin rows' /\ \A v \in Workers \ {u} : r \notin inserted'[v]
      BY <1>5
  <2> QED
      BY <1>0, <1>1, <1>4, <2>1, <2>2, KeyedNext DEF Inv
<1>15. evictions = 0 => rows' = R
    BY <1>11, <1>12
<1>16. ASSUME evictions = 0 PROVE \A e : e # d => TreeIn(rows', e) = TreeIn(rows, e)
  <2>1. WritesOnly(d)
    <3>1. TreeIn(rows', d) = T \union {m}
        BY <1>11, <1>15, <1>16
    <3> QED
        BY <1>13, <3>1 DEF WritesOnly
  <2> QED
      BY <1>14, <2>1, OthersKept DEF Inv
<1>17. ASSUME evictions = 0 PROVE Direct(w)'
  <2>1. pc'[w] = "grow" /\ TreeIn(rows', d) = T \union {m}
      BY <1>11, <1>12, <1>17
  <2>2. Grow(T \union {m}, n, shape, Append(pend, m), Tail(td))
      BY <1>10, <1>17
  <2>3. ev(w)'.shape = shape /\ ev(w)'.doc = d
      BY <1>7 DEF shape
  <2>4. Made(w, TreeIn(rows, ev(w).doc))'
      BY <1>7, <2>1, <2>2, <2>3 DEF Made
  <2> QED
      BY <1>7, <2>1, <2>4 DEF Direct
<1>18. evictions = 0 => pc'[w] # "refused"
    BY <1>11, <1>12
<1> QED
    BY <1>0, <1>12, <1>13, <1>14, <1>16, <1>17, <1>18, DirectStep DEF d

----------------------------------------------------------------------------
(* The commit of a transaction.                                            *)

\* A transaction of an upsert replaces the tree of its document by the tree of
\* its event.
LEMMA UpsertCommits ==
  ASSUME Inv, NEW w \in Workers, pc[w] = "commit", session[w] = "up", Upserts(w)
  PROVE  /\ deleted[w] = TreeIn(rows, ev(w).doc) /\ KeysHold(Visible(w))
         /\ TreeIn(Visible(w), ev(w).doc) = inserted[w]
         /\ IsTreeOf(inserted[w], ev(w).doc, at[w]) /\ NewRoot(w) \in inserted[w]
<1> USE TypeFacts
<1> DEFINE d == ev(w).doc
           n == NewRoot(w)
           T == inserted[w]
           W == Visible(w)
<1>1. Base /\ Control(w) /\ Transaction(w) /\ batching /\ pc[w] \in Writing \ {"root"}
    BY DEF Inv, Base, Control, Writing
<1>2. /\ deleted[w] \subseteq TreeIn(rows, d) /\ RootRow(rows, d) \subseteq deleted[w]
      /\ Pruned(w) /\ Whole(T, n, ev(w).shape)
    BY <1>1 DEF Transaction, Made
<1>3. /\ at[w] \in Nat \ {0} /\ log[at[w]] = ev(w) /\ n.event = at[w] /\ n.table = Root
      /\ n.id = d /\ ToSet(doomed[w]) = {}
    BY <1>1, EventFacts DEF ev, NewRoot, Control, ToSet
<1>4. deleted[w] = TreeIn(rows, d)
    BY <1>2, <1>3 DEF Pruned, TreeIn
<1>5. W = Replaced(rows, d, T)
    BY <1>4 DEF Replaced, Visible
<1>6. /\ KeysHold(T) /\ \A r \in T : r.table \in Tables /\ (r.table = Root => r.id = d)
      /\ n \in T
    BY <1>2, <1>3 DEF Whole
<1>7. Unique(rows \union T) /\ \A r \in T : r.table # Root => r \notin rows
    BY DEF Inv, Keyed, Stored, Unique
<1>8. KeysHold(rows) /\ \A r \in rows : r.table \in Tables
    BY <1>1, RowFacts DEF Inv
<1> HIDE DEF d, n, T, W
<1>9. KeysHold(W) /\ TreeIn(W, d) = T
    BY <1>5, <1>6, <1>7, <1>8, TreeReplaced
<1>10. IsTreeOf(T, d, at[w])
    BY <1>2, <1>3, WholeIsTree DEF Upserts
<1> QED
    BY <1>4, <1>6, <1>9, <1>10 DEF d, T, W, n

\* Where the deleted rows of a document leave every child row its parent, they
\* are all its rows.
LEMMA AllDeleted ==
  ASSUME NEW V, Unique(V), \A r \in V : r.table \in Tables, NEW d, NEW D,
         RootRow(V, d) \subseteq D, NEW W, W = V \ D, KeysHold(W)
  PROVE  TreeIn(V, d) \subseteq D /\ TreeIn(W, d) = {}
<1>1. RootRow(W, d) = {}
    BY DEF RootRow
<1>2. Below(W, d) = {}
    BY <1>1, NoRootNoRows
<1>3. ASSUME NEW r \in Below(V, d), r \notin D PROVE FALSE
  <2>1. r \in W /\ r.table # Root
      BY <1>3, TreeParts
  <2>2. \A q \in W : q.table \in Tables
      OBVIOUS
  <2>3. PICK e : RootRow(W, e) # {} /\ r \in Below(W, e)
      BY <2>1, <2>2, BelowSome
  <2>4. Below(W, e) \subseteq Below(V, e)
    <3>1. Below(W, e) \subseteq W
        BY TreeParts
    <3>2. Below(W, e) \subseteq V
        BY <3>1
    <3> QED
        BY <3>2, BelowIn
  <2>5. e # d
      BY <1>1, <2>3
  <2>6. Below(V, d) \intersect Below(V, e) = {}
      BY <2>5, BelowDisjoint
  <2> QED
      BY <1>3, <2>3, <2>4, <2>6
<1> QED
    BY <1>1, <1>2, <1>3 DEF TreeIn

\* A transaction of a delete removes the whole tree, unless there was none when
\* it started or another one has removed it since.
LEMMA DeleteCommits ==
  ASSUME Inv, NEW w \in Workers, pc[w] = "commit", session[w] = "up", ~Upserts(w)
  PROVE  /\ deleted[w] \subseteq TreeIn(rows, ev(w).doc) /\ inserted[w] = {}
         /\ evictions = 0 => KeysHold(Visible(w))
         /\ KeysHold(Visible(w)) =>
              \/ deleted[w] = {}
              \/ /\ deleted[w] = TreeIn(rows, ev(w).doc)
                 /\ TreeIn(Visible(w), ev(w).doc) = {}
<1> USE TypeFacts
<1> DEFINE d == ev(w).doc
           D == deleted[w]
           W == Visible(w)
<1>1. Base /\ Control(w) /\ Transaction(w) /\ batching /\ pc[w] \in Writing \ {"root"}
    BY DEF Inv, Base, Control, Writing
<1>2. /\ D \subseteq TreeIn(rows, d) /\ inserted[w] = {} /\ ToSet(doomed[w]) = {}
      /\ D = {} \/ RootRow(rows, d) \subseteq D
      /\ evictions = 0 => Pruned(w) /\ RootRow(rows, d) \subseteq D
    BY <1>1 DEF Transaction, Control, ToSet
<1>3. W = rows \ D
    BY <1>2 DEF Visible
<1>4. /\ Unique(rows) /\ KeysHold(rows) /\ \A r \in rows : r.table \in Tables
    BY <1>1, RowFacts DEF Inv, Keyed, Stored, Unique
<1>5. ASSUME evictions = 0 PROVE KeysHold(W)
  <2> DEFINE T == {}
  <2>1. D = TreeIn(rows, d)
      BY <1>2, <1>5 DEF Pruned, TreeIn
  <2>2. W = Replaced(rows, d, T)
      BY <1>3, <2>1 DEF Replaced
  <2>3. /\ KeysHold(T) /\ \A r \in T : r.table \in Tables /\ (r.table = Root => r.id = d)
        /\ \A r \in T : r.table # Root => r \notin rows
      BY DEF KeysHold
  <2>4. Unique(rows \union T)
      BY <1>4
  <2> HIDE DEF T, W, d, D
  <2> QED
      BY <1>4, <2>2, <2>3, <2>4, TreeReplaced
<1>6. ASSUME KeysHold(W), D # {} PROVE D = TreeIn(rows, d) /\ TreeIn(W, d) = {}
  <2>1. RootRow(rows, d) \subseteq D
      BY <1>2, <1>6
  <2> HIDE DEF W, d, D
  <2>2. TreeIn(rows, d) \subseteq D /\ TreeIn(W, d) = {}
      BY <1>3, <1>4, <1>6, <2>1, AllDeleted
  <2> QED
      BY <1>2, <2>2
<1> QED
    BY <1>2, <1>5, <1>6

\* What a commit is to another worker that writes the same document: its own
\* transaction has deleted nothing, or nothing changes.
LEMMA SameDocument ==
  ASSUME Inv, NEW w \in Workers, pc[w] = "commit", session[w] = "up", KeysHold(Visible(w)),
         NEW v \in Workers \ {w}, session[v] = "up", pc[v] \in Writing \ {"root"},
         ev(v).doc = ev(w).doc
  PROVE  Visible(w) = rows \/ (~Upserts(v) /\ deleted[v] = {})
<1> DEFINE d == ev(w).doc
<1>1. /\ Base /\ Control(v) /\ Control(w) /\ Transaction(v) /\ Apart(v, w) /\ batching
    BY DEF Inv, Base, Control
<1>2. deleted[w] \subseteq TreeIn(rows, d) /\ deleted[v] \subseteq TreeIn(rows, d)
    BY <1>1, UpsertCommits, DeleteCommits DEF Transaction
<1>3. CASE deleted[w] = {} /\ ~Upserts(w)
    BY <1>3, DeleteCommits DEF Visible
<1>4. CASE deleted[w] = TreeIn(rows, d)
  <2>1. deleted[v] = {}
      BY <1>1, <1>2, <1>4 DEF Apart
  <2>2. CASE ~Upserts(v)
      BY <2>1, <2>2
  <2>3. CASE Upserts(v)
    <3>1. RootRow(rows, d) = {} /\ NewRoot(v) \in inserted[v]
      <4>1. pc[v] \in {"prune", "grow", "settle", "commit"}
          BY <1>1, <2>3 DEF Control, Upserts, Writing
      <4> QED
          BY <1>1, <2>1, <2>3, <4>1 DEF Transaction, Made, Whole, Grow, Part
    <3>2. TreeIn(rows, d) = {}
      <4>1. Below(rows, d) = {}
          BY <3>1, NoRootNoRows DEF Inv
      <4> QED
          BY <3>1, <4>1 DEF TreeIn
    <3>3. ~Upserts(w)
      <4>1. Upserts(w) => NewRoot(w) \in inserted[w]
          BY UpsertCommits
      <4>2. /\ NewRoot(v).table = Root /\ NewRoot(w).table = Root
            /\ NewRoot(v).id = d /\ NewRoot(w).id = d
          BY DEF NewRoot
      <4> QED
          BY <1>1, <3>1, <4>1, <4>2 DEF Apart
    <3> QED
        BY <1>3, <1>4, <3>2, <3>3
  <2> QED
      BY <2>2, <2>3
<1> QED
    BY <1>3, <1>4, UpsertCommits, DeleteCommits

\* COMMIT, and what fails at it.
LEMMA InvCommit ==
  ASSUME Inv, NEW w \in Workers, Commit(w) PROVE Inv'
<1> USE TypeFacts
<1> DEFINE d == ev(w).doc
<1>0. /\ Base /\ WorkerStep(w) /\ Control(w) /\ Types /\ pc[w] = "commit" /\ batching
      /\ pc[w] \in Writing /\ Forget(w)
      /\ UNCHANGED <<batching, log, evictions, session, nextId, shows>>
    BY DEF Inv, Base, WorkerStep, Commit, Writing, Control, group
<1>1. CASE ~(session[w] = "up" /\ KeysHold(Visible(w)))
  <2>1. rows' = rows /\ pc'[w] = IF session[w] = "up" THEN "refused" ELSE "failed"
      BY <1>0, <1>1 DEF Commit
  <2>2. pc'[w] = "refused" => evictions # 0
      BY <1>0, <1>1, <2>1, UpsertCommits, DeleteCommits
  <2>3. pc'[w] \notin Writing
      BY <2>1 DEF Writing
  <2> QED
      BY <1>0, <2>1, <2>2, <2>3, GivenUp
<1>2. CASE session[w] = "up" /\ KeysHold(Visible(w))
  <2>1. rows' = Visible(w) /\ pc'[w] = "poll"
      BY <1>0, <1>2 DEF Commit
  <2>2. /\ Base' /\ Solo' /\ NeverRefused' /\ \A v \in Workers \ {w} : Idle(v)
        /\ evictions = 0 => \A v \in Workers \ {w} : pc[v] = "poll"
      BY <1>0, <2>1, StepFacts
  <2>3. deleted'[w] = {} /\ inserted'[w] = {}
      BY <1>0, ForgetEffect
  <2>4. \A v \in Workers : deleted'[v] \subseteq deleted[v] /\ inserted'[v] \subseteq inserted[v]
      BY <2>2, <2>3 DEF Idle
  <2>5. \A v, u \in Workers : v # u => Apart(v, u)'
      BY <2>4, ApartKept DEF Inv
  <2>6. KeysHold(rows)'
      BY <1>2, <2>1
  <2>7. Keyed'
    <3>1. Stored' \subseteq Stored
        BY <2>1, <2>4 DEF Stored, Visible
    <3>2. \A u \in Workers : \A r \in inserted'[u] : r.table # Root =>
             r \notin rows' /\ \A v \in Workers \ {u} : r \notin inserted'[v]
        BY <2>1, <2>3, <2>4 DEF Inv, Keyed, Visible
    <3> QED
        BY <1>0, <3>1, <3>2, KeyedKept DEF Inv
  <2>8. WritesOnly(d)
    <3>1. deleted[w] \subseteq TreeIn(rows, d) /\ inserted[w] \subseteq TreeIn(rows', d)
        BY <1>0, <1>2, <2>1, UpsertCommits, DeleteCommits
    <3> QED
        BY <2>1, <3>1 DEF WritesOnly, Visible
  <2>9. \A e : e # d => /\ RootRow(rows', e) = RootRow(rows, e)
                        /\ Below(rows', e) = Below(rows, e)
                        /\ TreeIn(rows', e) = TreeIn(rows, e)
    <3> HIDE DEF d
    <3> QED
        BY <2>7, <2>8, OthersKept DEF Inv
  <2>10. \A T : \A e : \A i : IsTreeOf(T, e, i) => IsTreeOf(T, e, i)'
      BY <1>0 DEF IsTreeOf
  <2>11. Trees'
    <3> SUFFICES ASSUME NEW e \in Docs
                 PROVE  \E i \in 0 .. Len(log) :
                          (i > 0 => log[i].doc = e) /\ IsTreeOf(TreeIn(rows', e), e, i)
        BY <1>0 DEF Trees, IsTreeOf
    <3>1. CASE e # d
      <4>1. TreeIn(rows', e) = TreeIn(rows, e)
          BY <2>9, <3>1
      <4> QED
          BY <1>0, <4>1 DEF Inv, Trees
    <3>2. CASE e = d /\ rows' = rows
        BY <1>0, <3>2 DEF Inv, Trees
    <3>3. CASE e = d /\ rows' # rows
      <4>1. at[w] \in 0 .. Len(log) /\ log[at[w]].doc = e
          BY <1>0, <3>3, EventFacts DEF ev
      <4>2. IsTreeOf(TreeIn(rows', e), e, at[w])
        <5>1. CASE Upserts(w)
            BY <1>0, <1>2, <2>1, <3>3, <5>1, UpsertCommits
        <5>2. CASE ~Upserts(w)
          <6>1. /\ TreeIn(rows', d) = {} /\ log[at[w]].kind = "delete"
                /\ at[w] > 0
            <7>1. deleted[w] # {}
                BY <1>2, <1>0, <2>1, <3>3, <5>2, DeleteCommits DEF Visible
            <7>2. ev(w).kind = "delete" /\ at[w] \in 1 .. Len(log)
                BY <1>0, <5>2, EventFacts DEF Upserts
            <7>3. TreeIn(rows', d) = {}
                BY <1>0, <1>2, <2>1, <5>2, <7>1, DeleteCommits
            <7> QED
                BY <1>0, <7>2, <7>3 DEF ev
          <6> QED
              BY <3>3, <6>1 DEF IsTreeOf
        <5> QED
            BY <5>1, <5>2
      <4> QED
          BY <4>1, <4>2
    <3> QED
        BY <3>1, <3>2, <3>3
  <2>12. Shown'
      BY <1>0 DEF Shown
  <2>13. \A v \in Workers : Direct(v)'
      BY <1>0 DEF Direct
  <2>14. ASSUME NEW v \in Workers PROVE Transaction(v)'
    <3>0. CASE v = w
        BY <2>1, <3>0 DEF Transaction, Writing
    <3>1. CASE rows' = rows /\ v # w
      <4>1. Idle(v) /\ Base /\ Transaction(v) /\ Direct(v)
          BY <2>2, <3>1 DEF Inv
      <4> QED
          BY <1>0, <3>1, <4>1, ClaimsKept
    <3>2. CASE rows' # rows /\ v # w
      <4> SUFFICES ASSUME session[v] = "up", pc[v] \in Writing \ {"root"} PROVE Transaction(v)'
          BY <2>2, <3>2 DEF Transaction, Idle
      <4>1. Idle(v) /\ Transaction(v) /\ Control(v)
          BY <2>2, <3>2 DEF Inv, Base
      <4>2. /\ ev(v)' = ev(v) /\ NewRoot(v)' = NewRoot(v) /\ (Upserts(v)' <=> Upserts(v))
            /\ evictions # 0
          BY <1>0, <2>2, <3>2, <4>1 DEF ev, NewRoot, Upserts, Idle, Writing
      <4>3. CASE ev(v).doc = d
        <5>1. ~Upserts(v) /\ deleted[v] = {}
            BY <1>0, <1>2, <2>1, <3>2, <4>3, SameDocument
        <5> QED
            BY <1>0, <4>1, <4>2, <5>1 DEF Transaction, Idle
      <4>4. CASE ev(v).doc # d
        <5> DEFINE e == ev(v).doc
        <5>1. /\ RootRow(rows', e) = RootRow(rows, e) /\ Below(rows', e) = Below(rows, e)
              /\ TreeIn(rows', e) = TreeIn(rows, e)
            BY <2>9, <4>4
        <5>2. \A T : Made(v, T) => Made(v, T)'
            BY <4>1, <4>2 DEF Made, Idle
        <5>3. Pruned(v) => Pruned(v)'
            BY <4>1, <4>2, <5>1 DEF Pruned, Idle
        <5> QED
            BY <1>0, <4>1, <4>2, <5>1, <5>2, <5>3 DEF Transaction, Idle
      <4> QED
          BY <4>3, <4>4
    <3> QED
        BY <3>0, <3>1, <3>2
  <2> QED
      BY <2>2, <2>5, <2>6, <2>7, <2>11, <2>12, <2>13, <2>14 DEF Inv
<1> QED
    BY <1>1, <1>2

----------------------------------------------------------------------------
(* The theorems.                                                           *)

\* The first state.
LEMMA InvInit == Init => Inv
<1> SUFFICES ASSUME Init PROVE Inv
    OBVIOUS
<1>1. Base
    BY BaseInit
<1>2. /\ rows = {} /\ nextId = 1 /\ log = <<>> /\ Len(log) = 0
      /\ \A w \in Workers : pc[w] = "poll" /\ deleted[w] = {} /\ inserted[w] = {}
      /\ \A d \in Docs : shows[d] = 0
    BY DEF Init
<1>3. Stored = {}
    BY <1>2 DEF Stored
<1>4. Solo /\ KeysHold(rows) /\ NeverRefused
    BY <1>2 DEF Solo, KeysHold, NeverRefused
<1>5. Keyed
    BY <1>2, <1>3 DEF Keyed, Unique
<1>6. \A v, w \in Workers : v # w => Apart(v, w)
    BY <1>2 DEF Apart
<1>7. \A w \in Workers : Transaction(w) /\ Direct(w)
    BY <1>2 DEF Transaction, Direct, Writing
<1>8. \A d : IsTreeOf(TreeIn(rows, d), d, 0)
  <2>1. \A d : TreeIn(rows, d) = {}
      BY <1>2, TreeParts
  <2> QED
      BY <2>1 DEF IsTreeOf
<1>9. Trees /\ Shown
  <2>1. 0 \in 0 .. Len(log) /\ ~(0 > 0)
      BY <1>2
  <2> QED
      BY <1>2, <1>8, <2>1 DEF Trees, Shown
<1> QED
    BY <1>1, <1>4, <1>5, <1>6, <1>7, <1>9 DEF Inv

\* A step that changes nothing.
LEMMA InvStutter ==
  ASSUME Inv, UNCHANGED vars PROVE Inv'
<1>1. UNCHANGED <<batching, log, owner, evictions, faults, committed, position, pc,
                  session, at, doomed, pending, todo, deleted, inserted, rows, nextId,
                  shows>>
    BY DEF vars
<1>2. Base' /\ Base
    BY BaseNext DEF Inv
<1>3. Solo' /\ NeverRefused'
    BY <1>1 DEF Inv, Solo, NeverRefused
<1>4. Trees' /\ Shown' /\ Len(log) \in Nat
    BY <1>1, <1>2, TreesKept, TypeFacts DEF Inv
<1>5. \A v \in Workers : Idle(v)
    BY <1>1 DEF Idle
<1> QED
    BY <1>1, <1>2, <1>3, <1>4, <1>5, RowsKept

\* Every step keeps the invariant.
LEMMA InvNext ==
  ASSUME Inv, [Next]_vars PROVE Inv'
<1>1. CASE Produce
    BY <1>1, InvProduce
<1>2. CASE Evict
    BY <1>2, InvEvict
<1>3. ASSUME NEW w \in Workers, WorkerStep(w) PROVE Inv'
  <2>1. batching \in BOOLEAN
      BY TypeFacts DEF Inv
  <2>2. CASE UpsertRoot(w)
      BY <2>1, <2>2, InvUpsertRootTxn, InvUpsertRootDirect
  <2>3. CASE DeleteChildren(w)
      BY <2>1, <2>3, InvDeleteChildrenTxn, InvDeleteChildrenDirect
  <2>4. CASE InsertChild(w)
      BY <2>1, <2>4, InvInsertChildTxn, InvInsertChildDirect
  <2>5. CASE DeleteRoot(w)
      BY <2>1, <2>5, InvDeleteRootTxn, InvDeleteRootDirect
  <2>6. CASE BadChild(w) \/ DeadLetter(w) \/ DeadlockVictim(w) \/ Kill(w) \/ Restart(w)
      BY <2>6, InvGivenUp
  <2>7. CASE Deliver(w) \/ NextParent(w) \/ Settle(w) \/ Commit(w) \/ LoseSession(w)
      BY <2>7, InvDeliver, InvNextParent, InvSettle, InvCommit, InvLoseSession
  <2> QED
      BY <1>3, <2>2, <2>3, <2>4, <2>5, <2>6, <2>7 DEF WorkerStep
<1>4. CASE UNCHANGED vars
    BY <1>4, InvStutter
<1> QED
    BY <1>1, <1>2, <1>3, <1>4 DEF Next, WorkerStep

\* The properties are stated with the rows below a document, per table.
LEMMA TreeStated ==
  ASSUME NEW d, NEW i
  PROVE  IsTreeOf(TreeIn(rows, d), d, i) => IsTree(d, i)
<1>1. TreeOf(d) = TreeIn(rows, d)
    BY BelowFacts DEF TreeOf, TreeIn
<1>2. RootRow(TreeIn(rows, d), d) = RootRow(rows, d)
    BY TreeParts
<1> QED
    BY <1>1, <1>2 DEF IsTreeOf, IsTree, Kids

\* The invariant holds in every state.
LEMMA Invariance == Spec => []Inv
<1>1. Init => Inv
    BY InvInit
<1>2. Inv /\ [Next]_vars => Inv'
    BY InvNext
<1> QED
    BY <1>1, <1>2, PTL DEF Spec

\* As long as no partition changes hands, no statement of an event, and no
\* commit of a transaction, is refused for a foreign key.
THEOREM NeverRefusedCorrect == Spec => []NeverRefused
<1>1. Inv => NeverRefused
    BY DEF Inv
<1> QED
    BY <1>1, Invariance, PTL

\* Without transaction batching, as long as no partition changes hands, the
\* last event applied to a document leaves the whole tree of that event and no
\* row of an earlier one, whatever was interrupted before.
THEOREM AppliedTreeIsWholeCorrect == Spec => []AppliedTreeIsWhole
<1>1. Inv => AppliedTreeIsWhole
    BY TreeStated DEF Inv, Shown, AppliedTreeIsWhole
<1> QED
    BY <1>1, Invariance, PTL

\* With transaction batching the committed rows of a document are at any time
\* the whole tree of one event, whatever workers are evicted, killed or lose
\* their session and however their transactions interleave.
THEOREM BatchedTreeIsWholeCorrect == Spec => []BatchedTreeIsWhole
<1>1. Inv => BatchedTreeIsWhole
    BY TreeStated DEF Inv, Trees, BatchedTreeIsWhole
<1> QED
    BY <1>1, Invariance, PTL
=============================================================================
