--------------------------- MODULE MCSnapshotCopy ---------------------------
(***************************************************************************)
(* SnapshotCopy for TLC: two documents of one collection and one of        *)
(* another.                                                                *)
(***************************************************************************)
EXTENDS SnapshotCopy

CONSTANTS k1, k2, k3, t1, t2

CollectionOf == [k \in Keys |-> IF k = k3 THEN t2 ELSE t1]
=============================================================================
