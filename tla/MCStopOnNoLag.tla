--------------------------- MODULE MCStopOnNoLag ---------------------------
(***************************************************************************)
(* StopOnNoLag for TLC: a parent and at most one child.                    *)
(***************************************************************************)
EXTENDS StopOnNoLag

CONSTANTS nobody, parent, child, p1, p2
=============================================================================
