-------------------------- MODULE MCUpsertTree --------------------------
(***************************************************************************)
(* Instance of UpsertTree: a root table r with child tables a and c, and a *)
(* child table b of a; the mappings are not listed by depth.               *)
(***************************************************************************)
EXTENDS UpsertTree, TLC

CONSTANTS r, a, b, c

MCMappings == <<a, b, c>>
MCParentOf == a :> r @@ b :> a @@ c :> r
Symmetry   == Permutations(Workers) \union Permutations(Docs)
MCShapes   == {a :> 2 @@ b :> 1 @@ c :> 0, a :> 1 @@ b :> 1 @@ c :> 1}
=============================================================================
