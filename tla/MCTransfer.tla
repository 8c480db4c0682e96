---------------------------- MODULE MCTransfer ----------------------------
(***************************************************************************)
(* Instance of Transfer: the collections g_a and g_b are a group, exported *)
(* through grp.sql; solo is a collection of its own.                       *)
(***************************************************************************)
EXTENDS Transfer, TLC

CONSTANTS ga, gb, grp, solo, tg, tgk, th, thk, alias

MCDocs     == 1 .. 4
MCCollOf   == 1 :> ga @@ 2 :> ga @@ 3 :> gb @@ 4 :> solo
MCKidsOf   == 1 :> 1 @@ 2 :> 0 @@ 3 :> 1 @@ 4 :> 0
MCSqlFiles == <<grp, solo>>
MCFileOf   == ga :> grp @@ gb :> grp @@ solo :> solo
MCRootOf   == grp :> tg @@ solo :> th
MCChildOf  == grp :> tgk @@ solo :> thk
MCAliasOf  == tg :> None @@ tgk :> None @@ th :> None @@ thk :> alias
MCDirOrder == <<grp, ga, gb, solo>>
Symmetry   == Permutations(Workers) \union Permutations(Importers)
=============================================================================
