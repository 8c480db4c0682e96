------------------------------ MODULE MCToPg ------------------------------
(***************************************************************************)
(* Two collections that form a group, one of which embeds a field of the   *)
(* name of a third collection.                                             *)
(***************************************************************************)
EXTENDS ToPg, TLC

MCNumeral(n) == ToString(n)

MCOrder == << <<"ev", "a">>, <<"ev", "b">>, <<"items">> >>
MCDocsOf ==
    (<<"ev", "a">> :> << <<>>, << <<"items">> >>, <<>>, << <<"items">> >> >>)
    @@ (<<"ev", "b">> :> << << <<"items">> >> >>)
    @@ (<<"items">> :> << <<>> >>)
=============================================================================
