---------------------------- MODULE AtLeastOnce ----------------------------
(***************************************************************************)
(* What a consumer that may only re-read, never pass over, promises: the   *)
(* group's committed offset moves forward, and only past events that have  *)
(* been settled.  Settling is not final: an event at or after the          *)
(* committed offset may be delivered, and so become unsettled, again.      *)
(***************************************************************************)
EXTENDS Naturals

CONSTANT MaxLog

VARIABLES
    committed,  \* offset of the first event a restarted consumer reads
    settled     \* offsets whose event has been dealt with

vars == <<committed, settled>>

Init ==
    /\ committed = 1
    /\ settled = {}

\* The consumer deals with events, or takes events up again, none of which
\* a restart would pass over.
Work ==
    /\ settled' \in SUBSET (1 .. MaxLog)
    /\ \A o \in 1 .. committed - 1 : o \in settled <=> o \in settled'
    /\ UNCHANGED committed

Commit ==
    /\ committed' \in committed .. MaxLog + 1
    /\ 1 .. committed' - 1 \subseteq settled
    /\ UNCHANGED settled

Next == Work \/ Commit

Spec == Init /\ [][Next]_vars
=============================================================================
