--------------------------- MODULE MCKafkaImport ---------------------------
(***************************************************************************)
(* KafkaImport for TLC: two documents that are interchangeable.            *)
(***************************************************************************)
EXTENDS KafkaImport, TLC

CONSTANTS k1, k2

KeySymmetry == Permutations({k1, k2})
=============================================================================
