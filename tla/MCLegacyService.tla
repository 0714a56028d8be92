-------------------------- MODULE MCLegacyService --------------------------
(* LegacyService on small instances for TLC. *)
EXTENDS LegacyService, TLC

RequestSymmetry == Permutations(Async)
=============================================================================
