-------------------------- MODULE MCOfficialStore --------------------------
(* OfficialStore on a small instance for TLC. *)
EXTENDS OfficialStore, TLC

ClientSymmetry == Permutations(Clients)
============================================================================
