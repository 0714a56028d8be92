--------------------------- MODULE MCOfficialJobs ---------------------------
(* OfficialJobs on small instances for TLC. *)
EXTENDS OfficialJobs, TLC

JobSymmetry == Permutations(Jobs)
=============================================================================
