------------------------ MODULE MCOutputTransaction ------------------------
(* OutputTransaction on small instances for TLC. *)
EXTENDS OutputTransaction, TLC

PublisherSymmetry == Permutations(Publishers)
=============================================================================
