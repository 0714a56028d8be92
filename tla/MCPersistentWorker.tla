------------------------- MODULE MCPersistentWorker -------------------------
(* PersistentWorker on small instances for TLC. *)
EXTENDS PersistentWorker, TLC

CallSymmetry == Permutations(Calls)
=============================================================================
