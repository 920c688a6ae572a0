----------------------------- MODULE MCTaskQueue -----------------------------
(* The durable queue on small instances; requests may be permuted when the *)
(* run checks safety only.                                                 *)
EXTENDS TaskQueue, TLC

Symmetry == Permutations(Tasks) \cup Permutations(Keys)
=============================================================================
