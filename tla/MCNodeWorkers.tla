--------------------------- MODULE MCNodeWorkers ---------------------------
(* Small instances of NodeWorkers for TLC. *)
EXTENDS NodeWorkers, TLC

(* Connections of a pool are interchangeable, and so are clients. *)
PoolSymmetry == Permutations(Clients) \cup Permutations(Workers)
=============================================================================
