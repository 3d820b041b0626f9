--------------------------- MODULE MCLocalSystemd ---------------------------
(* Two units, one of them kept after its exit. *)
EXTENDS LocalSystemd, TLC

PgidSymmetry == Permutations(Pgids) \cup Permutations(Callers)
=============================================================================
