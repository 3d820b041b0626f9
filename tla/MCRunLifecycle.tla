--------------------------- MODULE MCRunLifecycle ---------------------------
(* A database and a server that depends on it, or the server alone. *)
EXTENDS RunLifecycle, TLC

CONSTANTS db, api

MCRank == [s \in Services |-> IF s = db THEN 1 ELSE 2]

HandleSymmetry == Permutations(Handles)
=============================================================================
