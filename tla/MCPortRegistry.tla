--------------------------- MODULE MCPortRegistry ---------------------------
(* Two homes on one machine; home h1 is served by a daemon and by its      *)
(* successor.                                                              *)
EXTENDS PortRegistry, TLC

CONSTANTS h1, h2, d1, d2, e1, a1, a2, b1

MCHomes == {h1, h2}
MCPids == {d1, d2, e1}
MCOwners == {a1, a2, b1}
MCOwnerHome == (a1 :> h1) @@ (a2 :> h1) @@ (b1 :> h2)
MCPidHome == (d1 :> h1) @@ (d2 :> h1) @@ (e1 :> h2)

PortSymmetry == Permutations(Ports)
=============================================================================
