---------------------------- MODULE MCLogIngest ----------------------------
(* Two log files of different runs. *)
EXTENDS LogIngest, TLC

CONSTANTS s1, s2, r1, r2

MCSources == {s1, s2}
MCRuns == {r1, r2}
\* The second line of the first contents of s1 is empty.
MCBlank == {<<s1, 0, 2>>}
MCRunOf == [s \in Sources |-> IF s = s1 THEN r1 ELSE r2]
=============================================================================
