---------------------------- MODULE MCEventStream ----------------------------
(* Two runs, and pages of two events, so that a client needs several.  The *)
(* client and the sweep only share the log: each is taken through many     *)
(* events or removals by itself, and both together through few.            *)
EXTENDS EventStream

CONSTANTS r1, r2

SomeRuns == {r1, r2}
SomeScenes == {{"client"}, {"retention"}, {"client", "retention"}}
SomeEvents == [s \in SomeScenes |-> IF s = {"client"} THEN 3 ELSE 1]
=============================================================================
