--------------------------- MODULE MCProcessControl ---------------------------
(* Instances of ProcessControl for TLC. *)
EXTENDS ProcessControl

TwoAttempts == {"a1", "a2"}
TwoCallers == {"c1", "c2"}
=============================================================================
