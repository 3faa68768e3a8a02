------------------------------ MODULE MCCommands ------------------------------
(* Instances of Commands for TLC. *)
EXTENDS Commands

\* Every state a run can be in, with the gates it has passed by then.
Successors(s) ==
    {[state |-> t.to, gates |-> Lifecycle!GatesAfter(t, s.gates)] :
        t \in {u \in RunTransitions : u.from = s.state}}
Reach[n \in 0..12] ==
    IF n = 0 THEN {[state |-> "Draft", gates |-> {}]}
    ELSE Reach[n - 1] \cup UNION {Successors(s) : s \in Reach[n - 1]}
Anywhere == Reach[12]

Two == {"r1", "r2"}
OneKey == [r \in Two |-> "k1"]
SecondUnknown == [r \in Two |-> IF r = "r2" THEN "Unknown" ELSE "None"]
=============================================================================
