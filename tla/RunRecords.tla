----------------------------- MODULE RunRecords -----------------------------
(***************************************************************************)
(* What the live path promises of a run, whatever is sent, refreshed,      *)
(* stopped or lost meanwhile: its record goes from queued to running to    *)
(* one verdict, and it has at most one agent, which starts while the       *)
(* record says running and has ended before the verdict.                   *)
(***************************************************************************)

CONSTANT Runs

VARIABLES
    status,     \* what is recorded of each run
    agent       \* its agent process

vars == <<status, agent>>

Init ==
    /\ status = [r \in Runs |-> "absent"]
    /\ agent = [r \in Runs |-> "none"]

Record(r, from, to) ==
    /\ status[r] = from
    /\ status' = [status EXCEPT ![r] = to]
    /\ UNCHANGED agent

Ask(r) == Record(r, "absent", "queued")

Take(r) == Record(r, "queued", "running")

Start(r) ==
    /\ status[r] = "running"
    /\ agent[r] = "none"
    /\ agent' = [agent EXCEPT ![r] = "alive"]
    /\ UNCHANGED status

End(r) ==
    /\ agent[r] = "alive"
    /\ \E how \in {"exit zero", "exit error"} : agent' = [agent EXCEPT ![r] = how]
    /\ UNCHANGED status

Succeed(r) == agent[r] = "exit zero" /\ Record(r, "running", "succeeded")

Fail(r) == agent[r] # "alive" /\ Record(r, "running", "failed")

Next ==
    \E r \in Runs : Ask(r) \/ Take(r) \/ Start(r) \/ End(r) \/ Succeed(r) \/ Fail(r)

Spec == Init /\ [][Next]_vars
=============================================================================
