----------------------------- MODULE RunLifecycle -----------------------------
(***************************************************************************)
(* What a run may go through: one legal transition after the other, with   *)
(* contexts that say what is the case.  The gates record which approvals   *)
(* the run has passed for the work it holds now.                           *)
(***************************************************************************)
EXTENDS StateMachine

VARIABLES
    state,        \* state of the run
    gates         \* gates passed: "pipeline", "accepted", "merged"

vars == <<state, gates>>

Init ==
    /\ state = "Draft"
    /\ gates = {}

\* What a transition does to the gates: new work has not been accepted, a request for
\* changes or a failed merge takes the acceptance back, and a changed configuration has
\* not been approved.
GatesAfter(t, before) ==
    CASE t.event = "Approve" /\ t.from = "Awaiting_Pipeline_Approval" -> before \cup {"pipeline"}
      [] t.event = "Edit" -> {}
      [] t.to \in {"Running", "Needs_Attention"} -> before \cap {"pipeline"}
      [] t.event = "Accept" -> before \cup {"accepted"}
      [] t.event = "Verify_merge_success" -> before \cup {"merged"}
      [] OTHER -> before

Take(t) ==
    /\ state = t.from
    /\ state' = t.to
    /\ gates' = GatesAfter(t, gates)

Next == \E t \in RunTransitions : Take(t)

Spec == Init /\ [][Next]_vars

-----------------------------------------------------------------------------
(* Properties                                                              *)

\* A completed run was accepted, and merged after that acceptance: no way back to work
\* keeps an old acceptance alive.
CompletedThroughGates == state = "Completed" => {"accepted", "merged"} \subseteq gates
=============================================================================
