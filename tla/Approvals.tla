------------------------------- MODULE Approvals -------------------------------
(***************************************************************************)
(* Approval requests and decisions: pure functions of frozen objects.  A   *)
(* gate asks for a revision of its document; payload and revision hash are *)
(* both functions of the document, so one number stands for both, and two  *)
(* revisions never hash alike (each text holds its time of creation).      *)
(*                                                                         *)
(* Nothing marks a request that was decided: while it is Pending and not   *)
(* expired it can be decided again, and the other way.                     *)
(***************************************************************************)
EXTENDS Naturals

CONSTANT Ttl      \* SENSITIVE_APPROVAL_TTL_MINUTES in ticks of the clock

ASSUME TtlAssumption == Ttl \in Nat \ {0}

Gates == {"context", "pipeline", "handoff", "critical", "acceptance"}

\* A user's answer as the client sends it: the revision it was shown and the time of the answer.
Answer(gate, revision, verdict, at) ==
    [gate |-> gate, revision |-> revision, verdict |-> verdict, at |-> at]
NoAnswer == Answer("none", 0, "none", 0)
Answers == [gate : Gates, revision : Nat, verdict : {"approve", "reject"}, at : Nat]

Request(gate, revision, now) ==
    [gate |-> gate, revision |-> revision, expires |-> now + Ttl, state |-> "Pending"]
NoRequest == [gate |-> "none", revision |-> 0, expires |-> 0, state |-> "None"]
Requests == [gate : Gates, revision : Nat, expires : Nat, state : {"Pending", "Invalidated"}]

Usable(request, answer) ==
    /\ request.state = "Pending"
    /\ answer.at <= request.expires
    /\ answer.revision = request.revision

\* A bug: the decision's own word is taken for the state.
DecisionVerbatim(request, answer) ==
    [gate |-> request.gate, revision |-> answer.revision, late |-> answer.at > request.expires,
     state |-> answer.verdict]

\* The decision keeps the revision of the answer; of its time, only whether the request had run out.
Decision(request, answer) ==
    [gate |-> request.gate, revision |-> answer.revision, late |-> answer.at > request.expires,
     state |-> IF answer.verdict = "approve" THEN "Approved" ELSE "Rejected"]
NoDecision == [gate |-> "none", revision |-> 0, late |-> FALSE, state |-> "None"]
Decisions == [gate : Gates, revision : Nat, late : BOOLEAN, state : {"Approved", "Rejected"}]

Invalidated(request, revision) ==
    IF request.revision # revision THEN [request EXCEPT !.state = "Invalidated"] ELSE request

\* A bug: the decision is not compared with the document it is used for.
BindsAnyRevision(decision, gate, revision) == decision.gate = gate /\ decision.state = "Approved"

\* What every consumer asks of the decision it is handed.
Binds(decision, gate, revision) ==
    decision.gate = gate /\ decision.revision = revision /\ decision.state = "Approved"
=============================================================================
