-------------------------------- MODULE Reviews --------------------------------
(***************************************************************************)
(* The review artifact and the correction cycle, as functions of the       *)
(* findings a reviewer reports.                                            *)
(***************************************************************************)
EXTENDS Naturals

Severities == <<"Info", "Low", "Medium", "High", "Critical">>
Rank(severity) == CHOOSE i \in 1..5 : Severities[i] = severity

CorrectionLimit == 2

\* Findings as a reviewer may report them; sensitive is read only next to Critical.
Finding(severity, sensitive) == [severity |-> severity, sensitive |-> sensitive]

Highest(findings) ==
    IF findings = {} THEN "Info"
    ELSE (CHOOSE f \in findings : \A g \in findings : Rank(g.severity) <= Rank(f.severity)).severity

Blocking(findings) == Highest(findings) \in {"High", "Critical"}

CriticalSensitive(findings) == \E f \in findings : f.severity = "Critical" /\ f.sensitive

\* createReviewArtifact.  The cycle takes the artifact: High and Critical block.
ReviewArtifact(findings) ==
    [highestSeverity |-> Highest(findings), blocking |-> Blocking(findings),
     criticalSensitive |-> CriticalSensitive(findings)]

\* What the cycle answers to a review after n corrections, and the counter it goes on with.
Verdict(action, next, exceptionUsed) ==
    [action |-> action, next |-> next, exceptionUsed |-> exceptionUsed]

\* A bug: the exception is not asked for.
EvaluateUnasked(n, review, exceptionApproved) ==
    IF review.criticalSensitive THEN Verdict("Critical_Approval", n, FALSE)
    ELSE IF review.blocking THEN Verdict("Continue", n + 1, n >= CorrectionLimit)
    ELSE Verdict("Continue", n, FALSE)

Evaluate(n, review, exceptionApproved) ==
    CASE review.criticalSensitive -> Verdict("Critical_Approval", n, FALSE)
      [] ~review.criticalSensitive /\ ~review.blocking -> Verdict("Continue", n, FALSE)
      [] ~review.criticalSensitive /\ review.blocking /\ n < CorrectionLimit ->
            Verdict("Continue", n + 1, FALSE)
      [] OTHER ->
            IF exceptionApproved THEN Verdict("Continue", n + 1, TRUE)
            ELSE Verdict("Needs_Attention", n, FALSE)
=============================================================================
