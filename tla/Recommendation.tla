---------------------------- MODULE Recommendation ----------------------------
(***************************************************************************)
(* Which adapter may run an agent: the registry of the approved adapters,  *)
(* their availability by version, and the ranking of those that meet the   *)
(* requirements of a step.  Pure functions, used by the replacement of an  *)
(* agent.  A version is <<major, minor, patch>>, or <<>> when unreadable.  *)
(***************************************************************************)
EXTENDS Integers, FiniteSets, FiniteSetsExt

\* In the order of localeCompare, which breaks ties.
APPROVED_ADAPTER_IDS == {"claude_code", "codex"}
Before(id, other) == id = "claude_code" /\ other = "codex"

Offers == {"code_editing", "repository_analysis", "test_running",
           "local_cli_required", "git_worktree_only", "no_automatic_merge",
           "workspace_read", "workspace_write", "artifact_write", "process_spawn"}

\* What an adapter is said to be before its version is known; kinds of offers are told apart by name.
DefaultEntry(id) ==
    IF id = "claude_code"
    THEN [adapterId |-> id, version |-> <<1, 0, 0>>, supportedRange |-> {<<">=", <<1, 0, 0>>>>},
          priority |-> 90, offers |-> Offers \cup {"refactoring", "planning"}]
    ELSE [adapterId |-> id, version |-> <<0, 1, 0>>, supportedRange |-> {<<">=", <<0, 1, 0>>>>},
          priority |-> 80, offers |-> Offers \cup {"debugging"}]

CompareSemver(left, right) ==
    IF left[1] # right[1] THEN left[1] - right[1]
    ELSE IF left[2] # right[2] THEN left[2] - right[2] ELSE left[3] - right[3]

\* Every clause of the range holds; an empty range takes any readable version.
SatisfiesVersion(version, range) ==
    /\ version # <<>>
    /\ \A clause \in range :
        LET cmp == CompareSemver(version, clause[2]) IN
        CASE clause[1] = ">=" -> cmp >= 0
          [] clause[1] = ">" -> cmp > 0
          [] clause[1] = "<=" -> cmp <= 0
          [] clause[1] = "<" -> cmp < 0
          [] clause[1] = "=" -> cmp = 0

\* loadCapabilityRegistry: detected versions and ranges of the manifest replace the defaults.
Registry(detected, ranges) ==
    [id \in APPROVED_ADAPTER_IDS |->
        LET base == DefaultEntry(id) IN
        [base EXCEPT !.version = IF id \in DOMAIN detected THEN detected[id] ELSE @,
                     !.supportedRange = IF id \in DOMAIN ranges THEN ranges[id] ELSE @]]

Available(entry) == SatisfiesVersion(entry.version, entry.supportedRange)

Matches(entry, requirement) ==
    IF requirement.kind = "adapter" THEN entry.adapterId = requirement.value
    ELSE requirement.value \in entry.offers

DefaultWeight(category) ==
    CASE category = "safety" -> 80 [] category = "technical" -> 50 [] category = "quality" -> 20

\* An unmet requirement is a failure when it is required, except one of quality that may be overridden.
Fails(entry, requirement, allowQualityOverride) ==
    /\ ~Matches(entry, requirement)
    /\ requirement.required
    /\ requirement.category = "quality" => ~allowQualityOverride

Points(entry, requirement) ==
    IF Matches(entry, requirement) THEN DefaultWeight(requirement.category)
    ELSE IF requirement.category = "quality" THEN -10 ELSE -200

Score(entry, requirements) ==
    entry.priority + (IF Available(entry) THEN 30 ELSE -1000)
        + MapThenSumSet(LAMBDA r : Points(entry, r), requirements)

Eligible(entry, requirements, allowQualityOverride) ==
    /\ Available(entry)
    /\ \A r \in requirements : ~Fails(entry, r, allowQualityOverride)

\* compareRecommendations: the higher score first, then the name.
RanksBefore(left, right, requirements) ==
    LET l == Score(left, requirements)
        r == Score(right, requirements) IN
    l > r \/ (l = r /\ Before(left.adapterId, right.adapterId))

\* recommendAdapters: the eligible ones, at most limit of them.
Recommended(registry, requirements, allowQualityOverride, limit) ==
    LET eligible == {id \in APPROVED_ADAPTER_IDS :
                        Eligible(registry[id], requirements, allowQualityOverride)} IN
    {id \in eligible :
        Cardinality({other \in eligible : RanksBefore(registry[other], registry[id], requirements)}) < limit}
=============================================================================
