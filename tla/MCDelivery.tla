------------------------------ MODULE MCDelivery ------------------------------
(* Instances of Delivery for TLC. *)
EXTENDS Delivery

\* A passing, a blocking and a sensitive review, and one whose Critical finding is not sensitive
\* while a lesser one is.
SomeReviews ==
    {{Finding("Low", FALSE)}, {Finding("Critical", TRUE)},
     {Finding("Critical", FALSE), Finding("High", TRUE)}}

\* A machine that is ready, one with warnings only (a dirty repository and a new package), and one
\* whose first of two grants has expired.
Sound ==
    [git |-> [checks |-> {[name |-> "git.dirtyState", status |-> "Ready"]}, blocked |-> FALSE],
     adapters |-> {[adapterId |-> "codex", healthy |-> TRUE]},
     runtime |-> [nodeOk |-> TRUE, gitOk |-> TRUE, osOk |-> TRUE],
     aclPolicy |-> IsolationPolicy(<<"data", "run">>, <<"data", "artifacts">>, {<<"repository">>, <<"vault">>}),
     disk |-> [freeGiB |-> 6, repositoryGiB |-> 3],
     context |-> "readOnly",
     aliases |-> {[wellFormed |-> TRUE, stored |-> TRUE]},
     requests |-> {}, allowlist |-> [defaultMode |-> "deny", grants |-> <<>>], now |-> 1,
     maintenance |-> "none",
     lockfile |-> [a |-> [version |-> 1, source |-> "npm"]],
     nextLockfile |-> [a |-> [version |-> 1, source |-> "npm"]],
     cache |-> "none"]
Warned ==
    [Sound EXCEPT !.git.checks = {[name |-> "git.dirtyState", status |-> "Warning"]},
                  !.nextLockfile = [a |-> [version |-> 2, source |-> "npm"]]]
Renewed(expiresAt) ==
    [destination |-> "registry", status |-> "approved", expiresAt |-> expiresAt]
Expired ==
    [Sound EXCEPT !.requests = {"registry"}, !.allowlist.grants = <<Renewed(0), Renewed(2)>>]
SomeMachines == {Sound, Warned, Expired}

\* Disks with a link or two in the worktree, and targets up to three names long.
Names == {"data", "run", "vault"}
TargetPaths == UNION {[1..n -> Names] : n \in 1..3}
SomeDisks ==
    [existing : {{<<>>, <<"data">>, <<"vault">>, <<"run">>, <<"data", "run">>}},
     links : {[l \in ls |-> to[l]] :
        ls \in SUBSET {<<"data", "run", "vault">>, <<"data", "vault">>},
        to \in [{<<"data", "run", "vault">>, <<"data", "vault">>} -> {<<"vault">>, <<"data", "run">>, <<"run">>}]}]

\* A write that is allowed resolves to a path in the real worktree or artifacts and in no
\* denied root, wherever links inside these trees lead.
AllowedWritesStay ==
    \A disk \in SomeDisks : \A path \in TargetPaths :
        LET policy == IsolationPolicy(<<"data", "run">>, <<"data", "data">>, {<<"vault">>})
            ends == ResolvePhysicalTarget(disk, path) IN
        WorkspaceWriteAllowed(disk, policy, path) =>
            /\ \E root \in policy.allowedWriteRoots : IsPathInside(ends, ResolvePhysicalTarget(disk, root))
            /\ ~IsPathInside(ends, <<"vault">>)

ASSUME AllowedWritesAssumption == AllowedWritesStay
=============================================================================
