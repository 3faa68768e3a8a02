---------------------------- MODULE PreflightEngine ----------------------------
(***************************************************************************)
(* The checks of runFullPreflight over what it is given, as pure functions *)
(* of one record, the machine.  A check is its name and status; evidence   *)
(* and its redaction are left out.                                         *)
(***************************************************************************)
EXTENDS Integers, Sequences, FiniteSetsExt, WorkspaceIsolation

PREFLIGHT_CHECK_STATUSES == {"Ready", "Warning", "Blocked"}

MinFreeGiB == 5    \* PREFLIGHT_MIN_FREE_BYTES

Check(name, status) == [name |-> name, status |-> status]
ReadyIf(name, condition) == Check(name, IF condition THEN "Ready" ELSE "Blocked")

\* The checks of validateGitProject carry over; a validation that is blocked adds one more.
CheckGit(git) ==
    LET carried == {Check(c.name, c.status) : c \in git.checks} IN
    IF git.blocked THEN carried \cup {Check("git.validation", "Blocked")}
    ELSE IF carried = {} THEN {Check("git.validation", "Ready")} ELSE carried

CheckAdapters(adapters) ==
    IF adapters = {} THEN {Check("adapters.health", "Blocked")}
    ELSE {ReadyIf(a.adapterId, a.healthy) : a \in adapters}

CheckRuntime(runtime) == ReadyIf("runtime.compatibility", runtime.nodeOk /\ runtime.gitOk /\ runtime.osOk)

CheckAcl(policy) == ReadyIf("acl.isolation", policy.allowedWriteRoots # {})

\* Twice the repository, and at least the minimum.
CheckDisk(disk) ==
    ReadyIf("disk.capacity", disk.freeGiB >= Max({MinFreeGiB, disk.repositoryGiB * 2}))

CheckContext(snapshot) ==
    Check("context.snapshot", CASE snapshot = "none" -> "Warning"
                                [] snapshot = "writable" -> "Blocked"
                                [] snapshot = "readOnly" -> "Ready")

CheckSecretAliases(aliases) ==
    ReadyIf("secret.aliases", \A a \in aliases : a.wellFormed /\ a.stored)

\* assertNetworkAllowed: the first grant for the destination decides, also when it has expired and
\* a later one has not; without a grant the default mode does.
GrantUsable(grant, now) == grant.status = "approved" /\ now <= grant.expiresAt
NetworkAllowed(allowlist, destination, now) ==
    LET matching == {i \in DOMAIN allowlist.grants : allowlist.grants[i].destination = destination} IN
    IF matching = {} THEN allowlist.defaultMode = "allow"
    ELSE GrantUsable(allowlist.grants[Min(matching)], now)

CheckNetwork(requests, allowlist, now) ==
    IF requests = {} THEN {Check("network.allowlist", "Ready")}
    ELSE {ReadyIf(destination, NetworkAllowed(allowlist, destination, now)) : destination \in requests}

\* Locks are only counted: those that count are in the checks of git.
CheckLocks == Check("locks.workspace", "Ready")

CheckMaintenance(maintenance) ==
    Check("maintenance.window", CASE maintenance = "active" -> "Blocked"
                                  [] maintenance = "scheduled" -> "Warning"
                                  [] maintenance = "none" -> "Ready")

\* evaluateDependencyPolicy: a lock file is what it installs, as name -> [version, source].
EvaluateDependencyPolicy(previous, next) ==
    LET untrusted == {p \in DOMAIN next : next[p].source = "untrusted"}
        added == DOMAIN next \ DOMAIN previous
        changed == {p \in DOMAIN next \cap DOMAIN previous : next[p] # previous[p]} IN
    IF untrusted # {} THEN "blocked"
    ELSE IF added \cup changed # {} THEN "requires_approval" ELSE "allowed"

CheckDependencyPolicy(decision) ==
    Check("dependency.policy", CASE decision = "blocked" -> "Blocked"
                                 [] decision = "requires_approval" -> "Warning"
                                 [] decision = "allowed" -> "Ready")

\* assertCacheReadOnly, for a cache that is given.
CheckCache(cache) == ReadyIf("tool.cache", cache \in {"none", "readOnly"})

FullPreflight(machine) ==
    CheckGit(machine.git) \cup CheckAdapters(machine.adapters)
        \cup CheckNetwork(machine.requests, machine.allowlist, machine.now)
        \cup {CheckRuntime(machine.runtime), CheckAcl(machine.aclPolicy), CheckDisk(machine.disk),
              CheckContext(machine.context), CheckSecretAliases(machine.aliases), CheckLocks,
              CheckMaintenance(machine.maintenance), CheckCache(machine.cache),
              CheckDependencyPolicy(EvaluateDependencyPolicy(machine.lockfile, machine.nextLockfile))}

SummarizePreflightStatus(checks) ==
    IF \E c \in checks : c.status = "Blocked" THEN "Blocked"
    ELSE IF \E c \in checks : c.status = "Warning" THEN "Ready_with_Warnings" ELSE "Ready"

\* assertPreflightCanStart
CanStart(status, overrideWarnings) ==
    status = "Ready" \/ (status = "Ready_with_Warnings" /\ overrideWarnings)
=============================================================================
