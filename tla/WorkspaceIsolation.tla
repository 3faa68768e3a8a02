--------------------------- MODULE WorkspaceIsolation ---------------------------
(***************************************************************************)
(* The write policy of a run and the decision whether it allows a write,   *)
(* as functions of a disk: the paths that exist, and the links among them  *)
(* with the paths they lead to.  A path is the sequence of its names.      *)
(***************************************************************************)
EXTENDS Naturals, Sequences, FiniteSets

IsPathInside(target, root) ==
    Len(root) <= Len(target) /\ SubSeq(target, 1, Len(root)) = root
IsPathInsideAnyRoot(target, roots) == \E root \in roots : IsPathInside(target, root)

Upper(path, n) == SubSeq(path, 1, n)
Rest(path, n) == SubSeq(path, n + 1, Len(path))

\* realpathSync.native, for links that lead to paths without links.
RealPath(disk, path) ==
    LET linked == {n \in 1..Len(path) : Upper(path, n) \in DOMAIN disk.links} IN
    IF linked = {} THEN path
    ELSE LET n == CHOOSE k \in linked : \A l \in linked : k >= l IN
         disk.links[Upper(path, n)] \o Rest(path, n)

\* existsSync follows links.
Exists(disk, path) == RealPath(disk, path) \in disk.existing

\* The longest part of the path that exists is resolved, the missing names are put behind it.
ResolvePhysicalTarget(disk, path) ==
    LET found == {n \in 0..Len(path) : Exists(disk, Upper(path, n))} IN
    IF found = {} THEN path
    ELSE LET n == CHOOSE k \in found : \A l \in found : k >= l IN
         RealPath(disk, Upper(path, n)) \o Rest(path, n)

\* Both spellings of a root count; an allowed root has to hold both spellings of the target.
PathMatchesRootVariants(disk, target, root, requireBothTargets) ==
    LET roots == {root, ResolvePhysicalTarget(disk, root)}
        given == IsPathInsideAnyRoot(target, roots)
        physical == IsPathInsideAnyRoot(ResolvePhysicalTarget(disk, target), roots) IN
    IF requireBothTargets THEN given /\ physical ELSE given \/ physical

IsolationPolicy(worktreePath, runArtifactsPath, deniedRoots) ==
    [allowedWriteRoots |-> {worktreePath, runArtifactsPath}, deniedWriteRoots |-> deniedRoots]

WorkspaceWriteAllowed(disk, policy, target) ==
    /\ \A root \in policy.deniedWriteRoots : ~PathMatchesRootVariants(disk, target, root, FALSE)
    /\ \E root \in policy.allowedWriteRoots : PathMatchesRootVariants(disk, target, root, TRUE)
=============================================================================
