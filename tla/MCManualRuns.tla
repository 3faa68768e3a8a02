---------------------------- MODULE MCManualRuns ----------------------------
(* Instances of ManualRuns for TLC. *)
EXTENDS ManualRuns

\* Two posts for different ids.
PairPosts == {"p1", "p2"}
PairRuns == {"r1", "r2"}
PairIds == [p \in PairPosts |-> IF p = "p1" THEN {"r1"} ELSE {"r2"}]
OwnBranch == [r \in PairRuns |-> IF r = "r1" THEN "b1" ELSE "b2"]
SameTarget == [p \in PairPosts |-> "t1"]
OwnTarget == [p \in PairPosts |-> IF p = "p1" THEN "t1" ELSE "t2"]

\* Three posts: p1 and p2 may get either generated id, p3 carries its own; two of the ids
\* shorten to the same branch name.
TrioPosts == {"p1", "p2", "p3"}
TrioRuns == {"r1", "r2", "r3"}
TrioIds == [p \in TrioPosts |-> IF p = "p3" THEN {"r3"} ELSE {"r1", "r2"}]
TrioBranch == [r \in TrioRuns |-> IF r = "r1" THEN "b1" ELSE "b2"]
TrioTarget == [p \in TrioPosts |-> "t1"]
=============================================================================
