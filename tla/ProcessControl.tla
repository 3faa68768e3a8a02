---------------------------- MODULE ProcessControl ----------------------------
(***************************************************************************)
(* The attempt process manager, the cancellations adapters ask it for, and *)
(* the safe shutdown that cancels what is active before it declares a run  *)
(* ready for recovery.                                                     *)
(*                                                                         *)
(* cancelAttempt suspends its caller until the child exits or two timers   *)
(* have passed; meanwhile other callers, exit events and the shutdown run. *)
(* Each action is one callback of the event loop with the promise jobs it  *)
(* queues.  Only the loop of runSafeShutdown may go through several        *)
(* cancellations in one callback: while it is "looping" nothing else runs. *)
(***************************************************************************)
EXTENDS Naturals, FiniteSets

CONSTANTS
    Attempts,     \* attempt ids
    Callers       \* concurrent callers of an adapter's cancel, one call each

VARIABLES
    status,       \* status of each tracked attempt, or "untracked"
    child,        \* its process: "none", "alive", "dead", or "reaped" (exit event seen)
    phase,        \* waitForExit: "idle", or the timer armed: "term" or "kill"
    waiter,       \* whose call awaits waitForExit
    killed,       \* SIGKILL was sent to the process tree
    target,       \* the attempt each caller named
    outcome,      \* what the adapter answered each caller
    shutdown,     \* progress of runSafeShutdown
    listed,       \* activeAttemptIds
    queue,        \* those the shutdown has not reached yet
    checkpointed  \* the before-shutdown checkpoint was written

manager == <<status, child, phase, waiter, killed>>
calls == <<target, outcome>>
closing == <<shutdown, listed, queue, checkpointed>>
vars == <<manager, calls, closing>>

Nobody == "nobody"
Shutdown == "shutdown"
NoTarget == "no attempt"

ASSUME CallersAssumption == {Nobody, Shutdown} \cap Callers = {} /\ NoTarget \notin Attempts

TypeOK ==
    /\ status \in [Attempts -> {"untracked", "Running", "Cancelling", "Cancelled", "Exited"}]
    /\ child \in [Attempts -> {"none", "alive", "dead", "reaped"}]
    /\ phase \in [Attempts -> {"idle", "term", "kill"}]
    /\ waiter \in [Attempts -> Callers \cup {Nobody, Shutdown}]
    /\ killed \in [Attempts -> BOOLEAN]
    /\ target \in [Callers -> Attempts \cup {NoTarget}]
    /\ outcome \in [Callers -> {"none", "waiting", "cancelled", "failed"}]
    /\ shutdown \in {"idle", "looping", "awaiting", "closed", "failed"}
    /\ listed \subseteq Attempts
    /\ queue \subseteq listed
    /\ checkpointed \in BOOLEAN

Init ==
    /\ status = [a \in Attempts |-> "untracked"]
    /\ child = [a \in Attempts |-> "none"]
    /\ phase = [a \in Attempts |-> "idle"]
    /\ waiter = [a \in Attempts |-> Nobody]
    /\ killed = [a \in Attempts |-> FALSE]
    /\ target = [c \in Callers |-> NoTarget]
    /\ outcome = [c \in Callers |-> "none"]
    /\ shutdown = "idle"
    /\ listed = {}
    /\ queue = {}
    /\ checkpointed = FALSE

LoopFree == shutdown # "looping"

-----------------------------------------------------------------------------
(* The process manager                                                     *)

StartAttempt(a) ==
    /\ LoopFree
    /\ status[a] = "untracked"
    /\ status' = [status EXCEPT ![a] = "Running"]
    /\ child' = [child EXCEPT ![a] = "alive"]
    /\ UNCHANGED <<phase, waiter, killed, calls, closing>>

\* cancelAttempt up to its await, for an attempt that is running: SIGTERM, and the
\* first timer is armed.
Terminate(a, who) ==
    /\ status[a] = "Running"
    /\ status' = [status EXCEPT ![a] = "Cancelling"]
    /\ phase' = [phase EXCEPT ![a] = "term"]
    /\ waiter' = [waiter EXCEPT ![a] = who]
    /\ UNCHANGED <<child, killed>>

Cancel(c, a) ==
    /\ LoopFree
    /\ outcome[c] = "none"
    /\ Terminate(a, c)
    /\ target' = [target EXCEPT ![c] = a]
    /\ outcome' = [outcome EXCEPT ![c] = "waiting"]
    /\ UNCHANGED closing

\* A bug: the adapter answers with the status of the snapshot.
CancelSettledRaw(c, a) ==
    /\ LoopFree
    /\ outcome[c] = "none"
    /\ status[a] # "Running"
    /\ target' = [target EXCEPT ![c] = a]
    /\ outcome' = [outcome EXCEPT ![c] = status[a]]
    /\ UNCHANGED <<manager, closing>>

\* Any other tracked attempt: cancelAttempt returns its snapshot at once, which the
\* adapter reports as cancelled.  An unknown attempt is an error.
CancelSettled(c, a) ==
    /\ LoopFree
    /\ outcome[c] = "none"
    /\ status[a] # "Running"
    /\ target' = [target EXCEPT ![c] = a]
    /\ outcome' = [outcome EXCEPT ![c] = IF status[a] = "untracked" THEN "failed" ELSE "cancelled"]
    /\ UNCHANGED <<manager, closing>>

\* The process ends, by itself or by a signal it does not or cannot ignore.
ChildExits(a) ==
    /\ child[a] = "alive"
    /\ child' = [child EXCEPT ![a] = "dead"]
    /\ UNCHANGED <<status, phase, waiter, killed, calls, closing>>

\* A bug: the timer is not cleared.
ResumeTimerArmed(a, ok) ==
    /\ waiter' = [waiter EXCEPT ![a] = Nobody]
    /\ outcome' = [c \in Callers |->
                    IF c # waiter[a] THEN outcome[c] ELSE IF ok THEN "cancelled" ELSE "failed"]
    /\ shutdown' =
        IF waiter[a] # Shutdown THEN shutdown ELSE IF ok THEN "looping" ELSE "failed"
    /\ UNCHANGED <<phase, killed, target, listed, queue, checkpointed>>

\* The call that awaits attempt a goes on: answered if `ok`, rejected otherwise.
Resume(a, ok) ==
    /\ phase' = [phase EXCEPT ![a] = "idle"]
    /\ waiter' = [waiter EXCEPT ![a] = Nobody]
    /\ outcome' = [c \in Callers |->
                    IF c # waiter[a] THEN outcome[c] ELSE IF ok THEN "cancelled" ELSE "failed"]
    /\ shutdown' =
        IF waiter[a] # Shutdown THEN shutdown ELSE IF ok THEN "looping" ELSE "failed"
    /\ UNCHANGED <<killed, target, listed, queue, checkpointed>>

\* The exit event: its first listener sets the status, the second ends waitForExit,
\* and the call that awaited it finds the process gone.
ExitEvent(a) ==
    /\ LoopFree
    /\ child[a] = "dead"
    /\ child' = [child EXCEPT ![a] = "reaped"]
    /\ status' = [status EXCEPT
                    ![a] = IF status[a] = "Cancelling" THEN "Cancelled" ELSE "Exited"]
    /\ Resume(a, TRUE)

\* Mutations of KillTimer: SIGTERM once more; and a timer that only ends the wait for
\* the timer, not the wait for the exit.
KillTimerTerminates(a) ==
    /\ LoopFree
    /\ phase[a] = "term"
    /\ phase' = [phase EXCEPT ![a] = "kill"]
    /\ UNCHANGED <<status, child, waiter, killed, calls, closing>>

KillTimerLast(a) ==
    /\ LoopFree
    /\ phase[a] = "term"
    /\ phase' = [phase EXCEPT ![a] = "idle"]
    /\ UNCHANGED <<status, child, waiter, killed, calls, closing>>

\* SIGKILL to the process group of the child, or to the child.
KillProcessTree(a) == killed' = [killed EXCEPT ![a] = TRUE]

\* killTimeoutMs has passed: SIGKILL, and the second timer is armed.
KillTimer(a) ==
    /\ LoopFree
    /\ phase[a] = "term"
    /\ phase' = [phase EXCEPT ![a] = "kill"]
    /\ KillProcessTree(a)
    /\ UNCHANGED <<status, child, waiter, calls, closing>>

\* A bug: the cancellation is reported without looking at the child.
GiveUpUnchecked(a) ==
    /\ LoopFree
    /\ phase[a] = "kill"
    /\ Resume(a, TRUE)
    /\ status' = [status EXCEPT ![a] = "Cancelled"]
    /\ UNCHANGED child

\* The exit event is still out after the second timer: the call throws and the
\* attempt stays "Cancelling".
GiveUp(a) ==
    /\ LoopFree
    /\ phase[a] = "kill"
    /\ Resume(a, FALSE)
    /\ UNCHANGED <<status, child>>

-----------------------------------------------------------------------------
(* Safe shutdown                                                           *)

\* The caller names attempts it sees active.  The checkpoint comes first; when it
\* cannot be written nothing is cancelled.
BeginShutdown(ids) ==
    /\ shutdown = "idle"
    /\ ids \subseteq {a \in Attempts : status[a] \in {"Running", "Cancelling"}}
    /\ listed' = ids
    /\ queue' = ids
    /\ \/ shutdown' = "looping" /\ checkpointed' = TRUE
       \/ shutdown' = "failed" /\ UNCHANGED checkpointed
    /\ UNCHANGED <<manager, calls>>

\* A bug: the loop does not await the cancellation.
CloseNextUnawaited(a) ==
    /\ shutdown = "looping"
    /\ a \in queue
    /\ queue' = queue \ {a}
    /\ Terminate(a, Shutdown)
    /\ UNCHANGED <<shutdown, listed, checkpointed, calls>>

\* One turn of the loop: await the cancellation of the next attempt, ...
CloseNext(a) ==
    /\ shutdown = "looping"
    /\ a \in queue
    /\ queue' = queue \ {a}
    /\ Terminate(a, Shutdown)
    /\ shutdown' = "awaiting"
    /\ UNCHANGED <<listed, checkpointed, calls>>

\* ... which returns at once when the attempt is not running.
SkipNext(a) ==
    /\ shutdown = "looping"
    /\ a \in queue
    /\ status[a] # "Running"
    /\ queue' = queue \ {a}
    /\ UNCHANGED <<shutdown, listed, checkpointed, manager, calls>>

\* The budget is checked after each cancellation.
Overrun ==
    /\ shutdown = "looping"
    /\ queue # listed
    /\ shutdown' = "failed"
    /\ UNCHANGED <<listed, queue, checkpointed, manager, calls>>

\* childProcessesClosed and checkpointSaved are passed as true; the transition
\* throws when the run is in no active state.
FinishShutdown ==
    /\ shutdown = "looping"
    /\ queue = {}
    /\ shutdown' \in {"closed", "failed"}
    /\ UNCHANGED <<listed, queue, checkpointed, manager, calls>>

-----------------------------------------------------------------------------
Manager(a) ==
    StartAttempt(a) \/ ChildExits(a) \/ ExitEvent(a) \/ KillTimer(a) \/ GiveUp(a)

Close ==
    \/ \E a \in Attempts : CloseNext(a) \/ SkipNext(a)
    \/ Overrun
    \/ FinishShutdown

Next ==
    \/ \E a \in Attempts : Manager(a)
    \/ \E c \in Callers, a \in Attempts : Cancel(c, a) \/ CancelSettled(c, a)
    \/ \E ids \in SUBSET Attempts : BeginShutdown(ids)
    \/ Close

Spec == Init /\ [][Next]_vars

-----------------------------------------------------------------------------
(* Properties                                                              *)

\* The manager calls an attempt cancelled or exited only when its process is gone.
EndedIsGone ==
    \A a \in Attempts : status[a] \in {"Cancelled", "Exited"} => child[a] = "reaped"

\* SIGKILL goes to a process tree only while its exit is unknown: after the exit
\* event the pid may belong to another process.
KillsOwnChild ==
    [][\A a \in Attempts : killed'[a] # killed[a] => child[a] # "reaped"]_vars

\* An attempt that ended is never touched by a later cancellation.
EndIsFinal ==
    [][\A a \in Attempts :
        status[a] \in {"Cancelled", "Exited"} => UNCHANGED <<status[a], phase[a], killed[a]>>]_vars

\* A shutdown that reports closed child processes has a checkpoint, and every
\* attempt it was given is gone.
ShutdownClosesChildren ==
    shutdown = "closed" => checkpointed /\ \A a \in listed : child[a] \in {"dead", "reaped"}

\* The same, when none of the attempts it was given was named by another call before,
\* during or since.
UnsharedShutdownCloses == (\A c \in Callers : target[c] \notin listed) => ShutdownClosesChildren

\* Whatever is being cancelled has a timer armed or was sent SIGKILL, and every call that waits, the
\* shutdown's included, waits for an attempt whose timer is armed.
NobodyWaitsInVain ==
    /\ \A a \in Attempts : status[a] = "Cancelling" => phase[a] # "idle" \/ killed[a]
    /\ \A c \in Callers :
        outcome[c] = "waiting" => \E a \in Attempts : waiter[a] = c /\ phase[a] # "idle"
    /\ shutdown = "awaiting" => \E a \in Attempts : waiter[a] = Shutdown /\ phase[a] # "idle"

\* A child that was sent SIGKILL ends; the event loop reaches exits, timers and the
\* shutdown that is running.
Fairness ==
    /\ \A a \in Attempts :
        /\ WF_vars(killed[a] /\ ChildExits(a))
        /\ WF_vars(ExitEvent(a))
        /\ WF_vars(KillTimer(a))
        /\ WF_vars(GiveUp(a))
    /\ WF_vars(Close)

FairSpec == Spec /\ Fairness

\* A cancellation once asked for takes effect, even when its call has given up.
CancellingEnds == \A a \in Attempts : status[a] = "Cancelling" ~> status[a] = "Cancelled"

\* A safe shutdown returns or throws, whatever the children do.
ShutdownReturns == shutdown \in {"looping", "awaiting"} ~> shutdown \in {"closed", "failed"}
=============================================================================
