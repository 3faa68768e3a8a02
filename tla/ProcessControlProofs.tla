------------------------- MODULE ProcessControlProofs -------------------------
(* Theorems about ProcessControl, for every set of attempts and callers.      *)
EXTENDS ProcessControl, TLAPS

-----------------------------------------------------------------------------
(* The manager                                                             *)

\* A child is tracked with its process, ends with its exit event, and a timer is
\* armed only for an attempt that is being cancelled.
Tracked ==
    \A a \in Attempts :
        /\ status[a] = "untracked" <=> child[a] = "none"
        /\ status[a] \in {"Cancelled", "Exited"} <=> child[a] = "reaped"
        /\ phase[a] # "idle" => status[a] = "Cancelling"

MInv == TypeOK /\ Tracked

LEMMA InitMInv == Init => MInv
<1> SUFFICES ASSUME Init PROVE MInv
    OBVIOUS
<1>1. TypeOK
    BY DEF Init, TypeOK
<1>2. Tracked
    BY DEF Init, Tracked
<1>3. QED
    BY <1>1, <1>2 DEF MInv

LEMMA StepMInv == MInv /\ [Next]_vars => MInv'
<1> SUFFICES ASSUME MInv, [Next]_vars PROVE MInv'
    OBVIOUS
<1> USE CallersAssumption DEF MInv, TypeOK, Tracked, manager, calls, closing
<1>1. ASSUME NEW a \in Attempts, StartAttempt(a) PROVE MInv'
    BY <1>1 DEF StartAttempt
<1>2. ASSUME NEW a \in Attempts, ChildExits(a) PROVE MInv'
    BY <1>2 DEF ChildExits
<1>3. ASSUME NEW a \in Attempts, ExitEvent(a) PROVE MInv'
    BY <1>3 DEF ExitEvent, Resume
<1>4. ASSUME NEW a \in Attempts, KillTimer(a) PROVE MInv'
    BY <1>4 DEF KillTimer, KillProcessTree
<1>5. ASSUME NEW a \in Attempts, GiveUp(a) PROVE MInv'
    BY <1>5 DEF GiveUp, Resume
<1>6. ASSUME NEW c \in Callers, NEW a \in Attempts, Cancel(c, a) PROVE MInv'
    BY <1>6 DEF Cancel, Terminate
<1>7. ASSUME NEW c \in Callers, NEW a \in Attempts, CancelSettled(c, a) PROVE MInv'
    BY <1>7 DEF CancelSettled
<1>8. ASSUME NEW ids \in SUBSET Attempts, BeginShutdown(ids) PROVE MInv'
    BY <1>8 DEF BeginShutdown
<1>9. ASSUME NEW a \in Attempts, CloseNext(a) PROVE MInv'
    BY <1>9 DEF CloseNext, Terminate
<1>10. ASSUME NEW a \in Attempts, SkipNext(a) PROVE MInv'
    BY <1>10 DEF SkipNext
<1>11. CASE Overrun
    BY <1>11 DEF Overrun
<1>12. CASE FinishShutdown
    BY <1>12 DEF FinishShutdown
<1>13. CASE UNCHANGED vars
    BY <1>13 DEF vars
<1>14. QED
    BY <1>1, <1>2, <1>3, <1>4, <1>5, <1>6, <1>7, <1>8, <1>9, <1>10, <1>11, <1>12, <1>13
    DEF Next, Manager, Close

\* The invariant of the process manager holds in every order of callbacks.
THEOREM AlwaysMInv == Spec => []MInv
<1>1. Init => MInv
    BY InitMInv
<1>2. MInv /\ [Next]_vars => MInv'
    BY StepMInv
<1>3. QED
    BY <1>1, <1>2, PTL DEF Spec

\* Every variable of the process manager, its callers and the shutdown keeps its type.
THEOREM TypeCorrect == Spec => []TypeOK
<1>1. MInv => TypeOK
    BY DEF MInv
<1>2. QED
    BY <1>1, AlwaysMInv, PTL

\* An attempt the manager calls cancelled or exited has no process left.
THEOREM EndedAreGone == Spec => []EndedIsGone
<1>1. MInv => EndedIsGone
    BY DEF MInv, Tracked, EndedIsGone
<1>2. QED
    BY <1>1, AlwaysMInv, PTL

\* SIGKILL is sent only while the exit event is out.
THEOREM KillsItsOwn == Spec => KillsOwnChild
<1>1. ASSUME MInv, [Next]_vars, NEW a \in Attempts, killed'[a] # killed[a]
      PROVE  child[a] # "reaped"
    <2>1. PICK b \in Attempts : KillTimer(b)
        BY <1>1 DEF Next, Manager, Close, StartAttempt, ChildExits, ExitEvent, GiveUp, Resume,
            Cancel, CancelSettled, Terminate, BeginShutdown, CloseNext, SkipNext, Overrun,
            FinishShutdown, vars, manager, calls, closing
    <2>2. phase[a] = "term"
        BY <1>1, <2>1 DEF KillTimer, KillProcessTree, MInv, TypeOK
    <2>3. QED
        BY <1>1, <2>2 DEF MInv, Tracked
<1>2. MInv /\ [Next]_vars =>
        [\A a \in Attempts : killed'[a] # killed[a] => child[a] # "reaped"]_vars
    BY <1>1
<1>3. QED
    BY <1>2, AlwaysMInv, PTL DEF Spec, KillsOwnChild

\* What ended stays as it ended.
EndsUntouched ==
    \A a \in Attempts :
        status[a] \in {"Cancelled", "Exited"} => UNCHANGED <<status[a], phase[a], killed[a]>>

LEMMA StepKeepsEnds == MInv /\ [Next]_vars => EndsUntouched
<1> SUFFICES ASSUME MInv, [Next]_vars, NEW b \in Attempts, status[b] \in {"Cancelled", "Exited"}
             PROVE  UNCHANGED <<status[b], phase[b], killed[b]>>
    BY DEF EndsUntouched
<1> USE DEF MInv, TypeOK, Tracked, manager, calls, closing
<1>1. ASSUME NEW a \in Attempts, Manager(a)
      PROVE  UNCHANGED <<status[b], phase[b], killed[b]>>
    BY <1>1 DEF Manager, StartAttempt, ChildExits, ExitEvent, KillTimer, KillProcessTree, GiveUp, Resume
<1>2. ASSUME NEW c \in Callers, NEW a \in Attempts, Cancel(c, a) \/ CancelSettled(c, a)
      PROVE  UNCHANGED <<status[b], phase[b], killed[b]>>
    BY <1>2 DEF Cancel, CancelSettled, Terminate
<1>3. ASSUME NEW ids \in SUBSET Attempts, BeginShutdown(ids)
      PROVE  UNCHANGED <<status[b], phase[b], killed[b]>>
    BY <1>3 DEF BeginShutdown
<1>4. ASSUME Close
      PROVE  UNCHANGED <<status[b], phase[b], killed[b]>>
    BY <1>4 DEF Close, CloseNext, SkipNext, Terminate, Overrun, FinishShutdown
<1>5. CASE UNCHANGED vars
    BY <1>5 DEF vars
<1>6. QED
    BY <1>1, <1>2, <1>3, <1>4, <1>5 DEF Next

\* A cancellation never touches an attempt that has ended.
THEOREM EndsStay == Spec => EndIsFinal
<1>1. MInv /\ [Next]_vars => [EndsUntouched]_vars
    BY StepKeepsEnds
<1>2. QED
    BY <1>1, AlwaysMInv, PTL DEF Spec, EndIsFinal, EndsUntouched

-----------------------------------------------------------------------------
(* A shutdown whose attempts nobody shares                                 *)

Gone(a) == child[a] \in {"dead", "reaped"}

\* A cancellation in progress has a call that awaits it, and conversely.
WaitIsCancelling == \A a \in Attempts : waiter[a] # Nobody => status[a] = "Cancelling"

\* The shutdown awaits at most one attempt, and only while it says so.
AwaitsOne ==
    /\ \A a \in Attempts : waiter[a] = Shutdown => shutdown = "awaiting"
    /\ \A a, b \in Attempts : waiter[a] = Shutdown /\ waiter[b] = Shutdown => a = b

\* Some call named the attempt; a call names one attempt, once.
Claimed(a) == \E c \in Callers : target[c] = a
AskedOnce == \A c \in Callers : outcome[c] = "none" => target[c] = NoTarget

\* Until the shutdown has failed, whatever is being cancelled is what it awaits or was
\* named by another call.
CancelsAlone ==
    shutdown # "failed" =>
        \A a \in Attempts : status[a] = "Cancelling" => waiter[a] = Shutdown \/ Claimed(a)

ListedIsTracked == \A a \in listed : status[a] # "untracked"

\* Attempts the loop has passed are gone, but for the one it awaits and those of others.
PassedIsGone ==
    shutdown \in {"looping", "awaiting", "closed"} =>
        /\ checkpointed
        /\ \A a \in listed \ queue : Gone(a) \/ waiter[a] = Shutdown \/ Claimed(a)
        /\ shutdown = "closed" => queue = {}

SInv ==
    /\ MInv
    /\ WaitIsCancelling
    /\ AwaitsOne
    /\ AskedOnce
    /\ CancelsAlone
    /\ ListedIsTracked
    /\ PassedIsGone

LEMMA InitSInv == Init => SInv
<1> SUFFICES ASSUME Init PROVE SInv
    OBVIOUS
<1>1. MInv
    BY InitMInv
<1>2. QED
    BY <1>1 DEF Init, SInv, Nobody, Shutdown, WaitIsCancelling, AwaitsOne, AskedOnce, CancelsAlone, ListedIsTracked,
        PassedIsGone

LEMMA StepSInv == SInv /\ [Next]_vars => SInv'
<1> SUFFICES ASSUME SInv, [Next]_vars PROVE SInv'
    OBVIOUS
<1>0. MInv'
    BY StepMInv DEF SInv
<1> USE CallersAssumption DEF MInv, Claimed, TypeOK, Tracked, Gone, Nobody, Shutdown, WaitIsCancelling, AwaitsOne, AskedOnce, CancelsAlone,
        ListedIsTracked, PassedIsGone, manager, calls, closing
<1>1. ASSUME NEW a \in Attempts, StartAttempt(a) PROVE SInv'
    BY <1>0, <1>1 DEF SInv, StartAttempt
<1>2. ASSUME NEW a \in Attempts, ChildExits(a) PROVE SInv'
    BY <1>0, <1>2 DEF SInv, ChildExits
<1>3. ASSUME NEW a \in Attempts, ExitEvent(a) PROVE SInv'
    BY <1>0, <1>3 DEF SInv, ExitEvent, Resume
<1>4. ASSUME NEW a \in Attempts, KillTimer(a) PROVE SInv'
    BY <1>0, <1>4 DEF SInv, KillTimer, KillProcessTree
<1>5. ASSUME NEW a \in Attempts, GiveUp(a) PROVE SInv'
    BY <1>0, <1>5 DEF SInv, GiveUp, Resume
<1>6. ASSUME NEW ids \in SUBSET Attempts, BeginShutdown(ids) PROVE SInv'
    BY <1>0, <1>6 DEF SInv, BeginShutdown
<1>7. ASSUME NEW a \in Attempts, CloseNext(a) PROVE SInv'
    BY <1>0, <1>7 DEF SInv, CloseNext, Terminate
<1>8. ASSUME NEW a \in Attempts, SkipNext(a) PROVE SInv'
    BY <1>0, <1>8 DEF SInv, SkipNext
<1>9. CASE Overrun
    BY <1>0, <1>9 DEF SInv, Overrun
<1>10. CASE FinishShutdown
    BY <1>0, <1>10 DEF SInv, FinishShutdown
<1>11. CASE UNCHANGED vars
    BY <1>0, <1>11 DEF SInv, vars
<1>12. ASSUME NEW c \in Callers, NEW a \in Attempts, Cancel(c, a) PROVE SInv'
    <2>1. \A b \in Attempts : Claimed(b) => Claimed(b)'
        BY <1>12 DEF SInv, Cancel
    <2>2. Claimed(a)'
        BY <1>12 DEF SInv, Cancel
    <2>3. QED
        BY <1>0, <1>12, <2>1, <2>2 DEF SInv, Cancel, Terminate
<1>13. ASSUME NEW c \in Callers, NEW a \in Attempts, CancelSettled(c, a) PROVE SInv'
    <2>1. \A b \in Attempts : Claimed(b) => Claimed(b)'
        BY <1>13 DEF SInv, CancelSettled
    <2>2. QED
        BY <1>0, <1>13, <2>1 DEF SInv, CancelSettled
<1> HIDE DEF Claimed, AskedOnce, MInv, WaitIsCancelling, AwaitsOne, AskedOnce, CancelsAlone, ListedIsTracked, PassedIsGone
<1>14. QED
    BY <1>1, <1>2, <1>3, <1>4, <1>5, <1>6, <1>7, <1>8, <1>9, <1>10, <1>11, <1>12, <1>13
    DEF Next, Manager, Close

\* A shutdown that declares its child processes closed wrote its checkpoint, and every
\* attempt it was given is gone, unless another call named one of them too.
THEOREM UnsharedCloses == Spec => []UnsharedShutdownCloses
<1>1. Init => SInv
    BY InitSInv
<1>2. SInv /\ [Next]_vars => SInv'
    BY StepSInv
<1>3. SInv => UnsharedShutdownCloses
    BY DEF SInv, AwaitsOne, PassedIsGone, Gone, Claimed, MInv, TypeOK, ShutdownClosesChildren,
        UnsharedShutdownCloses
<1>4. QED
    BY <1>1, <1>2, <1>3, PTL DEF Spec

-----------------------------------------------------------------------------
(* Nobody waits in vain                                                    *)

\* An attempt has a waiter exactly while a timer is armed for it, and the last timer comes with SIGKILL.
TimersHaveWaiters ==
    \A a \in Attempts :
        /\ waiter[a] # Nobody <=> phase[a] # "idle"
        /\ phase[a] = "kill" => killed[a]

VInv == MInv /\ TimersHaveWaiters /\ NobodyWaitsInVain

LEMMA InitVInv == Init => VInv
<1> SUFFICES ASSUME Init PROVE VInv
    OBVIOUS
<1>1. MInv
    BY InitMInv
<1>2. QED
    BY <1>1 DEF Init, VInv, TimersHaveWaiters, NobodyWaitsInVain

\* A step that ends no wait: waiters stay, timers may be armed, nothing begins to be cancelled.
LEMMA WaitsGoOn ==
    ASSUME NobodyWaitsInVain,
           \A a \in Attempts :
                /\ waiter'[a] = waiter[a]
                /\ phase[a] # "idle" => phase'[a] # "idle"
                /\ killed[a] => killed'[a]
                /\ status'[a] = "Cancelling" => status[a] = "Cancelling",
           \A c \in Callers : outcome'[c] = "waiting" => outcome[c] = "waiting",
           shutdown' = "awaiting" => shutdown = "awaiting"
    PROVE  NobodyWaitsInVain'
BY DEF NobodyWaitsInVain

\* The end of a wait: its call goes on, the others still wait for other attempts.
LEMMA WaitEnds ==
    ASSUME VInv, NEW a \in Attempts, NEW ok \in BOOLEAN, Resume(a, ok),
           \A b \in Attempts \ {a} : status'[b] = status[b],
           status'[a] = "Cancelling" => killed[a]
    PROVE  TimersHaveWaiters' /\ NobodyWaitsInVain'
<1> USE CallersAssumption DEF VInv, MInv, TypeOK
<1>1. /\ phase'[a] = "idle" /\ waiter'[a] = Nobody /\ killed' = killed
      /\ \A b \in Attempts \ {a} : phase'[b] = phase[b] /\ waiter'[b] = waiter[b]
    BY DEF Resume
<1>2. TimersHaveWaiters'
    BY <1>1 DEF TimersHaveWaiters
<1>3. ASSUME NEW b \in Attempts, status'[b] = "Cancelling" PROVE phase'[b] # "idle" \/ killed'[b]
    BY <1>1, <1>3 DEF NobodyWaitsInVain
<1>4. ASSUME NEW c \in Callers, outcome'[c] = "waiting"
      PROVE  \E b \in Attempts : waiter'[b] = c /\ phase'[b] # "idle"
    <2>1. c # waiter[a] /\ outcome[c] = "waiting"
        BY <1>4 DEF Resume
    <2>2. PICK b \in Attempts : waiter[b] = c /\ phase[b] # "idle"
        BY <2>1 DEF NobodyWaitsInVain
    <2>3. QED
        BY <1>1, <2>1, <2>2
<1>5. ASSUME shutdown' = "awaiting"
      PROVE  \E b \in Attempts : waiter'[b] = Shutdown /\ phase'[b] # "idle"
    <2>1. waiter[a] # Shutdown /\ shutdown = "awaiting"
        BY <1>5 DEF Resume
    <2>2. PICK b \in Attempts : waiter[b] = Shutdown /\ phase[b] # "idle"
        BY <2>1 DEF NobodyWaitsInVain
    <2>3. QED
        BY <1>1, <2>1, <2>2
<1>6. QED
    BY <1>2, <1>3, <1>4, <1>5 DEF NobodyWaitsInVain

\* The start of a wait, by a caller or by the shutdown.
LEMMA WaitBegins ==
    ASSUME VInv, NEW a \in Attempts, NEW who \in Callers \cup {Shutdown}, Terminate(a, who),
           \A c \in Callers : outcome'[c] = "waiting" => outcome[c] = "waiting" \/ c = who,
           shutdown' = "awaiting" => shutdown = "awaiting" \/ who = Shutdown
    PROVE  TimersHaveWaiters' /\ NobodyWaitsInVain'
<1> USE CallersAssumption DEF VInv, MInv, TypeOK
<1>1. /\ phase'[a] = "term" /\ waiter'[a] = who /\ killed' = killed
      /\ \A b \in Attempts \ {a} :
            phase'[b] = phase[b] /\ waiter'[b] = waiter[b] /\ status'[b] = status[b]
      /\ phase[a] = "idle" /\ who # Nobody
    BY DEF Terminate, Tracked, Nobody, Shutdown
<1>2. TimersHaveWaiters'
    BY <1>1 DEF TimersHaveWaiters
<1>3. ASSUME NEW b \in Attempts, status'[b] = "Cancelling" PROVE phase'[b] # "idle" \/ killed'[b]
    BY <1>1, <1>3 DEF NobodyWaitsInVain
<1>4. ASSUME NEW x, \E b \in Attempts : waiter[b] = x /\ phase[b] # "idle"
      PROVE  \E b \in Attempts : waiter'[b] = x /\ phase'[b] # "idle"
    BY <1>1, <1>4
<1>5. \E b \in Attempts : waiter'[b] = who /\ phase'[b] # "idle"
    BY <1>1
<1>6. QED
    BY <1>2, <1>3, <1>4, <1>5 DEF NobodyWaitsInVain

LEMMA StepVInv == VInv /\ [Next]_vars => VInv'
<1> SUFFICES ASSUME VInv, [Next]_vars PROVE VInv'
    OBVIOUS
<1>0. MInv' /\ MInv /\ TypeOK
    BY StepMInv DEF VInv, MInv
<1>a. ASSUME TimersHaveWaiters', NobodyWaitsInVain' PROVE VInv'
    BY <1>0, <1>a DEF VInv
<1>1. ASSUME NEW a \in Attempts, StartAttempt(a) PROVE VInv'
    BY <1>0, <1>1, <1>a, WaitsGoOn DEF StartAttempt, VInv, TimersHaveWaiters, TypeOK, calls, closing
<1>2. ASSUME NEW a \in Attempts, ChildExits(a) PROVE VInv'
    BY <1>2, <1>a, WaitsGoOn DEF ChildExits, VInv, TimersHaveWaiters, calls, closing
<1>3. ASSUME NEW a \in Attempts, ExitEvent(a) PROVE VInv'
    BY <1>0, <1>3, <1>a, WaitEnds DEF ExitEvent, TypeOK
<1>4. ASSUME NEW a \in Attempts, KillTimer(a) PROVE VInv'
    <2>1. TimersHaveWaiters'
        BY <1>0, <1>4 DEF KillTimer, KillProcessTree, VInv, TimersHaveWaiters, TypeOK
    <2>2. NobodyWaitsInVain'
        BY <1>0, <1>4, WaitsGoOn DEF KillTimer, KillProcessTree, VInv, TypeOK, calls, closing
    <2>3. QED
        BY <1>a, <2>1, <2>2
<1>5. ASSUME NEW a \in Attempts, GiveUp(a) PROVE VInv'
    <2>1. killed[a]
        BY <1>5 DEF GiveUp, VInv, TimersHaveWaiters
    <2>2. QED
        BY <1>5, <1>a, <2>1, WaitEnds DEF GiveUp
<1>6. ASSUME NEW c \in Callers, NEW a \in Attempts, Cancel(c, a) PROVE VInv'
    BY <1>0, <1>6, <1>a, WaitBegins DEF Cancel, TypeOK, closing
<1>7. ASSUME NEW c \in Callers, NEW a \in Attempts, CancelSettled(c, a) PROVE VInv'
    BY <1>0, <1>7, <1>a, WaitsGoOn DEF CancelSettled, VInv, TimersHaveWaiters, TypeOK, manager, closing
<1>8. ASSUME NEW ids \in SUBSET Attempts, BeginShutdown(ids) PROVE VInv'
    BY <1>8, <1>a, WaitsGoOn DEF BeginShutdown, VInv, TimersHaveWaiters, manager, calls
<1>9. ASSUME NEW a \in Attempts, CloseNext(a) PROVE VInv'
    BY <1>9, <1>a, WaitBegins DEF CloseNext, calls
<1>10. CASE (\E a \in Attempts : SkipNext(a)) \/ Overrun \/ FinishShutdown
    BY <1>10, <1>a, WaitsGoOn DEF SkipNext, Overrun, FinishShutdown, VInv, TimersHaveWaiters, manager, calls
<1>11. CASE UNCHANGED vars
    BY <1>11, <1>a, WaitsGoOn DEF vars, VInv, TimersHaveWaiters, manager, calls, closing
<1>12. QED
    BY <1>1, <1>2, <1>3, <1>4, <1>5, <1>6, <1>7, <1>8, <1>9, <1>10, <1>11 DEF Next, Manager, Close

\* A call that waits has a timer that will end its wait, and a cancellation nobody waits for any more
\* has sent SIGKILL: the part of CancellingEnds and ShutdownReturns that no fairness can give.
THEOREM WaitsHaveTimers == Spec => []NobodyWaitsInVain
BY InitVInv, StepVInv, PTL DEF Spec, VInv
=============================================================================
