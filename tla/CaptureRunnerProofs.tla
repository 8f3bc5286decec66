-------------------------- MODULE CaptureRunnerProofs --------------------------
(***************************************************************************)
(* Proofs about CaptureRunner.tla, for every set of tasks and slots and    *)
(* every queue size.                                                       *)
(***************************************************************************)
EXTENDS CaptureRunner, FiniteSetTheorems, TLAPS

(* The strengthening: a task that has no row yet has left no trace in the  *)
(* runner, and a task that has not taken a slot has no browser.  Without   *)
(* the first a submitted id could already be in use, without the second a  *)
(* capture could start with a browser of an earlier one.                   *)
Fresh ==
  /\ \A t \in Tasks : status[t] = "none" => t \notin queue /\ run[t] = "none"
  /\ \A t \in Tasks : run[t] \in {"none", "waiting"} => browser[t] = "none"

(* A browser that nobody has begun to close is that of a run inside        *)
(* run_capture, whose finally block will close it.                         *)
OpenIsRun == \A t \in Tasks : browser[t] = "open" => run[t] \in InEngine

Inv == TypeOK /\ RunnerSafety /\ Fresh /\ OpenIsRun

-----------------------------------------------------------------------------
(* The runner starts in a state that satisfies the invariant.              *)
LEMMA InitInv == Init => Inv
<1>1. SUFFICES ASSUME Init PROVE Inv
  OBVIOUS
<1>2. TypeOK
  BY <1>1 DEF Init, StoreInit, RunnerInit, TypeOK, StoreTypeOK, Status, ActiveStatus,
              TerminalStatus, Size, RunState, BrowserState
<1>3. RunnerSafety
  BY <1>1, SlotsAssumption
     DEF Init, StoreInit, RunnerInit, RunnerSafety, SlotOwnership, SessionIsLive, QueuedWillRun,
         DispatchedOnce, JoiningHasRunner, CancelledIsPending, Holding,
         InEngine, Joining
<1>4. Fresh /\ OpenIsRun
  BY <1>1 DEF Init, StoreInit, RunnerInit, Fresh, OpenIsRun
<1>5. QED
  BY <1>2, <1>3, <1>4 DEF Inv

(* The id of a submitted task is new, so nothing of an earlier one is      *)
(* found.                                                                  *)
LEMMA SubmitInv ==
  ASSUME Inv, NEW t \in Tasks, Submit(t)
  PROVE  Inv'
<1>1. TypeOK'
    BY DEF Inv, RunnerSafety, TypeOK, StoreTypeOK, Status, ActiveStatus, TerminalStatus, Submit,
     Create
<1>2. SlotOwnership'
    BY DEF Inv, RunnerSafety, SlotOwnership, Submit, Create
<1>3. SessionIsLive'
    BY DEF Inv, RunnerSafety, SessionIsLive, Submit, Create
<1>4. QueuedWillRun'
    BY DEF Inv, RunnerSafety, QueuedWillRun, CancelledIsPending, Submit, Create
<1>5. DispatchedOnce'
    BY DEF Inv, RunnerSafety, DispatchedOnce, Fresh, Submit, Create
<1>6. JoiningHasRunner'
    BY DEF Inv, RunnerSafety, JoiningHasRunner, Submit, Create
<1>7. CancelledIsPending'
    BY DEF Inv, RunnerSafety, CancelledIsPending, Submit, Create
<1>8. OpenIsRun'
    BY DEF Inv, RunnerSafety, OpenIsRun, Submit, Create
<1>9. Fresh'
    BY DEF Inv, RunnerSafety, Fresh, TypeOK, StoreTypeOK, Submit, Create
<1> QED
  BY <1>1, <1>2, <1>3, <1>4, <1>5, <1>6, <1>7, <1>8, <1>9 DEF Inv, RunnerSafety

(* A queued row has its id in the queue or a coroutine that waits.         *)
LEMMA DeleteQueuedInv ==
  ASSUME Inv, NEW t \in Tasks, DeleteQueued(t)
  PROVE  Inv'
<1>1. TypeOK'
    BY DEF Inv, RunnerSafety, TypeOK, StoreTypeOK, Status, ActiveStatus, TerminalStatus, Size,
     DeleteQueued, MarkCanceled
<1>2. SlotOwnership'
    BY DEF Inv, RunnerSafety, SlotOwnership, DeleteQueued
<1>3. SessionIsLive'
    BY DEF Inv, RunnerSafety, SessionIsLive, DeleteQueued
<1>4. QueuedWillRun'
    BY DEF Inv, RunnerSafety, QueuedWillRun, TypeOK, StoreTypeOK, DeleteQueued, MarkCanceled,
     HasRow
<1>5. DispatchedOnce'
    BY DEF Inv, RunnerSafety, DispatchedOnce, DeleteQueued
<1>6. JoiningHasRunner'
    BY DEF Inv, RunnerSafety, JoiningHasRunner, DeleteQueued, MarkCanceled
<1>7. CancelledIsPending'
    BY DEF Inv, RunnerSafety, QueuedWillRun, CancelledIsPending, TypeOK, StoreTypeOK,
     DeleteQueued, MarkCanceled, HasRow
<1>8. OpenIsRun'
    BY DEF Inv, RunnerSafety, OpenIsRun, DeleteQueued
<1>9. Fresh'
    BY DEF Inv, RunnerSafety, Fresh, DeleteQueued, MarkCanceled
<1> QED
  BY <1>1, <1>2, <1>3, <1>4, <1>5, <1>6, <1>7, <1>8, <1>9 DEF Inv, RunnerSafety

(* An id that is dispatched has no coroutine yet.                          *)
LEMMA DispatchInv ==
  ASSUME Inv, NEW t \in Tasks, Dispatch(t)
  PROVE  Inv'
<1>1. TypeOK'
    BY DEF Inv, RunnerSafety, TypeOK, StoreTypeOK, RunState, Dispatch, storeVars
<1>2. SlotOwnership'
    BY DEF Inv, RunnerSafety, SlotOwnership, DispatchedOnce, Joining, InEngine, Holding,
     Dispatch
<1>3. SessionIsLive'
    BY DEF Inv, RunnerSafety, SessionIsLive, DispatchedOnce, Joining, InEngine, Dispatch
<1>4. QueuedWillRun'
    BY DEF Inv, RunnerSafety, QueuedWillRun, TypeOK, Dispatch, storeVars
<1>5. DispatchedOnce'
    BY DEF Inv, RunnerSafety, DispatchedOnce, Dispatch
<1>6. JoiningHasRunner'
    BY DEF Inv, RunnerSafety, DispatchedOnce, JoiningHasRunner, Joining, InEngine, Dispatch,
     storeVars
<1>7. CancelledIsPending'
    BY DEF Inv, RunnerSafety, CancelledIsPending, TypeOK, Dispatch, storeVars
<1>8. OpenIsRun'
    BY DEF Inv, RunnerSafety, DispatchedOnce, OpenIsRun, Joining, InEngine, Dispatch
<1>9. Fresh'
    BY DEF Inv, RunnerSafety, DispatchedOnce, Fresh, Dispatch, storeVars
<1> QED
  BY <1>1, <1>2, <1>3, <1>4, <1>5, <1>6, <1>7, <1>8, <1>9 DEF Inv, RunnerSafety

(* A skipped task has no queued row, so no row loses its coroutine.        *)
LEMMA SkipTaskInv ==
  ASSUME Inv, NEW t \in Tasks, SkipTask(t)
  PROVE  Inv'
<1>1. TypeOK'
    BY DEF Inv, RunnerSafety, TypeOK, StoreTypeOK, RunState, SkipTask, storeVars
<1>2. SlotOwnership'
    BY DEF Inv, RunnerSafety, SlotOwnership, Joining, InEngine, Holding, SkipTask
<1>3. SessionIsLive'
    BY DEF Inv, RunnerSafety, SessionIsLive, Joining, InEngine, SkipTask
<1>4. QueuedWillRun'
    BY DEF Inv, RunnerSafety, QueuedWillRun, SkipTask, storeVars
<1>5. DispatchedOnce'
    BY DEF Inv, RunnerSafety, DispatchedOnce, SkipTask
<1>6. JoiningHasRunner'
    BY DEF Inv, RunnerSafety, JoiningHasRunner, Joining, InEngine, SkipTask, storeVars
<1>7. CancelledIsPending'
    BY DEF Inv, RunnerSafety, CancelledIsPending, SkipTask, storeVars
<1>8. OpenIsRun'
    BY DEF Inv, RunnerSafety, OpenIsRun, Joining, InEngine, SkipTask
<1>9. Fresh'
    BY DEF Inv, RunnerSafety, Fresh, SkipTask, storeVars
<1> QED
  BY <1>1, <1>2, <1>3, <1>4, <1>5, <1>6, <1>7, <1>8, <1>9 DEF Inv, RunnerSafety

(* The slot that is taken was free, so no other task holds it.             *)
LEMMA StartCaptureInv ==
  ASSUME Inv, NEW t \in Tasks, StartCapture(t)
  PROVE  Inv'
<1>1. TypeOK'
    BY DEF Inv, RunnerSafety, TypeOK, StoreTypeOK, Status, ActiveStatus, TerminalStatus,
     RunState, StartCapture, UpdateStatus
<1>2. SlotOwnership'
    BY SlotsAssumption DEF Inv, RunnerSafety, SlotOwnership, TypeOK, Joining, InEngine, Holding,
     StartCapture
<1>3. SessionIsLive'
    BY DEF Inv, RunnerSafety, SessionIsLive, Fresh, TypeOK, Joining, InEngine, StartCapture
<1>4. QueuedWillRun'
    BY DEF Inv, RunnerSafety, QueuedWillRun, TypeOK, StoreTypeOK, StartCapture, UpdateStatus,
     HasRow
<1>5. DispatchedOnce'
    BY DEF Inv, RunnerSafety, DispatchedOnce, StartCapture
<1>6. JoiningHasRunner'
    BY DEF Inv, RunnerSafety, JoiningHasRunner, TypeOK, Joining, InEngine, StartCapture,
     UpdateStatus
<1>7. CancelledIsPending'
    BY DEF Inv, RunnerSafety, CancelledIsPending, StartCapture, UpdateStatus
<1>8. OpenIsRun'
    BY DEF Inv, RunnerSafety, OpenIsRun, Joining, InEngine, StartCapture
<1>9. Fresh'
    BY DEF Inv, RunnerSafety, Fresh, StartCapture, UpdateStatus
<1> QED
  BY <1>1, <1>2, <1>3, <1>4, <1>5, <1>6, <1>7, <1>8, <1>9 DEF Inv, RunnerSafety

(* A capture whose browser starts has a slot.                              *)
LEMMA OpenBrowserInv ==
  ASSUME Inv, NEW t \in Tasks, OpenBrowser(t)
  PROVE  Inv'
<1>1. TypeOK'
    BY DEF Inv, RunnerSafety, TypeOK, StoreTypeOK, RunState, BrowserState, OpenBrowser,
     storeVars
<1>2. SlotOwnership'
    BY DEF Inv, RunnerSafety, SlotOwnership, Joining, InEngine, Holding, OpenBrowser
<1>3. SessionIsLive'
    BY DEF Inv, RunnerSafety, SessionIsLive, TypeOK, Joining, InEngine, OpenBrowser
<1>4. QueuedWillRun'
    BY DEF Inv, RunnerSafety, QueuedWillRun, OpenBrowser, storeVars
<1>5. DispatchedOnce'
    BY DEF Inv, RunnerSafety, DispatchedOnce, OpenBrowser
<1>6. JoiningHasRunner'
    BY DEF Inv, RunnerSafety, JoiningHasRunner, Joining, InEngine, OpenBrowser, storeVars
<1>7. CancelledIsPending'
    BY DEF Inv, RunnerSafety, CancelledIsPending, OpenBrowser, storeVars
<1>8. OpenIsRun'
    BY DEF Inv, RunnerSafety, OpenIsRun, Joining, InEngine, OpenBrowser
<1>9. Fresh'
    BY DEF Inv, RunnerSafety, Fresh, OpenBrowser, storeVars
<1> QED
  BY <1>1, <1>2, <1>3, <1>4, <1>5, <1>6, <1>7, <1>8, <1>9 DEF Inv, RunnerSafety

(* A join that goes on has its browser still open.                         *)
LEMMA JoinSeenInv ==
  ASSUME Inv, NEW t \in Tasks, JoinSeen(t)
  PROVE  Inv'
<1>1. TypeOK'
    BY DEF Inv, RunnerSafety, TypeOK, StoreTypeOK, RunState, JoinSeen, storeVars
<1>2. SlotOwnership'
    BY DEF Inv, RunnerSafety, SlotOwnership, Joining, InEngine, Holding, JoinSeen
<1>3. SessionIsLive'
    BY DEF Inv, RunnerSafety, SessionIsLive, Joining, InEngine, JoinSeen
<1>4. QueuedWillRun'
    BY DEF Inv, RunnerSafety, QueuedWillRun, JoinSeen, storeVars
<1>5. DispatchedOnce'
    BY DEF Inv, RunnerSafety, DispatchedOnce, JoinSeen
<1>6. JoiningHasRunner'
    BY DEF Inv, RunnerSafety, JoiningHasRunner, Joining, InEngine, JoinSeen, storeVars
<1>7. CancelledIsPending'
    BY DEF Inv, RunnerSafety, CancelledIsPending, JoinSeen, storeVars
<1>8. OpenIsRun'
    BY DEF Inv, RunnerSafety, OpenIsRun, Joining, InEngine, JoinSeen
<1>9. Fresh'
    BY DEF Inv, RunnerSafety, Fresh, JoinSeen, storeVars
<1> QED
  BY <1>1, <1>2, <1>3, <1>4, <1>5, <1>6, <1>7, <1>8, <1>9 DEF Inv, RunnerSafety

(* A run that has joined is not joining any more, nor is its row.          *)
LEMMA JoinedInv ==
  ASSUME Inv, NEW t \in Tasks, Joined(t)
  PROVE  Inv'
<1>1. TypeOK'
    BY DEF Inv, RunnerSafety, TypeOK, StoreTypeOK, Status, ActiveStatus, TerminalStatus,
     RunState, Joined, UpdateStatus
<1>2. SlotOwnership'
    BY DEF Inv, RunnerSafety, SlotOwnership, Joining, InEngine, Holding, Joined
<1>3. SessionIsLive'
    BY DEF Inv, RunnerSafety, SessionIsLive, Joining, InEngine, Joined
<1>4. QueuedWillRun'
    BY DEF Inv, RunnerSafety, QueuedWillRun, Joined, UpdateStatus
<1>5. DispatchedOnce'
    BY DEF Inv, RunnerSafety, DispatchedOnce, Joined
<1>6. JoiningHasRunner'
    BY DEF Inv, RunnerSafety, JoiningHasRunner, TypeOK, StoreTypeOK, Joined, UpdateStatus,
     HasRow
<1>7. CancelledIsPending'
    BY DEF Inv, RunnerSafety, DispatchedOnce, CancelledIsPending, Joined, UpdateStatus
<1>8. OpenIsRun'
    BY DEF Inv, RunnerSafety, OpenIsRun, Joining, InEngine, Joined
<1>9. Fresh'
    BY DEF Inv, RunnerSafety, Fresh, Joined, UpdateStatus
<1> QED
  BY <1>1, <1>2, <1>3, <1>4, <1>5, <1>6, <1>7, <1>8, <1>9 DEF Inv, RunnerSafety

(* A failed join leaves the engine, and the slot if it had no browser.     *)
LEMMA JoinFailsInv ==
  ASSUME Inv, NEW t \in Tasks, JoinFails(t)
  PROVE  Inv'
<1>1. TypeOK'
    BY DEF Inv, RunnerSafety, SlotOwnership, TypeOK, StoreTypeOK, Status, ActiveStatus,
     TerminalStatus, RunState, BrowserState, Joining, InEngine, Holding, JoinFails, LeaveEngine,
     Leave, MarkError, UpdateStatus, storeVars
<1>2. SlotOwnership'
    BY SlotsAssumption DEF Inv, RunnerSafety, SlotOwnership, TypeOK, Joining, InEngine, Holding,
     JoinFails, Leave
<1>3. SessionIsLive'
    BY DEF Inv, RunnerSafety, SessionIsLive, TypeOK, JoinFails, LeaveEngine, Leave
<1>4. QueuedWillRun'
    BY DEF Inv, RunnerSafety, QueuedWillRun, TypeOK, StoreTypeOK, Joining, InEngine, JoinFails,
     LeaveEngine, Leave, MarkError, UpdateStatus, storeVars
<1>5. DispatchedOnce'
    BY DEF Inv, RunnerSafety, DispatchedOnce, TypeOK, Joining, InEngine, JoinFails, LeaveEngine,
     Leave
<1>6. JoiningHasRunner'
    BY DEF Inv, RunnerSafety, JoiningHasRunner, TypeOK, StoreTypeOK, JoinFails, Leave,
     MarkError, UpdateStatus, HasRow, storeVars
<1>7. CancelledIsPending'
    BY DEF Inv, RunnerSafety, CancelledIsPending, TypeOK, StoreTypeOK, Joining, InEngine,
     JoinFails, LeaveEngine, Leave, MarkError, UpdateStatus, storeVars
<1>8. OpenIsRun'
    BY DEF Inv, RunnerSafety, OpenIsRun, TypeOK, JoinFails, Leave
<1>9. Fresh'
    BY DEF Inv, RunnerSafety, Fresh, TypeOK, StoreTypeOK, Joining, InEngine, JoinFails,
     LeaveEngine, Leave, MarkError, UpdateStatus, storeVars
<1> QED
  BY <1>1, <1>2, <1>3, <1>4, <1>5, <1>6, <1>7, <1>8, <1>9 DEF Inv, RunnerSafety

(* A capture that ends leaves the engine, and the slot if its browser is   *)
(* gone.                                                                   *)
LEMMA CaptureEndsInv ==
  ASSUME Inv, NEW t \in Tasks, CaptureEnds(t)
  PROVE  Inv'
<1>1. TypeOK'
    BY DEF Inv, RunnerSafety, SlotOwnership, TypeOK, StoreTypeOK, RunState, BrowserState,
     Joining, InEngine, Holding, CaptureEnds, LeaveEngine, Leave, storeVars
<1>2. SlotOwnership'
    BY SlotsAssumption DEF Inv, RunnerSafety, SlotOwnership, TypeOK, Joining, InEngine, Holding,
     CaptureEnds, Leave
<1>3. SessionIsLive'
    BY DEF Inv, RunnerSafety, SessionIsLive, TypeOK, CaptureEnds, LeaveEngine, Leave
<1>4. QueuedWillRun'
    BY DEF Inv, RunnerSafety, QueuedWillRun, TypeOK, CaptureEnds, LeaveEngine, Leave, storeVars
<1>5. DispatchedOnce'
    BY DEF Inv, RunnerSafety, DispatchedOnce, TypeOK, CaptureEnds, LeaveEngine, Leave
<1>6. JoiningHasRunner'
    BY DEF Inv, RunnerSafety, JoiningHasRunner, TypeOK, Joining, InEngine, CaptureEnds, Leave,
     storeVars
<1>7. CancelledIsPending'
    BY DEF Inv, RunnerSafety, CancelledIsPending, TypeOK, CaptureEnds, LeaveEngine, Leave,
     storeVars
<1>8. OpenIsRun'
    BY DEF Inv, RunnerSafety, OpenIsRun, TypeOK, CaptureEnds, Leave
<1>9. Fresh'
    BY DEF Inv, RunnerSafety, Fresh, TypeOK, CaptureEnds, LeaveEngine, Leave, storeVars
<1> QED
  BY <1>1, <1>2, <1>3, <1>4, <1>5, <1>6, <1>7, <1>8, <1>9 DEF Inv, RunnerSafety

(* When the browser is closed the slot goes back.                          *)
LEMMA CloseReturnsInv ==
  ASSUME Inv, NEW t \in Tasks, CloseReturns(t)
  PROVE  Inv'
<1>1. TypeOK'
    BY DEF Inv, RunnerSafety, SlotOwnership, TypeOK, StoreTypeOK, Status, ActiveStatus,
     TerminalStatus, RunState, BrowserState, Joining, InEngine, Holding, CloseReturns, Leave,
     MarkError, UpdateStatus, storeVars
<1>2. SlotOwnership'
    BY SlotsAssumption DEF Inv, RunnerSafety, SlotOwnership, TypeOK, Joining, InEngine, Holding,
     CloseReturns, Leave
<1>3. SessionIsLive'
    BY DEF Inv, RunnerSafety, SessionIsLive, Joining, InEngine, CloseReturns, Leave
<1>4. QueuedWillRun'
    BY DEF Inv, RunnerSafety, QueuedWillRun, TypeOK, StoreTypeOK, CloseReturns, Leave,
     MarkError, UpdateStatus, storeVars
<1>5. DispatchedOnce'
    BY DEF Inv, RunnerSafety, DispatchedOnce, CloseReturns, Leave
<1>6. JoiningHasRunner'
    BY DEF Inv, RunnerSafety, JoiningHasRunner, TypeOK, StoreTypeOK, Joining, InEngine,
     CloseReturns, Leave, MarkError, UpdateStatus, HasRow, storeVars
<1>7. CancelledIsPending'
    BY DEF Inv, RunnerSafety, CancelledIsPending, TypeOK, StoreTypeOK, CloseReturns, Leave,
     MarkError, UpdateStatus, storeVars
<1>8. OpenIsRun'
    BY DEF Inv, RunnerSafety, OpenIsRun, TypeOK, CloseReturns, Leave
<1>9. Fresh'
    BY DEF Inv, RunnerSafety, Fresh, TypeOK, StoreTypeOK, CloseReturns, Leave, MarkError,
     UpdateStatus, storeVars
<1> QED
  BY <1>1, <1>2, <1>3, <1>4, <1>5, <1>6, <1>7, <1>8, <1>9 DEF Inv, RunnerSafety

-----------------------------------------------------------------------------
(***************************************************************************)
(* The environment.  All that the manager's calls and writes have in       *)
(* common: no coroutine, queue or slot is touched, sessions and timers     *)
(* only disappear, no browser is opened and none is touched that the       *)
(* engine still has a session for; and the rows that change were neither   *)
(* queued nor new, and are past capturing afterwards.                      *)
(***************************************************************************)
EngineEffect ==
  /\ UNCHANGED <<queue, cancelled, free, run, slot>>
  /\ finished' \subseteq Tasks
  /\ sessions' \subseteq sessions
  /\ armed' \subseteq armed \cap sessions'
  /\ browser' \in [Tasks -> BrowserState]
  /\ \A u \in sessions' : browser'[u] = browser[u]
  /\ \A u \in Tasks : browser'[u] # browser[u] =>
        run[u] \notin {"none", "waiting"} /\ browser'[u] # "open"

RowEffect ==
  /\ StoreTypeOK'
  /\ \A u \in Tasks :
       \/ status'[u] = status[u]
       \/ /\ status[u] \notin {"none", "queued", "purged"}
          /\ status'[u] \in {"finalizing", "error", "canceled", "success", "purged"}

(* Each call into the engine does no more than EngineEffect.               *)
LEMMA EngineCallEffect ==
  ASSUME Inv, NEW t \in Tasks, EngineCall(t)
  PROVE  EngineEffect
<1> USE DEF Inv, RunnerSafety, TypeOK, BrowserState, EngineEffect
<1>1. CASE AbortAtOnce(t)
  BY <1>1 DEF AbortAtOnce, SessionIsLive
<1>2. CASE AbortBegins(t)
  BY <1>2 DEF AbortBegins, SessionIsLive, InEngine, Joining
<1>3. CASE AbortReturns(t)
  BY <1>3 DEF AbortReturns, Aborting, SessionIsLive, Fresh
<1>4. CASE AbortIsLost(t)
  BY <1>4 DEF AbortIsLost, Aborting, SessionIsLive, Fresh
<1>5. CASE AbortCancelsItself(t)
  BY <1>5 DEF AbortCancelsItself, SessionIsLive, InEngine, Joining
<1>6. CASE StopBegins(t)
  BY <1>6 DEF StopBegins, SessionIsLive
<1>7. CASE StopReturns(t)
  BY <1>7 DEF StopReturns, SessionIsLive
<1>8. CASE UNCHANGED runnerVars
  BY <1>8 DEF runnerVars, SessionIsLive
<1> QED
  BY <1>1, <1>2, <1>3, <1>4, <1>5, <1>6, <1>7, <1>8 DEF EngineCall

(* The rows that go with a call do no more than RowEffect.                 *)
LEMMA EngineCallRows ==
  ASSUME Inv, NEW t \in Tasks, EngineCall(t)
  PROVE  RowEffect
<1> USE DEF Inv, TypeOK, StoreTypeOK, RowEffect, Status, ActiveStatus, TerminalStatus, Size, HasRow
<1>1. CASE UNCHANGED storeVars
  BY <1>1 DEF storeVars
<1>2. CASE ManagerWrites(t)
  <2>1. CASE UpdateStatus(t, "finalizing")
    BY <1>2, <2>1 DEF ManagerWrites, UpdateStatus
  <2>2. CASE MarkError(t)
    BY <1>2, <2>2 DEF ManagerWrites, MarkError, UpdateStatus
  <2>3. CASE MarkCanceled(t)
    BY <1>2, <2>3 DEF ManagerWrites, MarkCanceled
  <2>4. CASE \E size \in Size : MarkSuccess(t, size)
    BY <1>2, <2>4 DEF ManagerWrites, MarkSuccess
  <2> QED
    BY <1>2, <2>1, <2>2, <2>3, <2>4 DEF ManagerWrites
<1> QED
  BY <1>1, <1>2 DEF EngineCall

(* Neither does a purge.                                                   *)
LEMMA PurgeEffect ==
  ASSUME Inv, ManagerPurges
  PROVE  EngineEffect /\ RowEffect
<1>1. PICK expired \in SUBSET Tasks : PurgeExpired(expired)
  BY DEF ManagerPurges
<1>2. EngineEffect
  BY DEF ManagerPurges, EngineEffect, runnerVars, Inv, RunnerSafety, SessionIsLive, TypeOK
<1>3. RowEffect
  BY <1>1 DEF PurgeExpired, RowEffect, Inv, TypeOK, StoreTypeOK, Status, ActiveStatus,
              TerminalStatus, Size
<1> QED
  BY <1>2, <1>3

(* What the environment does preserves the invariant.                      *)
LEMMA EnvironmentInv ==
  ASSUME Inv, EngineEffect, RowEffect
  PROVE  Inv'
<1>1. TypeOK'
  BY DEF Inv, TypeOK, EngineEffect, RowEffect
<1>2. SlotOwnership'
    BY DEF Inv, RunnerSafety, SlotOwnership, EngineEffect, RowEffect
<1>3. SessionIsLive'
    BY DEF Inv, RunnerSafety, SessionIsLive, EngineEffect, RowEffect
<1>4. QueuedWillRun'
    BY DEF Inv, RunnerSafety, QueuedWillRun, EngineEffect, RowEffect
<1>5. DispatchedOnce'
    BY DEF Inv, RunnerSafety, DispatchedOnce, EngineEffect, RowEffect
<1>6. JoiningHasRunner'
    BY DEF Inv, RunnerSafety, JoiningHasRunner, EngineEffect, RowEffect
<1>7. CancelledIsPending'
    BY DEF Inv, RunnerSafety, CancelledIsPending, TypeOK, EngineEffect, RowEffect
<1>8. OpenIsRun'
    BY DEF Inv, RunnerSafety, OpenIsRun, EngineEffect, RowEffect
<1>9. Fresh'
    BY DEF Inv, RunnerSafety, Fresh, EngineEffect, RowEffect
<1> QED
  BY <1>1, <1>2, <1>3, <1>4, <1>5, <1>6, <1>7, <1>8, <1>9 DEF Inv, RunnerSafety

-----------------------------------------------------------------------------
(* A restart finds every row that is not terminal either queued, and puts  *)
(* its id in the queue, or finalizing with its MP3 on disk.                *)
LEMMA CrashRestartInv ==
  ASSUME Inv, NEW intact \in SUBSET Tasks, CrashRestart(intact)
  PROVE  Inv'
<1>1. TypeOK'
    BY DEF Inv, CrashRestart, Restarted, Interrupted, Listed, TypeOK, TypeOK, StoreTypeOK,
     Status, ActiveStatus, TerminalStatus, RunState, BrowserState
<1>2. SlotOwnership'
    BY SlotsAssumption DEF Inv, CrashRestart, Restarted, Interrupted, Listed, SlotOwnership,
     Joining, InEngine, Holding
<1>3. SessionIsLive'
    BY DEF Inv, CrashRestart, Restarted, Interrupted, Listed, SessionIsLive
<1>4. QueuedWillRun'
    BY DEF Inv, CrashRestart, Restarted, Interrupted, Listed, QueuedWillRun
<1>5. DispatchedOnce'
    BY DEF Inv, CrashRestart, Restarted, Interrupted, Listed, DispatchedOnce
<1>6. JoiningHasRunner'
    BY DEF Inv, CrashRestart, Restarted, Interrupted, Listed, JoiningHasRunner
<1>7. CancelledIsPending'
    BY DEF Inv, CrashRestart, Restarted, Interrupted, Listed, CancelledIsPending
<1>8. OpenIsRun'
    BY DEF Inv, CrashRestart, Restarted, Interrupted, Listed, OpenIsRun
<1>9. Fresh'
    BY DEF Inv, CrashRestart, Restarted, Interrupted, Listed, Fresh
<1> QED
  BY <1>1, <1>2, <1>3, <1>4, <1>5, <1>6, <1>7, <1>8, <1>9 DEF Inv, RunnerSafety

(* A step that changes nothing.                                            *)
LEMMA StutterInv ==
  ASSUME Inv, UNCHANGED allRunnerVars
  PROVE  Inv'
BY DEF allRunnerVars, storeVars, runnerVars, Inv, TypeOK, StoreTypeOK, RunnerSafety, SlotOwnership,
       SessionIsLive, QueuedWillRun, DispatchedOnce, JoiningHasRunner, CancelledIsPending,
       OpenIsRun, Fresh

(* The invariant is inductive.                                             *)
LEMMA NextInv ==
  ASSUME Inv, [Next]_allRunnerVars
  PROVE  Inv'
<1>1. ASSUME NEW t \in Tasks, Submit(t) \/ DeleteQueued(t) \/ RunStep(t)
      PROVE  Inv'
  BY <1>1, SubmitInv, DeleteQueuedInv, DispatchInv, SkipTaskInv, StartCaptureInv, OpenBrowserInv,
     JoinSeenInv, JoinedInv, JoinFailsInv, CaptureEndsInv, CloseReturnsInv DEF RunStep
<1>2. ASSUME NEW t \in Tasks, EngineCall(t)
      PROVE  Inv'
  BY <1>2, EngineCallEffect, EngineCallRows, EnvironmentInv
<1>3. CASE ManagerPurges
  BY <1>3, PurgeEffect, EnvironmentInv
<1>4. ASSUME NEW intact \in SUBSET Tasks, CrashRestart(intact)
      PROVE  Inv'
  BY <1>4, CrashRestartInv
<1>5. CASE UNCHANGED allRunnerVars
  BY <1>5, StutterInv
<1> QED
  BY <1>1, <1>2, <1>3, <1>4, <1>5 DEF Next

(* Hence it holds in every reachable state.                                *)
LEMMA InvHolds == Spec => []Inv
<1>1. Init => Inv
  BY InitInv
<1>2. Inv /\ [Next]_allRunnerVars => Inv'
  BY NextInv
<1> QED
  BY <1>1, <1>2, PTL DEF Spec

-----------------------------------------------------------------------------
(* The runner's variables keep their types, whatever the number of tasks,  *)
(* slots and restarts.                                                     *)
THEOREM TypeCorrect == Spec => []TypeOK
<1>1. Inv => TypeOK
  BY DEF Inv
<1> QED
  BY <1>1, InvHolds, PTL

(* A worker slot is free or held by exactly one _run_one, through aborts,  *)
(* failed joins and restarts (_run_one, run_capture).                      *)
THEOREM SlotsAreOwned == Spec => []SlotOwnership
<1>1. Inv => SlotOwnership
  BY DEF Inv, RunnerSafety
<1> QED
  BY <1>1, InvHolds, PTL

(* A queued row has its id in the queue or a coroutine that waits for a    *)
(* slot, also after _restore_unfinished.                                   *)
THEOREM QueuedIsNotForgotten == Spec => []QueuedWillRun
<1>1. Inv => QueuedWillRun
  BY DEF Inv, RunnerSafety
<1> QED
  BY <1>1, InvHolds, PTL

(* Whatever is_active, stop and abort_session find in the tables belongs   *)
(* to a coroutine inside run_capture, with a browser nobody closes yet.    *)
THEOREM SessionsAreLive == Spec => []SessionIsLive
<1>1. Inv => SessionIsLive
  BY DEF Inv, RunnerSafety
<1> QED
  BY <1>1, InvHolds, PTL

(* _dispatch_loop never creates a second _run_one for an id.               *)
THEOREM DispatchIsOnce == Spec => []DispatchedOnce
<1>1. Inv => DispatchedOnce
  BY DEF Inv, RunnerSafety
<1> QED
  BY <1>1, InvHolds, PTL

(* A joining row has a coroutine that will move it on (_run_one), although *)
(* the row and the coroutine are changed by different callers.             *)
THEOREM JoiningIsRun == Spec => []JoiningHasRunner
<1>1. Inv => JoiningHasRunner
  BY DEF Inv, RunnerSafety
<1> QED
  BY <1>1, InvHolds, PTL

(* _cancelled holds only ids that a _run_one has still to drop.            *)
THEOREM CancelledIsSmall == Spec => []CancelledIsPending
<1>1. Inv => CancelledIsPending
  BY DEF Inv, RunnerSafety
<1> QED
  BY <1>1, InvHolds, PTL

(* All the safety invariants of the runner (queueing.py, engine.py).       *)
THEOREM RunnerIsSafe == Spec => []RunnerSafety
<1>1. Inv => RunnerSafety
  BY DEF Inv
<1> QED
  BY <1>1, InvHolds, PTL

-----------------------------------------------------------------------------
(***************************************************************************)
(* The runner implements the worker pool: each step of CaptureRunner.tla   *)
(* is a step of WorkerPool.tla or leaves the phases as they are.  Inv says *)
(* which rows a coroutine can belong to; the bound on the active tasks     *)
(* comes from the slots, which they map to one to one.                     *)
(***************************************************************************)
(* Only one task changes its phase, or none.                               *)
LEMMA PhaseMoves ==
  ASSUME NEW t \in Tasks, NEW to,
         \A u \in Tasks \ {t} : run'[u] = run[u] /\ status'[u] = status[u],
         to = IF run'[t] \in Holding THEN "active"
              ELSE IF status'[t] = "queued" THEN "pending"
              ELSE IF status'[t] = "none" THEN "new" ELSE "over"
  PROVE  PoolPhase' = [PoolPhase EXCEPT ![t] = to]
BY DEF PoolPhase, Holding, InEngine, Joining

-----------------------------------------------------------------------------
(* While a slot is free, fewer tasks are active than there are slots: they *)
(* hold different slots, and none of them holds that one.                  *)
LEMMA SlotForOneMore ==
  ASSUME Inv, NEW s \in free
  PROVE  Cardinality(Pool!In("active")) < Cardinality(Slots)
<1> DEFINE A == Pool!In("active")
           f == [t \in A |-> slot[t]]
<1>1. A = {t \in Tasks : run[t] \in Holding}
  BY DEF Pool!In, PoolPhase
<1>2. \A t \in A : slot[t] \in Slots \ {s}
  BY <1>1 DEF Inv, TypeOK, RunnerSafety, SlotOwnership
<1>3. \A t, u \in A : slot[t] = slot[u] => t = u
  BY <1>1, <1>2, SlotsAssumption DEF Inv, RunnerSafety, SlotOwnership
<1>4. f \in Injection(A, Slots \ {s})
  BY <1>2, <1>3 DEF Injection, IsInjective
<1>5. s \in Slots /\ IsFiniteSet(Slots) /\ IsFiniteSet(Slots \ {s})
  BY SlotsAssumption, FS_RemoveElement DEF Inv, TypeOK
<1>6. Cardinality(A) <= Cardinality(Slots \ {s}) /\ IsFiniteSet(A)
  BY <1>4, <1>5, FS_Injection
<1>7. /\ Cardinality(Slots \ {s}) = Cardinality(Slots) - 1
      /\ Cardinality(Slots) \in Nat /\ Cardinality(A) \in Nat
      /\ Cardinality(Slots \ {s}) \in Nat
  BY <1>5, <1>6, FS_RemoveElement, FS_CardinalityType
<1> HIDE DEF A
<1>8. Cardinality(A) < Cardinality(Slots)
  BY <1>6, <1>7
<1> QED
  BY <1>8 DEF A

-----------------------------------------------------------------------------
(* A submitted task arrives.                                               *)
LEMMA SubmitArrives ==
  ASSUME Inv, NEW t \in Tasks, Submit(t)
  PROVE  Pool!Arrive(t)
<1>1. status[t] = "none" /\ run[t] = "none" /\ run' = run
  BY DEF Submit, Create, Inv, Fresh
<1>2. status' = [status EXCEPT ![t] = "queued"]
  BY DEF Submit, Create
<1>3. PoolPhase' = [PoolPhase EXCEPT ![t] = "pending"]
  BY <1>1, <1>2, PhaseMoves DEF Holding, InEngine, Joining, Inv, TypeOK, StoreTypeOK
<1>4. PoolPhase[t] = "new"
  BY <1>1 DEF PoolPhase, Holding, InEngine, Joining
<1> QED
  BY <1>3, <1>4 DEF Pool!Arrive, Pool!Move

(* A task deleted while queued is withdrawn: its coroutine, if there is    *)
(* one, still waits.                                                       *)
LEMMA DeleteWithdraws ==
  ASSUME Inv, NEW t \in Tasks, DeleteQueued(t)
  PROVE  Pool!Withdraw(t)
<1>1. status[t] = "queued" /\ run[t] \in {"none", "waiting"} /\ run' = run
  BY DEF DeleteQueued, Inv, RunnerSafety, QueuedWillRun, DispatchedOnce
<1>2. status' = [status EXCEPT ![t] = "canceled"]
  BY <1>1 DEF DeleteQueued, MarkCanceled, HasRow
<1>3. PoolPhase' = [PoolPhase EXCEPT ![t] = "over"]
  BY <1>1, <1>2, PhaseMoves DEF Holding, InEngine, Joining, Inv, TypeOK, StoreTypeOK
<1>4. PoolPhase[t] = "pending"
  BY <1>1 DEF PoolPhase, Holding, InEngine, Joining
<1> QED
  BY <1>3, <1>4 DEF Pool!Withdraw, Pool!Move

(* The instance counts as the runner does.                                 *)
LEMMA PoolCounts == \A S : Pool!Cardinality(S) = Cardinality(S)
BY DEF Pool!Cardinality, Cardinality

(* A task that takes a slot begins, and there was one for it.              *)
LEMMA StartBegins ==
  ASSUME Inv, NEW t \in Tasks, StartCapture(t)
  PROVE  Pool!Begin(t)
<1>1. PICK s \in free : TRUE
  BY DEF StartCapture
<1>2. Cardinality(Pool!In("active")) < Cardinality(Slots)
  BY <1>1, SlotForOneMore
<1>3. status[t] = "queued" /\ run[t] = "waiting" /\ run' = [run EXCEPT ![t] = "launch"]
  BY DEF StartCapture
<1>4. status' = [status EXCEPT ![t] = "joining"]
  BY <1>3 DEF StartCapture, UpdateStatus, HasRow
<1>5. PoolPhase' = [PoolPhase EXCEPT ![t] = "active"]
  BY <1>3, <1>4, PhaseMoves DEF Holding, InEngine, Joining, Inv, TypeOK, StoreTypeOK
<1>6. PoolPhase[t] = "pending"
  BY <1>3 DEF PoolPhase, Holding, InEngine, Joining
<1> QED
  BY <1>2, <1>5, <1>6, PoolCounts DEF Pool!Begin, Pool!Move

(* A capture that gives its slot back ends: its row cannot be queued.      *)
LEMMA LeaveEnds ==
  ASSUME Inv, NEW t \in Tasks, run[t] \in Holding,
         run' = [run EXCEPT ![t] = "done"],
         UNCHANGED status \/ status' = [status EXCEPT ![t] = "error"]
  PROVE  Pool!End(t)
<1>1. status[t] \notin {"none", "queued"}
  BY DEF Inv, RunnerSafety, QueuedWillRun, DispatchedOnce, Fresh, Holding, InEngine, Joining
<1>2. status'[t] \notin {"none", "queued"} /\ \A u \in Tasks \ {t} : status'[u] = status[u]
  BY <1>1 DEF Inv, TypeOK, StoreTypeOK
<1>3. run'[t] = "done" /\ \A u \in Tasks \ {t} : run'[u] = run[u]
  BY DEF Inv, TypeOK
<1>4. PoolPhase' = [PoolPhase EXCEPT ![t] = "over"]
  BY <1>2, <1>3, PhaseMoves DEF Holding, InEngine, Joining
<1>5. PoolPhase[t] = "active"
  BY DEF PoolPhase
<1> QED
  BY <1>4, <1>5 DEF Pool!End, Pool!Move

(* Steps inside a phase: a coroutine that goes on to the next await, or is *)
(* dropped when its row is not queued any more.                            *)
LEMMA RunStaysInPhase ==
  ASSUME Inv, NEW t \in Tasks, NEW next,
         run' = [run EXCEPT ![t] = next],
         \/ run[t] \in Holding /\ next \in Holding
         \/ run[t] \notin Holding /\ next \notin Holding /\ UNCHANGED status,
         \A u \in Tasks \ {t} : status'[u] = status[u]
  PROVE  UNCHANGED PoolPhase
BY DEF PoolPhase, Inv, TypeOK, Holding, InEngine, Joining

(* The steps of _run_one.                                                  *)
LEMMA RunStepIsPoolStep ==
  ASSUME Inv, NEW t \in Tasks, RunStep(t)
  PROVE  Pool!Begin(t) \/ Pool!End(t) \/ UNCHANGED PoolPhase
<1> USE DEF Holding, InEngine, Joining
<1>1. CASE Dispatch(t)
  <2>1. run[t] = "none"
    BY <1>1 DEF Dispatch, Inv, RunnerSafety, DispatchedOnce
  <2> QED
    BY <1>1, <2>1, RunStaysInPhase DEF Dispatch, storeVars
<1>2. CASE SkipTask(t)
  BY <1>2, RunStaysInPhase DEF SkipTask, storeVars
<1>3. CASE StartCapture(t)
  BY <1>3, StartBegins
<1>4. CASE OpenBrowser(t)
  BY <1>4, RunStaysInPhase DEF OpenBrowser, storeVars
<1>5. CASE JoinSeen(t)
  BY <1>5, RunStaysInPhase DEF JoinSeen, storeVars
<1>6. CASE Joined(t)
  <2>1. \A u \in Tasks \ {t} : status'[u] = status[u]
    BY <1>6 DEF Joined, UpdateStatus, Inv, TypeOK, StoreTypeOK
  <2> QED
    BY <1>6, <2>1, RunStaysInPhase DEF Joined
<1>7. ASSUME MarkError(t)
      PROVE  UNCHANGED status \/ status' = [status EXCEPT ![t] = "error"]
  BY <1>7 DEF MarkError, UpdateStatus
<1>8. CASE JoinFails(t)
  BY <1>7, <1>8, LeaveEnds, RunStaysInPhase DEF JoinFails, Leave, storeVars
<1>9. CASE CaptureEnds(t)
  BY <1>9, LeaveEnds, RunStaysInPhase DEF CaptureEnds, Leave, storeVars
<1>10. CASE CloseReturns(t)
  BY <1>7, <1>10, LeaveEnds DEF CloseReturns, Leave, storeVars
<1> QED
  BY <1>1, <1>2, <1>3, <1>4, <1>5, <1>6, <1>8, <1>9, <1>10 DEF RunStep

(* What the manager does to the rows leaves every phase as it is: it       *)
(* touches no coroutine and no row that is new or queued.                  *)
LEMMA EnvironmentStutters ==
  ASSUME EngineEffect, RowEffect
  PROVE  UNCHANGED PoolPhase
BY DEF PoolPhase, EngineEffect, RowEffect, Holding, InEngine, Joining

(* A restart ends what was active and keeps what was pending.              *)
LEMMA RestartIsCrash ==
  ASSUME Inv, NEW intact \in SUBSET Tasks, CrashRestart(intact)
  PROVE  Pool!Crash
<1>1. \A t \in Tasks : run[t] \in Holding => status[t] \notin {"none", "queued"}
  BY DEF Inv, RunnerSafety, QueuedWillRun, DispatchedOnce, Fresh, Holding, InEngine, Joining
<1>2. \A t \in Tasks : \/ status'[t] = status[t]
                       \/ status[t] \notin {"none", "queued"} /\ status'[t] = "error"
  BY DEF CrashRestart, Interrupted, Listed
<1>3. \A t \in Tasks : run'[t] = "none"
  BY DEF CrashRestart, Restarted
<1>4. \A t \in Tasks : PoolPhase'[t] = IF PoolPhase[t] = "active" THEN "over" ELSE PoolPhase[t]
  BY <1>1, <1>2, <1>3 DEF PoolPhase, Holding, InEngine, Joining
<1> QED
  BY <1>4 DEF Pool!Crash, PoolPhase

-----------------------------------------------------------------------------
(* Every step of the runner is a step of the pool, or none of its phases   *)
(* changes.                                                                *)
LEMMA NextIsPoolNext ==
  ASSUME Inv, [Next]_allRunnerVars
  PROVE  [Pool!PoolNext]_PoolPhase
<1>1. ASSUME NEW t \in Tasks, Submit(t) \/ DeleteQueued(t) \/ RunStep(t)
      PROVE  [Pool!PoolNext]_PoolPhase
  BY <1>1, SubmitArrives, DeleteWithdraws, RunStepIsPoolStep DEF Pool!PoolNext
<1>2. ASSUME NEW t \in Tasks, EngineCall(t)
      PROVE  UNCHANGED PoolPhase
  BY <1>2, EngineCallEffect, EngineCallRows, EnvironmentStutters
<1>3. CASE ManagerPurges
  BY <1>3, PurgeEffect, EnvironmentStutters
<1>4. ASSUME NEW intact \in SUBSET Tasks, CrashRestart(intact)
      PROVE  [Pool!PoolNext]_PoolPhase
  BY <1>4, RestartIsCrash DEF Pool!PoolNext
<1>5. CASE UNCHANGED allRunnerVars
  BY <1>5 DEF allRunnerVars, storeVars, runnerVars, PoolPhase
<1> QED
  BY <1>1, <1>2, <1>3, <1>4, <1>5 DEF Next

(* For every set of tasks and slots the runner keeps the promise of the    *)
(* worker pool: at most WORKERS captures at a time, none of a task that    *)
(* was withdrawn while queued, none twice, and none lost in a restart      *)
(* (CaptureRunner, queueing.py).                                           *)
THEOREM RunnerImplementsWorkerPool == Spec => RunnerImplementsPool
<1>1. Init => Pool!PoolInit
  BY DEF Init, StoreInit, RunnerInit, Pool!PoolInit, PoolPhase, Holding, InEngine, Joining
<1>2. Inv /\ [Next]_allRunnerVars => [Pool!PoolNext]_PoolPhase
  BY NextIsPoolNext
<1> QED
  BY <1>1, <1>2, InvHolds, PTL DEF Spec, RunnerImplementsPool, Pool!PoolSpec
===============================================================================
