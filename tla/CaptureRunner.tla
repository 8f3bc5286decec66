---------------------------- MODULE CaptureRunner ----------------------------
(***************************************************************************)
(* CaptureRunner (src/app/queueing.py) and CaptureEngine                   *)
(* (src/app/capture/engine.py): the pending queue, the worker slots, and   *)
(* the life of one capture from the slot it takes to the slot it returns.  *)
(*                                                                         *)
(* Everything runs on one asyncio event loop, so an action is the code     *)
(* between two awaits that really suspend.  run[t] is the await at which   *)
(* task t's _run_one coroutine is parked:                                  *)
(*   "none"     no coroutine exists                                        *)
(*   "waiting"  await _free_slots.get()                                    *)
(*   "launch"   open_and_join, await async_playwright().start()            *)
(*   "join"     open_and_join, any later await but the last                *)
(*   "ready"    open_and_join, await target.evaluate(...), its last        *)
(*   "capture"  await finished.wait()                                      *)
(*   "closing"  await session.close() after a capture that ended           *)
(*   "failing"  await session.close() after a join that raised             *)
(*   "done"     returned                                                   *)
(* browser[t] is what session.close() finds and leaves behind: "none"      *)
(* before the driver is up, "open", "closing" while a close is awaited,    *)
(* "closed", and "leaked" when the close was cancelled half-way: Chromium  *)
(* runs on, and no later close() knows of it.                              *)
(*                                                                         *)
(* CaptureManager is the environment of this module: it calls stop and     *)
(* abort_session and writes rows.  EngineCall, ManagerWrites and           *)
(* ManagerPurges let it do so at any time; CaptureManager.tla has the real *)
(* manager, which is checked to do nothing else.                           *)
(***************************************************************************)
EXTENDS TaskStore

CONSTANTS Slots,             \* the worker slots, one per settings.WORKERS
          NoSlot,
          WorkerQueueSize,   \* settings.WORKER_QUEUE_SIZE
          AutoStop           \* settings.MAX_CAPTURE_DURATION_SEC > 0

ASSUME SlotsAssumption == IsFiniteSet(Slots) /\ Slots # {} /\ NoSlot \notin Slots
ASSUME TasksAssumption == IsFiniteSet(Tasks)
ASSUME ConfigAssumption == WorkerQueueSize \in Nat /\ AutoStop \in BOOLEAN

VARIABLES queue,      \* CaptureRunner._queue: ids not yet dispatched
          cancelled,  \* CaptureRunner._cancelled
          free,       \* CaptureRunner._free_slots
          run,        \* where each _run_one coroutine is parked
          slot,       \* the slot it holds
          sessions,   \* CaptureEngine._sessions (and _finished) keys
          finished,   \* tasks whose finished event is set
          armed,      \* CaptureEngine._auto_stop keys
          browser     \* the browser of each task's session

runnerVars == <<queue, cancelled, free, run, slot, sessions, finished, armed, browser>>
allRunnerVars == <<storeVars, runnerVars>>

RunState == {"none", "waiting", "launch", "join", "ready", "capture",
             "closing", "failing", "done"}
Joining == {"launch", "join", "ready"}
InEngine == Joining \cup {"capture"}
Holding == InEngine \cup {"closing", "failing"}
BrowserState == {"none", "open", "closing", "closed", "leaked"}

TypeOK ==
  /\ StoreTypeOK
  /\ queue \subseteq Tasks
  /\ cancelled \subseteq Tasks
  /\ free \subseteq Slots
  /\ run \in [Tasks -> RunState]
  /\ slot \in [Tasks -> Slots \cup {NoSlot}]
  /\ sessions \subseteq Tasks
  /\ finished \subseteq Tasks
  /\ armed \subseteq Tasks
  /\ browser \in [Tasks -> BrowserState]

RunnerInit ==
  /\ queue = {}
  /\ cancelled = {}
  /\ free = Slots
  /\ run = [t \in Tasks |-> "none"]
  /\ slot = [t \in Tasks |-> NoSlot]
  /\ sessions = {}
  /\ finished = {}
  /\ armed = {}
  /\ browser = [t \in Tasks |-> "none"]

Init == StoreInit /\ RunnerInit

(* An abort_session call of some caller is awaiting session.close(). A run *)
(* that awaits its own close has taken the session out of the table first, *)
(* so no abort can hold the browser at the same time.                      *)
Aborting(t) == browser[t] = "closing" /\ run[t] \notin {"closing", "failing"}

-----------------------------------------------------------------------------
(***************************************************************************)
(* The queue.                                                              *)
(***************************************************************************)

(* submit: the count, the INSERT and the put happen without an await that  *)
(* suspends.  Otherwise QueueFullError leaves everything as it was.        *)
Submit(t) ==
  /\ CountActive < Cardinality(Slots) + WorkerQueueSize
  /\ Create(t)
  /\ queue' = queue \cup {t}
  /\ UNCHANGED <<cancelled, free, run, slot, sessions, finished, armed, browser>>

(* DELETE of a queued row (delete_queued_or_cancel from cancel_capture).   *)
(* The id stays in the queue; _run_one drops it when it gets a slot.       *)
DeleteQueued(t) ==
  /\ status[t] = "queued"
  /\ cancelled' = cancelled \cup {t}
  /\ MarkCanceled(t)
  /\ UNCHANGED <<queue, free, run, slot, sessions, finished, armed, browser>>

(* Mutant: the dispatcher looks at the queue without taking the id out.    *)
DispatchPeeks(t) ==
  /\ t \in queue
  /\ run[t] = "none"
  /\ run' = [run EXCEPT ![t] = "waiting"]
  /\ UNCHANGED <<storeVars, queue, cancelled, free, slot, sessions, finished, armed, browser>>

(* _dispatch_loop drains the queue whatever slots are free: the waiting is *)
(* done by the _run_one coroutines, on _free_slots.                        *)
Dispatch(t) ==
  /\ t \in queue
  /\ queue' = queue \ {t}
  /\ run' = [run EXCEPT ![t] = "waiting"]
  /\ UNCHANGED <<storeVars, cancelled, free, slot, sessions, finished, armed, browser>>

(* Mutant: the slot is put back without having been taken.                 *)
SkipTaskPutsTwice(t) ==
  /\ run[t] = "waiting"
  /\ t \in cancelled \/ status[t] # "queued"
  /\ cancelled' = cancelled \ {t}
  /\ run' = [run EXCEPT ![t] = "done"]
  /\ free' = free \cup {slot[t]}
  /\ UNCHANGED <<storeVars, queue, slot, sessions, finished, armed, browser>>

(* Mutant: the id is not discarded from _cancelled.                        *)
SkipTaskKeepsId(t) ==
  /\ run[t] = "waiting"
  /\ free # {}
  /\ t \in cancelled \/ status[t] # "queued"
  /\ run' = [run EXCEPT ![t] = "done"]
  /\ UNCHANGED <<storeVars, queue, cancelled, free, slot, sessions, finished, armed, browser>>

(* _run_one gets a slot and gives it back at once, because the task was    *)
(* deleted while it was queued or its row is not queued any more.          *)
SkipTask(t) ==
  /\ run[t] = "waiting"
  /\ free # {}
  /\ t \in cancelled \/ status[t] # "queued"
  /\ cancelled' = cancelled \ {t}
  /\ run' = [run EXCEPT ![t] = "done"]
  /\ UNCHANGED <<storeVars, queue, free, slot, sessions, finished, armed, browser>>

(* _run_one takes a slot, marks the row joining and enters run_capture,    *)
(* which registers the session and the auto-stop timer.                    *)
StartCapture(t) ==
  /\ run[t] = "waiting"
  /\ t \notin cancelled
  /\ status[t] = "queued"
  /\ \E s \in free : /\ free' = free \ {s}
                     /\ slot' = [slot EXCEPT ![t] = s]
  /\ UpdateStatus(t, "joining")
  /\ run' = [run EXCEPT ![t] = "launch"]
  /\ sessions' = sessions \cup {t}
  /\ armed' = IF AutoStop THEN armed \cup {t} ELSE armed
  /\ UNCHANGED <<queue, cancelled, finished, browser>>

-----------------------------------------------------------------------------
(***************************************************************************)
(* run_capture and open_and_join.                                          *)
(***************************************************************************)

(* The Playwright driver is up and stored in the session: from here on     *)
(* close() has something to close.  An abort that came earlier found       *)
(* nothing, and this join goes on regardless.                              *)
OpenBrowser(t) ==
  /\ run[t] = "launch"
  /\ run' = [run EXCEPT ![t] = "join"]
  /\ browser' = [browser EXCEPT ![t] = "open"]
  /\ UNCHANGED <<storeVars, queue, cancelled, free, slot, sessions, finished, armed>>

(* The bot is in the meeting.  _script_target raises when close() has      *)
(* already taken the page away.  When close() ran while new_page() was     *)
(* awaited the page is put back, but its context, its browser or the       *)
(* driver was told to close before, so the calls that follow raise.        *)
JoinSeen(t) ==
  /\ run[t] = "join"
  /\ browser[t] = "open"
  /\ run' = [run EXCEPT ![t] = "ready"]
  /\ UNCHANGED <<storeVars, queue, cancelled, free, slot, sessions, finished, armed, browser>>

(* The last evaluate was answered, which a close that has not returned yet *)
(* does not prevent.  on_joined writes capturing whatever the row says.    *)
Joined(t) ==
  /\ run[t] = "ready"
  /\ browser[t] # "closed"
  /\ UpdateStatus(t, "capturing")
  /\ run' = [run EXCEPT ![t] = "capture"]
  /\ UNCHANGED <<queue, cancelled, free, slot, sessions, finished, armed, browser>>

(* Mutant: put_nowait is not in a finally block.                           *)
LeaveLosesSlot(t) ==
  /\ run' = [run EXCEPT ![t] = "done"]
  /\ slot' = [slot EXCEPT ![t] = NoSlot]
  /\ free' = free

(* The end of _run_one: the slot goes back whatever happened.              *)
Leave(t) ==
  /\ run' = [run EXCEPT ![t] = "done"]
  /\ free' = free \cup {slot[t]}
  /\ slot' = [slot EXCEPT ![t] = NoSlot]

(* Mutant: the session stays in the table.                                 *)
LeaveEngineKeepsSession(t) ==
  /\ armed' = armed \ {t}
  /\ UNCHANGED <<queue, cancelled, sessions, finished>>

(* The finally block of run_capture: the tables are cleared, then the      *)
(* session is closed, which suspends only when a browser is open.          *)
LeaveEngine(t) ==
  /\ sessions' = sessions \ {t}
  /\ armed' = armed \ {t}
  /\ UNCHANGED <<queue, cancelled, finished>>

(* open_and_join raised: a timeout, a navigation error, a page closed by   *)
(* an abort.  _run_one writes join_failed over whatever the row says.      *)
JoinFails(t) ==
  /\ run[t] \in Joining
  /\ LeaveEngine(t)
  /\ \/ /\ browser[t] = "open"
        /\ browser' = [browser EXCEPT ![t] = "closing"]
        /\ run' = [run EXCEPT ![t] = "failing"]
        /\ UNCHANGED <<storeVars, free, slot>>
     \/ /\ browser[t] # "open"
        /\ MarkError(t)
        /\ Leave(t)
        /\ browser' = browser

(* Mutant: the session is not closed when the capture ends.                *)
CaptureEndsOpen(t) ==
  /\ run[t] = "capture"
  /\ t \in finished
  /\ LeaveEngine(t)
  /\ Leave(t)
  /\ UNCHANGED <<storeVars, browser>>

(* Mutant: finished.wait() has a timeout.                                  *)
CaptureGivesUp(t) ==
  /\ run[t] = "capture"
  /\ LeaveEngine(t)
  /\ \/ /\ browser[t] = "open"
        /\ browser' = [browser EXCEPT ![t] = "closing"]
        /\ run' = [run EXCEPT ![t] = "closing"]
        /\ UNCHANGED <<free, slot>>
     \/ /\ browser[t] # "open"
        /\ Leave(t)
        /\ browser' = browser
  /\ UNCHANGED storeVars

(* finished.wait() returned.                                               *)
CaptureEnds(t) ==
  /\ run[t] = "capture"
  /\ t \in finished
  /\ LeaveEngine(t)
  /\ \/ /\ browser[t] = "open"
        /\ browser' = [browser EXCEPT ![t] = "closing"]
        /\ run' = [run EXCEPT ![t] = "closing"]
        /\ UNCHANGED <<free, slot>>
     \/ /\ browser[t] # "open"
        /\ Leave(t)
        /\ browser' = browser
  /\ UNCHANGED storeVars

(* run_capture's own session.close() returned.                             *)
CloseReturns(t) ==
  /\ run[t] \in {"closing", "failing"}
  /\ browser' = [browser EXCEPT ![t] = "closed"]
  /\ Leave(t)
  /\ IF run[t] = "failing" THEN MarkError(t) ELSE UNCHANGED storeVars
  /\ UNCHANGED <<queue, cancelled, sessions, finished, armed>>

-----------------------------------------------------------------------------
(***************************************************************************)
(* Calls into the engine.  They leave the rows to the caller.              *)
(***************************************************************************)

(* abort_session when close() has nothing to await: the session is gone    *)
(* and the event is set in the same step.                                  *)
AbortAtOnce(t) ==
  /\ t \in sessions
  /\ browser[t] # "open"
  /\ sessions' = sessions \ {t}
  /\ armed' = armed \ {t}
  /\ finished' = finished \cup {t}
  /\ UNCHANGED <<queue, cancelled, free, run, slot, browser>>

(* abort_session up to its await of close().                               *)
AbortBegins(t) ==
  /\ t \in sessions
  /\ browser[t] = "open"
  /\ sessions' = sessions \ {t}
  /\ armed' = armed \ {t}
  /\ browser' = [browser EXCEPT ![t] = "closing"]
  /\ UNCHANGED <<queue, cancelled, free, run, slot, finished>>

(* Mutant: the event was looked up after the await, when it was gone.      *)
AbortReturnsSilently(t) ==
  /\ Aborting(t)
  /\ browser' = [browser EXCEPT ![t] = "closed"]
  /\ UNCHANGED <<queue, cancelled, free, run, slot, sessions, finished, armed>>

(* abort_session from close() to its end, where the event is set.          *)
AbortReturns(t) ==
  /\ Aborting(t)
  /\ browser' = [browser EXCEPT ![t] = "closed"]
  /\ finished' = finished \cup {t}
  /\ UNCHANGED <<queue, cancelled, free, run, slot, sessions, armed>>

(* The caller of abort_session is cancelled while it awaits close(): the   *)
(* browser is left as it is and finished.set() is never reached.           *)
AbortIsLost(t) ==
  /\ Aborting(t)
  /\ browser' = [browser EXCEPT ![t] = "leaked"]
  /\ UNCHANGED <<queue, cancelled, free, run, slot, sessions, finished, armed>>

(* The auto-stop timer fires during a join: its own task calls             *)
(* abort_session, which cancels that very task, so the first await inside  *)
(* close() raises CancelledError.                                          *)
AbortCancelsItself(t) ==
  /\ t \in armed
  /\ t \in sessions
  /\ browser[t] = "open"
  /\ sessions' = sessions \ {t}
  /\ armed' = armed \ {t}
  /\ browser' = [browser EXCEPT ![t] = "leaked"]
  /\ UNCHANGED <<queue, cancelled, free, run, slot, finished>>

(* engine.stop before its await: the timer is cancelled.                   *)
StopBegins(t) ==
  /\ t \in sessions
  /\ armed' = armed \ {t}
  /\ UNCHANGED <<queue, cancelled, free, run, slot, sessions, finished, browser>>

(* Mutant: the event is not set.                                           *)
StopReturnsSilently(t) == t \in Tasks /\ UNCHANGED runnerVars

(* engine.stop after finalize_to_mp3: the event is set if an abort has not *)
(* taken it out of the table meanwhile.                                    *)
StopReturns(t) ==
  /\ finished' = IF t \in sessions THEN finished \cup {t} ELSE finished
  /\ UNCHANGED <<queue, cancelled, free, run, slot, sessions, armed, browser>>

-----------------------------------------------------------------------------
(***************************************************************************)
(* The environment.                                                        *)
(***************************************************************************)

(* What the manager writes, never to a row that is still queued.           *)
ManagerWrites(t) ==
  /\ status[t] \notin {"none", "queued", "purged"}
  /\ \/ UpdateStatus(t, "finalizing")
     \/ MarkError(t)
     \/ MarkCanceled(t)
     \/ \E size \in Size : MarkSuccess(t, size)

EngineCall(t) ==
  /\ \/ AbortAtOnce(t)
     \/ AbortBegins(t)
     \/ AbortReturns(t)
     \/ AbortIsLost(t)
     \/ AbortCancelsItself(t)
     \/ StopBegins(t)
     \/ StopReturns(t)
     \/ UNCHANGED runnerVars
  /\ ManagerWrites(t) \/ UNCHANGED storeVars

ManagerPurges ==
  /\ \E expired \in SUBSET Tasks : PurgeExpired(expired)
  /\ UNCHANGED runnerVars

(* What is left of the runner's own state after a restart.                 *)
Restarted ==
  /\ cancelled' = {}
  /\ free' = Slots
  /\ run' = [t \in Tasks |-> "none"]
  /\ slot' = [t \in Tasks |-> NoSlot]
  /\ sessions' = {}
  /\ finished' = {}
  /\ armed' = {}
  /\ browser' = [t \in Tasks |-> "none"]

(* Mutant: only capturing and finalizing rows are looked at.               *)
InterruptedLater(intact) == Listed("capturing") \cup (Listed("finalizing") \ intact)

(* The rows that _restore_unfinished marks as interrupted.                 *)
Interrupted(intact) ==
  Listed("joining") \cup Listed("capturing") \cup (Listed("finalizing") \ intact)

(* Mutant: the queued rows are not put in the queue again.                 *)
CrashForgetsQueued(intact) ==
  /\ status' = [t \in Tasks |-> IF t \in Interrupted(intact) THEN "error" ELSE status[t]]
  /\ recorded' = recorded
  /\ queue' = {}
  /\ Restarted

(* Mutant: interrupted tasks are queued again.                             *)
CrashRepeats(intact) ==
  /\ status' = [t \in Tasks |-> IF t \in Interrupted(intact) THEN "queued" ELSE status[t]]
  /\ recorded' = recorded
  /\ queue' = Listed("queued") \cup Interrupted(intact)
  /\ Restarted

(* The process dies, or is stopped: CaptureRunner.stop only cancels, so    *)
(* the rows are left as a crash leaves them.  The next start applies       *)
(* _restore_unfinished: intact is the set of tasks whose MP3 exists.       *)
CrashRestart(intact) ==
  /\ status' = [t \in Tasks |-> IF t \in Interrupted(intact) THEN "error" ELSE status[t]]
  /\ recorded' = recorded
  /\ queue' = Listed("queued")
  /\ Restarted

RunStep(t) ==
  \/ Dispatch(t)
  \/ SkipTask(t)
  \/ StartCapture(t)
  \/ OpenBrowser(t)
  \/ JoinSeen(t)
  \/ Joined(t)
  \/ JoinFails(t)
  \/ CaptureEnds(t)
  \/ CloseReturns(t)

Next ==
  \/ \E t \in Tasks : Submit(t) \/ DeleteQueued(t) \/ RunStep(t) \/ EngineCall(t)
  \/ ManagerPurges
  \/ \E intact \in SUBSET Tasks : CrashRestart(intact)

Spec == Init /\ [][Next]_allRunnerVars

-----------------------------------------------------------------------------
(***************************************************************************)
(* Safety.                                                                 *)
(***************************************************************************)

(* A slot is free or held by exactly one _run_one, and none is ever lost:  *)
(* each of the ways out of _run_one (skipped, failed with and without a    *)
(* browser, ended with and without one) puts back the slot it took.        *)
SlotOwnership ==
  /\ \A t \in Tasks : run[t] \in Holding <=> slot[t] # NoSlot
  /\ \A t, u \in Tasks : slot[t] = slot[u] /\ slot[t] # NoSlot => t = u
  /\ free = Slots \ {slot[t] : t \in Tasks}

(* A registered session belongs to a coroutine that is still inside        *)
(* run_capture, with a browser no one has begun to close; a running timer  *)
(* belongs to a registered session.  Everything the manager does with      *)
(* is_active and stop relies on it.                                        *)
SessionIsLive ==
  /\ \A t \in sessions : /\ run[t] \in InEngine
                         /\ browser[t] = IF run[t] = "launch" THEN "none" ELSE "open"
  /\ armed \subseteq sessions

(* A queued row always has something that will run it: its id is in the    *)
(* queue or a coroutine is waiting for a slot, also after a restart, and   *)
(* it is never among the ids to be dropped.                                *)
QueuedWillRun ==
  \A t \in Tasks : status[t] = "queued" =>
     /\ t \notin cancelled
     /\ t \in queue \/ run[t] = "waiting"

(* An id is dispatched at most once in the life of the process: while it   *)
(* is in the queue no coroutine of it exists, and it never runs in two     *)
(* slots.                                                                  *)
DispatchedOnce == \A t \in queue : run[t] = "none"

(* A row is joining only while its coroutine is inside open_and_join or    *)
(* closing after it: nothing outside the coroutine could move a joining    *)
(* row forward, so one without a runner would be stuck until a restart.    *)
JoiningHasRunner ==
  \A t \in Tasks : status[t] = "joining" => run[t] \in Joining \cup {"failing"}

(* The ids to be dropped are those of rows deleted while queued that no    *)
(* _run_one has looked at yet, so the set does not grow for ever, and a    *)
(* task deleted while queued is never joined.                              *)
CancelledIsPending ==
  \A t \in cancelled : /\ status[t] \in {"success", "error", "canceled", "finalizing", "purged"}
                       /\ t \in queue \/ run[t] = "waiting"

(* The safety invariants together, as CaptureRunnerProofs.tla proves them.  *)
RunnerSafety ==
  /\ SlotOwnership
  /\ SessionIsLive
  /\ QueuedWillRun
  /\ DispatchedOnce
  /\ JoiningHasRunner
  /\ CancelledIsPending

(***************************************************************************)
(* Refinement.  A task is active while its _run_one holds a slot.  A task  *)
(* that was deleted while queued is over at once, though its id is still   *)
(* in the queue or its coroutine still waits for a slot.                   *)
(***************************************************************************)
PoolPhase ==
  [t \in Tasks |-> IF run[t] \in Holding THEN "active"
                   ELSE IF status[t] = "queued" THEN "pending"
                   ELSE IF status[t] = "none" THEN "new" ELSE "over"]

Pool == INSTANCE WorkerPool WITH Workers <- Cardinality(Slots), phase <- PoolPhase

(* The runner implements the worker pool: whatever the interleaving of     *)
(* deletes, aborts, failures and restarts, at most WORKERS captures run, a *)
(* task is captured at most once, one deleted while queued never is, and   *)
(* a restart keeps the queued tasks and repeats none that had begun.       *)
RunnerImplementsPool == Pool!PoolSpec
==============================================================================
