------------------------- MODULE CaptureManagerProofs -------------------------
(***************************************************************************)
(* Proofs about CaptureManager.tla, with every request, timeout, failure   *)
(* and restart switched on or off: the manager uses the runner as          *)
(* CaptureRunner.tla lets its environment, and what it promises of the     *)
(* coroutines that work on one task at the same time.                      *)
(***************************************************************************)
EXTENDS CaptureManager, CaptureRunnerProofs

(* The manager's own variables have their types.                           *)
FilesTypeOK ==
  /\ pcm \in [Tasks -> {"none", "some"}]
  /\ mp3 \in [Tasks -> {"none", "partial", "full"} \cup Writers]
  /\ part \in [Tasks -> {"none"} \cup Writers]
  /\ job \in [Tasks -> [Writers -> JobState]]
  /\ append \in [Tasks -> SUBSET {"spool", "drain"}]
  /\ at \in [Tasks -> [Roles -> Place]]
  /\ loop \in [Loops -> [phase : Phase, todo : SUBSET Tasks]]

AbortPlaces == {"abort_ok", "abort_err"}
Admitted(t) == status[t] \notin {"none", "queued"}

(* Nobody works on a task whose row is new or still queued.                *)
BusyIsAdmitted(t) == \A r \in Roles : at[t][r] # "idle" => Admitted(t)

(* A _finalize, or a row that may still get one, belongs to a capture whose *)
(* join is over, so no on_joined can come after it.                        *)
JoinIsOver(t) ==
  status[t] = "capturing" \/ at[t]["finalize"] # "idle" => run[t] \in {"capture", "closing", "done"}

(* A row that has a _finalize has left capturing.                          *)
FinalizeIsOnce(t) == at[t]["finalize"] # "idle" => status[t] # "capturing"

(* Until the driver is up there is no browser for an abort to close.       *)
LaunchIsBare(t) == run[t] = "launch" => browser[t] = "none"

(* AbortHasOwner without the cardinality.                                  *)
OneAborter(t) ==
  /\ Aborting(t) <=> \E r \in Roles : at[t][r] \in AbortPlaces
  /\ \A r, s \in Roles : at[t][r] \in AbortPlaces /\ at[t][s] \in AbortPlaces => r = s

EndedIsGone(t) == status[t] \in {"error", "canceled"} => t \notin sessions

TaskInv(t) ==
  /\ BusyIsAdmitted(t)
  /\ JoinIsOver(t)
  /\ FinalizeIsOnce(t)
  /\ LaunchIsBare(t)
  /\ OneAborter(t)
  /\ EndedIsGone(t)

(* A loop lists rows that were admitted, and no row becomes new again.     *)
ListedIsAdmitted == \A l \in Loops : \A t \in loop[l].todo : Admitted(t)

ManagerInv ==
  /\ Inv
  /\ FilesTypeOK
  /\ ListedIsAdmitted
  /\ \A t \in Tasks : TaskInv(t)

-----------------------------------------------------------------------------
(***************************************************************************)
(* The frame of a step that is about one task.                             *)
(***************************************************************************)

(* Nothing that TaskInv(u) speaks of is changed.                           *)
Kept(u) ==
  /\ status'[u] = status[u] /\ run'[u] = run[u] /\ browser'[u] = browser[u]
  /\ u \in sessions' <=> u \in sessions
  /\ at'[u] = at[u]

StepOn(t) ==
  /\ [Next]_allRunnerVars
  /\ FilesTypeOK'
  /\ \A l \in Loops : loop'[l].todo \subseteq loop[l].todo
  /\ TaskInv(t)'
  /\ \A u \in Tasks \ {t} : Kept(u)

(* No step of the runner makes a row new or queued again.                  *)
LEMMA AdmittedForEver ==
  ASSUME Inv, [Next]_allRunnerVars, NEW u \in Tasks, Admitted(u)
  PROVE  Admitted(u)'
<1> USE DEF Inv, TypeOK, StoreTypeOK, Admitted
<1>1. CASE UNCHANGED allRunnerVars
  BY <1>1 DEF allRunnerVars, storeVars
<1>2. ASSUME NEW t \in Tasks, Submit(t) \/ DeleteQueued(t)
      PROVE  status'[u] \notin {"none", "queued"}
  BY <1>2 DEF Submit, Create, DeleteQueued, MarkCanceled
<1>3. ASSUME NEW t \in Tasks, RunStep(t)
      PROVE  status'[u] \notin {"none", "queued"}
  BY <1>3 DEF RunStep, Dispatch, SkipTask, StartCapture, OpenBrowser, JoinSeen, Joined, JoinFails,
              CaptureEnds, CloseReturns, MarkError, UpdateStatus, storeVars
<1>4. ASSUME NEW t \in Tasks, EngineCall(t)
      PROVE  status'[u] \notin {"none", "queued"}
  BY <1>4, EngineCallRows DEF RowEffect
<1>5. CASE ManagerPurges
  BY <1>5 DEF ManagerPurges, PurgeExpired
<1>6. ASSUME NEW intact \in SUBSET Tasks, CrashRestart(intact)
      PROVE  status'[u] \notin {"none", "queued"}
  BY <1>6 DEF CrashRestart
<1> QED
  BY <1>1, <1>2, <1>3, <1>4, <1>5, <1>6 DEF Next

(* A task that a step leaves alone keeps its invariant.                    *)
LEMMA KeptInv ==
  ASSUME NEW u \in Tasks, TaskInv(u), Kept(u)
  PROVE  TaskInv(u)'
BY DEF Kept, TaskInv, BusyIsAdmitted, Admitted, JoinIsOver, FinalizeIsOnce, LaunchIsBare,
       OneAborter, Aborting, EndedIsGone

(* So a step about one task has to be shown to keep that task's invariant. *)
LEMMA StepOnInv ==
  ASSUME ManagerInv, NEW t \in Tasks, StepOn(t)
  PROVE  ManagerInv'
<1>1. Inv'
  BY NextInv DEF ManagerInv, StepOn
<1>2. FilesTypeOK'
  BY DEF StepOn
<1>3. ListedIsAdmitted'
  <2>1. SUFFICES ASSUME NEW l \in Loops, NEW u \in loop'[l].todo
                 PROVE  Admitted(u)'
    BY DEF ListedIsAdmitted
  <2>2. u \in loop[l].todo /\ Admitted(u)
    BY <2>1 DEF StepOn, ManagerInv, ListedIsAdmitted
  <2>3. u \in Tasks
    BY <2>2 DEF ManagerInv, FilesTypeOK
  <2> QED
    BY <2>2, <2>3, AdmittedForEver DEF ManagerInv, StepOn
<1>4. ASSUME NEW u \in Tasks
      PROVE  TaskInv(u)'
  BY KeptInv DEF ManagerInv, StepOn
<1> QED
  BY <1>1, <1>2, <1>3, <1>4 DEF ManagerInv

-----------------------------------------------------------------------------
(***************************************************************************)
(* Threads, and steps that move no coroutine.                              *)
(***************************************************************************)

(* A step of a thread is invisible to the runner.                          *)
LEMMA FilesStepInv ==
  ASSUME ManagerInv, UNCHANGED <<allRunnerVars, at, loop>>, FilesTypeOK'
  PROVE  ManagerInv'
<1>1. Inv'
  BY StutterInv DEF ManagerInv
<1>2. ASSUME NEW u \in Tasks
      PROVE  TaskInv(u)'
  BY KeptInv DEF ManagerInv, Kept, allRunnerVars, storeVars, runnerVars
<1>3. ListedIsAdmitted'
  BY DEF ManagerInv, ListedIsAdmitted, Admitted, allRunnerVars, storeVars
<1> QED
  BY <1>1, <1>2, <1>3 DEF ManagerInv

(* The job of one writer is set, whoever waits for it.                     *)
LEMMA JobIsTyped ==
  ASSUME FilesTypeOK, NEW t \in Tasks, NEW w \in Writers, NEW state \in JobState,
         SetJob(t, w, state) \/ Return(t, w, state)
  PROVE  job' \in [Tasks -> [Writers -> JobState]]
<1>1. PICK s \in JobState : job' = [job EXCEPT ![t][w] = s]
  BY DEF SetJob, Return, JobState
<1> QED
  BY <1>1 DEF FilesTypeOK

LEMMA WriterStepInv ==
  ASSUME ManagerInv, NEW t \in Tasks, NEW w \in Writers, WriterStep(t, w)
  PROVE  ManagerInv'
<1>1. PICK state \in JobState : SetJob(t, w, state) \/ Return(t, w, state)
  BY DEF WriterStep, EncodeBegins, EncodeFinishes, EncodeFails, JobState
<1>2. job' \in [Tasks -> [Writers -> JobState]]
  BY <1>1, JobIsTyped DEF ManagerInv
<1>3. part' \in [Tasks -> {"none"} \cup Writers]
  BY DEF WriterStep, EncodeBegins, EncodeFinishes, EncodeFails, ManagerInv, FilesTypeOK
<1>4. mp3' \in [Tasks -> {"none", "partial", "full"} \cup Writers]
  <2>1. part[t] \in {"none"} \cup Writers
    BY DEF ManagerInv, FilesTypeOK
  <2>2. PICK m \in {"none", "partial", "full"} \cup Writers :
          mp3' = mp3 \/ mp3' = [mp3 EXCEPT ![t] = m]
    BY <2>1 DEF WriterStep, EncodeBegins, EncodeFinishes, EncodeFails
  <2> QED
    BY <2>2 DEF ManagerInv, FilesTypeOK
<1>5. UNCHANGED <<allRunnerVars, pcm, append, at, loop>>
  BY DEF WriterStep, EncodeBegins, EncodeFinishes, EncodeFails
<1>6. FilesTypeOK'
  BY <1>2, <1>3, <1>4, <1>5 DEF ManagerInv, FilesTypeOK
<1> QED
  BY <1>5, <1>6, FilesStepInv

LEMMA ProbeInv ==
  ASSUME ManagerInv, NEW t \in Tasks, NEW r \in Recoverers, Probe(t, r)
  PROVE  ManagerInv'
<1>1. PICK state \in JobState : SetJob(t, r, state)
  BY DEF Probe, JobState
<1>2. job' \in [Tasks -> [Writers -> JobState]]
  BY <1>1, JobIsTyped DEF ManagerInv, Writers
<1>3. UNCHANGED <<allRunnerVars, fileVars, append, at, loop>>
  BY DEF Probe
<1>4. FilesTypeOK'
  BY <1>2, <1>3 DEF ManagerInv, FilesTypeOK, fileVars
<1> QED
  BY <1>3, <1>4, FilesStepInv

LEMMA AppendInv ==
  ASSUME ManagerInv, NEW t \in Tasks, AppendLands(t) \/ Spool(t)
  PROVE  ManagerInv'
<1>1. CASE AppendLands(t)
  BY <1>1, FilesStepInv DEF ManagerInv, FilesTypeOK, AppendLands
<1>2. CASE Spool(t)
  BY <1>2, FilesStepInv DEF ManagerInv, FilesTypeOK, Spool, fileVars
<1> QED
  BY <1>1, <1>2

LEMMA ThreadStepInv ==
  ASSUME ManagerInv, NEW t \in Tasks, ThreadStep(t)
  PROVE  ManagerInv'
BY WriterStepInv, ProbeInv, AppendInv DEF ThreadStep

(* The steps of a loop that only look at its list.                         *)
LEMMA LoopLooksInv ==
  ASSUME ManagerInv, UNCHANGED <<allRunnerVars, at>>, FilesTypeOK',
         \A l \in Loops : \A u \in loop'[l].todo : u \in loop[l].todo \/ Admitted(u)
  PROVE  ManagerInv'
<1>1. Inv'
  BY StutterInv DEF ManagerInv
<1>2. ASSUME NEW u \in Tasks
      PROVE  TaskInv(u)'
  BY KeptInv DEF ManagerInv, Kept, allRunnerVars, storeVars, runnerVars
<1>3. ListedIsAdmitted'
  BY DEF ManagerInv, ListedIsAdmitted, Admitted, allRunnerVars, storeVars
<1> QED
  BY <1>1, <1>2, <1>3 DEF ManagerInv

LEMMA LoopAdvancesInv ==
  ASSUME ManagerInv, TtlWakes \/ \E l \in Loops : LoopAdvances(l)
  PROVE  ManagerInv'
<1> USE DEF ManagerInv, FilesTypeOK, Phase, Enter, Listed, Admitted, fileVars, threadVars
<1>1. CASE TtlWakes
  BY <1>1, LoopLooksInv DEF TtlWakes, Loops
<1>2. ASSUME NEW l \in Loops, LoopAdvances(l)
      PROVE  ManagerInv'
  <2>1. PICK phase \in Phase, todo \in SUBSET Tasks :
          Enter(l, phase, todo) /\ \A t \in todo : Admitted(t)
    BY <1>2 DEF LoopAdvances
  <2>2. FilesTypeOK'
    BY <1>2, <2>1 DEF LoopAdvances
  <2>3. \A k \in Loops : \A u \in loop'[k].todo : u \in loop[k].todo \/ Admitted(u)
    BY <2>1
  <2> QED
    BY <1>2, <2>2, <2>3, LoopLooksInv DEF LoopAdvances
<1> QED
  BY <1>1, <1>2

LEMMA NudgeWaitsInv ==
  ASSUME ManagerInv, NEW t \in Tasks, NudgeWaits(t)
  PROVE  ManagerInv'
BY LoopLooksInv DEF ManagerInv, FilesTypeOK, NudgeWaits, NudgeVisits, Handled, Loops, fileVars,
                    threadVars

-----------------------------------------------------------------------------
(***************************************************************************)
(* What the manager does with the engine and the rows on behalf of a task. *)
(***************************************************************************)
StepOK == [Next]_allRunnerVars /\ ManagerInv'

RunnerCall(t) ==
  \/ AbortAtOnce(t)
  \/ AbortBegins(t)
  \/ AbortReturns(t)
  \/ AbortIsLost(t)
  \/ AbortCancelsItself(t)
  \/ StopBegins(t)
  \/ StopReturns(t)
  \/ UNCHANGED runnerVars

RowWrite(t) ==
  \/ UpdateStatus(t, "finalizing")
  \/ MarkError(t)
  \/ MarkCanceled(t)
  \/ \E size \in Size : MarkSuccess(t, size)
  \/ UNCHANGED storeVars

(* A call changes no coroutine, no session but its own, and opens nothing. *)
LEMMA CallFrame ==
  ASSUME ManagerInv, NEW t \in Tasks, RunnerCall(t)
  PROVE  /\ run' = run
         /\ sessions' \subseteq sessions
         /\ \A u \in Tasks \ {t} : /\ browser'[u] = browser[u]
                                   /\ u \in sessions' <=> u \in sessions
         /\ LaunchIsBare(t)'
<1> USE DEF ManagerInv, Inv, TypeOK, RunnerSafety, SessionIsLive, TaskInv, LaunchIsBare
<1>1. CASE AbortAtOnce(t) \/ AbortBegins(t) \/ AbortCancelsItself(t)
  BY <1>1 DEF AbortAtOnce, AbortBegins, AbortCancelsItself
<1>2. CASE AbortReturns(t) \/ AbortIsLost(t)
  BY <1>2 DEF AbortReturns, AbortIsLost, Aborting
<1>3. CASE StopBegins(t) \/ StopReturns(t) \/ UNCHANGED runnerVars
  BY <1>3 DEF StopBegins, StopReturns, runnerVars
<1> QED
  BY <1>1, <1>2, <1>3 DEF RunnerCall

(* A write to the row of an admitted task is one the runner expects, and   *)
(* none at all when the row has been purged.                               *)
LEMMA RowFrame ==
  ASSUME ManagerInv, NEW t \in Tasks, Admitted(t), RowWrite(t)
  PROVE  /\ ManagerWrites(t) \/ UNCHANGED storeVars
         /\ \A u \in Tasks \ {t} : status'[u] = status[u]
         /\ Admitted(t)'
         /\ status'[t] = "capturing" => status[t] = "capturing"
<1> USE DEF ManagerInv, Inv, TypeOK, StoreTypeOK, Admitted, HasRow, storeVars
<1>1. CASE status[t] = "purged"
  BY <1>1 DEF RowWrite, UpdateStatus, MarkError, MarkCanceled, MarkSuccess
<1>2. CASE status[t] # "purged"
  <2>1. CASE UNCHANGED storeVars
    BY <2>1
  <2>2. CASE UpdateStatus(t, "finalizing")
    BY <1>2, <2>2 DEF ManagerWrites, UpdateStatus
  <2>3. CASE MarkError(t)
    BY <1>2, <2>3 DEF ManagerWrites, MarkError, UpdateStatus
  <2>4. CASE MarkCanceled(t)
    BY <1>2, <2>4 DEF ManagerWrites, MarkCanceled
  <2>5. CASE \E size \in Size : MarkSuccess(t, size)
    BY <1>2, <2>5 DEF ManagerWrites, MarkSuccess
  <2> QED
    BY <2>1, <2>2, <2>3, <2>4, <2>5 DEF RowWrite
<1> QED
  BY <1>1, <1>2

(* Roles of one task move, with a call and a write for it.                 *)
MovesOn(t) ==
  /\ FilesTypeOK'
  /\ \A l \in Loops : loop'[l].todo \subseteq loop[l].todo
  /\ \A u \in Tasks \ {t} : at'[u] = at[u]
  /\ at'[t]["finalize"] # "idle" =>
        \/ at[t]["finalize"] # "idle"
        \/ status[t] = "capturing" /\ status'[t] # "capturing"
  /\ OneAborter(t)'
  /\ EndedIsGone(t)'

(* Every step of a coroutine of the manager is of this form.               *)
LEMMA CallStep ==
  ASSUME ManagerInv, NEW t \in Tasks, Admitted(t), RunnerCall(t), RowWrite(t), MovesOn(t)
  PROVE  StepOK
<1>1. Next
  BY RowFrame DEF Next, EngineCall, RunnerCall
<1>2. TaskInv(t)
  BY DEF ManagerInv
<1>3. BusyIsAdmitted(t)'
  BY RowFrame DEF BusyIsAdmitted
<1>4. JoinIsOver(t)' /\ FinalizeIsOnce(t)'
  BY <1>2, RowFrame, CallFrame DEF TaskInv, JoinIsOver, FinalizeIsOnce, MovesOn
<1>5. TaskInv(t)'
  BY <1>3, <1>4, CallFrame DEF TaskInv, MovesOn
<1>6. \A u \in Tasks \ {t} : Kept(u)
  BY CallFrame, RowFrame DEF Kept, MovesOn
<1>7. StepOn(t)
  BY <1>1, <1>5, <1>6 DEF StepOn, MovesOn
<1> QED
  BY <1>1, <1>7, StepOnInv DEF StepOK

-----------------------------------------------------------------------------
(* The owner of an abort.  It begins while nobody awaits one.              *)
LEMMA AbortStarts ==
  ASSUME ManagerInv, NEW t \in Tasks, AbortBegins(t), NEW r \in Roles,
         at'[t][r] \in AbortPlaces,
         \A s \in Roles \ {r} : at'[t][s] \in AbortPlaces => at[t][s] \in AbortPlaces
  PROVE  OneAborter(t)'
<1>1. ~Aborting(t)
  BY DEF AbortBegins, Aborting
<1>2. run[t] \notin {"closing", "failing"}
  BY DEF AbortBegins, ManagerInv, Inv, RunnerSafety, SessionIsLive, InEngine, Joining
<1>3. Aborting(t)'
  BY <1>2 DEF AbortBegins, Aborting, ManagerInv, Inv, TypeOK
<1>4. \A s \in Roles : at[t][s] \notin AbortPlaces
  BY <1>1 DEF ManagerInv, TaskInv, OneAborter
<1> QED
  BY <1>3, <1>4 DEF OneAborter

(* It ends when its owner leaves, with or without an end of the close.     *)
LEMMA AbortStops ==
  ASSUME ManagerInv, NEW t \in Tasks, AbortReturns(t) \/ AbortIsLost(t), NEW r \in Roles,
         at[t][r] \in AbortPlaces,
         at'[t][r] \notin AbortPlaces,
         \A s \in Roles \ {r} : at'[t][s] \in AbortPlaces => at[t][s] \in AbortPlaces
  PROVE  OneAborter(t)'
<1>1. ~Aborting(t)'
  BY DEF AbortReturns, AbortIsLost, Aborting, ManagerInv, Inv, TypeOK
<1>2. \A s \in Roles : at'[t][s] \notin AbortPlaces
  BY DEF ManagerInv, TaskInv, OneAborter
<1> QED
  BY <1>1, <1>2 DEF OneAborter

(* Other calls leave the owner where he is.                                *)
LEMMA AbortGoesOn ==
  ASSUME ManagerInv, NEW t \in Tasks,
         AbortAtOnce(t) \/ StopBegins(t) \/ StopReturns(t) \/ UNCHANGED runnerVars,
         \A s \in Roles : at'[t][s] \in AbortPlaces <=> at[t][s] \in AbortPlaces
  PROVE  OneAborter(t)'
<1>1. Aborting(t)' <=> Aborting(t)
  BY DEF AbortAtOnce, StopBegins, StopReturns, runnerVars, Aborting
<1> QED
  BY <1>1 DEF ManagerInv, TaskInv, OneAborter

(* Where an abort was awaited, the engine's session is gone.               *)
LEMMA AbortedIsGone ==
  ASSUME ManagerInv, NEW t \in Tasks, Aborting(t)
  PROVE  t \notin sessions
BY DEF ManagerInv, Inv, RunnerSafety, SessionIsLive, Aborting

-----------------------------------------------------------------------------
(***************************************************************************)
(* Recovery.                                                               *)
(***************************************************************************)
NextPlaces == {"failed", "artifact", "artifact2", "encode", "check"}

(* A row that is not written and a session that does not come back.        *)
LEMMA EndedStays ==
  ASSUME ManagerInv, NEW t \in Tasks, sessions' \subseteq sessions, UNCHANGED storeVars
  PROVE  EndedIsGone(t)'
BY DEF ManagerInv, TaskInv, EndedIsGone, storeVars

(* Where MoveTo takes the role r.                                          *)
Moved(t, r, place) == IF place = "failed" THEN AbortPlace(t, r, FALSE) ELSE place

LEMMA MoveToFrame ==
  ASSUME FilesTypeOK, NEW t \in Tasks, NEW r \in Recoverers, NEW place \in Place \cup {"failed"},
         NEW a \in [Roles -> Place], NEW j \in [Writers -> JobState], MoveTo(t, r, place, a, j)
  PROVE  /\ at' \in [Tasks -> [Roles -> Place]]
         /\ job' \in [Tasks -> [Writers -> JobState]]
         /\ \A u \in Tasks \ {t} : at'[u] = at[u]
         /\ \A s \in Roles \ {r} : at'[t][s] = a[s]
         /\ at'[t][r] = Moved(t, r, place)
<1> DEFINE next == Moved(t, r, place)
           state == CASE place = "failed" -> "none"
                      [] place = "encode" -> "submitted"
                      [] OTHER -> "probing"
<1>1. next \in Place
  BY DEF Moved, AbortPlace, Place
<1>2. state \in JobState
  BY DEF JobState
<1>3. at' = [at EXCEPT ![t] = [a EXCEPT ![r] = next]]
  BY DEF MoveTo, Moved
<1>4. job' = [job EXCEPT ![t] = [j EXCEPT ![r] = state]]
  BY DEF MoveTo
<1>5. r \in Roles /\ r \in Writers
  BY DEF Roles, Writers
<1> HIDE DEF next, state
<1>6. /\ at' \in [Tasks -> [Roles -> Place]]
      /\ \A u \in Tasks \ {t} : at'[u] = at[u]
      /\ \A s \in Roles \ {r} : at'[t][s] = a[s]
      /\ at'[t][r] = next
  BY <1>1, <1>3, <1>5 DEF FilesTypeOK
<1>7. job' \in [Tasks -> [Writers -> JobState]]
  BY <1>2, <1>4, <1>5 DEF FilesTypeOK
<1> QED
  BY <1>6, <1>7 DEF next

(* The abort that ends a failed recovery, or the wait for it, belongs to   *)
(* the role that recovered.                                                *)
LEMMA FailureAborts ==
  ASSUME ManagerInv, NEW t \in Tasks, NEW r \in Recoverers, NEW recovered \in BOOLEAN,
         AbortIfAfterFailure(t, r),
         at[t][r] \notin AbortPlaces,
         at'[t][r] = AbortPlace(t, r, recovered),
         \A s \in Roles \ {r} : at'[t][s] = at[t][s]
  PROVE  /\ RunnerCall(t)
         /\ OneAborter(t)'
         /\ AfterFailure(r) => t \notin sessions'
<1>1. r \in Roles
  BY DEF Roles
<1>2. CASE AfterFailure(r) /\ MustAwaitClose(t)
  <2>1. AbortBegins(t)
    BY <1>2 DEF AbortIfAfterFailure, CallAbort, MustAwaitClose, AbortAtOnce
  <2>2. at'[t][r] \in AbortPlaces
    BY <1>2 DEF AbortPlace, AbortPlaces
  <2>3. OneAborter(t)'
    BY <1>1, <2>1, <2>2, AbortStarts
  <2> QED
    BY <2>1, <2>3 DEF RunnerCall, AbortBegins
<1>3. CASE ~(AfterFailure(r) /\ MustAwaitClose(t))
  <2>1. at'[t][r] = "idle"
    BY <1>3 DEF AbortPlace
  <2>2. AbortAtOnce(t) \/ UNCHANGED runnerVars
    BY <1>3 DEF AbortIfAfterFailure, CallAbort, MustAwaitClose, AbortBegins
  <2>3. OneAborter(t)'
    BY <1>1, <2>1, <2>2, AbortGoesOn DEF AbortPlaces
  <2>4. AfterFailure(r) => t \notin sessions'
    BY <1>3, <2>2 DEF AbortIfAfterFailure, CallAbort, AbortAtOnce, runnerVars, AbortBegins,
                      MustAwaitClose
  <2> QED
    BY <2>2, <2>3, <2>4 DEF RunnerCall
<1> QED
  BY <1>2, <1>3

(* A recovery goes on to its next await, or gives up.                      *)
LEMMA ProceedStep ==
  ASSUME ManagerInv, NEW t \in Tasks, NEW r \in Recoverers, NEW place \in NextPlaces,
         NEW j \in [Writers -> JobState], Admitted(t),
         r = "finalize" => at[t]["finalize"] # "idle",
         at[t][r] \notin AbortPlaces,
         Proceed(t, r, place, j),
         pcm' \in [Tasks -> {"none", "some"}], UNCHANGED <<mp3, part, append>>,
         loop' \in [Loops -> [phase : Phase, todo : SUBSET Tasks]],
         \A l \in Loops : loop'[l].todo \subseteq loop[l].todo
  PROVE  StepOK
<1>1. r \in Roles /\ at[t] \in [Roles -> Place] /\ place \in Place \cup {"failed"}
  BY DEF ManagerInv, FilesTypeOK, Roles, NextPlaces, Place
<1>2. MoveTo(t, r, place, at[t], j)
  BY DEF Proceed
<1>3. /\ at' \in [Tasks -> [Roles -> Place]]
      /\ job' \in [Tasks -> [Writers -> JobState]]
      /\ \A u \in Tasks \ {t} : at'[u] = at[u]
      /\ \A s \in Roles \ {r} : at'[t][s] = at[t][s]
      /\ at'[t][r] = IF place = "failed" THEN AbortPlace(t, r, FALSE) ELSE place
  <2>1. FilesTypeOK
    BY DEF ManagerInv
  <2>2. /\ at' \in [Tasks -> [Roles -> Place]]
        /\ job' \in [Tasks -> [Writers -> JobState]]
        /\ \A u \in Tasks \ {t} : at'[u] = at[u]
        /\ \A s \in Roles \ {r} : at'[t][s] = at[t][s]
        /\ at'[t][r] = Moved(t, r, place)
    BY <1>1, <1>2, <2>1, MoveToFrame
  <2> QED
    BY <2>2 DEF Moved
<1>4. FilesTypeOK'
  BY <1>3 DEF ManagerInv, FilesTypeOK
<1>5. at'[t]["finalize"] # "idle" => at[t]["finalize"] # "idle"
  BY <1>3 DEF Roles, Recoverers
<1>6. CASE place = "failed"
  <2>1. AbortIfAfterFailure(t, r) /\ at'[t][r] = AbortPlace(t, r, FALSE)
    BY <1>3, <1>6 DEF Proceed
  <2>2. RunnerCall(t) /\ OneAborter(t)' /\ (AfterFailure(r) => t \notin sessions')
    BY <1>3, <2>1, FailureAborts
  <2>3. (MarkError(t) /\ r = "finalize") \/ UNCHANGED storeVars
    BY <1>6 DEF Proceed
  <2>4. EndedIsGone(t)'
    BY <2>2, <2>3, CallFrame, EndedStays DEF AfterFailure, EndedIsGone
  <2>5. RowWrite(t)
    BY <2>3 DEF RowWrite
  <2> QED
    BY <1>3, <1>4, <1>5, <2>2, <2>4, <2>5, CallStep DEF MovesOn
<1>7. CASE place # "failed"
  <2>1. UNCHANGED runnerVars /\ UNCHANGED storeVars
    BY <1>7 DEF Proceed
  <2>2. at'[t][r] \notin AbortPlaces
    BY <1>3, <1>7 DEF NextPlaces, AbortPlaces
  <2>3. OneAborter(t)'
    BY <1>1, <1>3, <2>1, <2>2, AbortGoesOn
  <2>4. EndedIsGone(t)'
    BY <2>1, EndedStays DEF runnerVars
  <2>5. RunnerCall(t) /\ RowWrite(t)
    BY <2>1 DEF RunnerCall, RowWrite
  <2> QED
    BY <1>3, <1>4, <1>5, <2>3, <2>4, <2>5, CallStep DEF MovesOn
<1> QED
  BY <1>6, <1>7

(* The await that a recovery reaches first.                                *)
LEMMA ArtifactPlaceIsNext ==
  ASSUME NEW t \in Tasks
  PROVE  ArtifactPlace(t) \in NextPlaces /\ PcmPlace(t) \in NextPlaces
BY DEF ArtifactPlace, PcmPlace, NextPlaces

(* A role that works on a task has found it admitted.                      *)
LEMMA BusyTask ==
  ASSUME ManagerInv, NEW t \in Tasks, NEW r \in Roles, at[t][r] # "idle"
  PROVE  Admitted(t)
BY DEF ManagerInv, TaskInv, BusyIsAdmitted

LEMMA AcceptedStep ==
  ASSUME ManagerInv, NEW t \in Tasks, NEW r \in Recoverers, Accepted(t, r)
  PROVE  StepOK
<1>1. r \in Roles /\ r \in Writers
  BY DEF Roles, Writers
<1>2. at[t][r] \notin AbortPlaces /\ at[t][r] # "idle"
  BY DEF Accepted, AbortPlaces
<1>3. Admitted(t)
  BY <1>1, <1>2, BusyTask
<1>4. AbortPlace(t, r, TRUE) \in Place
  BY DEF AbortPlace, Place
<1>5. /\ at' \in [Tasks -> [Roles -> Place]]
      /\ \A u \in Tasks \ {t} : at'[u] = at[u]
      /\ \A s \in Roles \ {r} : at'[t][s] = at[t][s]
      /\ at'[t][r] = AbortPlace(t, r, TRUE)
  BY <1>1, <1>4 DEF Accepted, Goto, ManagerInv, FilesTypeOK
<1>6. FilesTypeOK'
  <2>1. job' \in [Tasks -> [Writers -> JobState]]
    BY <1>1, JobIsTyped DEF Accepted, ManagerInv, JobState
  <2> QED
    BY <1>5, <2>1 DEF Accepted, ManagerInv, FilesTypeOK, fileVars
<1>7. RunnerCall(t) /\ OneAborter(t)'
  BY <1>2, <1>5, FailureAborts DEF Accepted
<1>8. \E size \in Size : MarkSuccess(t, size)
  BY DEF Accepted, Size
<1>9. EndedIsGone(t)'
  <2>1. sessions' \subseteq sessions
    BY <1>7, CallFrame
  <2>2. status'[t] = "success" \/ status'[t] = status[t]
    BY <1>8 DEF MarkSuccess, ManagerInv, Inv, TypeOK, StoreTypeOK
  <2> QED
    BY <2>1, <2>2 DEF ManagerInv, TaskInv, EndedIsGone
<1>10. at'[t]["finalize"] # "idle" => at[t]["finalize"] # "idle"
  BY <1>2, <1>5 DEF Roles, Recoverers
<1>11. MovesOn(t)
  BY <1>5, <1>6, <1>7, <1>9, <1>10 DEF MovesOn, Accepted
<1> QED
  BY <1>3, <1>7, <1>8, <1>11, CallStep DEF RowWrite

LEMMA RejectedStep ==
  ASSUME ManagerInv, NEW t \in Tasks, NEW r \in Recoverers, Rejected(t, r)
  PROVE  StepOK
<1>1. r \in Roles /\ at[t][r] # "idle" /\ at[t][r] \notin AbortPlaces
  BY DEF Rejected, Roles, AbortPlaces
<1>2. Admitted(t)
  BY <1>1, BusyTask
<1>3. job[t] \in [Writers -> JobState]
  BY DEF ManagerInv, FilesTypeOK
<1>4. PICK place \in NextPlaces : Proceed(t, r, place, job[t])
  BY ArtifactPlaceIsNext DEF Rejected, NextPlaces
<1>5. UNCHANGED <<pcm, mp3, part, append, loop>>
  BY DEF Rejected, fileVars
<1>6. /\ pcm' \in [Tasks -> {"none", "some"}]
      /\ loop' \in [Loops -> [phase : Phase, todo : SUBSET Tasks]]
  BY <1>5 DEF ManagerInv, FilesTypeOK
<1> QED
  BY <1>1, <1>2, <1>3, <1>4, <1>5, <1>6, ProceedStep

LEMMA ConvertedStep ==
  ASSUME ManagerInv, NEW t \in Tasks, NEW r \in Recoverers, Converted(t, r)
  PROVE  StepOK
<1>1. r \in Roles /\ at[t][r] # "idle" /\ at[t][r] \notin AbortPlaces
  BY DEF Converted, Roles, AbortPlaces
<1>2. Admitted(t)
  BY <1>1, BusyTask
<1>3. job[t] \in [Writers -> JobState]
  BY DEF ManagerInv, FilesTypeOK
<1>4. PICK place \in NextPlaces : Proceed(t, r, place, job[t])
  BY DEF Converted, NextPlaces
<1>5. pcm' \in [Tasks -> {"none", "some"}] /\ UNCHANGED <<mp3, part, append, loop>>
  BY DEF Converted, ManagerInv, FilesTypeOK
<1>6. loop' \in [Loops -> [phase : Phase, todo : SUBSET Tasks]]
  BY <1>5 DEF ManagerInv, FilesTypeOK
<1> QED
  BY <1>1, <1>2, <1>3, <1>4, <1>5, <1>6, ProceedStep

(* A coroutine that ends without having called the engine.                 *)
LEMMA PartFileGoneStep ==
  ASSUME ManagerInv, NEW t \in Tasks, NEW r \in Recoverers, PartFileGone(t, r)
  PROVE  StepOK
<1>1. r \in Roles /\ r \in Writers /\ at[t][r] = "encode"
  BY DEF PartFileGone, Roles, Writers
<1>2. Admitted(t)
  BY <1>1, BusyTask
<1>3. /\ at' \in [Tasks -> [Roles -> Place]]
      /\ \A u \in Tasks \ {t} : at'[u] = at[u]
      /\ \A s \in Roles \ {r} : at'[t][s] = at[t][s]
      /\ at'[t][r] = "idle"
  BY <1>1 DEF PartFileGone, Goto, ManagerInv, FilesTypeOK, Place
<1>4. /\ loop' \in [Loops -> [phase : Phase, todo : SUBSET Tasks]]
      /\ \A l \in Loops : loop'[l].todo \subseteq loop[l].todo
  <2> DEFINE entry == [phase |-> "purge", todo |-> {}]
  <2>1. loop' = loop \/ loop' = [loop EXCEPT !["ttl"] = entry]
    BY DEF PartFileGone
  <2>2. entry \in [phase : Phase, todo : SUBSET Tasks] /\ entry.todo = {}
    BY DEF Phase
  <2> HIDE DEF entry
  <2>3. loop' \in [Loops -> [phase : Phase, todo : SUBSET Tasks]]
    BY <2>1, <2>2 DEF ManagerInv, FilesTypeOK
  <2>4. \A l \in Loops : loop'[l] = loop[l] \/ loop'[l] = entry
    BY <2>1 DEF ManagerInv, FilesTypeOK
  <2> QED
    BY <2>2, <2>3, <2>4
<1>5. FilesTypeOK'
  <2>1. job' \in [Tasks -> [Writers -> JobState]]
    BY <1>1, JobIsTyped DEF PartFileGone, ManagerInv, JobState
  <2> QED
    BY <1>3, <1>4, <2>1 DEF PartFileGone, ManagerInv, FilesTypeOK, fileVars
<1>6. UNCHANGED runnerVars /\ UNCHANGED storeVars
  BY DEF PartFileGone, allRunnerVars
<1>7. OneAborter(t)'
  BY <1>1, <1>3, <1>6, AbortGoesOn DEF AbortPlaces
<1>8. EndedIsGone(t)'
  BY <1>6, EndedStays DEF runnerVars
<1>9. at'[t]["finalize"] # "idle" => at[t]["finalize"] # "idle"
  BY <1>1, <1>3 DEF Roles, Recoverers
<1>10. MovesOn(t)
  BY <1>3, <1>4, <1>5, <1>7, <1>8, <1>9 DEF MovesOn
<1> QED
  BY <1>2, <1>6, <1>10, CallStep DEF RunnerCall, RowWrite

LEMMA RecoveryStepOK ==
  ASSUME ManagerInv, NEW t \in Tasks, NEW r \in Recoverers, RecoveryStep(t, r)
  PROVE  StepOK
BY AcceptedStep, RejectedStep, ConvertedStep, PartFileGoneStep DEF RecoveryStep

(* The abort was its owner's, and nobody else awaits it.                   *)
LEMMA AbortDoneStep ==
  ASSUME ManagerInv, NEW t \in Tasks, NEW r \in Roles, AbortDone(t, r)
  PROVE  StepOK
<1>1. at[t][r] \in AbortPlaces /\ AbortReturns(t)
  BY DEF AbortDone, AbortPlaces
<1>2. Admitted(t)
  BY <1>1, BusyTask DEF AbortPlaces
<1>3. /\ at' \in [Tasks -> [Roles -> Place]]
      /\ \A u \in Tasks \ {t} : at'[u] = at[u]
      /\ \A s \in Roles \ {r} : at'[t][s] = at[t][s]
      /\ at'[t][r] = "idle"
  BY DEF AbortDone, Goto, ManagerInv, FilesTypeOK, Place
<1>4. FilesTypeOK'
  <2>1. /\ pcm' \in [Tasks -> {"none", "some"}]
        /\ mp3' \in [Tasks -> {"none", "partial", "full"} \cup Writers]
        /\ part' \in [Tasks -> {"none"} \cup Writers]
    <3>1. RemoveFiles(t) \/ UNCHANGED fileVars
      BY DEF AbortDone
    <3>2. CASE RemoveFiles(t)
      BY <3>2 DEF RemoveFiles, ManagerInv, FilesTypeOK
    <3>3. CASE UNCHANGED fileVars
      BY <3>3 DEF fileVars, ManagerInv, FilesTypeOK
    <3> QED
      BY <3>1, <3>2, <3>3
  <2> QED
    BY <1>3, <2>1 DEF AbortDone, ManagerInv, FilesTypeOK, threadVars
<1>5. OneAborter(t)'
  BY <1>1, <1>3, AbortStops DEF AbortPlaces
<1>6. EndedIsGone(t)'
  BY <1>1, AbortedIsGone DEF AbortReturns, EndedIsGone
<1>7. at'[t]["finalize"] # "idle" => at[t]["finalize"] # "idle"
  BY <1>3 DEF Roles, Recoverers
<1>8. MovesOn(t)
  BY <1>3, <1>4, <1>5, <1>6, <1>7 DEF MovesOn, AbortDone
<1>9. RowWrite(t)
  BY DEF AbortDone, RowWrite
<1> QED
  BY <1>1, <1>2, <1>8, <1>9, CallStep DEF RunnerCall

-----------------------------------------------------------------------------
(***************************************************************************)
(* _finalize and engine.stop.                                              *)
(***************************************************************************)
LEMMA GotoFrame ==
  ASSUME FilesTypeOK, NEW t \in Tasks, NEW r \in Roles, NEW place \in Place, Goto(t, r, place)
  PROVE  /\ at' \in [Tasks -> [Roles -> Place]]
         /\ \A u \in Tasks \ {t} : at'[u] = at[u]
         /\ \A s \in Roles \ {r} : at'[t][s] = at[t][s]
         /\ at'[t][r] = place
BY DEF FilesTypeOK, Goto

(* The threads of a coroutine that was cancelled go on, or are forgotten.  *)
LEMMA OrphanedIsTyped ==
  ASSUME NEW j \in [Writers -> JobState], NEW w \in Writers
  PROVE  Orphaned(j, w) \in [Writers -> JobState]
BY DEF Orphaned, JobState

LEMMA FinalizeFailedStep ==
  ASSUME ManagerInv, NEW t \in Tasks,
         at[t]["finalize"] # "idle", at[t]["finalize"] \notin AbortPlaces,
         FinalizeFailed(t), UNCHANGED <<fileVars, append, loop>>
  PROVE  StepOK
<1>1. Admitted(t)
  BY BusyTask DEF Roles, Recoverers
<1>2. Orphaned(job[t], "stop") \in [Writers -> JobState]
  BY OrphanedIsTyped DEF ManagerInv, FilesTypeOK, Writers
<1>3. "finalize" \in Recoverers /\ ArtifactPlace(t) \in NextPlaces
  BY ArtifactPlaceIsNext DEF Recoverers
<1>4. Proceed(t, "finalize", ArtifactPlace(t), Orphaned(job[t], "stop"))
  BY DEF FinalizeFailed
<1>5. UNCHANGED <<pcm, mp3, part, append, loop>>
  BY DEF fileVars
<1>6. /\ pcm' \in [Tasks -> {"none", "some"}]
      /\ loop' \in [Loops -> [phase : Phase, todo : SUBSET Tasks]]
  BY <1>5 DEF ManagerInv, FilesTypeOK
<1> QED
  BY <1>1, <1>2, <1>3, <1>4, <1>5, <1>6, ProceedStep

(* _finalize goes from one await to the next.                              *)
LEMMA FinalizeGoesOn ==
  ASSUME ManagerInv, NEW t \in Tasks,
         at[t]["finalize"] # "idle", at[t]["finalize"] \notin AbortPlaces,
         StopBegins(t) \/ StopReturns(t) \/ UNCHANGED runnerVars,
         UNCHANGED storeVars \/ \E size \in Size : MarkSuccess(t, size),
         NEW place \in Place \ AbortPlaces, Goto(t, "finalize", place),
         FilesTypeOK', UNCHANGED loop
  PROVE  StepOK
<1>1. "finalize" \in Roles
  BY DEF Roles, Recoverers
<1>2. Admitted(t)
  BY <1>1, BusyTask
<1>3. /\ \A u \in Tasks \ {t} : at'[u] = at[u]
      /\ \A s \in Roles \ {"finalize"} : at'[t][s] = at[t][s]
      /\ at'[t]["finalize"] = place
  BY <1>1, GotoFrame DEF ManagerInv
<1>4. OneAborter(t)'
  BY <1>1, <1>3, AbortGoesOn
<1>5. RunnerCall(t) /\ RowWrite(t)
  BY DEF RunnerCall, RowWrite
<1>6. EndedIsGone(t)'
  <2>1. sessions' \subseteq sessions
    BY <1>5, CallFrame
  <2>2. status'[t] \in {"success", status[t]}
    BY DEF storeVars, MarkSuccess, ManagerInv, Inv, TypeOK, StoreTypeOK
  <2> QED
    BY <2>1, <2>2 DEF ManagerInv, TaskInv, EndedIsGone
<1>7. MovesOn(t)
  BY <1>3, <1>4, <1>6 DEF MovesOn
<1> QED
  BY <1>2, <1>5, <1>7, CallStep

LEMMA FinalizeStartsStep ==
  ASSUME ManagerInv, NEW t \in Tasks, FinalizeStarts(t)
  PROVE  StepOK
<1>1. at[t]["finalize"] # "idle" /\ at[t]["finalize"] \notin AbortPlaces
  BY DEF FinalizeStarts, AbortPlaces
<1>2. UNCHANGED <<fileVars, append, loop>>
  BY DEF FinalizeStarts
<1>3. CASE FinalizeFailed(t)
  BY <1>1, <1>2, <1>3, FinalizeFailedStep
<1>4. CASE StopBegins(t) /\ Goto(t, "finalize", "drain") /\ UNCHANGED <<storeVars, job>>
  <2>1. "drain" \in Place \ AbortPlaces
    BY DEF Place, AbortPlaces
  <2>2. FilesTypeOK'
    BY <1>2, <1>4, <2>1, GotoFrame DEF ManagerInv, FilesTypeOK, fileVars, Roles, Recoverers
  <2> QED
    BY <1>1, <1>2, <1>4, <2>1, <2>2, FinalizeGoesOn
<1> QED
  BY <1>3, <1>4 DEF FinalizeStarts

LEMMA ConvertOrFailStep ==
  ASSUME ManagerInv, NEW t \in Tasks,
         at[t]["finalize"] # "idle", at[t]["finalize"] \notin AbortPlaces,
         ConvertOrFail(t), UNCHANGED <<fileVars, append, loop>>
  PROVE  StepOK
<1>1. CASE FinalizeFailed(t)
  BY <1>1, FinalizeFailedStep
<1>2. CASE /\ Goto(t, "finalize", "stop")
           /\ SetJob(t, "stop", "submitted")
           /\ UNCHANGED allRunnerVars
  <2>1. "stop" \in Place \ AbortPlaces /\ "stop" \in Writers /\ "submitted" \in JobState
    BY DEF Place, AbortPlaces, Writers, JobState
  <2>2. job' \in [Tasks -> [Writers -> JobState]]
    BY <1>2, <2>1, JobIsTyped DEF ManagerInv
  <2>3. FilesTypeOK'
    BY <1>2, <2>1, <2>2, GotoFrame DEF ManagerInv, FilesTypeOK, fileVars, Roles, Recoverers
  <2> QED
    BY <1>2, <2>1, <2>3, FinalizeGoesOn DEF allRunnerVars
<1> QED
  BY <1>1, <1>2 DEF ConvertOrFail

LEMMA DrainedStep ==
  ASSUME ManagerInv, NEW t \in Tasks, Drained(t) \/ Appended(t)
  PROVE  StepOK
<1>1. at[t]["finalize"] # "idle" /\ at[t]["finalize"] \notin AbortPlaces
  BY DEF Drained, Appended, AbortPlaces
<1>2. CASE ConvertOrFail(t) /\ UNCHANGED <<fileVars, append, loop>>
  BY <1>1, <1>2, ConvertOrFailStep
<1>3. CASE /\ append' = [append EXCEPT ![t] = @ \cup {"drain"}]
           /\ Goto(t, "finalize", "append")
           /\ UNCHANGED <<allRunnerVars, job, fileVars, loop>>
  <2>1. "append" \in Place \ AbortPlaces
    BY DEF Place, AbortPlaces
  <2>2. FilesTypeOK'
    BY <1>3, <2>1, GotoFrame DEF ManagerInv, FilesTypeOK, fileVars, Roles, Recoverers
  <2> QED
    BY <1>1, <1>3, <2>1, <2>2, FinalizeGoesOn DEF allRunnerVars
<1> QED
  BY <1>2, <1>3 DEF Drained, Appended

LEMMA StoppedStep ==
  ASSUME ManagerInv, NEW t \in Tasks, Stopped(t)
  PROVE  StepOK
<1>1. at[t]["finalize"] # "idle" /\ at[t]["finalize"] \notin AbortPlaces
  BY DEF Stopped, AbortPlaces
<1>2. UNCHANGED <<mp3, part, append, loop>>
  BY DEF Stopped
<1>3. CASE FinalizeFailed(t) /\ pcm' = pcm
  BY <1>1, <1>2, <1>3, FinalizeFailedStep DEF fileVars
<1>4. CASE /\ pcm' = [pcm EXCEPT ![t] = "none"]
           /\ StopReturns(t)
           /\ MoveTo(t, "finalize", "validate", at[t], Orphaned(job[t], "stop"))
           /\ UNCHANGED storeVars
  <2>1. "validate" \in Place \ AbortPlaces /\ "finalize" \in Recoverers
    BY DEF Place, AbortPlaces, Recoverers
  <2>2. /\ Orphaned(job[t], "stop") \in [Writers -> JobState]
        /\ at[t] \in [Roles -> Place]
    BY OrphanedIsTyped DEF ManagerInv, FilesTypeOK, Writers
  <2>3. /\ at' \in [Tasks -> [Roles -> Place]]
        /\ job' \in [Tasks -> [Writers -> JobState]]
    BY <1>4, <2>1, <2>2, MoveToFrame DEF ManagerInv
  <2>4. FilesTypeOK'
    BY <1>2, <1>4, <2>3 DEF ManagerInv, FilesTypeOK
  <2>5. Goto(t, "finalize", "validate")
    BY <1>4 DEF MoveTo, Goto
  <2> QED
    BY <1>1, <1>2, <1>4, <2>1, <2>4, <2>5, FinalizeGoesOn
<1> QED
  BY <1>3, <1>4 DEF Stopped

LEMMA ValidatedStep ==
  ASSUME ManagerInv, NEW t \in Tasks, Validated(t)
  PROVE  StepOK
<1>1. at[t]["finalize"] # "idle" /\ at[t]["finalize"] \notin AbortPlaces
  BY DEF Validated, AbortPlaces
<1>2. UNCHANGED <<fileVars, append, loop>>
  BY DEF Validated
<1>3. CASE FinalizeFailed(t)
  BY <1>1, <1>2, <1>3, FinalizeFailedStep
<1>4. CASE /\ job[t]["finalize"] \in {"partial", "full"}
           /\ MarkSuccess(t, job[t]["finalize"])
           /\ Goto(t, "finalize", "idle")
           /\ SetJob(t, "finalize", "none")
           /\ UNCHANGED runnerVars
  <2>1. "idle" \in Place \ AbortPlaces /\ "finalize" \in Writers /\ "none" \in JobState
    BY DEF Place, AbortPlaces, Writers, Recoverers, JobState
  <2>2. job' \in [Tasks -> [Writers -> JobState]]
    BY <1>4, <2>1, JobIsTyped DEF ManagerInv
  <2>3. FilesTypeOK'
    BY <1>2, <1>4, <2>1, <2>2, GotoFrame DEF ManagerInv, FilesTypeOK, fileVars, Roles, Recoverers
  <2>4. \E size \in Size : MarkSuccess(t, size)
    BY <1>4 DEF Size
  <2> QED
    BY <1>1, <1>2, <1>4, <2>1, <2>3, <2>4, FinalizeGoesOn
<1> QED
  BY <1>3, <1>4 DEF Validated

LEMMA FinalizeStepOK ==
  ASSUME ManagerInv, NEW t \in Tasks, FinalizeStep(t) \/ FinalizeTimesOut(t)
  PROVE  StepOK
<1>1. CASE FinalizeStep(t)
  BY <1>1, FinalizeStartsStep, DrainedStep, StoppedStep, ValidatedStep DEF FinalizeStep
<1>2. CASE FinalizeTimesOut(t)
  <2>1. at[t]["finalize"] # "idle" /\ at[t]["finalize"] \notin AbortPlaces
    BY <1>2, ScenarioAssumption DEF FinalizeTimesOut, AbortPlaces
  <2> QED
    BY <1>2, <2>1, FinalizeFailedStep DEF FinalizeTimesOut
<1> QED
  BY <1>1, <1>2

(* Whoever asks for it: a request, the disconnect watch or the timer.      *)
LEMMA SpawnFinalizeStep ==
  ASSUME ManagerInv, NEW t \in Tasks, SpawnFinalize(t)
  PROVE  StepOK
<1>1. "finalize" \in Roles /\ "spawned" \in Place
  BY DEF Roles, Recoverers, Place
<1>2. /\ at' \in [Tasks -> [Roles -> Place]]
      /\ \A u \in Tasks \ {t} : at'[u] = at[u]
      /\ \A s \in Roles \ {"finalize"} : at'[t][s] = at[t][s]
      /\ at'[t]["finalize"] = "spawned"
  BY <1>1, GotoFrame DEF SpawnFinalize, ManagerInv
<1>3. status[t] = "capturing" /\ status'[t] = "finalizing"
  BY DEF SpawnFinalize, UpdateStatus, HasRow, ManagerInv, Inv, TypeOK, StoreTypeOK
<1>4. FilesTypeOK'
  BY <1>2 DEF SpawnFinalize, ManagerInv, FilesTypeOK, fileVars, threadVars
<1>5. at[t]["finalize"] = "idle"
  BY <1>3 DEF ManagerInv, TaskInv, FinalizeIsOnce
<1>6. OneAborter(t)'
  BY <1>1, <1>2, <1>5, AbortGoesOn DEF SpawnFinalize, AbortPlaces
<1>7. MovesOn(t)
  BY <1>2, <1>3, <1>4, <1>6 DEF MovesOn, SpawnFinalize, EndedIsGone
<1> QED
  BY <1>3, <1>7, CallStep DEF SpawnFinalize, Admitted, RunnerCall, RowWrite

-----------------------------------------------------------------------------
(***************************************************************************)
(* Cancellation.                                                           *)
(***************************************************************************)
LEMMA RolesWithoutFinalizeFrame ==
  ASSUME FilesTypeOK, NEW t \in Tasks
  PROVE  /\ RolesWithoutFinalize(t) \in [Roles -> Place]
         /\ RolesWithoutFinalize(t)["finalize"] = "idle"
         /\ \A s \in Roles \ {"finalize"} : RolesWithoutFinalize(t)[s] = at[t][s]
         /\ JobsWithoutFinalize(t) \in [Writers -> JobState]
<1>1. "finalize" \in Roles /\ "finalize" \in Writers /\ "stop" \in Writers
  BY DEF Roles, Recoverers, Writers
<1>2. JobsWithoutFinalize(t) \in [Writers -> JobState]
  BY <1>1, OrphanedIsTyped DEF JobsWithoutFinalize, FilesTypeOK
<1>3. "idle" \in Place
  BY DEF Place
<1> QED
  BY <1>1, <1>2, <1>3 DEF RolesWithoutFinalize, FilesTypeOK

(* engine.cancel of a session with nothing to await leaves none.           *)
LEMMA CancelAtOnceFrame ==
  ASSUME ManagerInv, NEW t \in Tasks, CancelAtOnce(t)
  PROVE  /\ AbortAtOnce(t) \/ UNCHANGED runnerVars
         /\ t \notin sessions'
         /\ ~MustAwaitClose(t)
BY DEF CancelAtOnce, AbortAtOnce, MustAwaitClose, runnerVars

LEMMA RemoveFilesTyped ==
  ASSUME FilesTypeOK, NEW t \in Tasks, RemoveFiles(t) \/ UNCHANGED fileVars
  PROVE  /\ pcm' \in [Tasks -> {"none", "some"}]
         /\ mp3' \in [Tasks -> {"none", "partial", "full"} \cup Writers]
         /\ part' \in [Tasks -> {"none"} \cup Writers]
<1>1. CASE RemoveFiles(t)
  BY <1>1 DEF RemoveFiles, FilesTypeOK
<1>2. CASE UNCHANGED fileVars
  BY <1>2 DEF fileVars, FilesTypeOK
<1> QED
  BY <1>1, <1>2

(* A DELETE takes over the abort of the _finalize it cancels, or awaits    *)
(* its own.                                                                *)
LEMMA CancelActiveStep ==
  ASSUME ManagerInv, NEW t \in Tasks, CancelActive(t)
  PROVE  StepOK
<1> DEFINE client == IF MustAwaitClose(t) THEN "abort_err" ELSE RolesWithoutFinalize(t)["client"]
<1>1. "finalize" \in Roles /\ "client" \in Roles \ {"finalize"} /\ "abort_err" \in Place
  BY DEF Roles, Recoverers, Place
<1>2. client \in Place
  BY <1>1, RolesWithoutFinalizeFrame DEF ManagerInv
<1>3. at' = [at EXCEPT ![t] = [RolesWithoutFinalize(t) EXCEPT !["client"] = client]]
  BY DEF CancelActive
<1> HIDE DEF client
<1>4. /\ at' \in [Tasks -> [Roles -> Place]]
      /\ \A u \in Tasks \ {t} : at'[u] = at[u]
      /\ at'[t]["finalize"] = "idle"
      /\ at'[t]["client"] = client
      /\ \A s \in Roles \ {"finalize", "client"} : at'[t][s] = at[t][s]
  BY <1>1, <1>2, <1>3, RolesWithoutFinalizeFrame DEF ManagerInv, FilesTypeOK
<1>5. FilesTypeOK'
  <2>1. job' = [job EXCEPT ![t] = JobsWithoutFinalize(t)]
    BY DEF CancelActive
  <2>2. job' \in [Tasks -> [Writers -> JobState]]
    BY <2>1, RolesWithoutFinalizeFrame DEF ManagerInv, FilesTypeOK
  <2>3. RemoveFiles(t) \/ UNCHANGED fileVars
    BY DEF CancelActive, CancelAtOnce
  <2> QED
    BY <1>4, <2>2, <2>3, RemoveFilesTyped DEF CancelActive, ManagerInv, FilesTypeOK
<1>6. Admitted(t)
  BY DEF CancelActive, Admitted
<1>7. CASE MustAwaitClose(t) /\ AbortBegins(t) /\ UNCHANGED <<storeVars, fileVars>>
  <2>1. OneAborter(t)'
    BY <1>1, <1>4, <1>7, AbortStarts DEF client, AbortPlaces
  <2>2. EndedIsGone(t)'
    BY <1>7 DEF AbortBegins, EndedIsGone
  <2>3. MovesOn(t)
    BY <1>4, <1>5, <2>1, <2>2 DEF MovesOn, CancelActive
  <2> QED
    BY <1>6, <1>7, <2>3, CallStep DEF RunnerCall, RowWrite
<1>8. CASE FinalizeAborting(t) /\ AbortIsLost(t) /\ RemoveFiles(t) /\ MarkCanceled(t)
  <2>1. at[t]["finalize"] \in AbortPlaces
    BY <1>8 DEF FinalizeAborting, AbortPlaces
  <2>2. ~MustAwaitClose(t)
    BY <1>8 DEF AbortIsLost, Aborting, MustAwaitClose
  <2>3. at'[t]["client"] = at[t]["client"]
    BY <1>1, <1>4, <2>2, RolesWithoutFinalizeFrame DEF client, ManagerInv
  <2>4. OneAborter(t)'
    BY <1>1, <1>4, <1>8, <2>1, <2>3, AbortStops DEF AbortPlaces
  <2>5. EndedIsGone(t)'
    BY <1>8, AbortedIsGone DEF AbortIsLost, EndedIsGone
  <2>6. MovesOn(t)
    BY <1>4, <1>5, <2>4, <2>5 DEF MovesOn, CancelActive
  <2> QED
    BY <1>6, <1>8, <2>6, CallStep DEF RunnerCall, RowWrite
<1>9. CASE ~FinalizeAborting(t) /\ CancelAtOnce(t)
  <2>1. at[t]["finalize"] \notin AbortPlaces
    BY <1>9 DEF FinalizeAborting, AbortPlaces
  <2>2. ~MustAwaitClose(t) /\ (AbortAtOnce(t) \/ UNCHANGED runnerVars) /\ t \notin sessions'
    BY <1>9, CancelAtOnceFrame
  <2>3. at'[t]["client"] = at[t]["client"]
    BY <1>1, <1>4, <2>2, RolesWithoutFinalizeFrame DEF client, ManagerInv
  <2>4. OneAborter(t)'
    BY <1>1, <1>4, <2>1, <2>2, <2>3, AbortGoesOn DEF AbortPlaces
  <2>5. MovesOn(t)
    BY <1>4, <1>5, <2>2, <2>4 DEF MovesOn, CancelActive, EndedIsGone
  <2> QED
    BY <1>6, <1>9, <2>2, <2>5, CallStep DEF RunnerCall, RowWrite, CancelAtOnce
<1> QED
  BY <1>7, <1>8, <1>9 DEF CancelActive

(* The timer's own task calls abort_session, and cancels itself.           *)
LEMMA TimerFiresStep ==
  ASSUME ManagerInv, NEW t \in Tasks, TimerFires(t)
  PROVE  StepOK
<1>1. CASE SpawnFinalize(t)
  BY <1>1, SpawnFinalizeStep
<1>2. CASE /\ status[t] = "joining"
           /\ AbortCancelsItself(t) /\ UNCHANGED <<storeVars, fileVars>>
           /\ UNCHANGED <<threadVars, at, loop>>
  <2>1. FilesTypeOK'
    BY <1>2 DEF ManagerInv, FilesTypeOK, fileVars, threadVars
  <2>2. ~Aborting(t) /\ ~Aborting(t)'
    BY <1>2 DEF AbortCancelsItself, Aborting, ManagerInv, Inv, TypeOK
  <2>3. OneAborter(t)'
    BY <1>2, <2>2 DEF ManagerInv, TaskInv, OneAborter
  <2>4. MovesOn(t)
    BY <1>2, <2>1, <2>3 DEF MovesOn, EndedIsGone, AbortCancelsItself
  <2> QED
    BY <1>2, <2>4, CallStep DEF Admitted, RunnerCall, RowWrite
<1>3. CASE /\ status[t] = "joining"
           /\ CancelAtOnce(t)
           /\ UNCHANGED <<threadVars, at, loop>>
  <2>1. FilesTypeOK'
    BY <1>3, RemoveFilesTyped DEF ManagerInv, FilesTypeOK, threadVars, CancelAtOnce
  <2>2. (AbortAtOnce(t) \/ UNCHANGED runnerVars) /\ t \notin sessions'
    BY <1>3, CancelAtOnceFrame
  <2>3. OneAborter(t)'
    BY <1>3, <2>2, AbortGoesOn
  <2>4. MovesOn(t)
    BY <1>3, <2>1, <2>2, <2>3 DEF MovesOn, EndedIsGone
  <2> QED
    BY <1>3, <2>2, <2>4, CallStep DEF Admitted, RunnerCall, RowWrite, CancelAtOnce
<1> QED
  BY <1>1, <1>2, <1>3 DEF TimerFires

(* A queued row has neither a session nor anybody who works on it.         *)
LEMMA DeleteQueuedStep ==
  ASSUME ManagerInv, NEW t \in Tasks, DeleteQueued(t), RemoveFiles(t),
         UNCHANGED <<threadVars, at, loop>>
  PROVE  StepOK
<1>1. status[t] = "queued" /\ status'[t] = "canceled"
  BY DEF DeleteQueued, MarkCanceled, HasRow, ManagerInv, Inv, TypeOK, StoreTypeOK
<1>2. UNCHANGED <<run, sessions, browser, at>>
  BY DEF DeleteQueued
<1>3. \A r \in Roles : at[t][r] = "idle"
  BY <1>1 DEF ManagerInv, TaskInv, BusyIsAdmitted, Admitted
<1>4. t \notin sessions
  BY <1>1 DEF ManagerInv, Inv, RunnerSafety, QueuedWillRun, DispatchedOnce, SessionIsLive,
              InEngine, Joining
<1>5. TaskInv(t)'
  BY <1>1, <1>2, <1>3, <1>4
     DEF ManagerInv, TaskInv, BusyIsAdmitted, Admitted, JoinIsOver, FinalizeIsOnce, LaunchIsBare,
         OneAborter, Aborting, EndedIsGone, Roles, Recoverers
<1>6. \A u \in Tasks \ {t} : Kept(u)
  BY <1>2 DEF Kept, DeleteQueued, MarkCanceled, ManagerInv, Inv, TypeOK, StoreTypeOK
<1>7. FilesTypeOK'
  BY RemoveFilesTyped DEF ManagerInv, FilesTypeOK, threadVars
<1>8. Next
  BY DEF Next
<1>9. StepOn(t)
  BY <1>5, <1>6, <1>7, <1>8 DEF StepOn
<1> QED
  BY <1>8, <1>9, StepOnInv DEF StepOK

LEMMA RequestStep ==
  ASSUME ManagerInv, NEW t \in Tasks, RequestStop(t) \/ RequestDelete(t) \/ Disconnects(t)
  PROVE  StepOK
BY CancelActiveStep, SpawnFinalizeStep, DeleteQueuedStep
   DEF RequestStop, RequestDelete, Disconnects

LEMMA RequestStateStep ==
  ASSUME ManagerInv, NEW t \in Tasks, NEW p \in Pollers, RequestState(t, p)
  PROVE  StepOK
<1>1. p \in Recoverers /\ p # "finalize"
  BY ScenarioAssumption DEF Recoverers
<1>2. at[t][p] \notin AbortPlaces
  BY DEF RequestState, AbortPlaces
<1>3. Admitted(t)
  BY DEF RequestState, Admitted
<1>4. job[t] \in [Writers -> JobState] /\ ArtifactPlace(t) \in NextPlaces
  BY ArtifactPlaceIsNext DEF ManagerInv, FilesTypeOK
<1>5. UNCHANGED <<pcm, mp3, part, append, loop>> /\ Proceed(t, p, ArtifactPlace(t), job[t])
  BY DEF RequestState, fileVars
<1>6. /\ pcm' \in [Tasks -> {"none", "some"}]
      /\ loop' \in [Loops -> [phase : Phase, todo : SUBSET Tasks]]
  BY <1>5 DEF ManagerInv, FilesTypeOK
<1> QED
  BY <1>1, <1>2, <1>3, <1>4, <1>5, <1>6, ProceedStep

-----------------------------------------------------------------------------
(***************************************************************************)
(* The background loops.                                                   *)
(***************************************************************************)
LEMMA HandledFrame ==
  ASSUME FilesTypeOK, NEW l \in Loops, NEW t \in Tasks, Handled(l, t)
  PROVE  /\ loop' \in [Loops -> [phase : Phase, todo : SUBSET Tasks]]
         /\ \A k \in Loops : loop'[k].todo \subseteq loop[k].todo
<1> DEFINE entry == [loop[l] EXCEPT !.todo = loop[l].todo \ {t}]
<1>1. loop' = [loop EXCEPT ![l] = entry]
  BY DEF Handled
<1>2. loop[l] \in [phase : Phase, todo : SUBSET Tasks]
  BY DEF FilesTypeOK
<1>3. entry = [phase |-> loop[l].phase, todo |-> loop[l].todo \ {t}]
  BY <1>2
<1>4. entry \in [phase : Phase, todo : SUBSET Tasks] /\ entry.todo \subseteq loop[l].todo
  BY <1>2, <1>3
<1> HIDE DEF entry
<1> QED
  BY <1>1, <1>4 DEF FilesTypeOK

LEMMA ReconcileStep ==
  ASSUME ManagerInv, NEW l \in Loops, NEW t \in Tasks, Reconcile(l, t)
  PROVE  StepOK
<1>1. l \in Recoverers /\ l # "finalize"
  BY DEF Recoverers, Loops
<1>2. at[t][l] \notin AbortPlaces
  BY DEF Reconcile, LoopIdle, AbortPlaces
<1>3. Admitted(t)
  BY DEF Reconcile, ManagerInv, ListedIsAdmitted
<1>4. UNCHANGED <<pcm, mp3, part, append>>
  BY DEF Reconcile, fileVars
<1>5. /\ loop' \in [Loops -> [phase : Phase, todo : SUBSET Tasks]]
      /\ \A k \in Loops : loop'[k].todo \subseteq loop[k].todo
  BY HandledFrame DEF Reconcile, ManagerInv
<1>6. CASE UNCHANGED <<allRunnerVars, at, job>>
  <2>1. FilesTypeOK'
    BY <1>4, <1>5, <1>6 DEF ManagerInv, FilesTypeOK
  <2>2. ManagerInv'
    BY <1>5, <1>6, <2>1, LoopLooksInv
  <2> QED
    BY <1>6, <2>2 DEF StepOK
<1>7. CASE Proceed(t, l, ArtifactPlace(t), job[t])
  <2>1. job[t] \in [Writers -> JobState] /\ ArtifactPlace(t) \in NextPlaces
    BY ArtifactPlaceIsNext DEF ManagerInv, FilesTypeOK
  <2>2. pcm' \in [Tasks -> {"none", "some"}]
    BY <1>4 DEF ManagerInv, FilesTypeOK
  <2> QED
    BY <1>1, <1>2, <1>3, <1>4, <1>5, <1>7, <2>1, <2>2, ProceedStep
<1> QED
  BY <1>6, <1>7 DEF Reconcile

(* The nudge cancels _finalize, and may lose its abort by that.            *)
LEMMA NudgeStep ==
  ASSUME ManagerInv, NEW t \in Tasks, Nudge(t)
  PROVE  StepOK
<1>1. /\ "ttl" \in Recoverers /\ "ttl" \in Loops /\ "ttl" \in Roles
      /\ "finalize" \in Roles \ {"ttl"}
  BY DEF Recoverers, Loops, Roles
<1>2. Admitted(t)
  BY <1>1 DEF Nudge, NudgeVisits, ManagerInv, ListedIsAdmitted
<1>3. at[t]["ttl"] = "idle"
  BY DEF Nudge, NudgeVisits, LoopIdle
<1>4. ArtifactPlace(t) \in NextPlaces /\ ArtifactPlace(t) \in Place \cup {"failed"}
  BY ArtifactPlaceIsNext DEF NextPlaces, Place
<1>5. /\ at' \in [Tasks -> [Roles -> Place]]
      /\ job' \in [Tasks -> [Writers -> JobState]]
      /\ \A u \in Tasks \ {t} : at'[u] = at[u]
      /\ \A s \in Roles \ {"ttl"} : at'[t][s] = RolesWithoutFinalize(t)[s]
      /\ at'[t]["ttl"] = IF ArtifactPlace(t) = "failed" THEN AbortPlace(t, "ttl", FALSE)
                         ELSE ArtifactPlace(t)
  <2> DEFINE roles == RolesWithoutFinalize(t)
             jobs == JobsWithoutFinalize(t)
             place == ArtifactPlace(t)
  <2>1. roles \in [Roles -> Place] /\ jobs \in [Writers -> JobState]
    BY RolesWithoutFinalizeFrame DEF ManagerInv
  <2>2. MoveTo(t, "ttl", place, roles, jobs)
    BY DEF Nudge
  <2>3. FilesTypeOK /\ place \in Place \cup {"failed"}
    BY <1>4 DEF ManagerInv
  <2> HIDE DEF roles, jobs, place
  <2>4. /\ at' \in [Tasks -> [Roles -> Place]]
        /\ job' \in [Tasks -> [Writers -> JobState]]
        /\ \A u \in Tasks \ {t} : at'[u] = at[u]
        /\ \A s \in Roles \ {"ttl"} : at'[t][s] = roles[s]
        /\ at'[t]["ttl"] = Moved(t, "ttl", place)
    BY <1>1, <2>1, <2>2, <2>3, MoveToFrame
  <2> QED
    BY <2>4 DEF roles, place, Moved
<1>6. /\ at'[t]["finalize"] = "idle"
      /\ \A s \in Roles \ {"ttl", "finalize"} : at'[t][s] = at[t][s]
  BY <1>1, <1>5, RolesWithoutFinalizeFrame DEF ManagerInv
<1>7. /\ loop' \in [Loops -> [phase : Phase, todo : SUBSET Tasks]]
      /\ \A k \in Loops : loop'[k].todo \subseteq loop[k].todo
  BY <1>1, HandledFrame DEF Nudge, NudgeVisits, ManagerInv
<1>8. FilesTypeOK'
  BY <1>5, <1>7 DEF Nudge, ManagerInv, FilesTypeOK, fileVars
<1>9. UNCHANGED storeVars
  BY DEF Nudge
<1>10. RunnerCall(t) /\ OneAborter(t)'
  <2>1. CASE FinalizeAborting(t)
    <3>1. AbortIsLost(t) /\ at[t]["finalize"] \in AbortPlaces
      BY <2>1 DEF Nudge, FinalizeAborting, AbortPlaces
    <3>2. at'[t]["ttl"] \notin AbortPlaces
      BY <1>4, <1>5, <3>1 DEF AbortIsLost, Aborting, AbortPlace, MustAwaitClose, AbortPlaces,
                              NextPlaces
    <3>3. OneAborter(t)'
      BY <1>1, <1>6, <3>1, <3>2, AbortStops DEF AbortPlaces
    <3> QED
      BY <3>1, <3>3 DEF RunnerCall
  <2>2. CASE ~FinalizeAborting(t) /\ ArtifactPlace(t) = "failed" /\ MustAwaitClose(t)
    <3>1. AbortBegins(t)
      BY <2>2 DEF Nudge, CallAbort, MustAwaitClose, AbortAtOnce
    <3>2. at'[t]["ttl"] \in AbortPlaces
      BY <1>5, <2>2 DEF AbortPlace, AfterFailure, AbortPlaces, Nudge, NudgeVisits
    <3>3. OneAborter(t)'
      BY <1>1, <1>6, <3>1, <3>2, AbortStarts DEF AbortPlaces
    <3> QED
      BY <3>1, <3>3 DEF RunnerCall
  <2>3. CASE ~FinalizeAborting(t) /\ ~(ArtifactPlace(t) = "failed" /\ MustAwaitClose(t))
    <3>1. AbortAtOnce(t) \/ UNCHANGED runnerVars
      BY <2>3 DEF Nudge, CallAbort, MustAwaitClose, AbortBegins
    <3>2. at'[t]["ttl"] \notin AbortPlaces
      BY <1>4, <1>5, <2>3 DEF AbortPlace, AbortPlaces, NextPlaces
    <3>3. at[t]["finalize"] \notin AbortPlaces
      BY <2>3 DEF FinalizeAborting, AbortPlaces
    <3>4. OneAborter(t)'
      BY <1>1, <1>3, <1>6, <3>1, <3>2, <3>3, AbortGoesOn DEF AbortPlaces
    <3> QED
      BY <3>1, <3>4 DEF RunnerCall
  <2> QED
    BY <2>1, <2>2, <2>3
<1>11. EndedIsGone(t)'
  BY <1>9, <1>10, CallFrame, EndedStays
<1>12. MovesOn(t)
  BY <1>5, <1>6, <1>7, <1>8, <1>10, <1>11 DEF MovesOn
<1> QED
  BY <1>2, <1>9, <1>10, <1>12, CallStep DEF RowWrite

(* Purged rows were terminal, and stay admitted.                           *)
LEMMA PurgeStep ==
  ASSUME ManagerInv, Purge
  PROVE  StepOK
<1>1. PICK expired \in SUBSET Tasks :
        /\ PurgeExpired(expired)
        /\ pcm' = [t \in Tasks |-> IF t \in expired THEN "none" ELSE pcm[t]]
        /\ mp3' = [t \in Tasks |-> IF t \in expired THEN "none" ELSE mp3[t]]
        /\ part' = [t \in Tasks |-> IF t \in expired THEN "none" ELSE part[t]]
  BY DEF Purge
<1>2. Enter("ttl", "rest", {}) /\ UNCHANGED <<runnerVars, threadVars, at>>
  BY DEF Purge
<1>3. Next
  BY <1>1, <1>2 DEF Next, ManagerPurges
<1>4. Inv'
  BY <1>3, NextInv DEF ManagerInv
<1>5. /\ loop' \in [Loops -> [phase : Phase, todo : SUBSET Tasks]]
      /\ \A k \in Loops : loop'[k].todo \subseteq loop[k].todo
  <2> DEFINE entry == [phase |-> "rest", todo |-> {}]
  <2>1. loop' = [loop EXCEPT !["ttl"] = entry]
    BY <1>2 DEF Enter
  <2>2. entry \in [phase : Phase, todo : SUBSET Tasks] /\ entry.todo = {}
    BY DEF Phase
  <2> HIDE DEF entry
  <2>3. loop' \in [Loops -> [phase : Phase, todo : SUBSET Tasks]]
    BY <2>1, <2>2 DEF ManagerInv, FilesTypeOK
  <2>4. \A l \in Loops : loop'[l] = loop[l] \/ loop'[l] = entry
    BY <2>1 DEF ManagerInv, FilesTypeOK
  <2> QED
    BY <2>2, <2>3, <2>4
<1>6. FilesTypeOK'
  BY <1>1, <1>2, <1>5 DEF ManagerInv, FilesTypeOK, threadVars
<1>7. ListedIsAdmitted'
  BY <1>3, <1>5, AdmittedForEver DEF ManagerInv, ListedIsAdmitted, FilesTypeOK
<1>8. ASSUME NEW t \in Tasks
      PROVE  TaskInv(t)'
  <2>1. UNCHANGED <<run, sessions, browser, at>>
    BY <1>2 DEF runnerVars
  <2>2. status'[t] = status[t] \/ status'[t] = "purged"
    BY <1>1 DEF PurgeExpired
  <2> QED
    BY <2>1, <2>2 DEF ManagerInv, TaskInv, BusyIsAdmitted, Admitted, JoinIsOver, FinalizeIsOnce,
                      LaunchIsBare, OneAborter, Aborting, EndedIsGone
<1> QED
  BY <1>3, <1>4, <1>6, <1>7, <1>8 DEF StepOK, ManagerInv

-----------------------------------------------------------------------------
(***************************************************************************)
(* The runner's own steps and the restart.                                 *)
(***************************************************************************)

(* Nothing has happened to a task that is submitted.                       *)
LEMMA SubmitStep ==
  ASSUME ManagerInv, NEW t \in Tasks, Submit(t), UNCHANGED managerVars
  PROVE  StepOK
<1>1. status[t] = "none" /\ status'[t] = "queued" /\ UNCHANGED <<run, sessions, browser, at>>
  BY DEF Submit, Create, managerVars, ManagerInv, Inv, TypeOK, StoreTypeOK
<1>2. \A r \in Roles : at[t][r] = "idle"
  BY <1>1 DEF ManagerInv, TaskInv, BusyIsAdmitted, Admitted
<1>3. TaskInv(t)'
  BY <1>1, <1>2 DEF ManagerInv, TaskInv, BusyIsAdmitted, Admitted, JoinIsOver, FinalizeIsOnce,
                    LaunchIsBare, OneAborter, Aborting, EndedIsGone, Roles, Recoverers
<1>4. \A u \in Tasks \ {t} : Kept(u)
  BY <1>1 DEF Kept, Submit, Create, ManagerInv, Inv, TypeOK, StoreTypeOK
<1>5. FilesTypeOK'
  BY DEF ManagerInv, FilesTypeOK, managerVars, fileVars, threadVars
<1>6. StepOn(t)
  BY <1>3, <1>4, <1>5 DEF StepOn, Next, managerVars
<1> QED
  BY <1>6, StepOnInv DEF StepOK, StepOn

(* What a step of _run_one changes of its task, and that it leaves the     *)
(* others alone.                                                           *)
LEMMA RunStepFrame ==
  ASSUME ManagerInv, NEW t \in Tasks, RunStep(t), UNCHANGED managerVars
  PROVE  \A u \in Tasks \ {t} : Kept(u)
<1> USE DEF ManagerInv, Inv, TypeOK, StoreTypeOK, Kept, managerVars, storeVars
<1>1. CASE Dispatch(t) \/ SkipTask(t) \/ OpenBrowser(t) \/ JoinSeen(t)
  BY <1>1 DEF Dispatch, SkipTask, OpenBrowser, JoinSeen
<1>2. CASE StartCapture(t) \/ Joined(t)
  BY <1>2 DEF StartCapture, Joined, UpdateStatus
<1>3. CASE JoinFails(t)
  BY <1>3 DEF JoinFails, LeaveEngine, Leave, MarkError, UpdateStatus
<1>4. CASE CaptureEnds(t)
  BY <1>4 DEF CaptureEnds, LeaveEngine, Leave
<1>5. CASE CloseReturns(t)
  BY <1>5 DEF CloseReturns, Leave, MarkError, UpdateStatus
<1> QED
  BY <1>1, <1>2, <1>3, <1>4, <1>5 DEF RunStep

(* Joined is the one step that could find a _finalize on its task, and     *)
(* JoinIsOver excludes it.                                                 *)
LEMMA RunStepTask ==
  ASSUME ManagerInv, NEW t \in Tasks, RunStep(t), UNCHANGED managerVars
  PROVE  TaskInv(t)'
<1>1. at' = at /\ TaskInv(t)
  BY DEF managerVars, ManagerInv
<1>2. BusyIsAdmitted(t)'
  <2>1. [Next]_allRunnerVars
    BY DEF Next
  <2> QED
    BY <1>1, <2>1, AdmittedForEver DEF TaskInv, BusyIsAdmitted, ManagerInv
<1> USE DEF ManagerInv, Inv, TypeOK, StoreTypeOK, storeVars
<1>3. CASE Dispatch(t)
  BY <1>1, <1>2, <1>3 DEF Dispatch, TaskInv, JoinIsOver, FinalizeIsOnce, LaunchIsBare, OneAborter,
       Aborting, EndedIsGone, RunnerSafety, DispatchedOnce
<1>4. CASE SkipTask(t)
  BY <1>1, <1>2, <1>4 DEF SkipTask, TaskInv, JoinIsOver, FinalizeIsOnce, LaunchIsBare, OneAborter,
       Aborting, EndedIsGone
<1>5. CASE StartCapture(t)
  BY <1>1, <1>2, <1>5 DEF StartCapture, UpdateStatus, HasRow, TaskInv, JoinIsOver, FinalizeIsOnce,
       LaunchIsBare, OneAborter, Aborting, EndedIsGone, Fresh
<1>6. CASE OpenBrowser(t) \/ JoinSeen(t)
  BY <1>1, <1>2, <1>6 DEF OpenBrowser, JoinSeen, TaskInv, JoinIsOver, FinalizeIsOnce, LaunchIsBare,
       OneAborter, Aborting, EndedIsGone
<1>7. CASE Joined(t)
  BY <1>1, <1>2, <1>7 DEF Joined, UpdateStatus, TaskInv, JoinIsOver, FinalizeIsOnce, LaunchIsBare,
       OneAborter, Aborting, EndedIsGone
<1>8. CASE JoinFails(t)
  BY <1>1, <1>2, <1>8 DEF JoinFails, Joining, LeaveEngine, Leave, MarkError, UpdateStatus, TaskInv,
       JoinIsOver, FinalizeIsOnce, LaunchIsBare, OneAborter, Aborting, EndedIsGone
<1>9. CASE CaptureEnds(t)
  BY <1>1, <1>2, <1>9 DEF CaptureEnds, LeaveEngine, Leave, TaskInv,
       JoinIsOver, FinalizeIsOnce, LaunchIsBare, OneAborter, Aborting, EndedIsGone
<1>10. CASE CloseReturns(t)
  <2>1. t \notin sessions
    BY <1>10 DEF CloseReturns, RunnerSafety, SessionIsLive, InEngine, Joining
  <2> QED
    BY <1>1, <1>2, <1>10, <2>1 DEF CloseReturns, Leave, MarkError, UpdateStatus, TaskInv,
       JoinIsOver, FinalizeIsOnce, LaunchIsBare, OneAborter, Aborting, EndedIsGone
<1> QED
  BY <1>3, <1>4, <1>5, <1>6, <1>7, <1>8, <1>9, <1>10 DEF RunStep

LEMMA RunnerStepOK ==
  ASSUME ManagerInv, NEW t \in Tasks, RunnerStep(t)
  PROVE  StepOK
<1>1. RunStep(t) /\ UNCHANGED managerVars
  BY DEF RunnerStep
<1>2. FilesTypeOK'
  BY <1>1 DEF ManagerInv, FilesTypeOK, managerVars, fileVars, threadVars
<1>3. [Next]_allRunnerVars
  BY <1>1 DEF Next
<1>4. StepOn(t)
  BY <1>1, <1>2, <1>3, RunStepTask, RunStepFrame DEF StepOn, managerVars
<1> QED
  BY <1>3, <1>4, StepOnInv DEF StepOK

(* After a restart nobody works on anything.                               *)
LEMMA RebootStep ==
  ASSUME ManagerInv, Reboot
  PROVE  StepOK
<1>1. CrashRestart({t \in Tasks : mp3[t] # "none"})
  BY DEF Reboot
<1>2. Next
  BY <1>1 DEF Next
<1>3. Inv'
  BY <1>2, NextInv DEF ManagerInv
<1>4. /\ "idle" \in Place
      /\ "none" \in JobState
  BY DEF Place, JobState
<1>5. loop' \in [Loops -> [phase : Phase, todo : SUBSET Tasks]]
      /\ \A l \in Loops : \A t \in loop'[l].todo : status'[t] = "error"
  <2> DEFINE rest == [phase |-> "rest", todo |-> {}]
             first == [phase |-> "error", todo |-> {t \in Tasks : status'[t] = "error"}]
  <2>1. loop' = [ttl |-> rest, startup |-> first]
    BY DEF Reboot
  <2>2. /\ rest \in [phase : Phase, todo : SUBSET Tasks] /\ rest.todo = {}
        /\ first \in [phase : Phase, todo : SUBSET Tasks]
        /\ \A t \in first.todo : status'[t] = "error"
    BY DEF Phase
  <2> HIDE DEF rest, first
  <2> QED
    BY <2>1, <2>2 DEF Loops
<1>6. FilesTypeOK'
  <2>1. pcm' \in [Tasks -> {"none", "some"}]
    BY DEF Reboot, ManagerInv, FilesTypeOK
  <2>2. mp3' \in [Tasks -> {"none", "partial", "full"} \cup Writers]
    BY DEF Reboot, ManagerInv, FilesTypeOK
  <2>3. /\ part' \in [Tasks -> {"none"} \cup Writers]
        /\ job' \in [Tasks -> [Writers -> JobState]]
        /\ append' \in [Tasks -> SUBSET {"spool", "drain"}]
        /\ at' \in [Tasks -> [Roles -> Place]]
    BY <1>4 DEF Reboot
  <2> QED
    BY <1>5, <2>1, <2>2, <2>3 DEF FilesTypeOK
<1>7. ListedIsAdmitted'
  BY <1>5 DEF ListedIsAdmitted, Admitted
<1>8. ASSUME NEW t \in Tasks
      PROVE  TaskInv(t)'
  <2>1. /\ \A r \in Roles : at'[t][r] = "idle"
        /\ run'[t] = "none" /\ sessions' = {} /\ browser'[t] = "none"
    BY <1>1 DEF Reboot, CrashRestart, Restarted
  <2>2. status'[t] # "capturing"
    BY <1>1 DEF CrashRestart, Interrupted, Listed
  <2> QED
    BY <2>1, <2>2 DEF TaskInv, BusyIsAdmitted, JoinIsOver, FinalizeIsOnce, LaunchIsBare, OneAborter,
                      AbortPlaces, Aborting, EndedIsGone, Roles, Recoverers
<1> QED
  BY <1>2, <1>3, <1>6, <1>7, <1>8 DEF StepOK, ManagerInv

-----------------------------------------------------------------------------
(***************************************************************************)
(* The invariant is inductive, and every step of the manager is one of the *)
(* runner or of its environment.                                           *)
(***************************************************************************)
LEMMA ManagerInitInv == ManagerInit => ManagerInv
<1>1. SUFFICES ASSUME ManagerInit PROVE ManagerInv
  OBVIOUS
<1>2. Inv
  BY <1>1, InitInv DEF ManagerInit
<1>3. /\ "idle" \in Place
      /\ "none" \in JobState
      /\ [phase |-> "rest", todo |-> {}] \in [phase : Phase, todo : SUBSET Tasks]
  BY DEF Place, JobState, Phase
<1>4. FilesTypeOK
  BY <1>1, <1>3 DEF ManagerInit, VolatileInit, FilesTypeOK
<1>5. ListedIsAdmitted
  BY <1>1 DEF ManagerInit, ListedIsAdmitted
<1>6. ASSUME NEW t \in Tasks
      PROVE  TaskInv(t)
  <2>1. \A r \in Roles : at[t][r] = "idle"
    BY <1>1 DEF ManagerInit, VolatileInit
  <2>2. status[t] = "none" /\ run[t] = "none" /\ browser[t] = "none"
    BY <1>1 DEF ManagerInit, Init, StoreInit, RunnerInit
  <2> QED
    BY <2>1, <2>2 DEF TaskInv, BusyIsAdmitted, JoinIsOver, FinalizeIsOnce, LaunchIsBare, OneAborter,
                      AbortPlaces, Aborting, EndedIsGone, Roles, Recoverers
<1> QED
  BY <1>2, <1>4, <1>5, <1>6 DEF ManagerInv

LEMMA CoroutineStepOK ==
  ASSUME ManagerInv, NEW t \in Tasks, CoroutineStep(t)
  PROVE  StepOK
<1>1. CASE RequestSubmit(t)
  BY <1>1, SubmitStep DEF RequestSubmit
<1>2. CASE RequestStop(t) \/ RequestDelete(t) \/ Disconnects(t)
  BY <1>2, RequestStep
<1>3. CASE \E p \in Pollers : RequestState(t, p)
  BY <1>3, RequestStateStep
<1>4. CASE RunnerStep(t)
  BY <1>4, RunnerStepOK
<1>5. CASE FinalizeStep(t) \/ FinalizeTimesOut(t)
  BY <1>5, FinalizeStepOK
<1>6. CASE Spool(t)
  BY <1>6, AppendInv DEF StepOK, Spool
<1>7. CASE TimerFires(t)
  BY <1>7, TimerFiresStep
<1>8. CASE \E r \in Recoverers : RecoveryStep(t, r)
  BY <1>8, RecoveryStepOK
<1>9. CASE \E r \in Roles : AbortDone(t, r)
  BY <1>9, AbortDoneStep
<1> QED
  BY <1>1, <1>2, <1>3, <1>4, <1>5, <1>6, <1>7, <1>8, <1>9 DEF CoroutineStep

LEMMA LoopStepOK ==
  ASSUME ManagerInv, LoopStep \/ TtlWakes
  PROVE  StepOK
<1>1. CASE TtlWakes \/ \E l \in Loops : LoopAdvances(l)
  BY <1>1, LoopAdvancesInv DEF StepOK, TtlWakes, LoopAdvances
<1>2. CASE \E l \in Loops, t \in Tasks : Reconcile(l, t)
  BY <1>2, ReconcileStep
<1>3. CASE \E t \in Tasks : Nudge(t)
  BY <1>3, NudgeStep
<1>4. CASE \E t \in Tasks : NudgeWaits(t)
  BY <1>4, NudgeWaitsInv DEF StepOK, NudgeWaits
<1>5. CASE Purge
  BY <1>5, PurgeStep
<1> QED
  BY <1>1, <1>2, <1>3, <1>4, <1>5 DEF LoopStep

LEMMA ManagerNextStep ==
  ASSUME ManagerInv, [ManagerNext]_vars
  PROVE  StepOK
<1>1. CASE UNCHANGED vars
  <2>1. UNCHANGED <<allRunnerVars, at, loop>> /\ FilesTypeOK'
    BY <1>1 DEF vars, managerVars, fileVars, threadVars, ManagerInv, FilesTypeOK
  <2> QED
    BY <2>1, FilesStepInv DEF StepOK
<1>2. CASE \E t \in Tasks : CoroutineStep(t)
  BY <1>2, CoroutineStepOK
<1>3. CASE LoopStep \/ TtlWakes
  BY <1>3, LoopStepOK
<1>4. ASSUME NEW t \in Tasks, ThreadStep(t)
      PROVE  StepOK
  <2>1. UNCHANGED allRunnerVars
    BY <1>4 DEF ThreadStep, WriterStep, EncodeBegins, EncodeFinishes, EncodeFails, Probe,
                AppendLands
  <2> QED
    BY <1>4, <2>1, ThreadStepInv DEF StepOK
<1>5. CASE Dies \/ \E t \in Tasks : StartupFails(t)
  BY <1>5, RebootStep DEF Dies, StartupFails
<1> QED
  BY <1>1, <1>2, <1>3, <1>4, <1>5 DEF ManagerNext

LEMMA ManagerInvHolds == ManagerSpec => []ManagerInv
<1>1. ManagerInit => ManagerInv
  BY ManagerInitInv
<1>2. ManagerInv /\ [ManagerNext]_vars => ManagerInv'
  BY ManagerNextStep DEF StepOK
<1> QED
  BY <1>1, <1>2, PTL DEF ManagerSpec

-----------------------------------------------------------------------------
(* The manager uses the runner as CaptureRunner.tla lets its environment:  *)
(* every step of stop_capture, cancel_capture, _finalize, the recoveries   *)
(* and the TTL loop is a step of EngineCall or leaves the runner alone.    *)
THEOREM ManagerImplementsCaptureRunner == ManagerSpec => ManagerImplementsRunner
<1>1. ManagerInit => Init
  BY DEF ManagerInit
<1>2. ManagerInv /\ [ManagerNext]_vars => [Next]_allRunnerVars
  BY ManagerNextStep DEF StepOK
<1> QED
  BY <1>1, <1>2, ManagerInvHolds, PTL DEF ManagerSpec, ManagerImplementsRunner, Spec

(* So the promises of the runner hold with the real manager: slots are     *)
(* neither lost to another task nor taken twice, queued tasks will run.    *)
THEOREM ComposedRunnerIsSafe == ManagerSpec => []RunnerSafety
BY ManagerImplementsCaptureRunner, RunnerIsSafe, PTL DEF ManagerImplementsRunner

(* All variables of the composed system keep their types, whatever thread  *)
(* publishes whichever file.                                               *)
THEOREM ManagerTypeCorrect == ManagerSpec => []ManagerTypeOK
<1>1. ManagerInv => ManagerTypeOK
  BY DEF ManagerInv, Inv, FilesTypeOK, ManagerTypeOK
<1> QED
  BY <1>1, ManagerInvHolds, PTL

(* stop_capture, the disconnect watch and the auto-stop timer never start  *)
(* two _finalize coroutines, nor one for a row that is still joining.      *)
THEOREM FinalizeRunsOnce == ManagerSpec => []OneFinalize
<1>1. ManagerInv => OneFinalize
  <2>1. SUFFICES ASSUME ManagerInv, NEW t \in Tasks, at[t]["finalize"] # "idle"
                 PROVE  status[t] \notin {"none", "queued", "joining", "capturing"}
    BY DEF OneFinalize
  <2>2. Admitted(t)
    BY <2>1, BusyTask DEF Roles, Recoverers
  <2>3. status[t] # "joining"
    BY <2>1 DEF ManagerInv, TaskInv, JoinIsOver, Inv, RunnerSafety, JoiningHasRunner, Joining
  <2>4. status[t] # "capturing"
    BY <2>1 DEF ManagerInv, TaskInv, FinalizeIsOnce
  <2> QED
    BY <2>2, <2>3, <2>4 DEF Admitted
<1> QED
  BY <1>1, ManagerInvHolds, PTL

(* Every close that abort_session awaits has one caller that waits for it, *)
(* through cancellations by the nudge and by DELETE.                       *)
THEOREM AbortIsOwned == ManagerSpec => []AbortHasOwner
<1>1. ManagerInv => AbortHasOwner
  <2>1. SUFFICES ASSUME ManagerInv, NEW t \in Tasks
                 PROVE  Cardinality({r \in Roles : at[t][r] \in {"abort_ok", "abort_err"}}) =
                          IF Aborting(t) THEN 1 ELSE 0
    BY DEF AbortHasOwner
  <2> DEFINE aborters == {r \in Roles : at[t][r] \in {"abort_ok", "abort_err"}}
  <2>2. OneAborter(t)
    BY <2>1 DEF ManagerInv, TaskInv
  <2>3. CASE Aborting(t)
    <3>1. PICK r \in Roles : at[t][r] \in AbortPlaces
      BY <2>2, <2>3 DEF OneAborter
    <3>2. aborters = {r}
      BY <2>2, <3>1 DEF OneAborter, AbortPlaces
    <3> QED
      BY <2>3, <3>2, FS_Singleton
  <2>4. CASE ~Aborting(t)
    <3>1. aborters = {}
      BY <2>2, <2>4 DEF OneAborter, AbortPlaces
    <3> QED
      BY <2>4, <3>1, FS_EmptySet
  <2> QED
    BY <2>3, <2>4
<1> QED
  BY <1>1, ManagerInvHolds, PTL

(* A row in error or canceled has no session: reconcile_all will not skip  *)
(* it, and the slot of its run is on the way back.                         *)
THEOREM EndedRowHasNoSession == ManagerSpec => []EndedHasNoSession
<1>1. ManagerInv => EndedHasNoSession
  BY DEF ManagerInv, TaskInv, EndedIsGone, EndedHasNoSession
<1> QED
  BY <1>1, ManagerInvHolds, PTL
===============================================================================
