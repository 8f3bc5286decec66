------------------------- MODULE CaptureOutcomeProofs -------------------------
(***************************************************************************)
(* What becomes of a capture: proofs of the promises of CaptureManager.tla *)
(* that hold as long as certain requests, timeouts or restarts stay away.  *)
(* Each theorem names what it excludes, and TLC finds the property         *)
(* violated in an instance that has it.                                    *)
(***************************************************************************)
EXTENDS CaptureManagerProofs

(* The timers of the auto-stop.                                            *)
NoTimer == ~AutoStop => armed = {}

LEMMA NoTimerStep ==
  ASSUME Inv, NoTimer, [Next]_allRunnerVars
  PROVE  NoTimer'
<1>1. ASSUME NEW t \in Tasks, Submit(t) \/ DeleteQueued(t)
      PROVE  NoTimer'
  BY <1>1 DEF NoTimer, Submit, DeleteQueued
<1>2. ASSUME NEW t \in Tasks, RunStep(t)
      PROVE  NoTimer'
  BY <1>2 DEF NoTimer, RunStep, Dispatch, SkipTask, StartCapture, OpenBrowser, JoinSeen, Joined,
              JoinFails, CaptureEnds, CloseReturns, LeaveEngine
<1>3. ASSUME NEW t \in Tasks, EngineCall(t)
      PROVE  NoTimer'
  BY <1>3, EngineCallEffect DEF NoTimer, EngineEffect
<1>4. CASE ManagerPurges \/ UNCHANGED allRunnerVars
  BY <1>4 DEF NoTimer, ManagerPurges, allRunnerVars, runnerVars
<1>5. ASSUME NEW intact \in SUBSET Tasks, CrashRestart(intact)
      PROVE  NoTimer'
  BY <1>5 DEF NoTimer, CrashRestart, Restarted
<1> QED
  BY <1>1, <1>2, <1>3, <1>4, <1>5 DEF Next

-----------------------------------------------------------------------------
(***************************************************************************)
(* A capture can always end.  An abort is lost only by a DELETE, by the    *)
(* timer's own abort or by the nudge of a _finalize that is overdue.       *)
(***************************************************************************)
NoAbortIsLost == "delete" \notin ClientOps /\ ~AutoStop /\ ~Overdue

EndIsComing(t) ==
  run[t] \in InEngine => t \in sessions \/ t \in finished \/ Aborting(t)

CanEndInv == ManagerInv /\ NoTimer /\ \A t \in Tasks : EndIsComing(t)

(* The calls that set the event, or leave it to a later one.               *)
CalmCall(t) ==
  \/ AbortAtOnce(t)
  \/ AbortBegins(t)
  \/ AbortReturns(t)
  \/ StopBegins(t)
  \/ StopReturns(t)

CalmStep ==
  \/ \E t \in Tasks : RunStep(t) \/ CalmCall(t)
  \/ UNCHANGED <<run, sessions, finished, armed, browser>>
  \/ Restarted

LEMMA ProceedIsCalm ==
  ASSUME NEW t \in Tasks, NEW r, NEW place, NEW j, Proceed(t, r, place, j)
  PROVE  CalmCall(t) \/ UNCHANGED runnerVars
BY DEF Proceed, AbortIfAfterFailure, CallAbort, CalmCall

LEMMA CancelIsCalm ==
  ASSUME ManagerInv, NEW t \in Tasks, status[t] = "joining", CancelActive(t)
  PROVE  CalmCall(t) \/ UNCHANGED runnerVars
<1>1. at[t]["finalize"] = "idle"
  BY DEF ManagerInv, TaskInv, JoinIsOver, Inv, RunnerSafety, JoiningHasRunner, Joining
<1>2. ~FinalizeAborting(t)
  BY <1>1 DEF FinalizeAborting
<1> QED
  BY <1>2 DEF CancelActive, CancelAtOnce, CalmCall

LEMMA NudgeIsCalm ==
  ASSUME NoAbortIsLost, NEW t \in Tasks, Nudge(t)
  PROVE  CalmCall(t) \/ UNCHANGED runnerVars
<1>1. at[t]["finalize"] \in {"idle", "spawned"}
  BY DEF Nudge, NudgeIsDue, FinalizeStarted, NoAbortIsLost
<1>2. ~FinalizeAborting(t)
  BY <1>1 DEF FinalizeAborting
<1> QED
  BY <1>2 DEF Nudge, CallAbort, CalmCall

LEMMA CoroutineIsCalm ==
  ASSUME NoAbortIsLost, ManagerInv, NoTimer, NEW t \in Tasks, CoroutineStep(t)
  PROVE  CalmStep
<1> USE DEF CalmStep, runnerVars, allRunnerVars
<1>1. CASE RequestSubmit(t)
  BY <1>1 DEF RequestSubmit, Submit
<1>2. CASE RequestStop(t)
  BY <1>2, CancelIsCalm DEF RequestStop, SpawnFinalize
<1>3. CASE RequestDelete(t) \/ TimerFires(t)
  BY <1>3 DEF RequestDelete, TimerFires, NoAbortIsLost, NoTimer
<1>4. CASE \E p \in Pollers : RequestState(t, p)
  BY <1>4, ProceedIsCalm DEF RequestState
<1>5. CASE RunnerStep(t)
  BY <1>5 DEF RunnerStep
<1>6. CASE FinalizeStep(t) \/ FinalizeTimesOut(t)
  BY <1>6, ProceedIsCalm DEF FinalizeStep, FinalizeTimesOut, FinalizeStarts, Drained, Appended, Stopped,
       Validated, ConvertOrFail, FinalizeFailed, CalmCall
<1>7. CASE Spool(t) \/ Disconnects(t)
  BY <1>7 DEF Spool, Disconnects, SpawnFinalize
<1>8. ASSUME NEW r \in Recoverers, RecoveryStep(t, r)
      PROVE  CalmStep
  <2>1. CASE Accepted(t, r)
    BY <2>1 DEF Accepted, AbortIfAfterFailure, CallAbort, CalmCall
  <2>2. CASE Rejected(t, r) \/ Converted(t, r)
    BY <2>2, ProceedIsCalm DEF Rejected, Converted
  <2>3. CASE PartFileGone(t, r)
    BY <2>3 DEF PartFileGone
  <2> QED
    BY <1>8, <2>1, <2>2, <2>3 DEF RecoveryStep
<1>9. CASE \E r \in Roles : AbortDone(t, r)
  BY <1>9 DEF AbortDone, CalmCall
<1> QED
  BY <1>1, <1>2, <1>3, <1>4, <1>5, <1>6, <1>7, <1>8, <1>9 DEF CoroutineStep

LEMMA ManagerIsCalm ==
  ASSUME NoAbortIsLost, ManagerInv, NoTimer, [ManagerNext]_vars
  PROVE  CalmStep
<1> USE DEF CalmStep, runnerVars, allRunnerVars
<1>1. CASE UNCHANGED vars
  BY <1>1 DEF vars
<1>2. CASE \E t \in Tasks : CoroutineStep(t)
  BY <1>2, CoroutineIsCalm
<1>3. CASE TtlWakes \/ \E l \in Loops : LoopAdvances(l)
  BY <1>3 DEF TtlWakes, LoopAdvances
<1>4. CASE \E l \in Loops, t \in Tasks : Reconcile(l, t)
  BY <1>4, ProceedIsCalm DEF Reconcile
<1>5. CASE \E t \in Tasks : Nudge(t) \/ NudgeWaits(t)
  BY <1>5, NudgeIsCalm DEF NudgeWaits
<1>6. CASE Purge
  BY <1>6 DEF Purge
<1>7. CASE \E t \in Tasks : ThreadStep(t)
  BY <1>7 DEF ThreadStep, WriterStep, EncodeBegins, EncodeFinishes, EncodeFails, Probe, AppendLands
<1>8. CASE Dies \/ \E t \in Tasks : StartupFails(t)
  BY <1>8 DEF Dies, StartupFails, Reboot, CrashRestart
<1> QED
  BY <1>1, <1>2, <1>3, <1>4, <1>5, <1>6, <1>7, <1>8 DEF ManagerNext, LoopStep

LEMMA CalmStepInv ==
  ASSUME CanEndInv, CalmStep, NEW u \in Tasks
  PROVE  EndIsComing(u)'
<1> USE DEF CanEndInv, ManagerInv, Inv, TypeOK, EndIsComing, Aborting
<1>1. CASE UNCHANGED <<run, sessions, finished, armed, browser>>
  BY <1>1
<1>2. CASE Restarted
  BY <1>2 DEF Restarted, InEngine, Joining
<1>3. ASSUME NEW t \in Tasks, CalmCall(t)
      PROVE  EndIsComing(u)'
  <2>1. run' = run
    BY <1>3 DEF CalmCall, AbortAtOnce, AbortBegins, AbortReturns, StopBegins, StopReturns
  <2>2. run[u] \in InEngine => run[u] \notin {"closing", "failing"}
    BY DEF InEngine, Joining
  <2> QED
    BY <1>3, <2>1, <2>2 DEF CalmCall, AbortAtOnce, AbortBegins, AbortReturns, StopBegins, StopReturns
<1>4. ASSUME NEW t \in Tasks, RunStep(t)
      PROVE  EndIsComing(u)'
  <2>1. CASE Dispatch(t) \/ SkipTask(t)
    BY <2>1 DEF Dispatch, SkipTask, InEngine, Joining
  <2>2. CASE StartCapture(t)
    BY <2>2 DEF StartCapture, InEngine, Joining
  <2>3. CASE OpenBrowser(t) \/ JoinSeen(t) \/ Joined(t)
    BY <2>3 DEF OpenBrowser, JoinSeen, Joined, InEngine, Joining, TaskInv, LaunchIsBare
  <2>4. CASE JoinFails(t) \/ CaptureEnds(t)
    BY <2>4 DEF JoinFails, CaptureEnds, LeaveEngine, Leave, InEngine, Joining
  <2>5. CASE CloseReturns(t)
    BY <2>5 DEF CloseReturns, Leave, InEngine, Joining
  <2> QED
    BY <1>4, <2>1, <2>2, <2>3, <2>4, <2>5 DEF RunStep
<1> QED
  BY <1>1, <1>2, <1>3, <1>4 DEF CalmStep

(* No slot is lost: as long as nothing cancels an abort half-way, a run    *)
(* that waits in a meeting has a session that stop or abort_session can    *)
(* end, or an abort that will set its event ("Release worker slot without  *)
(* producing an artifact", engine.abort_session).                          *)
THEOREM CapturesCanEnd ==
  ASSUME NoAbortIsLost
  PROVE  ManagerSpec => []CaptureCanEnd
<1>1. ManagerInit => CanEndInv
  BY ManagerInitInv DEF ManagerInit, Init, RunnerInit, CanEndInv, NoTimer, EndIsComing, InEngine,
                        Joining
<1>2. CanEndInv /\ [ManagerNext]_vars => CanEndInv'
  BY ManagerNextStep, ManagerIsCalm, CalmStepInv, NoTimerStep DEF StepOK, CanEndInv, ManagerInv
<1>3. CanEndInv => CaptureCanEnd
  BY DEF CanEndInv, EndIsComing, CaptureCanEnd, InEngine
<1> QED
  BY <1>1, <1>2, <1>3, PTL DEF ManagerSpec

(* Chromium is left running by nobody.                                     *)
NoLeak == \A t \in Tasks : browser[t] # "leaked"

LeftInv == ManagerInv /\ NoTimer /\ NoLeak

LEMMA CalmStepLeaksNothing ==
  ASSUME LeftInv, CalmStep, NEW u \in Tasks
  PROVE  browser'[u] # "leaked"
<1> USE DEF LeftInv, NoLeak, ManagerInv, Inv, TypeOK
<1>1. CASE UNCHANGED <<run, sessions, finished, armed, browser>>
  BY <1>1
<1>2. CASE Restarted
  BY <1>2 DEF Restarted
<1>3. ASSUME NEW t \in Tasks, CalmCall(t)
      PROVE  browser'[u] # "leaked"
  BY <1>3 DEF CalmCall, AbortAtOnce, AbortBegins, AbortReturns, StopBegins, StopReturns
<1>4. ASSUME NEW t \in Tasks, RunStep(t)
      PROVE  browser'[u] # "leaked"
  BY <1>4 DEF RunStep, Dispatch, SkipTask, StartCapture, OpenBrowser, JoinSeen, Joined, JoinFails,
              CaptureEnds, CloseReturns, LeaveEngine, Leave
<1> QED
  BY <1>1, <1>2, <1>3, <1>4 DEF CalmStep

(* As long as nothing cancels an abort half-way, a Chromium that nobody is *)
(* closing is in a slot, so of these there are never more than WORKERS     *)
(* (engine.abort_session takes the references before it awaits the close). *)
THEOREM BrowsersAreInSlots ==
  ASSUME NoAbortIsLost
  PROVE  ManagerSpec => []NoBrowserIsLeft
<1>1. ManagerInit => LeftInv
  BY ManagerInitInv DEF ManagerInit, Init, RunnerInit, LeftInv, NoTimer, NoLeak
<1>2. LeftInv /\ [ManagerNext]_vars => LeftInv'
  BY ManagerNextStep, ManagerIsCalm, CalmStepLeaksNothing, NoTimerStep DEF StepOK, LeftInv, NoLeak, ManagerInv
<1>3. LeftInv => NoBrowserIsLeft
  BY DEF LeftInv, NoLeak, ManagerInv, Inv, OpenIsRun, NoBrowserIsLeft, Holding
<1> QED
  BY <1>1, <1>2, <1>3, PTL DEF ManagerSpec

-----------------------------------------------------------------------------
(***************************************************************************)
(* The frame of a step that is about one task: all there is of the others  *)
(* stays as it is.                                                         *)
(***************************************************************************)
RowSame(u) == status'[u] = status[u] /\ recorded'[u] = recorded[u]

RunSame(u) ==
  /\ run'[u] = run[u] /\ browser'[u] = browser[u]
  /\ u \in sessions' <=> u \in sessions
  /\ u \in finished' <=> u \in finished

WorkSame(u) == at'[u] = at[u] /\ job'[u] = job[u]

FilesSame(u) ==
  /\ pcm'[u] = pcm[u] /\ mp3'[u] = mp3[u] /\ part'[u] = part[u]
  /\ append'[u] = append[u]

Same(u) == RowSame(u) /\ RunSame(u) /\ WorkSame(u) /\ FilesSame(u)

OthersSame(t) == \A u \in Tasks \ {t} : Same(u)

LEMMA UnchangedIsSame ==
  ASSUME NEW u
  PROVE  /\ UNCHANGED storeVars => RowSame(u)
         /\ UNCHANGED runnerVars => RunSame(u)
         /\ UNCHANGED <<job, at>> => WorkSame(u)
         /\ UNCHANGED <<fileVars, append>> => FilesSame(u)
BY DEF storeVars, runnerVars, fileVars, RowSame, RunSame, WorkSame, FilesSame

LEMMA RowIsSame ==
  ASSUME ManagerInv, NEW t \in Tasks, NEW u \in Tasks \ {t},
         \/ RowWrite(t)
         \/ Create(t)
         \/ \E s \in Status : UpdateStatus(t, s)
  PROVE  RowSame(u)
BY DEF ManagerInv, Inv, TypeOK, StoreTypeOK, RowSame, RowWrite, Create, MarkError, MarkCanceled,
       MarkSuccess, UpdateStatus, storeVars

LEMMA CallIsSame ==
  ASSUME ManagerInv, NEW t \in Tasks, NEW u \in Tasks \ {t}, RunnerCall(t)
  PROVE  RunSame(u)
<1> USE DEF ManagerInv, Inv, TypeOK, RunSame
<1>1. CASE AbortAtOnce(t) \/ AbortBegins(t) \/ AbortCancelsItself(t)
  BY <1>1 DEF AbortAtOnce, AbortBegins, AbortCancelsItself
<1>2. CASE AbortReturns(t) \/ AbortIsLost(t)
  BY <1>2 DEF AbortReturns, AbortIsLost
<1>3. CASE StopBegins(t) \/ StopReturns(t) \/ UNCHANGED runnerVars
  BY <1>3 DEF StopBegins, StopReturns, runnerVars
<1> QED
  BY <1>1, <1>2, <1>3 DEF RunnerCall

LEMMA RunStepIsSame ==
  ASSUME ManagerInv, NEW t \in Tasks, NEW u \in Tasks \ {t}, RunStep(t)
  PROVE  RowSame(u) /\ RunSame(u)
<1> USE DEF ManagerInv, Inv, TypeOK, StoreTypeOK, RowSame, RunSame, storeVars
<1>1. CASE Dispatch(t) \/ SkipTask(t) \/ OpenBrowser(t) \/ JoinSeen(t)
  BY <1>1 DEF Dispatch, SkipTask, OpenBrowser, JoinSeen
<1>2. CASE StartCapture(t) \/ Joined(t)
  BY <1>2 DEF StartCapture, Joined, UpdateStatus
<1>3. CASE JoinFails(t) \/ CaptureEnds(t)
  BY <1>3 DEF JoinFails, CaptureEnds, LeaveEngine, Leave, MarkError, UpdateStatus
<1>4. CASE CloseReturns(t)
  BY <1>4 DEF CloseReturns, Leave, MarkError, UpdateStatus
<1> QED
  BY <1>1, <1>2, <1>3, <1>4 DEF RunStep

LEMMA MoveIsSame ==
  ASSUME ManagerInv, NEW t \in Tasks, NEW u \in Tasks \ {t}
  PROVE  /\ \A r, place, a, j : MoveTo(t, r, place, a, j) => WorkSame(u)
         /\ \A r, place : Goto(t, r, place) => at'[u] = at[u]
         /\ \A w, state : SetJob(t, w, state) \/ Return(t, w, state) => job'[u] = job[u]
         /\ RemoveFiles(t) => pcm'[u] = pcm[u] /\ mp3'[u] = mp3[u] /\ part'[u] = part[u]
BY DEF ManagerInv, FilesTypeOK, WorkSame, MoveTo, Goto, SetJob, Return, RemoveFiles

LEMMA ProceedIsSame ==
  ASSUME ManagerInv, NEW t \in Tasks, NEW u \in Tasks \ {t}, NEW r, NEW place, NEW j,
         Proceed(t, r, place, j)
  PROVE  RowSame(u) /\ RunSame(u) /\ WorkSame(u)
<1>1. WorkSame(u)
  BY MoveIsSame DEF Proceed
<1>2. RunnerCall(t)
  BY DEF Proceed, AbortIfAfterFailure, CallAbort, RunnerCall
<1>3. RowWrite(t)
  BY DEF Proceed, RowWrite
<1> QED
  BY <1>1, <1>2, <1>3, RowIsSame, CallIsSame

LEMMA ThreadIsSame ==
  ASSUME ManagerInv, NEW t \in Tasks, ThreadStep(t)
  PROVE  OthersSame(t)
<1>1. SUFFICES ASSUME NEW u \in Tasks \ {t}
               PROVE  Same(u)
  BY DEF OthersSame
<1>2. RowSame(u) /\ RunSame(u)
  BY UnchangedIsSame
     DEF ThreadStep, WriterStep, EncodeBegins, EncodeFinishes, EncodeFails, Probe, AppendLands,
         allRunnerVars
<1>3. WorkSame(u)
  BY MoveIsSame DEF ThreadStep, WriterStep, EncodeBegins, EncodeFinishes, EncodeFails, Probe,
                    AppendLands, WorkSame
<1>4. FilesSame(u)
  BY DEF ThreadStep, WriterStep, EncodeBegins, EncodeFinishes, EncodeFails, Probe, AppendLands,
         FilesSame, fileVars, ManagerInv, FilesTypeOK
<1> QED
  BY <1>2, <1>3, <1>4 DEF Same

LEMMA RecoveryIsSame ==
  ASSUME ManagerInv, NEW t \in Tasks, NEW r \in Recoverers, RecoveryStep(t, r)
  PROVE  OthersSame(t)
<1>1. SUFFICES ASSUME NEW u \in Tasks \ {t}
               PROVE  Same(u)
  BY DEF OthersSame
<1> USE DEF Same
<1>2. CASE Accepted(t, r)
  <2>1. RowWrite(t)
    BY <1>2 DEF Accepted, RowWrite, Size
  <2>2. RunnerCall(t)
    BY <1>2 DEF Accepted, AbortIfAfterFailure, CallAbort, RunnerCall
  <2>3. WorkSame(u) /\ FilesSame(u)
    BY <1>2, MoveIsSame, UnchangedIsSame DEF Accepted, WorkSame
  <2> QED
    BY <2>1, <2>2, <2>3, RowIsSame, CallIsSame
<1>3. CASE Rejected(t, r)
  BY <1>3, ProceedIsSame, UnchangedIsSame DEF Rejected
<1>4. CASE Converted(t, r)
  <2>1. FilesSame(u)
    BY <1>4 DEF Converted, FilesSame, ManagerInv, FilesTypeOK
  <2> QED
    BY <1>4, <2>1, ProceedIsSame DEF Converted
<1>5. CASE PartFileGone(t, r)
  <2>1. WorkSame(u)
    BY <1>5, MoveIsSame DEF PartFileGone, WorkSame
  <2> QED
    BY <1>5, <2>1, UnchangedIsSame DEF PartFileGone, allRunnerVars
<1> QED
  BY <1>2, <1>3, <1>4, <1>5 DEF RecoveryStep

LEMMA AbortDoneIsSame ==
  ASSUME ManagerInv, NEW t \in Tasks, NEW r \in Roles, AbortDone(t, r)
  PROVE  OthersSame(t)
<1>1. SUFFICES ASSUME NEW u \in Tasks \ {t}
               PROVE  Same(u)
  BY DEF OthersSame
<1>2. RunnerCall(t) /\ RowWrite(t)
  BY DEF AbortDone, RunnerCall, RowWrite
<1>3. WorkSame(u)
  BY MoveIsSame DEF AbortDone, WorkSame, threadVars
<1>4. FilesSame(u)
  BY MoveIsSame DEF AbortDone, FilesSame, threadVars, fileVars
<1> QED
  BY <1>2, <1>3, <1>4, RowIsSame, CallIsSame DEF Same

LEMMA FinalizeIsSame ==
  ASSUME ManagerInv, NEW t \in Tasks, FinalizeStep(t) \/ FinalizeTimesOut(t)
  PROVE  OthersSame(t)
<1>1. SUFFICES ASSUME NEW u \in Tasks \ {t}
               PROVE  Same(u)
  BY DEF OthersSame
<1> USE DEF Same
<1>2. FinalizeFailed(t) => RowSame(u) /\ RunSame(u) /\ WorkSame(u)
  BY ProceedIsSame DEF FinalizeFailed
<1>3. ConvertOrFail(t) => RowSame(u) /\ RunSame(u) /\ WorkSame(u)
  BY <1>2, MoveIsSame, UnchangedIsSame DEF ConvertOrFail, WorkSame, allRunnerVars
<1>4. CASE FinalizeStarts(t)
  <2>1. CASE FinalizeFailed(t)
    BY <1>2, <1>4, <2>1, UnchangedIsSame DEF FinalizeStarts
  <2>2. CASE ~FinalizeFailed(t)
    <3>1. RunnerCall(t) /\ UNCHANGED storeVars
      BY <1>4, <2>2 DEF FinalizeStarts, RunnerCall
    <3>2. WorkSame(u) /\ FilesSame(u)
      BY <1>4, <2>2, MoveIsSame, UnchangedIsSame DEF FinalizeStarts, WorkSame
    <3> QED
      BY <3>1, <3>2, CallIsSame, UnchangedIsSame
  <2> QED
    BY <2>1, <2>2
<1>5. CASE Drained(t)
  <2>1. FilesSame(u)
    BY <1>5 DEF Drained, FilesSame, fileVars, ManagerInv, FilesTypeOK
  <2>2. RowSame(u) /\ RunSame(u) /\ WorkSame(u)
    BY <1>3, <1>5, MoveIsSame, UnchangedIsSame DEF Drained, WorkSame, allRunnerVars
  <2> QED
    BY <2>1, <2>2
<1>6. CASE Appended(t) \/ FinalizeTimesOut(t)
  BY <1>2, <1>3, <1>6, UnchangedIsSame DEF Appended, FinalizeTimesOut
<1>7. CASE Stopped(t)
  <2>1. FilesSame(u)
    BY <1>7 DEF Stopped, FilesSame, ManagerInv, FilesTypeOK
  <2>2. CASE FinalizeFailed(t)
    BY <1>2, <2>1, <2>2
  <2>3. CASE ~FinalizeFailed(t)
    <3>1. RunnerCall(t) /\ UNCHANGED storeVars /\ WorkSame(u)
      BY <1>7, <2>3, MoveIsSame DEF Stopped, RunnerCall
    <3> QED
      BY <2>1, <3>1, CallIsSame, UnchangedIsSame
  <2> QED
    BY <2>2, <2>3
<1>8. CASE Validated(t)
  <2>1. CASE FinalizeFailed(t)
    BY <1>2, <1>8, <2>1, UnchangedIsSame DEF Validated
  <2>2. CASE ~FinalizeFailed(t)
    <3>1. RowWrite(t) /\ UNCHANGED runnerVars
      BY <1>8, <2>2 DEF Validated, RowWrite, Size
    <3>2. WorkSame(u) /\ FilesSame(u)
      BY <1>8, <2>2, MoveIsSame, UnchangedIsSame DEF Validated, WorkSame
    <3> QED
      BY <3>1, <3>2, RowIsSame, UnchangedIsSame
  <2> QED
    BY <2>1, <2>2
<1> QED
  BY <1>4, <1>5, <1>6, <1>7, <1>8 DEF FinalizeStep

LEMMA RequestIsSame ==
  ASSUME ManagerInv, NEW t \in Tasks,
         RequestStop(t) \/ RequestDelete(t) \/ Disconnects(t) \/ TimerFires(t)
  PROVE  OthersSame(t)
<1>1. SUFFICES ASSUME NEW u \in Tasks \ {t}
               PROVE  Same(u)
  BY DEF OthersSame
<1> USE DEF Same
<1>2. CASE SpawnFinalize(t)
  <2>1. WorkSame(u)
    BY <1>2, MoveIsSame DEF SpawnFinalize, WorkSame, threadVars
  <2> QED
    BY <1>2, <2>1, RowIsSame, UnchangedIsSame DEF SpawnFinalize, RowWrite, threadVars
<1>3. CASE CancelActive(t)
  <2>1. RunnerCall(t) /\ RowWrite(t)
    BY <1>3 DEF CancelActive, CancelAtOnce, RunnerCall, RowWrite
  <2>2. WorkSame(u)
    BY <1>3 DEF CancelActive, WorkSame, ManagerInv, FilesTypeOK
  <2>3. FilesSame(u)
    BY <1>3, MoveIsSame DEF CancelActive, CancelAtOnce, FilesSame, fileVars
  <2> QED
    BY <2>1, <2>2, <2>3, RowIsSame, CallIsSame
<1>4. CASE DeleteQueued(t) /\ RemoveFiles(t) /\ UNCHANGED <<threadVars, at, loop>>
  <2>1. RowWrite(t) /\ RunSame(u)
    BY <1>4 DEF DeleteQueued, RowWrite, RunSame
  <2>2. WorkSame(u) /\ FilesSame(u)
    BY <1>4, MoveIsSame DEF WorkSame, FilesSame, threadVars
  <2> QED
    BY <2>1, <2>2, RowIsSame
<1>5. CASE /\ AbortCancelsItself(t) \/ CancelAtOnce(t)
           /\ RemoveFiles(t) \/ UNCHANGED fileVars
           /\ RowWrite(t)
           /\ UNCHANGED <<threadVars, at, loop>>
  <2>1. RunnerCall(t)
    BY <1>5 DEF RunnerCall, CancelAtOnce
  <2>2. WorkSame(u) /\ FilesSame(u)
    BY <1>5, MoveIsSame DEF WorkSame, FilesSame, threadVars, fileVars
  <2> QED
    BY <1>5, <2>1, <2>2, RowIsSame, CallIsSame
<1> QED
  BY <1>2, <1>3, <1>4, <1>5
     DEF RequestStop, RequestDelete, Disconnects, TimerFires, CancelAtOnce, RowWrite

LEMMA CoroutineIsSame ==
  ASSUME ManagerInv, NEW t \in Tasks, CoroutineStep(t)
  PROVE  OthersSame(t)
<1>1. CASE RequestSubmit(t) \/ RunnerStep(t)
  <2>1. SUFFICES ASSUME NEW u \in Tasks \ {t}
                 PROVE  Same(u)
    BY DEF OthersSame
  <2>2. RowSame(u) /\ RunSame(u)
    BY <1>1, RowIsSame, RunStepIsSame DEF RequestSubmit, RunnerStep, Submit, RunSame
  <2>3. WorkSame(u) /\ FilesSame(u)
    BY <1>1 DEF RequestSubmit, RunnerStep, managerVars, threadVars, fileVars, WorkSame, FilesSame
  <2> QED
    BY <2>2, <2>3 DEF Same
<1>2. CASE Spool(t)
  BY <1>2 DEF Spool, OthersSame, Same, RowSame, RunSame, WorkSame, FilesSame, allRunnerVars, storeVars,
              runnerVars, fileVars, ManagerInv, FilesTypeOK
<1>3. CASE \E p \in Pollers : RequestState(t, p)
  BY <1>3, ProceedIsSame, UnchangedIsSame DEF RequestState, OthersSame, Same
<1> QED
  BY <1>1, <1>2, <1>3, RequestIsSame, FinalizeIsSame, RecoveryIsSame, AbortDoneIsSame
     DEF CoroutineStep

LEMMA LoopIsSame ==
  ASSUME ManagerInv, NEW t \in Tasks,
         Nudge(t) \/ NudgeWaits(t) \/ \E l \in Loops : Reconcile(l, t)
  PROVE  OthersSame(t)
<1>1. SUFFICES ASSUME NEW u \in Tasks \ {t}
               PROVE  Same(u)
  BY DEF OthersSame
<1> USE DEF Same
<1>2. CASE Nudge(t)
  <2>1. RunnerCall(t)
    BY <1>2 DEF Nudge, CallAbort, RunnerCall
  <2>2. WorkSame(u)
    BY <1>2, MoveIsSame DEF Nudge
  <2> QED
    BY <1>2, <2>1, <2>2, CallIsSame, UnchangedIsSame DEF Nudge
<1>3. CASE NudgeWaits(t)
  BY <1>3, UnchangedIsSame DEF NudgeWaits, allRunnerVars, threadVars
<1>4. ASSUME NEW l \in Loops, Reconcile(l, t)
      PROVE  Same(u)
  BY <1>4, ProceedIsSame, UnchangedIsSame DEF Reconcile, allRunnerVars
<1> QED
  BY <1>2, <1>3, <1>4

(* Every step of the manager is about one task, or about none, or about    *)
(* the table of rows or the process as a whole.                            *)
TaskStep(t) ==
  \/ CoroutineStep(t)
  \/ ThreadStep(t)
  \/ Nudge(t)
  \/ NudgeWaits(t)
  \/ \E l \in Loops : Reconcile(l, t)

LoopsMove == UNCHANGED vars \/ TtlWakes \/ \E l \in Loops : LoopAdvances(l)

LEMMA StepsAreOfFourKinds ==
  ASSUME [ManagerNext]_vars
  PROVE  \/ \E t \in Tasks : TaskStep(t)
         \/ LoopsMove
         \/ Purge
         \/ Reboot
BY DEF ManagerNext, LoopStep, Dies, StartupFails, TaskStep, LoopsMove

LEMMA TaskStepIsSame ==
  ASSUME ManagerInv, NEW t \in Tasks, TaskStep(t)
  PROVE  OthersSame(t)
BY CoroutineIsSame, ThreadIsSame, LoopIsSame DEF TaskStep

-----------------------------------------------------------------------------
(***************************************************************************)
(* Rows and coroutines that have the join behind them.  A loop, a thread   *)
(* and a recovery work only on tasks that never join again, although they  *)
(* do not look at the row after their first look.                          *)
(***************************************************************************)
JoinIsPast(t) == Admitted(t) /\ run[t] \notin Joining

InWork(t) ==
  \/ status[t] \in {"error", "finalizing"}
  \/ \E r \in Recoverers : at[t][r] # "idle"
  \/ \E w \in Writers : job[t][w] # "none"

WorkIsPast(t) == InWork(t) => JoinIsPast(t)

ListedIsPast == \A l \in Loops : \A t \in loop[l].todo : JoinIsPast(t)

PastInv == ManagerInv /\ ListedIsPast /\ \A t \in Tasks : WorkIsPast(t)

(* It is past for ever: only a queued row gets a slot.                     *)
LEMMA PastForEver ==
  ASSUME ManagerInv, [Next]_allRunnerVars, NEW u \in Tasks, JoinIsPast(u)
  PROVE  JoinIsPast(u)'
<1> USE DEF JoinIsPast, ManagerInv, Inv, TypeOK, Joining
<1>1. Admitted(u)'
  BY AdmittedForEver
<1>2. run'[u] \notin Joining
  <2>1. ASSUME NEW t \in Tasks, RunStep(t)
        PROVE  run'[u] \notin Joining
    <3>1. CASE Dispatch(t) \/ SkipTask(t) \/ StartCapture(t)
      BY <3>1 DEF Dispatch, SkipTask, StartCapture, Admitted
    <3>2. CASE OpenBrowser(t) \/ JoinSeen(t) \/ Joined(t)
      BY <3>2 DEF OpenBrowser, JoinSeen, Joined
    <3>3. CASE JoinFails(t) \/ CaptureEnds(t) \/ CloseReturns(t)
      BY <3>3 DEF JoinFails, CaptureEnds, CloseReturns, Leave
    <3> QED
      BY <2>1, <3>1, <3>2, <3>3 DEF RunStep
  <2>2. ASSUME NEW t \in Tasks, Submit(t) \/ DeleteQueued(t)
        PROVE  run'[u] \notin Joining
    BY <2>2 DEF Submit, DeleteQueued
  <2>3. ASSUME NEW t \in Tasks, EngineCall(t)
        PROVE  run'[u] \notin Joining
    BY <2>3, EngineCallEffect DEF EngineEffect
  <2>4. CASE ManagerPurges \/ UNCHANGED allRunnerVars
    BY <2>4 DEF ManagerPurges, runnerVars, allRunnerVars
  <2>5. ASSUME NEW intact \in SUBSET Tasks, CrashRestart(intact)
        PROVE  run'[u] \notin Joining
    BY <2>5 DEF CrashRestart, Restarted
  <2> QED
    BY <2>1, <2>2, <2>3, <2>4, <2>5 DEF Next
<1> QED
  BY <1>1, <1>2

(* A step puts a task in work when its join is past, if not before.        *)
WorkBegins(t) == InWork(t)' => JoinIsPast(t) \/ JoinIsPast(t)'

LEMMA CapturingIsPast ==
  ASSUME ManagerInv, NEW t \in Tasks, status[t] = "capturing"
  PROVE  JoinIsPast(t)
BY DEF ManagerInv, TaskInv, JoinIsOver, JoinIsPast, Joining, Admitted

LEMMA SpawnIsPast ==
  ASSUME PastInv, NEW t \in Tasks, SpawnFinalize(t)
  PROVE  WorkBegins(t)
BY CapturingIsPast DEF SpawnFinalize, WorkBegins, PastInv

LEMMA CancelIsPast ==
  ASSUME PastInv, NEW t \in Tasks,
         CancelActive(t) \/ (CancelAtOnce(t) /\ UNCHANGED <<job, at>>)
  PROVE  WorkBegins(t)
<1> USE DEF WorkBegins, InWork, PastInv, WorkIsPast, ManagerInv, FilesTypeOK, Inv, TypeOK, StoreTypeOK
<1>1. status'[t] \in {"error", "finalizing"} => status[t] \in {"error", "finalizing"}
  BY DEF CancelActive, CancelAtOnce, MarkCanceled, storeVars
<1>2. CASE CancelActive(t)
  <2>1. \A r \in Recoverers : at'[t][r] # "idle" => at[t][r] # "idle"
    BY <1>2, ScenarioAssumption
       DEF CancelActive, RolesWithoutFinalize, Roles, Recoverers, Loops
  <2>2. \A w \in Writers : job'[t][w] # "none" => job[t][w] # "none"
    BY <1>2 DEF CancelActive, JobsWithoutFinalize, Orphaned
  <2> QED
    BY <1>1, <2>1, <2>2
<1>3. CASE UNCHANGED <<job, at>>
  BY <1>1, <1>3
<1> QED
  BY <1>2, <1>3

LEMMA RunStepIsPast ==
  ASSUME PastInv, NEW t \in Tasks, RunStep(t), UNCHANGED managerVars
  PROVE  WorkBegins(t)
<1> USE DEF PastInv, ManagerInv, Inv, TypeOK, StoreTypeOK
<1>1. CASE InWork(t)
  BY <1>1 DEF WorkIsPast, WorkBegins
<1>2. CASE ~InWork(t)
  <2>1. SUFFICES ASSUME status'[t] \in {"error", "finalizing"}, status'[t] # status[t]
                 PROVE  JoinIsPast(t)'
    BY <1>2 DEF InWork, WorkBegins, managerVars, threadVars
  <2>2. (JoinFails(t) \/ CloseReturns(t)) /\ MarkError(t) /\ run'[t] = "done"
    BY <2>1 DEF RunStep, Dispatch, SkipTask, StartCapture, OpenBrowser, JoinSeen, Joined, JoinFails,
                CaptureEnds, CloseReturns, Leave, UpdateStatus, storeVars
  <2> QED
    BY <2>1, <2>2 DEF JoinIsPast, Admitted, Joining
<1> QED
  BY <1>1, <1>2

LEMMA TaskStepIsPast ==
  ASSUME PastInv, NEW t \in Tasks, TaskStep(t)
  PROVE  WorkBegins(t)
<1>1. CASE InWork(t)
  BY <1>1 DEF PastInv, WorkIsPast, WorkBegins
<1>2. CASE ~InWork(t)
  <2>1. CASE RequestSubmit(t)
    BY <1>2, <2>1 DEF RequestSubmit, Submit, Create, managerVars, threadVars, WorkBegins, InWork, PastInv,
                      ManagerInv, Inv, TypeOK, StoreTypeOK
  <2>2. CASE RequestStop(t) \/ Disconnects(t)
    BY <2>2, SpawnIsPast, CancelIsPast DEF RequestStop, Disconnects
  <2>3. CASE RequestDelete(t)
    <3>1. CASE DeleteQueued(t) /\ UNCHANGED <<threadVars, at, loop>>
      BY <1>2, <3>1 DEF DeleteQueued, MarkCanceled, threadVars, WorkBegins, InWork, PastInv, ManagerInv, Inv,
                        TypeOK, StoreTypeOK
    <3> QED
      BY <2>3, <3>1, CancelIsPast DEF RequestDelete
  <2>4. CASE TimerFires(t)
    <3>1. CASE UNCHANGED <<storeVars, threadVars, at>>
      BY <1>2, <3>1 DEF storeVars, threadVars, WorkBegins, InWork
    <3> QED
      BY <2>4, <3>1, SpawnIsPast, CancelIsPast DEF TimerFires, threadVars
  <2>5. CASE RunnerStep(t)
    BY <2>5, RunStepIsPast DEF RunnerStep
  <2>6. CASE Spool(t) \/ NudgeWaits(t) \/ AppendLands(t)
    BY <1>2, <2>6 DEF Spool, NudgeWaits, AppendLands, threadVars, allRunnerVars, storeVars, WorkBegins, InWork
  <2>7. CASE Nudge(t) \/ \E l \in Loops : Reconcile(l, t)
    BY <2>7 DEF Nudge, NudgeVisits, Reconcile, PastInv, ListedIsPast, Loops, WorkBegins
  <2>8. CASE \E w \in Writers : WriterStep(t, w) \/ (w \in Recoverers /\ Probe(t, w))
    BY <1>2, <2>8 DEF WriterStep, EncodeBegins, EncodeFinishes, EncodeFails, Probe, InWork
  <2>9. CASE \E r \in Recoverers : RecoveryStep(t, r)
    BY <1>2, <2>9 DEF RecoveryStep, Accepted, Rejected, Converted, PartFileGone, InWork
  <2>10. CASE FinalizeStep(t) \/ FinalizeTimesOut(t)
    BY <1>2, <2>10, ScenarioAssumption
       DEF FinalizeStep, FinalizeTimesOut, FinalizeStarts, Drained, Appended, Stopped, Validated, InWork,
           Recoverers
  <2>11. CASE \E p \in Pollers : RequestState(t, p)
    BY <1>2, <2>11 DEF RequestState, InWork
  <2>12. ASSUME NEW r \in Roles, AbortDone(t, r)
         PROVE  WorkBegins(t)
    <3>1. r = "client"
      BY <1>2, <2>12 DEF AbortDone, InWork, Roles
    <3>2. status'[t] \notin {"error", "finalizing"}
      BY <1>2, <2>12, <3>1 DEF AbortDone, MarkCanceled, InWork, PastInv, ManagerInv, Inv, TypeOK, StoreTypeOK
    <3>3. \A s \in Recoverers : at'[t][s] = at[t][s]
      BY <2>12, <3>1, ScenarioAssumption
         DEF AbortDone, Goto, Recoverers, Loops, PastInv, ManagerInv, FilesTypeOK, Roles
    <3> QED
      BY <1>2, <2>12, <3>2, <3>3 DEF AbortDone, threadVars, WorkBegins, InWork
  <2> QED
    BY <2>1, <2>2, <2>3, <2>4, <2>5, <2>6, <2>7, <2>8, <2>9, <2>10, <2>11, <2>12
       DEF TaskStep, CoroutineStep, ThreadStep, Writers
<1> QED
  BY <1>1, <1>2

(* The rows that a restart leaves in error, and those it lists, are of     *)
(* tasks that were admitted, and nothing runs.                             *)
LEMMA RebootIsPast ==
  ASSUME PastInv, Reboot, NEW u \in Tasks, status'[u] = "error" \/ InWork(u)'
  PROVE  JoinIsPast(u)'
<1> USE DEF PastInv, ManagerInv, Inv, TypeOK, StoreTypeOK
<1>1. CrashRestart({v \in Tasks : mp3[v] # "none"})
  BY DEF Reboot
<1>2. run'[u] \notin Joining
  BY <1>1 DEF CrashRestart, Restarted, Joining
<1>3. status'[u] \in {"error", "finalizing"}
  BY DEF Reboot, InWork, Roles
<1> QED
  BY <1>2, <1>3 DEF JoinIsPast, Admitted

LEMMA TodoOfStep ==
  ASSUME ManagerInv, [ManagerNext]_vars, NEW l \in Loops, NEW u \in loop'[l].todo
  PROVE  u \in Tasks /\ (u \in loop[l].todo \/ status'[u] \in {"error", "finalizing", "capturing"})
<1> USE DEF ManagerInv, FilesTypeOK
<1>1. CASE loop' = loop
  BY <1>1
<1>2. CASE \E k \in Loops, t \in Tasks : Handled(k, t)
  BY <1>2, HandledFrame
<1>3. CASE TtlWakes \/ \E k \in Loops : LoopAdvances(k)
  <2>1. PICK k \in Loops : \E phase, s : Enter(k, phase, {}) \/
          (s \in {"error", "finalizing", "capturing"} /\ Enter(k, phase, Listed(s)))
    BY <1>3 DEF TtlWakes, LoopAdvances, Loops
  <2>2. status' = status
    BY <1>3 DEF TtlWakes, LoopAdvances, allRunnerVars, storeVars
  <2> QED
    <3>1. PICK phase, todo : /\ loop' = [loop EXCEPT ![k] = [phase |-> phase, todo |-> todo]]
                            /\ \A v \in todo : v \in Tasks /\ status[v] \in {"error", "finalizing", "capturing"}
      BY <2>1 DEF Enter, Listed
    <3>2. loop'[l].todo = loop[l].todo \/ loop'[l].todo = todo
      BY <3>1
    <3> QED
      BY <2>2, <3>1, <3>2
<1>4. CASE loop' = [loop EXCEPT !["ttl"] = [phase |-> "purge", todo |-> {}]]
           \/ loop' = [loop EXCEPT !["ttl"] = [phase |-> "rest", todo |-> {}]]
  BY <1>4
<1>5. CASE Reboot
  BY <1>5 DEF Reboot, Loops
<1> QED
  <2>1. ASSUME NEW t \in Tasks, CoroutineStep(t)
        PROVE  loop' = loop \/ loop' = [loop EXCEPT !["ttl"] = [phase |-> "purge", todo |-> {}]]
    BY <2>1 DEF CoroutineStep, RequestSubmit, RequestStop, RequestDelete, RequestState, RunnerStep,
                FinalizeStep, FinalizeTimesOut, Spool, Disconnects, TimerFires, RecoveryStep, AbortDone,
                PartFileGone, FinalizeStarts, Drained, Appended, Stopped, Validated, Accepted, Rejected, Converted,
                SpawnFinalize, CancelActive, managerVars
  <2>2. ASSUME NEW t \in Tasks, ThreadStep(t)
        PROVE  loop' = loop
    BY <2>2 DEF ThreadStep, WriterStep, EncodeBegins, EncodeFinishes, EncodeFails, Probe, AppendLands
  <2>3. ASSUME NEW t \in Tasks, Nudge(t) \/ NudgeWaits(t) \/ \E k \in Loops : Reconcile(k, t)
        PROVE  \E k \in Loops : Handled(k, t)
    BY <2>3 DEF Nudge, NudgeWaits, NudgeVisits, Reconcile, Loops
  <2>4. UNCHANGED vars => loop' = loop
    BY DEF vars, managerVars
  <2>5. Purge => loop' = [loop EXCEPT !["ttl"] = [phase |-> "rest", todo |-> {}]]
    BY DEF Purge, Enter
  <2> QED
    BY <1>1, <1>2, <1>3, <1>4, <1>5, <2>1, <2>2, <2>3, <2>4, <2>5, StepsAreOfFourKinds DEF TaskStep, LoopsMove

LEMMA PastStep ==
  ASSUME PastInv, [ManagerNext]_vars
  PROVE  PastInv' /\ [Next]_allRunnerVars
<1>1. ManagerInv' /\ [Next]_allRunnerVars
  BY ManagerNextStep DEF StepOK, PastInv
<1>2. ASSUME NEW u \in Tasks
      PROVE  WorkIsPast(u)'
  <2>1. CASE InWork(u)
    BY <1>1, <2>1, PastForEver DEF PastInv, WorkIsPast
  <2>2. ASSUME NEW t \in Tasks, TaskStep(t)
        PROVE  WorkIsPast(u)'
    <3>1. CASE u = t
      BY <1>1, <2>2, <3>1, TaskStepIsPast, PastForEver DEF PastInv, WorkBegins, WorkIsPast
    <3>2. CASE u # t
      <4>1. Same(u)
        BY <2>2, <3>2, TaskStepIsSame DEF PastInv, OthersSame
      <4>2. InWork(u)' => InWork(u)
        BY <4>1 DEF Same, RowSame, WorkSame, InWork
      <4> QED
        BY <2>1, <4>2 DEF WorkIsPast
    <3> QED
      BY <3>1, <3>2
  <2>3. CASE LoopsMove
    <3>1. UNCHANGED <<status, at, job>>
      BY <2>3 DEF LoopsMove, TtlWakes, LoopAdvances, vars, managerVars, allRunnerVars, storeVars, threadVars
    <3>2. InWork(u)' => InWork(u)
      BY <3>1 DEF InWork
    <3> QED
      BY <2>1, <3>2 DEF WorkIsPast
  <2>4. CASE Purge
    <3>1. UNCHANGED <<at, job>> /\ (status'[u] \in {"error", "finalizing"} => status'[u] = status[u])
      BY <2>4 DEF Purge, PurgeExpired, threadVars
    <3>2. InWork(u)' => InWork(u)
      BY <3>1 DEF InWork
    <3> QED
      BY <2>1, <3>2 DEF WorkIsPast
  <2>5. CASE Reboot
    BY <2>5, RebootIsPast DEF WorkIsPast
  <2> QED
    BY <2>2, <2>3, <2>4, <2>5, StepsAreOfFourKinds
<1>3. ListedIsPast'
  <2>1. SUFFICES ASSUME NEW l \in Loops, NEW u \in loop'[l].todo
                 PROVE  JoinIsPast(u)'
    BY DEF ListedIsPast
  <2>2. u \in Tasks /\ (u \in loop[l].todo \/ status'[u] \in {"error", "finalizing", "capturing"})
    BY TodoOfStep DEF PastInv
  <2>3. CASE u \in loop[l].todo
    BY <1>1, <2>2, <2>3, PastForEver DEF PastInv, ListedIsPast
  <2>4. CASE status'[u] \in {"error", "finalizing"}
    BY <1>2, <2>2, <2>4 DEF WorkIsPast, InWork
  <2>5. CASE status'[u] = "capturing"
    BY <1>1, <2>2, <2>5 DEF ManagerInv, TaskInv, JoinIsOver, JoinIsPast, Joining, Admitted
  <2> QED
    BY <2>2, <2>3, <2>4, <2>5
<1> QED
  BY <1>1, <1>2, <1>3 DEF PastInv

LEMMA PastInitInv == ManagerInit => PastInv
<1> SUFFICES ASSUME ManagerInit PROVE PastInv
  OBVIOUS
<1>1. ManagerInv
  BY ManagerInitInv
<1>2. ListedIsPast
  BY DEF ManagerInit, ListedIsPast
<1>3. \A t \in Tasks : ~InWork(t)
  BY DEF ManagerInit, VolatileInit, Init, StoreInit, InWork, Roles
<1> QED
  BY <1>1, <1>2, <1>3 DEF PastInv, WorkIsPast

-----------------------------------------------------------------------------
(***************************************************************************)
(* The rounds of _ttl_loop: one task at a time, and no row is capturing    *)
(* that the nudge visits.                                                  *)
(***************************************************************************)
TtlResting ==
  loop["ttl"].phase \in {"rest", "purge"} => \A t \in Tasks : at[t]["ttl"] = "idle"

OneVisit == \A t, u \in Tasks : at[t]["ttl"] # "idle" /\ at[u]["ttl"] # "idle" => t = u

NudgesNoCapture ==
  loop["ttl"].phase = "nudge" =>
    \A t \in Tasks : t \in loop["ttl"].todo \/ at[t]["ttl"] # "idle" => status[t] # "capturing"

TtlInv == TtlResting /\ OneVisit /\ NudgesNoCapture

(* The role that moves is the only one that does.                          *)
LEMMA OneRoleMoves ==
  ASSUME ManagerInv, NEW t \in Tasks, NEW r \in Roles
  PROVE  /\ \A place, j : MoveTo(t, r, place, at[t], j) =>
              \A s \in Roles \ {r} : at'[t][s] = at[t][s]
         /\ \A place : Goto(t, r, place) => \A s \in Roles \ {r} : at'[t][s] = at[t][s]
<1>1. ASSUME NEW x, at' = [at EXCEPT ![t] = [at[t] EXCEPT ![r] = x]]
      PROVE  \A s \in Roles \ {r} : at'[t][s] = at[t][s]
  BY <1>1 DEF ManagerInv, FilesTypeOK
<1>2. ASSUME NEW place, NEW j, MoveTo(t, r, place, at[t], j)
      PROVE  \A s \in Roles \ {r} : at'[t][s] = at[t][s]
  BY <1>1, <1>2 DEF MoveTo
<1>3. ASSUME NEW place, Goto(t, r, place)
      PROVE  \A s \in Roles \ {r} : at'[t][s] = at[t][s]
  BY <1>3 DEF Goto, ManagerInv, FilesTypeOK
<1> QED
  BY <1>2, <1>3

LEMMA TtlIsRole == {"ttl", "finalize", "client", "startup"} \subseteq Roles
BY DEF Roles, Recoverers, Loops

(* What a step about t may do to the visit of the loop.                    *)
VisitGoesOn(t) ==
  /\ at'[t]["ttl"] # "idle" => at[t]["ttl"] # "idle"
  /\ loop'["ttl"] = loop["ttl"]

VisitBegins(t) ==
  /\ LoopIdle("ttl")
  /\ t \in loop["ttl"].todo
  /\ loop["ttl"].phase \notin {"rest", "purge"}
  /\ loop'["ttl"].phase = loop["ttl"].phase
  /\ loop'["ttl"].todo \subseteq loop["ttl"].todo

RoundEnds(t) ==
  /\ at[t]["ttl"] # "idle" /\ at'[t]["ttl"] = "idle"
  /\ loop'["ttl"] = [phase |-> "purge", todo |-> {}]

LEMMA FinalizeKeepsOthers ==
  ASSUME ManagerInv, NEW t \in Tasks, FinalizeStep(t) \/ FinalizeTimesOut(t)
  PROVE  (\A s \in Roles \ {"finalize"} : at'[t][s] = at[t][s]) /\ UNCHANGED loop
<1>1. FinalizeFailed(t) => \A s \in Roles \ {"finalize"} : at'[t][s] = at[t][s]
  BY OneRoleMoves, TtlIsRole DEF FinalizeFailed, Proceed
<1>2. ConvertOrFail(t) => \A s \in Roles \ {"finalize"} : at'[t][s] = at[t][s]
  BY <1>1, OneRoleMoves, TtlIsRole DEF ConvertOrFail
<1> QED
  BY <1>1, <1>2, OneRoleMoves, TtlIsRole
     DEF FinalizeStep, FinalizeTimesOut, FinalizeStarts, Drained, Appended, Stopped, Validated

LEMMA RecoveryKeepsOthers ==
  ASSUME ManagerInv, NEW t \in Tasks, NEW r \in Recoverers, RecoveryStep(t, r)
  PROVE  \A s \in Roles \ {r} : at'[t][s] = at[t][s]
<1>1. r \in Roles
  BY DEF Roles
<1> QED
  BY <1>1, OneRoleMoves DEF RecoveryStep, Accepted, Rejected, Converted, PartFileGone, Proceed

(* A cancelled _finalize and the client's own wait are all that a cancel   *)
(* moves.                                                                  *)
LEMMA CancelKeepsOthers ==
  ASSUME ManagerInv, NEW t \in Tasks, CancelActive(t)
  PROVE  (\A s \in Roles \ {"finalize", "client"} : at'[t][s] = at[t][s]) /\ UNCHANGED loop
BY DEF CancelActive, RolesWithoutFinalize, ManagerInv, FilesTypeOK

LEMMA CoroutineVisit ==
  ASSUME ManagerInv, NEW t \in Tasks, CoroutineStep(t)
  PROVE  VisitGoesOn(t) \/ RoundEnds(t)
<1> USE TtlIsRole DEF VisitGoesOn
<1>1. CASE RequestSubmit(t) \/ RunnerStep(t) \/ Spool(t)
  BY <1>1 DEF RequestSubmit, RunnerStep, Spool, managerVars
<1>2. CASE SpawnFinalize(t)
  BY <1>2, OneRoleMoves DEF SpawnFinalize
<1>3. CASE RequestStop(t) \/ RequestDelete(t) \/ Disconnects(t) \/ TimerFires(t)
  BY <1>2, <1>3, CancelKeepsOthers DEF RequestStop, RequestDelete, Disconnects, TimerFires
<1>4. ASSUME NEW p \in Pollers, RequestState(t, p)
      PROVE  VisitGoesOn(t)
  <2>1. p \in Roles /\ p # "ttl"
    BY ScenarioAssumption DEF Roles, Recoverers
  <2> QED
    BY <1>4, <2>1, OneRoleMoves DEF RequestState, Proceed
<1>5. CASE FinalizeStep(t) \/ FinalizeTimesOut(t)
  BY <1>5, FinalizeKeepsOthers
<1>6. ASSUME NEW r \in Recoverers, RecoveryStep(t, r)
      PROVE  VisitGoesOn(t) \/ RoundEnds(t)
  <2>1. CASE r # "ttl"
    BY <1>6, <2>1, RecoveryKeepsOthers DEF RecoveryStep, Accepted, Rejected, Converted, PartFileGone
  <2>2. CASE r = "ttl" /\ ~PartFileGone(t, r)
    BY <1>6, <2>2 DEF RecoveryStep, Accepted, Rejected, Converted
  <2>3. CASE r = "ttl" /\ PartFileGone(t, r)
    BY <2>3 DEF PartFileGone, Goto, RoundEnds, ManagerInv, FilesTypeOK, Loops
  <2> QED
    BY <2>1, <2>2, <2>3
<1>7. ASSUME NEW r \in Roles, AbortDone(t, r)
      PROVE  VisitGoesOn(t)
  <2>1. at[t][r] # "idle" /\ \A s \in Roles \ {r} : at'[t][s] = at[t][s]
    BY <1>7, OneRoleMoves DEF AbortDone
  <2> QED
    BY <1>7, <2>1 DEF AbortDone
<1> QED
  BY <1>1, <1>3, <1>4, <1>5, <1>6, <1>7 DEF CoroutineStep

LEMMA StepVisit ==
  ASSUME ManagerInv, NEW t \in Tasks, TaskStep(t)
  PROVE  VisitGoesOn(t) \/ VisitBegins(t) \/ RoundEnds(t)
<1>1. CASE ThreadStep(t)
  BY <1>1 DEF ThreadStep, WriterStep, EncodeBegins, EncodeFinishes, EncodeFails, Probe, AppendLands,
              VisitGoesOn
<1>2. ASSUME NEW l \in Loops, Reconcile(l, t)
      PROVE  VisitGoesOn(t) \/ VisitBegins(t)
  <2>1. CASE l = "ttl"
    <3>1. loop'["ttl"].phase = loop["ttl"].phase /\ loop'["ttl"].todo \subseteq loop["ttl"].todo
      BY <1>2, <2>1 DEF Reconcile, Handled, ManagerInv, FilesTypeOK, Loops
    <3> QED
      BY <1>2, <2>1, <3>1 DEF Reconcile, VisitBegins
  <2>2. CASE l # "ttl"
    <3>1. loop'["ttl"] = loop["ttl"]
      BY <1>2, <2>2 DEF Reconcile, Handled, ManagerInv, FilesTypeOK, Loops
    <3>2. l \in Roles
      BY DEF Roles, Recoverers
    <3>3. at'[t]["ttl"] = at[t]["ttl"]
      BY <1>2, <2>2, <3>2, OneRoleMoves, TtlIsRole DEF Reconcile, Proceed
    <3> QED
      BY <3>1, <3>3 DEF VisitGoesOn
  <2> QED
    BY <2>1, <2>2
<1>3. CASE Nudge(t) \/ NudgeWaits(t)
  <2>1. NudgeVisits(t)
    BY <1>3 DEF Nudge, NudgeWaits
  <2>2. loop'["ttl"].phase = loop["ttl"].phase /\ loop'["ttl"].todo \subseteq loop["ttl"].todo
    BY <2>1 DEF NudgeVisits, Handled, ManagerInv, FilesTypeOK, Loops
  <2> QED
    BY <2>1, <2>2 DEF NudgeVisits, VisitBegins
<1> QED
  BY <1>1, <1>2, <1>3, CoroutineVisit DEF TaskStep

(* Only a join that succeeds makes a row capturing.                        *)
LEMMA CapturingBegins ==
  ASSUME ManagerInv, NEW t \in Tasks, TaskStep(t), status'[t] = "capturing", status[t] # "capturing"
  PROVE  run[t] \in Joining
<1> USE DEF ManagerInv, Inv, TypeOK, StoreTypeOK
<1>1. CASE RunStep(t)
  BY <1>1 DEF RunStep, Dispatch, SkipTask, StartCapture, OpenBrowser, JoinSeen, Joined, JoinFails,
              CaptureEnds, CloseReturns, MarkError, UpdateStatus, storeVars, Joining
<1>2. ~RowWrite(t)
  BY DEF RowWrite, UpdateStatus, MarkError, MarkCanceled, MarkSuccess, storeVars
<1>3. CASE Submit(t) \/ DeleteQueued(t) \/ SpawnFinalize(t) \/ CancelActive(t) \/ CancelAtOnce(t)
  BY <1>2, <1>3 DEF Submit, Create, DeleteQueued, SpawnFinalize, CancelActive, CancelAtOnce, RowWrite
<1>4. CASE FinalizeStep(t) \/ FinalizeTimesOut(t)
  BY <1>2, <1>4 DEF FinalizeStep, FinalizeTimesOut, FinalizeStarts, Drained, Appended, Stopped, Validated,
       ConvertOrFail, FinalizeFailed, Proceed, RowWrite, Size, allRunnerVars
<1>5. CASE \E r \in Recoverers : RecoveryStep(t, r)
  BY <1>2, <1>5 DEF RecoveryStep, Accepted, Rejected, Converted, PartFileGone, Proceed, RowWrite, Size,
                    allRunnerVars
<1>6. CASE \E r \in Roles : AbortDone(t, r)
  BY <1>2, <1>6 DEF AbortDone, RowWrite
<1>7. CASE ThreadStep(t) \/ Nudge(t) \/ NudgeWaits(t) \/ Spool(t)
  BY <1>2, <1>7 DEF ThreadStep, WriterStep, EncodeBegins, EncodeFinishes, EncodeFails, Probe, AppendLands,
                    Nudge, NudgeWaits, Spool, RowWrite, allRunnerVars
<1>8. CASE \E l \in Loops : Reconcile(l, t)
  BY <1>2, <1>8 DEF Reconcile, Proceed, RowWrite, allRunnerVars
<1>9. CASE \E p \in Pollers : RequestState(t, p)
  BY <1>2, <1>9 DEF RequestState, Proceed, RowWrite
<1>10. ~UNCHANGED storeVars
  BY <1>2 DEF RowWrite
<1> QED
  BY <1>1, <1>3, <1>4, <1>5, <1>6, <1>7, <1>8, <1>9, <1>10
     DEF TaskStep, CoroutineStep, RequestSubmit, RequestStop, RequestDelete, Disconnects, TimerFires,
         RunnerStep

LEMMA TtlStep ==
  ASSUME PastInv, TtlInv, [ManagerNext]_vars
  PROVE  TtlInv'
<1> USE DEF TtlInv, TtlResting, OneVisit, NudgesNoCapture
<1>1. ASSUME NEW t \in Tasks, TaskStep(t)
      PROVE  TtlInv'
  <2>1. \A u \in Tasks \ {t} : at'[u] = at[u] /\ status'[u] = status[u]
    BY <1>1, TaskStepIsSame DEF PastInv, OthersSame, Same, RowSame, WorkSame
  <2>2. JoinIsPast(t) => (status'[t] = "capturing" => status[t] = "capturing")
    BY <1>1, CapturingBegins DEF PastInv, JoinIsPast
  <2>3. at[t]["ttl"] # "idle" \/ t \in loop["ttl"].todo => JoinIsPast(t)
    BY DEF PastInv, ListedIsPast, WorkIsPast, InWork, Recoverers, Loops
  <2>4. VisitGoesOn(t) \/ VisitBegins(t) \/ RoundEnds(t)
    BY <1>1, StepVisit DEF PastInv
  <2>5. CASE VisitGoesOn(t)
    BY <2>1, <2>2, <2>3, <2>5 DEF VisitGoesOn
  <2>6. CASE VisitBegins(t)
    BY <2>1, <2>2, <2>3, <2>6 DEF VisitBegins, LoopIdle
  <2>7. CASE RoundEnds(t)
    BY <2>1, <2>7 DEF RoundEnds
  <2> QED
    BY <2>4, <2>5, <2>6, <2>7
<1>2. CASE LoopsMove
  <2>1. UNCHANGED <<at, status>>
    BY <1>2 DEF LoopsMove, TtlWakes, LoopAdvances, vars, managerVars, allRunnerVars, storeVars
  <2>2. CASE UNCHANGED vars
    BY <2>1, <2>2 DEF vars, managerVars
  <2>3. CASE TtlWakes
    <3>1. loop'["ttl"] = [phase |-> "nudge", todo |-> Listed("finalizing")]
      BY <2>3 DEF TtlWakes, Enter, PastInv, ManagerInv, FilesTypeOK, Loops
    <3>2. \A t \in Tasks : at[t]["ttl"] = "idle"
      BY <2>3 DEF TtlWakes
    <3> QED
      BY <2>1, <3>1, <3>2 DEF Listed
  <2>4. ASSUME NEW l \in Loops, LoopAdvances(l)
        PROVE  TtlInv'
    <3>1. CASE l = "ttl"
      <4>1. \A t \in Tasks : at[t]["ttl"] = "idle"
        BY <2>4, <3>1 DEF LoopAdvances, LoopIdle
      <4>2. loop'["ttl"].phase # "nudge"
        BY <2>4, <3>1 DEF LoopAdvances, Enter, PastInv, ManagerInv, FilesTypeOK
      <4> QED
        BY <2>1, <4>1, <4>2
    <3>2. CASE l # "ttl"
      <4>1. loop'["ttl"] = loop["ttl"]
        BY <2>4, <3>2 DEF LoopAdvances, Enter, PastInv, ManagerInv, FilesTypeOK, Loops
      <4> QED
        BY <2>1, <4>1
    <3> QED
      BY <3>1, <3>2
  <2> QED
    BY <1>2, <2>2, <2>3, <2>4 DEF LoopsMove
<1>3. CASE Purge
  <2>1. at' = at /\ loop'["ttl"] = [phase |-> "rest", todo |-> {}] /\ loop["ttl"].phase = "purge"
    BY <1>3 DEF Purge, Enter, PastInv, ManagerInv, FilesTypeOK, Loops
  <2> QED
    BY <2>1
<1>4. CASE Reboot
  <2>1. (\A t \in Tasks : at'[t]["ttl"] = "idle") /\ loop'["ttl"].phase = "rest"
    BY <1>4, TtlIsRole DEF Reboot
  <2> QED
    BY <2>1
<1> QED
  BY <1>1, <1>2, <1>3, <1>4, StepsAreOfFourKinds

LEMMA TtlInitInv == ManagerInit => TtlInv
BY TtlIsRole DEF ManagerInit, VolatileInit, Loops, TtlInv, TtlResting, OneVisit, NudgesNoCapture

-----------------------------------------------------------------------------
(***************************************************************************)
(* A capturing row is attended.  The row may be ahead of its run only when *)
(* something cancels a join that then succeeds all the same: a request, or *)
(* the auto-stop timer.                                                    *)
(***************************************************************************)
NoJoinIsCancelled == ClientOps \cap {"stop", "delete"} = {} /\ ~AutoStop

InMeeting(t) ==
  /\ run[t] \in Joining => t \in sessions /\ t \notin finished
  /\ run[t] \in {"none", "waiting"} => t \notin finished
  /\ status[t] = "capturing" => run[t] = "capture" /\ t \in sessions /\ t \notin finished
  /\ at[t]["client"] = "idle"

MeetingInv == PastInv /\ TtlInv /\ NoTimer /\ \A t \in Tasks : InMeeting(t)

(* A call into the engine for a task that neither joins nor captures.      *)
LEMMA CallSparesMeeting ==
  ASSUME ManagerInv, NEW t \in Tasks, InMeeting(t), RunnerCall(t),
         run[t] \notin Joining, status[t] # "capturing", status'[t] # "capturing",
         at'[t]["client"] = "idle"
  PROVE  InMeeting(t)'
<1> USE DEF ManagerInv, Inv, Fresh, RunnerSafety, SessionIsLive, InMeeting
<1>1. run' = run
  BY CallFrame
<1>2. CASE run[t] \in {"none", "waiting"}
  <2>1. t \notin sessions /\ ~Aborting(t)
    BY <1>2 DEF Aborting, InEngine, Joining
  <2> QED
    BY <1>1, <1>2, <2>1 DEF RunnerCall, AbortAtOnce, AbortBegins, AbortReturns, AbortIsLost,
                            AbortCancelsItself, StopBegins, StopReturns, runnerVars, Joining
<1>3. CASE run[t] \notin {"none", "waiting"}
  BY <1>1, <1>3
<1> QED
  BY <1>2, <1>3

(* A step that leaves the engine alone, and no row becomes capturing.      *)
LEMMA WriteSparesMeeting ==
  ASSUME NEW t \in Tasks, InMeeting(t), UNCHANGED runnerVars,
         status'[t] = "capturing" => status[t] = "capturing", at'[t]["client"] = "idle"
  PROVE  InMeeting(t)'
BY DEF InMeeting, runnerVars

LEMMA RunStepSparesMeeting ==
  ASSUME ManagerInv, NEW t \in Tasks, InMeeting(t), RunStep(t), at' = at
  PROVE  InMeeting(t)'
<1> USE DEF ManagerInv, Inv, TypeOK, StoreTypeOK, InMeeting, Joining, storeVars
<1>1. CASE Dispatch(t) \/ SkipTask(t)
  BY <1>1 DEF Dispatch, SkipTask, RunnerSafety, DispatchedOnce
<1>2. CASE StartCapture(t)
  BY <1>2 DEF StartCapture, UpdateStatus
<1>3. CASE OpenBrowser(t) \/ JoinSeen(t)
  BY <1>3 DEF OpenBrowser, JoinSeen
<1>4. CASE Joined(t)
  BY <1>4 DEF Joined
<1>5. CASE JoinFails(t)
  BY <1>5 DEF JoinFails, LeaveEngine, Leave, MarkError, UpdateStatus
<1>6. CASE CaptureEnds(t)
  BY <1>6 DEF CaptureEnds, LeaveEngine, Leave
<1>7. CASE CloseReturns(t)
  BY <1>7 DEF CloseReturns, Leave, MarkError, UpdateStatus
<1> QED
  BY <1>1, <1>2, <1>3, <1>4, <1>5, <1>6, <1>7 DEF RunStep

(* A recovery of a capturing row, by a loop or a poll, ends no session.    *)
LEMMA RecoverySparesMeeting ==
  ASSUME MeetingInv, NEW t \in Tasks, NEW r \in Recoverers, RecoveryStep(t, r),
         status'[t] = "capturing" => status[t] = "capturing"
  PROVE  InMeeting(t)'
<1>1. at'[t]["client"] = "idle"
  BY RecoveryKeepsOthers, TtlIsRole, ScenarioAssumption
     DEF MeetingInv, PastInv, InMeeting, Recoverers, Loops
<1>2. at[t][r] # "idle"
  BY DEF RecoveryStep, Accepted, Rejected, Converted, PartFileGone
<1>3. run[t] \notin Joining
  BY <1>2 DEF MeetingInv, PastInv, WorkIsPast, InWork, JoinIsPast
<1>4. CASE status[t] = "capturing"
  <2>1. ~AfterFailure(r)
    BY <1>2, <1>4 DEF AfterFailure, MeetingInv, PastInv, ManagerInv, TaskInv, FinalizeIsOnce, TtlInv,
                      NudgesNoCapture
  <2>2. UNCHANGED runnerVars
    BY <2>1 DEF RecoveryStep, Accepted, Rejected, Converted, PartFileGone, Proceed, AbortIfAfterFailure,
                allRunnerVars
  <2> QED
    BY <1>1, <2>2, WriteSparesMeeting DEF MeetingInv
<1>5. CASE status[t] # "capturing"
  <2>1. RunnerCall(t)
    BY DEF RecoveryStep, Accepted, Rejected, Converted, PartFileGone, Proceed, AbortIfAfterFailure, CallAbort,
           allRunnerVars, RunnerCall
  <2> QED
    BY <1>1, <1>3, <1>5, <2>1, CallSparesMeeting DEF MeetingInv, PastInv
<1> QED
  BY <1>4, <1>5

LEMMA TaskStepSparesMeeting ==
  ASSUME NoJoinIsCancelled, MeetingInv, NEW t \in Tasks, TaskStep(t)
  PROVE  InMeeting(t)'
<1> USE DEF MeetingInv, PastInv
<1>1. at[t]["client"] = "idle" /\ InMeeting(t)
  BY DEF InMeeting
<1>2. run[t] \notin Joining => (status'[t] = "capturing" => status[t] = "capturing")
  BY CapturingBegins
<1>3. CASE RequestSubmit(t)
  BY <1>1, <1>3 DEF RequestSubmit, Submit, Create, managerVars, InMeeting, ManagerInv, Inv, TypeOK, StoreTypeOK
<1>4. CASE RequestStop(t) \/ RequestDelete(t) \/ TimerFires(t)
  BY <1>4 DEF RequestStop, RequestDelete, TimerFires, NoJoinIsCancelled, NoTimer
<1>5. CASE Disconnects(t)
  <2>1. at'[t]["client"] = "idle"
    BY <1>1, <1>5, OneRoleMoves, TtlIsRole DEF Disconnects, SpawnFinalize
  <2> QED
    BY <1>1, <1>2, <1>5, <2>1, WriteSparesMeeting DEF Disconnects, SpawnFinalize, Joining
<1>6. ASSUME NEW p \in Pollers, RequestState(t, p)
      PROVE  InMeeting(t)'
  <2>1. p \in Roles /\ p \notin {"finalize", "ttl", "client"}
    BY ScenarioAssumption DEF Roles, Recoverers
  <2>2. UNCHANGED runnerVars /\ UNCHANGED storeVars
    BY <1>6, <2>1 DEF RequestState, Proceed, AbortIfAfterFailure, AfterFailure
  <2>3. at'[t]["client"] = "idle"
    BY <1>1, <1>6, <2>1, OneRoleMoves, TtlIsRole DEF RequestState, Proceed
  <2> QED
    BY <1>1, <2>2, <2>3, WriteSparesMeeting DEF storeVars
<1>7. CASE RunnerStep(t)
  BY <1>1, <1>7, RunStepSparesMeeting DEF RunnerStep, managerVars
<1>8. CASE FinalizeStep(t) \/ FinalizeTimesOut(t)
  <2>1. at[t]["finalize"] # "idle"
    BY <1>8, ScenarioAssumption
       DEF FinalizeStep, FinalizeTimesOut, FinalizeStarts, Drained, Appended, Stopped, Validated
  <2>2. run[t] \notin Joining /\ status[t] # "capturing"
    BY <2>1 DEF ManagerInv, TaskInv, JoinIsOver, FinalizeIsOnce, Joining
  <2>3. at'[t]["client"] = "idle"
    BY <1>1, <1>8, FinalizeKeepsOthers, TtlIsRole
  <2>4. RunnerCall(t)
    BY <1>8 DEF FinalizeStep, FinalizeTimesOut, FinalizeStarts, Drained, Appended, Stopped, Validated,
                ConvertOrFail, FinalizeFailed, Proceed, AbortIfAfterFailure, CallAbort, RunnerCall,
                allRunnerVars
  <2> QED
    BY <1>1, <1>2, <2>2, <2>3, <2>4, CallSparesMeeting
<1>9. CASE Spool(t) \/ ThreadStep(t) \/ NudgeWaits(t)
  <2>1. UNCHANGED <<allRunnerVars, at>>
    BY <1>9 DEF Spool, NudgeWaits, ThreadStep, WriterStep, EncodeBegins, EncodeFinishes, EncodeFails, Probe,
                AppendLands
  <2> QED
    BY <1>1, <2>1, WriteSparesMeeting DEF allRunnerVars, storeVars
<1>10. ASSUME NEW r \in Recoverers, RecoveryStep(t, r)
       PROVE  InMeeting(t)'
  <2>1. run[t] \notin Joining
    BY <1>10 DEF RecoveryStep, Accepted, Rejected, Converted, PartFileGone, WorkIsPast, InWork, JoinIsPast
  <2> QED
    BY <1>2, <1>10, <2>1, RecoverySparesMeeting
<1>11. ASSUME NEW r \in Roles, AbortDone(t, r)
       PROVE  InMeeting(t)'
  <2>1. r \in {"finalize", "ttl"}
    BY <1>1, <1>11 DEF AbortDone
  <2>2. run[t] \notin Joining
    BY <1>11, <2>1 DEF AbortDone, WorkIsPast, InWork, JoinIsPast, Recoverers, Loops
  <2>3. status[t] # "capturing"
    BY <1>1, <1>11, AbortedIsGone DEF AbortDone, AbortReturns, InMeeting
  <2>4. at'[t]["client"] = "idle"
    BY <1>1, <1>11, <2>1, OneRoleMoves, TtlIsRole DEF AbortDone
  <2>5. RunnerCall(t)
    BY <1>11 DEF AbortDone, RunnerCall
  <2> QED
    BY <1>1, <1>2, <2>2, <2>3, <2>4, <2>5, CallSparesMeeting
<1>12. ASSUME NEW l \in Loops, Reconcile(l, t)
       PROVE  InMeeting(t)'
  <2>1. ~AfterFailure(l) /\ l # "finalize" /\ l \in Roles /\ l # "client"
    BY <1>12 DEF Reconcile, AfterFailure, Loops, Roles, Recoverers
  <2>2. UNCHANGED runnerVars /\ UNCHANGED storeVars
    BY <1>12, <2>1 DEF Reconcile, Proceed, AbortIfAfterFailure, allRunnerVars
  <2>3. at'[t]["client"] = "idle"
    BY <1>1, <1>12, <2>1, OneRoleMoves, TtlIsRole DEF Reconcile, Proceed
  <2> QED
    BY <1>1, <2>2, <2>3, WriteSparesMeeting DEF storeVars
<1>13. CASE Nudge(t)
  <2>1. t \in loop["ttl"].todo /\ loop["ttl"].phase = "nudge"
    BY <1>13 DEF Nudge, NudgeVisits
  <2>2. run[t] \notin Joining /\ status[t] # "capturing"
    BY <2>1 DEF TtlInv, NudgesNoCapture, ListedIsPast, JoinIsPast, Loops
  <2>3. at'[t]["client"] = "idle"
    BY <1>1, <1>13, TtlIsRole DEF Nudge, MoveTo, RolesWithoutFinalize, ManagerInv, FilesTypeOK
  <2>4. RunnerCall(t)
    BY <1>13 DEF Nudge, CallAbort, RunnerCall
  <2> QED
    BY <1>1, <1>2, <2>2, <2>3, <2>4, CallSparesMeeting
<1> QED
  BY <1>3, <1>4, <1>5, <1>6, <1>7, <1>8, <1>9, <1>10, <1>11, <1>12, <1>13 DEF TaskStep, CoroutineStep

LEMMA MeetingStep ==
  ASSUME NoJoinIsCancelled, MeetingInv, [ManagerNext]_vars
  PROVE  MeetingInv'
<1> USE DEF MeetingInv
<1>1. PastInv' /\ TtlInv' /\ [Next]_allRunnerVars
  BY PastStep, TtlStep
<1>2. NoTimer'
  BY <1>1, NoTimerStep DEF PastInv, ManagerInv
<1>3. ASSUME NEW u \in Tasks
      PROVE  InMeeting(u)'
  <2>1. ASSUME NEW t \in Tasks, TaskStep(t)
        PROVE  InMeeting(u)'
    <3>1. CASE u = t
      BY <2>1, <3>1, TaskStepSparesMeeting
    <3>2. CASE u # t
      BY <2>1, <3>2, TaskStepIsSame DEF PastInv, OthersSame, Same, RowSame, RunSame, WorkSame, InMeeting
    <3> QED
      BY <3>1, <3>2
  <2>2. CASE LoopsMove \/ Purge
    <3>1. UNCHANGED <<runnerVars, at>> /\ (status'[u] = "capturing" => status[u] = "capturing")
      BY <2>2 DEF LoopsMove, TtlWakes, LoopAdvances, Purge, PurgeExpired, vars, managerVars, allRunnerVars,
                  storeVars
    <3> QED
      BY <3>1 DEF InMeeting, runnerVars
  <2>3. CASE Reboot
    BY <2>3, TtlIsRole DEF Reboot, CrashRestart, Interrupted, Listed, Restarted, InMeeting, Joining
  <2> QED
    BY <2>1, <2>2, <2>3, StepsAreOfFourKinds
<1> QED
  BY <1>1, <1>2, <1>3

(* Only on_joined writes capturing, and only the event or a restart takes  *)
(* a run out of the meeting.                                               *)
CapturingRuns(t) == status[t] = "capturing" /\ t \notin finished => run[t] = "capture"
RunsInv == CanEndInv /\ \A t \in Tasks : CapturingRuns(t)

LEMMA RunsForEver ==
  ASSUME Inv, [Next]_allRunnerVars, NEW u \in Tasks, CapturingRuns(u)
  PROVE  CapturingRuns(u)'
<1> USE DEF Inv, TypeOK, StoreTypeOK, CapturingRuns
<1>1. CASE UNCHANGED allRunnerVars
  BY <1>1 DEF allRunnerVars, storeVars, runnerVars
<1>2. CASE \E t \in Tasks : Submit(t) \/ DeleteQueued(t)
  BY <1>2 DEF Submit, Create, DeleteQueued, MarkCanceled
<1>3. ASSUME NEW t \in Tasks, Dispatch(t) \/ SkipTask(t) \/ StartCapture(t)
      PROVE  CapturingRuns(u)'
  BY <1>3 DEF Dispatch, SkipTask, StartCapture, UpdateStatus, storeVars, RunnerSafety, DispatchedOnce
<1>4. ASSUME NEW t \in Tasks, OpenBrowser(t) \/ JoinSeen(t) \/ Joined(t)
      PROVE  CapturingRuns(u)'
  BY <1>4 DEF OpenBrowser, JoinSeen, Joined, UpdateStatus, storeVars
<1>5. ASSUME NEW t \in Tasks, JoinFails(t)
      PROVE  CapturingRuns(u)'
  BY <1>5 DEF JoinFails, LeaveEngine, Leave, MarkError, UpdateStatus, storeVars, Joining
<1>6. ASSUME NEW t \in Tasks, CaptureEnds(t) \/ CloseReturns(t)
      PROVE  CapturingRuns(u)'
  BY <1>6 DEF CaptureEnds, CloseReturns, LeaveEngine, Leave, MarkError, UpdateStatus, storeVars
<1>7. ASSUME NEW t \in Tasks, EngineCall(t)
      PROVE  CapturingRuns(u)'
  <2>1. run' = run /\ finished \subseteq finished'
    BY <1>7 DEF EngineCall, AbortAtOnce, AbortBegins, AbortReturns, AbortIsLost, AbortCancelsItself, StopBegins,
                StopReturns, runnerVars
  <2>2. status'[u] = "capturing" => status[u] = "capturing"
    BY <1>7 DEF EngineCall, ManagerWrites, UpdateStatus, MarkError, MarkCanceled, MarkSuccess, storeVars
  <2> QED
    BY <2>1, <2>2
<1>8. CASE ManagerPurges
  BY <1>8 DEF ManagerPurges, PurgeExpired, runnerVars
<1>9. CASE \E intact \in SUBSET Tasks : CrashRestart(intact)
  BY <1>9 DEF CrashRestart, Interrupted, Listed
<1> QED
  BY <1>1, <1>2, <1>3, <1>4, <1>5, <1>6, <1>7, <1>8, <1>9 DEF Next, RunStep

(* A capturing row that nothing has ended yet has a run that waits in the  *)
(* meeting, and a session that a stop or the disconnect watch can end.     *)
(* Either no abort can be lost: joins may be stopped and their rows        *)
(* written over.  Or no request and no timer can cancel a join: overdue    *)
(* nudges may lose aborts, but reconcile_all skips a capturing row and no  *)
(* nudge finds it.  Crashes, polls and failing tools may always happen.    *)
THEOREM CapturesAreAttended ==
  ASSUME NoAbortIsLost \/ NoJoinIsCancelled
  PROVE  ManagerSpec => []CapturingIsAttended
<1>1. CASE NoAbortIsLost
  <2>1. ManagerInit => RunsInv
    BY ManagerInitInv DEF ManagerInit, Init, StoreInit, RunnerInit, CanEndInv, NoTimer, EndIsComing, InEngine,
                          Joining, RunsInv, CapturingRuns
  <2>2. RunsInv /\ [ManagerNext]_vars => RunsInv'
    BY <1>1, ManagerNextStep, ManagerIsCalm, CalmStepInv, NoTimerStep, RunsForEver
       DEF StepOK, CanEndInv, ManagerInv, RunsInv
  <2>3. RunsInv => CapturingIsAttended
    BY DEF RunsInv, CapturingRuns, CanEndInv, EndIsComing, CapturingIsAttended, InEngine
  <2> QED
    BY <2>1, <2>2, <2>3, PTL DEF ManagerSpec
<1>2. CASE NoJoinIsCancelled
  <2>1. ManagerInit => MeetingInv
    <3>1. ManagerInit => NoTimer /\ \A t \in Tasks : InMeeting(t)
      BY TtlIsRole DEF ManagerInit, VolatileInit, Init, StoreInit, RunnerInit, NoTimer, InMeeting, Joining
    <3> QED
      BY <3>1, PastInitInv, TtlInitInv DEF MeetingInv
  <2>2. MeetingInv /\ [ManagerNext]_vars => MeetingInv'
    BY <1>2, MeetingStep
  <2>3. MeetingInv => CapturingIsAttended
    BY DEF MeetingInv, InMeeting, CapturingIsAttended
  <2> QED
    BY <2>1, <2>2, <2>3, PTL DEF ManagerSpec
<1> QED
  BY <1>1, <1>2

-----------------------------------------------------------------------------
(***************************************************************************)
(* A finalizing row is attended, by a coroutine or by its files.           *)
(***************************************************************************)

(* A conversion that has returned left a file, unless a DELETE or a purge  *)
(* has removed it since.                                                   *)
EncodedHasFile(t) ==
  \A w \in Writers :
    job[t][w] = "encoded" => mp3[t] # "none" \/ status[t] \notin {"capturing", "finalizing"}

OkIsDone(t) == at[t]["finalize"] = "abort_ok" => status[t] # "finalizing"

(* Without files the row has its _finalize, or the DELETE that has         *)
(* cancelled it.  The conversion is no attendance: if its part file is     *)
(* gone it ends _finalize and leaves the row.                              *)
Attended(t) ==
  status[t] = "finalizing" /\ pcm[t] = "none" /\ mp3[t] = "none" =>
    at[t]["finalize"] \notin {"idle", "encode"} \/ at[t]["client"] # "idle"

AttendInv(t) == EncodedHasFile(t) /\ OkIsDone(t) /\ Attended(t)

FinalizingInv == PastInv /\ \A t \in Tasks : AttendInv(t)

LEMMA WritersAreNamed == {"none", "partial", "full"} \cap Writers = {} /\ {"stop", "finalize"} \subseteq Writers
BY ScenarioAssumption DEF Writers, Recoverers, Loops

(* A file goes when its row is cancelled, and the PCM file also when it    *)
(* has been converted.                                                     *)
LEMMA FilesGo ==
  ASSUME ManagerInv, NEW t \in Tasks, TaskStep(t), status'[t] \notin {"canceled", "purged"}
  PROVE  /\ mp3[t] # "none" => mp3'[t] # "none"
         /\ pcm[t] = "some" => \/ pcm'[t] = "some"
                               \/ mp3' = mp3 /\ \E w \in Writers : job[t][w] = "encoded"
<1> USE DEF ManagerInv, FilesTypeOK, Inv, TypeOK, StoreTypeOK, fileVars, managerVars
<1>1. CASE ThreadStep(t)
  BY <1>1, WritersAreNamed
     DEF ThreadStep, WriterStep, EncodeBegins, EncodeFinishes, EncodeFails, Probe, AppendLands
<1>2. CASE UNCHANGED fileVars
  BY <1>2
<1>3. CASE \E r \in Recoverers : RecoveryStep(t, r)
  BY <1>3 DEF RecoveryStep, Accepted, Rejected, Converted, PartFileGone, Writers
<1>4. CASE FinalizeStep(t) \/ FinalizeTimesOut(t)
  BY <1>4, WritersAreNamed
     DEF FinalizeStep, FinalizeTimesOut, FinalizeStarts, Drained, Appended, Stopped, Validated
<1>5. CASE MarkCanceled(t) /\ status[t] # "none"
  BY <1>5 DEF MarkCanceled, HasRow
<1>6. CASE RequestStop(t) \/ RequestDelete(t) \/ Disconnects(t) \/ TimerFires(t)
  BY <1>2, <1>5, <1>6
     DEF RequestStop, RequestDelete, Disconnects, TimerFires, SpawnFinalize, CancelActive, CancelAtOnce,
         DeleteQueued
<1>7. ASSUME NEW r \in Roles, AbortDone(t, r)
      PROVE  UNCHANGED fileVars \/ (MarkCanceled(t) /\ status[t] # "none")
  BY <1>7, BusyTask DEF AbortDone, Admitted
<1> QED
  BY <1>1, <1>2, <1>3, <1>4, <1>5, <1>6, <1>7
     DEF TaskStep, CoroutineStep, RequestSubmit, RunnerStep, RequestState, Spool, Nudge, NudgeWaits,
         Reconcile

(* A row becomes finalizing with its _finalize.                            *)
LEMMA FinalizingBegins ==
  ASSUME ManagerInv, NEW t \in Tasks, TaskStep(t), status'[t] = "finalizing", status[t] # "finalizing"
  PROVE  SpawnFinalize(t)
<1> USE DEF ManagerInv, Inv, TypeOK, StoreTypeOK
<1>1. ~RunStep(t)
  BY DEF RunStep, Dispatch, SkipTask, StartCapture, OpenBrowser, JoinSeen, Joined, JoinFails,
         CaptureEnds, CloseReturns, MarkError, UpdateStatus, storeVars
<1>2. /\ ~UNCHANGED storeVars /\ ~MarkError(t) /\ ~MarkCanceled(t)
      /\ \A size : ~MarkSuccess(t, size)
  BY DEF UpdateStatus, MarkError, MarkCanceled, MarkSuccess, storeVars
<1>3. ~Submit(t) /\ ~DeleteQueued(t) /\ ~CancelActive(t) /\ ~CancelAtOnce(t)
  BY <1>2 DEF Submit, Create, DeleteQueued, CancelActive, CancelAtOnce
<1>4. ~FinalizeStep(t) /\ ~FinalizeTimesOut(t)
  BY <1>2 DEF FinalizeStep, FinalizeTimesOut, FinalizeStarts, Drained, Appended, Stopped, Validated,
              ConvertOrFail, FinalizeFailed, Proceed, allRunnerVars
<1>5. \A r \in Recoverers : ~RecoveryStep(t, r)
  BY <1>2 DEF RecoveryStep, Accepted, Rejected, Converted, PartFileGone, Proceed, allRunnerVars
<1>6. \A r \in Roles : ~AbortDone(t, r)
  BY <1>2 DEF AbortDone
<1>7. ~ThreadStep(t) /\ ~Nudge(t) /\ ~NudgeWaits(t) /\ ~Spool(t)
  BY <1>2 DEF ThreadStep, WriterStep, EncodeBegins, EncodeFinishes, EncodeFails, Probe, AppendLands,
              Nudge, NudgeWaits, Spool, allRunnerVars
<1>8. \A l \in Loops : ~Reconcile(l, t)
  BY <1>2 DEF Reconcile, Proceed, allRunnerVars
<1>9. \A p \in Pollers : ~RequestState(t, p)
  BY <1>2 DEF RequestState, Proceed
<1> QED
  BY <1>1, <1>2, <1>3, <1>4, <1>5, <1>6, <1>7, <1>8, <1>9
     DEF TaskStep, CoroutineStep, RequestSubmit, RequestStop, RequestDelete, Disconnects, TimerFires,
         RunnerStep

(* A coroutine forgets the threads of its task or starts one: what a       *)
(* thread has to report comes from the thread.                             *)
JobsGoOn(t) == \A w \in Writers : job'[t][w] \in {job[t][w], "none", "submitted", "probing"}

LEMMA MoveJobs ==
  ASSUME ManagerInv, NEW t \in Tasks, NEW j \in [Writers -> JobState],
         \A w \in Writers : j[w] \in {job[t][w], "none"},
         NEW r, NEW place, NEW a, MoveTo(t, r, place, a, j)
  PROVE  JobsGoOn(t)
<1> DEFINE state == CASE place = "failed" -> "none"
                      [] place = "encode" -> "submitted"
                      [] OTHER -> "probing"
<1>1. state \in {"none", "submitted", "probing"}
  OBVIOUS
<1>2. job' = [job EXCEPT ![t] = [j EXCEPT ![r] = state]]
  BY DEF MoveTo
<1> HIDE DEF state
<1>3. \A w \in Writers : job'[t][w] = j[w] \/ job'[t][w] = state
  BY <1>2 DEF ManagerInv, FilesTypeOK
<1> QED
  BY <1>1, <1>3 DEF JobsGoOn

LEMMA OrphanedJobs ==
  ASSUME ManagerInv, NEW t \in Tasks
  PROVE  /\ job[t] \in [Writers -> JobState]
         /\ Orphaned(job[t], "stop") \in [Writers -> JobState]
         /\ JobsWithoutFinalize(t) \in [Writers -> JobState]
         /\ \A w \in Writers : Orphaned(job[t], "stop")[w] \in {job[t][w], "none"}
         /\ \A w \in Writers : JobsWithoutFinalize(t)[w] \in {job[t][w], "none"}
<1>1. job[t] \in [Writers -> JobState]
  BY DEF ManagerInv, FilesTypeOK
<1>2. Orphaned(job[t], "stop") \in [Writers -> JobState]
  BY <1>1, OrphanedIsTyped, WritersAreNamed
<1>3. \A w \in Writers : Orphaned(job[t], "stop")[w] \in {job[t][w], "none"}
  BY <1>1 DEF Orphaned
<1>4. JobsWithoutFinalize(t) \in [Writers -> JobState]
  BY <1>2, OrphanedIsTyped, WritersAreNamed DEF JobsWithoutFinalize
<1>5. \A w \in Writers : JobsWithoutFinalize(t)[w] \in {Orphaned(job[t], "stop")[w], "none"}
  BY <1>2 DEF JobsWithoutFinalize, Orphaned
<1> QED
  BY <1>1, <1>2, <1>3, <1>4, <1>5

LEMMA CoroutineJobs ==
  ASSUME ManagerInv, NEW t \in Tasks, TaskStep(t), ~ThreadStep(t)
  PROVE  JobsGoOn(t)
<1> USE OrphanedJobs
<1>1. CASE job' = job
  BY <1>1 DEF JobsGoOn
<1>2. \A r, place : Proceed(t, r, place, job[t]) => JobsGoOn(t)
  BY MoveJobs DEF Proceed
<1>3. FinalizeFailed(t) => JobsGoOn(t)
  BY MoveJobs DEF FinalizeFailed, Proceed
<1>4. ASSUME NEW w \in Writers, SetJob(t, w, "none") \/ SetJob(t, w, "submitted")
      PROVE  JobsGoOn(t)
  BY <1>4 DEF SetJob, JobsGoOn, ManagerInv, FilesTypeOK
<1>5. ConvertOrFail(t) => JobsGoOn(t)
  BY <1>3, <1>4, WritersAreNamed DEF ConvertOrFail
<1>6. CASE FinalizeStep(t) \/ FinalizeTimesOut(t)
  BY <1>1, <1>3, <1>4, <1>5, <1>6, MoveJobs, WritersAreNamed
     DEF FinalizeStep, FinalizeTimesOut, FinalizeStarts, Drained, Appended, Stopped, Validated
<1>7. CASE \E r \in Recoverers : RecoveryStep(t, r)
  BY <1>2, <1>4, <1>7 DEF RecoveryStep, Accepted, Rejected, Converted, PartFileGone, Writers
<1>8. CASE RequestStop(t) \/ RequestDelete(t) \/ Disconnects(t) \/ TimerFires(t)
  <2>1. CancelActive(t) => JobsGoOn(t)
    BY DEF CancelActive, JobsGoOn, ManagerInv, FilesTypeOK
  <2> QED
    BY <1>1, <1>8, <2>1 DEF RequestStop, RequestDelete, Disconnects, TimerFires, SpawnFinalize, threadVars
<1>9. CASE Nudge(t)
  BY <1>9, MoveJobs DEF Nudge
<1>10. CASE NudgeWaits(t) \/ Spool(t) \/ RequestSubmit(t) \/ RunnerStep(t)
            \/ \E r \in Roles : AbortDone(t, r)
  BY <1>1, <1>10 DEF NudgeWaits, Spool, RequestSubmit, RunnerStep, AbortDone, managerVars, threadVars
<1>11. CASE (\E l \in Loops : Reconcile(l, t)) \/ \E p \in Pollers : RequestState(t, p)
  BY <1>1, <1>2, <1>11 DEF Reconcile, RequestState
<1> QED
  BY <1>6, <1>7, <1>8, <1>9, <1>10, <1>11 DEF TaskStep, CoroutineStep

(* A thread that reports a conversion has published a file.                *)
LEMMA EncodedBegins ==
  ASSUME ManagerInv, NEW t \in Tasks, TaskStep(t), NEW w \in Writers,
         job'[t][w] = "encoded", job[t][w] # "encoded"
  PROVE  mp3'[t] # "none"
<1> USE DEF ManagerInv, FilesTypeOK
<1>1. ThreadStep(t)
  BY CoroutineJobs DEF JobsGoOn
<1>2. PICK v \in Writers : EncodeFinishes(t, v)
  BY <1>1 DEF ThreadStep, WriterStep, EncodeBegins, EncodeFails, Probe, AppendLands, SetJob, Return,
              Recoverers, Writers
<1> QED
  BY <1>2, WritersAreNamed DEF EncodeFinishes, SetJob, Return

LEMMA EncodedStep ==
  ASSUME PastInv, NEW t \in Tasks, TaskStep(t), EncodedHasFile(t)
  PROVE  EncodedHasFile(t)'
<1> USE DEF PastInv, EncodedHasFile
<1>1. SUFFICES ASSUME NEW w \in Writers, job'[t][w] = "encoded",
                      status'[t] \in {"capturing", "finalizing"}
               PROVE  mp3'[t] # "none"
  OBVIOUS
<1>2. CASE job[t][w] # "encoded"
  BY <1>1, <1>2, EncodedBegins
<1>3. CASE job[t][w] = "encoded"
  <2>1. JoinIsPast(t)
    BY <1>3 DEF WorkIsPast, InWork
  <2>2. status[t] \in {"capturing", "finalizing"}
    <3>1. CASE status'[t] = "capturing"
      BY <2>1, <3>1, CapturingBegins DEF JoinIsPast
    <3>2. CASE status'[t] = "finalizing"
      BY <3>2, FinalizingBegins DEF SpawnFinalize
    <3> QED
      BY <1>1, <3>1, <3>2
  <2>3. mp3[t] # "none"
    BY <1>3, <2>2
  <2> QED
    BY <1>1, <2>3, FilesGo
<1> QED
  BY <1>2, <1>3

(* _finalize goes on to an await, starts a conversion of what there is, or *)
(* marks the row.                                                          *)
LEMMA FinalizeGoesOnOrMarks ==
  ASSUME ManagerInv, NEW t \in Tasks, NEW place \in NextPlaces, NEW j,
         place = "encode" => pcm'[t] = "some",
         Proceed(t, "finalize", place, j)
  PROVE  OkIsDone(t)' /\ Attended(t)'
<1> USE DEF ManagerInv, FilesTypeOK, Inv, TypeOK, StoreTypeOK
<1> DEFINE next == IF place = "failed" THEN AbortPlace(t, "finalize", FALSE) ELSE place
<1>1. at'[t]["finalize"] = next
  <2>1. at' = [at EXCEPT ![t] = [at[t] EXCEPT !["finalize"] = next]]
    BY DEF Proceed, MoveTo
  <2> HIDE DEF next
  <2> QED
    BY <2>1, TtlIsRole
<1>2. CASE place # "failed"
  BY <1>1, <1>2 DEF NextPlaces, OkIsDone, Attended
<1>3. CASE place = "failed" /\ MustAwaitClose(t)
  BY <1>1, <1>3 DEF AbortPlace, AfterFailure, OkIsDone, Attended
<1>4. CASE place = "failed" /\ ~MustAwaitClose(t)
  BY <1>1, <1>4 DEF AbortPlace, Proceed, MarkError, UpdateStatus, HasRow, OkIsDone, Attended
<1> QED
  BY <1>2, <1>3, <1>4

LEMMA FailedGoesOnOrMarks ==
  ASSUME ManagerInv, NEW t \in Tasks, FinalizeFailed(t), pcm' = pcm
  PROVE  OkIsDone(t)' /\ Attended(t)'
<1>1. ArtifactPlace(t) = "encode" => pcm'[t] = "some"
  BY DEF ArtifactPlace, PcmPlace, ManagerInv, FilesTypeOK
<1> QED
  BY <1>1, ArtifactPlaceIsNext, FinalizeGoesOnOrMarks DEF FinalizeFailed

LEMMA FinalizeAttends ==
  ASSUME ManagerInv, NEW t \in Tasks, FinalizeStep(t) \/ FinalizeTimesOut(t)
  PROVE  OkIsDone(t)' /\ Attended(t)'
<1> USE FailedGoesOnOrMarks DEF fileVars
<1>1. ASSUME NEW place \in {"drain", "append", "stop", "validate"}, at'[t]["finalize"] = place
      PROVE  OkIsDone(t)' /\ Attended(t)'
  BY <1>1 DEF OkIsDone, Attended
<1>2. ASSUME NEW place \in {"drain", "append", "stop"}, Goto(t, "finalize", place)
      PROVE  OkIsDone(t)' /\ Attended(t)'
  BY <1>1, <1>2, TtlIsRole DEF Goto, ManagerInv, FilesTypeOK
<1>3. ConvertOrFail(t) /\ pcm' = pcm => OkIsDone(t)' /\ Attended(t)'
  BY <1>2 DEF ConvertOrFail
<1>4. CASE FinalizeStarts(t) \/ Drained(t) \/ Appended(t) \/ FinalizeTimesOut(t)
  BY <1>2, <1>3, <1>4 DEF FinalizeStarts, Drained, Appended, FinalizeTimesOut
<1>5. CASE Stopped(t)
  <2>1. CASE FinalizeFailed(t) /\ pcm' = pcm
    BY <2>1
  <2>2. CASE MoveTo(t, "finalize", "validate", at[t], Orphaned(job[t], "stop"))
    <3>1. at'[t]["finalize"] = "validate"
      BY <2>2, TtlIsRole DEF MoveTo, ManagerInv, FilesTypeOK
    <3> QED
      BY <1>1, <3>1
  <2> QED
    BY <1>5, <2>1, <2>2 DEF Stopped
<1>6. CASE Validated(t)
  <2>1. CASE \E size : MarkSuccess(t, size)
    BY <2>1 DEF MarkSuccess, HasRow, OkIsDone, Attended, ManagerInv, Inv, TypeOK, StoreTypeOK
  <2> QED
    BY <1>6, <2>1 DEF Validated
<1> QED
  BY <1>4, <1>5, <1>6 DEF FinalizeStep

LEMMA RecoveryAttends ==
  ASSUME ManagerInv, NEW t \in Tasks, AttendInv(t), RecoveryStep(t, "finalize")
  PROVE  OkIsDone(t)' /\ Attended(t)'
<1> USE DEF ManagerInv, FilesTypeOK
<1>1. CASE Accepted(t, "finalize")
  BY <1>1 DEF Accepted, MarkSuccess, HasRow, OkIsDone, Attended, Inv, TypeOK, StoreTypeOK
<1>2. CASE Rejected(t, "finalize")
  <2>1. (PcmPlace(t) = "encode" => pcm'[t] = "some") /\ PcmPlace(t) \in NextPlaces /\ "failed" \in NextPlaces
    BY <1>2, ArtifactPlaceIsNext DEF Rejected, fileVars, PcmPlace, NextPlaces
  <2> QED
    BY <1>2, <2>1, FinalizeGoesOnOrMarks DEF Rejected
<1>3. CASE Converted(t, "finalize")
  BY <1>3, FinalizeGoesOnOrMarks DEF Converted, NextPlaces
<1>4. CASE PartFileGone(t, "finalize")
  <2>1. /\ at[t]["finalize"] = "encode" /\ at'[t]["finalize"] = "idle"
        /\ at'[t]["client"] = at[t]["client"]
        /\ UNCHANGED <<pcm, mp3, status>>
    BY <1>4, TtlIsRole, OneRoleMoves DEF PartFileGone, Goto, fileVars, allRunnerVars, storeVars
  <2> QED
    BY <2>1 DEF AttendInv, OkIsDone, Attended
<1> QED
  BY <1>1, <1>2, <1>3, <1>4 DEF RecoveryStep

(* A step that leaves _finalize and the DELETE where they are, and lets no *)
(* file go unless it was converted.                                        *)
LEMMA StillAttended ==
  ASSUME ManagerInv, NEW t \in Tasks, AttendInv(t), TaskStep(t), ~SpawnFinalize(t),
         at'[t]["finalize"] = at[t]["finalize"], at'[t]["client"] = at[t]["client"]
  PROVE  OkIsDone(t)' /\ Attended(t)'
<1>1. status'[t] = "finalizing" => status[t] = "finalizing"
  BY FinalizingBegins
<1>2. status'[t] = "finalizing" /\ mp3[t] # "none" => mp3'[t] # "none"
  BY FilesGo
<1>3. status'[t] = "finalizing" /\ pcm[t] # "none" => pcm'[t] # "none" \/ mp3'[t] # "none"
  BY <1>1, FilesGo DEF AttendInv, EncodedHasFile, ManagerInv, FilesTypeOK
<1> QED
  BY <1>1, <1>2, <1>3 DEF AttendInv, OkIsDone, Attended

LEMMA TaskStepAttends ==
  ASSUME ~Overdue, PastInv, NEW t \in Tasks, AttendInv(t), TaskStep(t)
  PROVE  OkIsDone(t)' /\ Attended(t)'
<1> USE TtlIsRole DEF PastInv
<1>1. CASE SpawnFinalize(t)
  <2>1. at'[t]["finalize"] = "spawned"
    BY <1>1 DEF SpawnFinalize, Goto, ManagerInv, FilesTypeOK
  <2> QED
    BY <2>1 DEF OkIsDone, Attended
<1>2. CASE status'[t] # "finalizing"
  BY <1>2 DEF OkIsDone, Attended
<1>3. CASE at'[t]["finalize"] = at[t]["finalize"] /\ at'[t]["client"] = at[t]["client"]
  BY <1>1, <1>3, StillAttended
<1>4. CASE CancelActive(t)
  <2>1. CASE MustAwaitClose(t)
    BY <1>4, <2>1 DEF CancelActive, RolesWithoutFinalize, OkIsDone, Attended, ManagerInv, FilesTypeOK
  <2>2. CASE ~MustAwaitClose(t)
    BY <1>2, <1>4, <2>2
       DEF CancelActive, CancelAtOnce, MarkCanceled, HasRow, ManagerInv, Inv, TypeOK, StoreTypeOK
  <2> QED
    BY <2>1, <2>2
<1>5. CASE DeleteQueued(t) \/ CancelAtOnce(t)
  BY <1>2, <1>5 DEF DeleteQueued, CancelAtOnce, MarkCanceled, HasRow, ManagerInv, Inv, TypeOK, StoreTypeOK
<1>6. CASE at' = at
  BY <1>3, <1>6
<1>7. ASSUME NEW r \in Recoverers \ {"finalize"}, RecoveryStep(t, r)
      PROVE  OkIsDone(t)' /\ Attended(t)'
  <2>1. r # "client"
    BY ScenarioAssumption DEF Recoverers, Loops
  <2> QED
    BY <1>3, <1>7, <2>1, RecoveryKeepsOthers
<1>8. ASSUME NEW r \in Roles, AbortDone(t, r)
      PROVE  OkIsDone(t)' /\ Attended(t)'
  <2>1. CASE r = "client" \/ (r = "finalize" /\ at[t][r] = "abort_err")
    BY <1>2, <1>8, <2>1 DEF AbortDone, MarkCanceled, MarkError, UpdateStatus, HasRow, ManagerInv, Inv, TypeOK,
                            StoreTypeOK
  <2>2. CASE r = "finalize" /\ at[t][r] = "abort_ok"
    BY <1>2, <1>8, <2>2 DEF AbortDone, AttendInv, OkIsDone, storeVars
  <2>3. CASE r \notin {"client", "finalize"}
    BY <1>3, <1>8, <2>3, OneRoleMoves DEF AbortDone
  <2> QED
    BY <1>8, <2>1, <2>2, <2>3 DEF AbortDone
<1>9. ASSUME NEW l \in Loops, Reconcile(l, t)
      PROVE  OkIsDone(t)' /\ Attended(t)'
  <2>1. l \in Roles \ {"client", "finalize"} /\ {"client", "finalize"} \subseteq Roles
    BY DEF Loops, Roles, Recoverers
  <2>2. CASE IsActive(t)
    BY <1>6, <1>9, <2>2 DEF Reconcile
  <2>3. CASE ~IsActive(t)
    <3>1. MoveTo(t, l, ArtifactPlace(t), at[t], job[t])
      BY <1>9, <2>3 DEF Reconcile, Proceed
    <3>2. \A s \in Roles \ {l} : at'[t][s] = at[t][s]
      BY <2>1, <3>1, OneRoleMoves
    <3> QED
      BY <1>3, <2>1, <3>2
  <2> QED
    BY <2>2, <2>3
<1>10. ASSUME NEW p \in Pollers, RequestState(t, p)
       PROVE  OkIsDone(t)' /\ Attended(t)'
  <2>1. p \in Roles \ {"client", "finalize"} /\ {"client", "finalize"} \subseteq Roles
    BY ScenarioAssumption DEF Roles, Recoverers
  <2>2. MoveTo(t, p, ArtifactPlace(t), at[t], job[t])
    BY <1>10 DEF RequestState, Proceed
  <2>3. \A s \in Roles \ {p} : at'[t][s] = at[t][s]
    BY <2>1, <2>2, OneRoleMoves
  <2> QED
    BY <1>3, <2>1, <2>3
<1>11. CASE Nudge(t)
  <2>1. pcm'[t] = "some" /\ ~FinalizeStarted(t)
    BY <1>11 DEF Nudge, NudgeIsDue, fileVars
  <2>2. at'[t]["finalize"] = "idle"
    BY <1>11 DEF Nudge, MoveTo, RolesWithoutFinalize, ManagerInv, FilesTypeOK
  <2> QED
    BY <2>1, <2>2 DEF OkIsDone, Attended
<1> QED
  BY <1>1, <1>4, <1>5, <1>6, <1>7, <1>8, <1>9, <1>10, <1>11, FinalizeAttends, RecoveryAttends
     DEF TaskStep, CoroutineStep, RequestSubmit, RequestStop, RequestDelete, RunnerStep, Spool, Disconnects,
         TimerFires, ThreadStep, WriterStep, EncodeBegins, EncodeFinishes, EncodeFails, Probe, AppendLands,
         NudgeWaits, managerVars

LEMMA FinalizingStep ==
  ASSUME ~Overdue, FinalizingInv, [ManagerNext]_vars
  PROVE  FinalizingInv'
<1> USE DEF FinalizingInv
<1>1. PastInv'
  BY PastStep
<1>2. ASSUME NEW u \in Tasks
      PROVE  AttendInv(u)'
  <2> USE DEF AttendInv, EncodedHasFile, OkIsDone, Attended
  <2>1. ASSUME NEW t \in Tasks, TaskStep(t)
        PROVE  AttendInv(u)'
    <3>1. CASE u = t
      BY <2>1, <3>1, EncodedStep, TaskStepAttends
    <3>2. CASE u # t
      BY <2>1, <3>2, TaskStepIsSame DEF PastInv, OthersSame, Same, RowSame, WorkSame, FilesSame
    <3> QED
      BY <3>1, <3>2
  <2>2. CASE LoopsMove
    BY <2>2 DEF LoopsMove, TtlWakes, LoopAdvances, vars, managerVars, allRunnerVars, storeVars, fileVars,
                threadVars
  <2>3. CASE Purge
    <3>1. PICK expired : /\ PurgeExpired(expired)
                         /\ pcm' = [t \in Tasks |-> IF t \in expired THEN "none" ELSE pcm[t]]
                         /\ mp3' = [t \in Tasks |-> IF t \in expired THEN "none" ELSE mp3[t]]
                         /\ UNCHANGED <<job, at>>
      BY <2>3 DEF Purge, threadVars
    <3>2. CASE u \in expired
      BY <3>1, <3>2 DEF PurgeExpired
    <3>3. CASE u \notin expired
      BY <3>1, <3>3 DEF PurgeExpired
    <3> QED
      BY <3>2, <3>3
  <2>4. CASE Reboot
    <3>1. /\ \A w \in Writers : job'[u][w] = "none"
          /\ at'[u]["finalize"] = "idle"
      BY <2>4, TtlIsRole DEF Reboot
    <3>2. status'[u] = "finalizing" => mp3'[u] # "none"
      BY <2>4 DEF Reboot, CrashRestart, Interrupted, Listed
    <3> QED
      BY <3>1, <3>2
  <2> QED
    BY <2>1, <2>2, <2>3, <2>4, StepsAreOfFourKinds
<1> QED
  BY <1>1, <1>2

(* A finalizing row has somebody working on it, or files from which the    *)
(* nudge or reconcile_all will recover it: with deletes, auto-stops, polls *)
(* and restarts at any time, as long as the nudge cancels no _finalize     *)
(* that is overdue.                                                        *)
THEOREM FinalizingsAreAttended ==
  ASSUME ~Overdue
  PROVE  ManagerSpec => []FinalizingIsAttended
<1>1. ManagerInit => FinalizingInv
  <2>1. ManagerInit => \A t \in Tasks : AttendInv(t)
    BY TtlIsRole DEF ManagerInit, VolatileInit, Init, StoreInit, AttendInv, EncodedHasFile, OkIsDone, Attended
  <2> QED
    BY <2>1, PastInitInv DEF FinalizingInv
<1>2. FinalizingInv /\ [ManagerNext]_vars => FinalizingInv'
  BY FinalizingStep
<1>3. FinalizingInv => FinalizingIsAttended
  BY TtlIsRole DEF FinalizingInv, AttendInv, Attended, FinalizingIsAttended, PastInv, ManagerInv, FilesTypeOK
<1> QED
  BY <1>1, <1>2, <1>3, PTL DEF ManagerSpec
-----------------------------------------------------------------------------
(***************************************************************************)
(* Nothing new is drained while a conversion runs, with everything         *)
(* switched on.                                                            *)
(***************************************************************************)

(* A run that waits for its event, with a browser nobody closes, can still *)
(* get it.                                                                 *)
Ears(t) ==
  run[t] \in InEngine /\ browser[t] \in {"none", "open"} => t \in sessions \/ t \in finished

DrainHasSession(t) == at[t]["finalize"] = "drain" => t \in sessions

(* Neither the spool loop nor the drain of _finalize can take anything any *)
(* more, nor start.                                                        *)
IsDeaf(t) ==
  /\ at[t]["finalize"] # "drain"
  /\ t \in sessions =>
       run[t] = "capture" /\ status[t] # "capturing" /\ at[t]["finalize"] # "spawned"

(* The event is set, or a thread or a role beside _finalize has to do with *)
(* the task.                                                               *)
PastStop(t) ==
  \/ t \in finished
  \/ \E r \in Roles \ {"finalize"} : at[t][r] # "idle"
  \/ \E w \in Writers : job[t][w] # "none"

StoppedIsDeaf(t) == PastStop(t) => Admitted(t) /\ IsDeaf(t)

DeafInv ==
  PastInv /\ TtlInv /\ \A t \in Tasks : Ears(t) /\ DrainHasSession(t) /\ StoppedIsDeaf(t)

LEMMA EarsStep ==
  ASSUME ManagerInv, [Next]_allRunnerVars, NEW u \in Tasks, Ears(u)
  PROVE  Ears(u)'
<1> USE DEF Ears, ManagerInv, Inv, TypeOK, InEngine, Joining
<1>1. CASE UNCHANGED allRunnerVars
  BY <1>1 DEF allRunnerVars, runnerVars
<1>2. ASSUME NEW t \in Tasks, Submit(t) \/ DeleteQueued(t)
      PROVE  Ears(u)'
  BY <1>2 DEF Submit, DeleteQueued
<1>3. ASSUME NEW t \in Tasks, RunStep(t)
      PROVE  Ears(u)'
  <2>1. CASE Dispatch(t) \/ SkipTask(t)
    BY <2>1 DEF Dispatch, SkipTask
  <2>2. CASE StartCapture(t)
    BY <2>2 DEF StartCapture
  <2>3. CASE OpenBrowser(t) \/ JoinSeen(t) \/ Joined(t)
    BY <2>3 DEF OpenBrowser, JoinSeen, Joined, TaskInv, LaunchIsBare
  <2>4. CASE JoinFails(t) \/ CaptureEnds(t) \/ CloseReturns(t)
    BY <2>4 DEF JoinFails, CaptureEnds, CloseReturns, LeaveEngine, Leave
  <2> QED
    BY <1>3, <2>1, <2>2, <2>3, <2>4 DEF RunStep
<1>4. ASSUME NEW t \in Tasks, EngineCall(t)
      PROVE  Ears(u)'
  BY <1>4 DEF EngineCall, AbortAtOnce, AbortBegins, AbortReturns, AbortIsLost, AbortCancelsItself,
              StopBegins, StopReturns, runnerVars
<1>5. CASE ManagerPurges
  BY <1>5 DEF ManagerPurges, runnerVars
<1>6. ASSUME NEW intact \in SUBSET Tasks, CrashRestart(intact)
      PROVE  Ears(u)'
  BY <1>6 DEF CrashRestart, Restarted
<1> QED
  BY <1>1, <1>2, <1>3, <1>4, <1>5, <1>6 DEF Next

LEMMA NudgeFinalizes ==
  ASSUME ManagerInv, NEW t \in Tasks, Nudge(t)
  PROVE  at'[t]["finalize"] = "idle"
<1>1. /\ RolesWithoutFinalize(t) \in [Roles -> Place]
      /\ RolesWithoutFinalize(t)["finalize"] = "idle"
  BY RolesWithoutFinalizeFrame DEF ManagerInv
<1>2. PICK x : at' = [at EXCEPT ![t] = [RolesWithoutFinalize(t) EXCEPT !["ttl"] = x]]
  BY DEF Nudge, MoveTo
<1> QED
  BY <1>1, <1>2, TtlIsRole DEF ManagerInv, FilesTypeOK

(* _finalize starts with its row, and drains with its session.             *)
LEMMA FinalizeBegins ==
  ASSUME ManagerInv, NEW t \in Tasks, TaskStep(t),
         at'[t]["finalize"] \in {"spawned", "drain"}, at'[t]["finalize"] # at[t]["finalize"]
  PROVE  \/ SpawnFinalize(t)
         \/ at[t]["finalize"] = "spawned" /\ StopBegins(t) /\ UNCHANGED <<storeVars, job>>
<1> USE TtlIsRole DEF ManagerInv, FilesTypeOK
<1>1. ~UNCHANGED at
  OBVIOUS
<1>2. ASSUME NEW r \in Roles, NEW place \in {"failed"} \cup NextPlaces \cup {"validate"}, NEW j,
             MoveTo(t, r, place, at[t], j)
      PROVE  FALSE
  <2>1. at'[t]["finalize"] \in {at[t]["finalize"], "idle", "abort_err", place} \ {"failed"}
    BY <1>2 DEF MoveTo, AbortPlace
  <2> QED
    BY <2>1 DEF NextPlaces
<1>3. ASSUME NEW place \in {"idle", "append", "stop", "abort_ok", "abort_err"}, NEW r \in Roles, Goto(t, r, place)
      PROVE  FALSE
  BY <1>3 DEF Goto
<1>4. ASSUME NEW r \in Roles, NEW j,
             Proceed(t, r, ArtifactPlace(t), j) \/ Proceed(t, r, PcmPlace(t), j)
               \/ Proceed(t, r, "failed", j) \/ Proceed(t, r, "check", j)
      PROVE  FALSE
  BY <1>2, <1>4 DEF Proceed, ArtifactPlace, PcmPlace, NextPlaces
<1>5. ~FinalizeFailed(t) /\ ~ConvertOrFail(t)
  BY <1>3, <1>4 DEF FinalizeFailed, ConvertOrFail
<1>6. CASE RequestSubmit(t) \/ RunnerStep(t) \/ Spool(t) \/ ThreadStep(t) \/ NudgeWaits(t)
  BY <1>1, <1>6 DEF RequestSubmit, RunnerStep, Spool, ThreadStep, WriterStep, EncodeBegins, EncodeFinishes,
                    EncodeFails, Probe, AppendLands, NudgeWaits, managerVars
<1>7. CASE FinalizeStarts(t)
  BY <1>5, <1>7 DEF FinalizeStarts, Goto
<1>8. CASE Drained(t) \/ Appended(t) \/ Validated(t) \/ FinalizeTimesOut(t)
  BY <1>3, <1>5, <1>8 DEF Drained, Appended, Validated, FinalizeTimesOut
<1>9. CASE Stopped(t)
  BY <1>2, <1>5, <1>9 DEF Stopped
<1>10. ~CancelActive(t)
  BY DEF CancelActive, RolesWithoutFinalize
<1>11. CASE RequestStop(t) \/ RequestDelete(t) \/ Disconnects(t) \/ TimerFires(t)
  BY <1>1, <1>10, <1>11 DEF RequestStop, RequestDelete, Disconnects, TimerFires
<1>12. ASSUME NEW p \in Pollers, RequestState(t, p)
       PROVE  FALSE
  BY <1>4, <1>12 DEF RequestState, Roles, Recoverers
<1>13. ASSUME NEW r \in Recoverers, RecoveryStep(t, r)
       PROVE  FALSE
  <2>1. r \in Roles
    BY DEF Roles
  <2>2. ~Accepted(t, r)
    BY <1>3, <2>1 DEF Accepted, AbortPlace
  <2> QED
    BY <1>3, <1>4, <1>13, <2>1, <2>2 DEF RecoveryStep, Rejected, Converted, PartFileGone
<1>14. ASSUME NEW r \in Roles, AbortDone(t, r)
       PROVE  FALSE
  BY <1>3, <1>14 DEF AbortDone
<1>15. ASSUME NEW l \in Loops, Reconcile(l, t)
       PROVE  FALSE
  BY <1>1, <1>4, <1>15 DEF Reconcile, Roles, Recoverers
<1>16. CASE Nudge(t)
  <2>1. at'[t]["finalize"] = "idle"
    BY <1>16, NudgeFinalizes
  <2> QED
    BY <2>1
<1> QED
  BY <1>6, <1>7, <1>8, <1>9, <1>11, <1>12, <1>13, <1>14, <1>15, <1>16
     DEF TaskStep, CoroutineStep, FinalizeStep

LEMMA FinalizeMoves ==
  ASSUME ManagerInv, NEW t \in Tasks, FinalizeStep(t) \/ FinalizeTimesOut(t)
  PROVE  at'[t]["finalize"] # at[t]["finalize"] \/ at[t]["finalize"] \notin {"spawned", "drain"}
<1> USE TtlIsRole DEF ManagerInv, FilesTypeOK
<1>1. ASSUME NEW place \in {"failed"} \cup NextPlaces, NEW a, MoveTo(t, "finalize", place, at[t], a)
      PROVE  at'[t]["finalize"] \notin {"spawned", "drain"}
  BY <1>1 DEF MoveTo, AbortPlace, NextPlaces
<1>2. ASSUME FinalizeFailed(t)
      PROVE  at'[t]["finalize"] \notin {"spawned", "drain"}
  BY <1>1, <1>2 DEF FinalizeFailed, Proceed, ArtifactPlace, PcmPlace, NextPlaces
<1>3. ASSUME ConvertOrFail(t)
      PROVE  at'[t]["finalize"] \notin {"spawned", "drain"}
  BY <1>2, <1>3 DEF ConvertOrFail, Goto
<1> QED
  BY <1>2, <1>3 DEF FinalizeStep, FinalizeTimesOut, FinalizeStarts, Drained, Appended, Stopped, Validated, Goto

(* No session is new once its task was admitted, and a run in its meeting  *)
(* stays there as long as it has one.                                      *)
LEMMA SessionsGo ==
  ASSUME ManagerInv, [Next]_allRunnerVars, NEW u \in Tasks, Admitted(u), u \in sessions'
  PROVE  u \in sessions /\ (run[u] = "capture" => run'[u] = "capture")
<1> USE DEF ManagerInv, Inv, TypeOK, Admitted
<1>1. CASE UNCHANGED allRunnerVars
  BY <1>1 DEF allRunnerVars, runnerVars
<1>2. ASSUME NEW t \in Tasks, Submit(t) \/ DeleteQueued(t)
      PROVE  UNCHANGED <<sessions, run>>
  BY <1>2 DEF Submit, DeleteQueued
<1>3. ASSUME NEW t \in Tasks, RunStep(t)
      PROVE  u \in sessions /\ (run[u] = "capture" => run'[u] = "capture")
  <2>1. CASE Dispatch(t) \/ SkipTask(t) \/ OpenBrowser(t) \/ JoinSeen(t) \/ Joined(t) \/ CloseReturns(t)
    <3>1. run[t] = "capture" => ~Dispatch(t)
      BY DEF RunnerSafety, DispatchedOnce, Dispatch
    <3> QED
      BY <2>1, <3>1 DEF Dispatch, SkipTask, OpenBrowser, JoinSeen, Joined, CloseReturns, Leave
  <2>2. CASE StartCapture(t)
    BY <2>2 DEF StartCapture
  <2>3. CASE JoinFails(t) \/ CaptureEnds(t)
    BY <2>3 DEF JoinFails, CaptureEnds, LeaveEngine, Leave
  <2> QED
    BY <1>3, <2>1, <2>2, <2>3 DEF RunStep
<1>4. ASSUME NEW t \in Tasks, EngineCall(t)
      PROVE  run' = run /\ sessions' \subseteq sessions
  BY <1>4, EngineCallEffect DEF EngineEffect
<1>5. CASE ManagerPurges
  BY <1>5 DEF ManagerPurges, runnerVars
<1>6. ASSUME NEW intact \in SUBSET Tasks, CrashRestart(intact)
      PROVE  sessions' = {}
  BY <1>6 DEF CrashRestart, Restarted
<1> QED
  BY <1>1, <1>2, <1>3, <1>4, <1>5, <1>6 DEF Next

(* A _finalize that is past its drain belongs to a stopped capture.        *)
LEMMA FinalizerIsDeaf ==
  ASSUME ManagerInv, StepOK, NEW t \in Tasks, TaskStep(t), at[t]["finalize"] # "idle",
         at'[t]["finalize"] \notin {"spawned", "drain"}
  PROVE  IsDeaf(t)'
<1> USE DEF ManagerInv, TaskInv
<1>1. run[t] \in {"capture", "closing", "done"} /\ status[t] # "capturing" /\ Admitted(t)
  BY TtlIsRole DEF JoinIsOver, FinalizeIsOnce, BusyIsAdmitted
<1>2. t \in sessions => run[t] = "capture"
  BY <1>1 DEF Inv, RunnerSafety, SessionIsLive, InEngine, Joining
<1>3. status'[t] # "capturing"
  BY <1>1, CapturingBegins DEF Joining
<1>4. t \in sessions' => run'[t] = "capture"
  BY <1>1, <1>2, SessionsGo DEF StepOK
<1> QED
  BY <1>3, <1>4 DEF IsDeaf

(* Once stopped a capture stays deaf.                                      *)
LEMMA DeafForEver ==
  ASSUME ManagerInv, StepOK, NEW t \in Tasks, TaskStep(t), Admitted(t), IsDeaf(t)
  PROVE  IsDeaf(t)'
<1>1. t \in sessions' => t \in sessions /\ run'[t] = "capture"
  BY SessionsGo DEF StepOK, IsDeaf
<1>2. t \in sessions => status'[t] # "capturing"
  BY CapturingBegins DEF IsDeaf, Joining
<1>3. at'[t]["finalize"] # "drain"
  BY FinalizeBegins, TtlIsRole DEF IsDeaf, SpawnFinalize, StopBegins, Goto, ManagerInv, FilesTypeOK
<1>4. t \in sessions => at'[t]["finalize"] # "spawned"
  BY FinalizeBegins DEF IsDeaf, SpawnFinalize
<1> QED
  BY <1>1, <1>2, <1>3, <1>4 DEF IsDeaf

(* What stops a capture ends its spool first.                              *)
LEMMA DeafBegins ==
  ASSUME PastInv, TtlInv, StepOK, NEW t \in Tasks, TaskStep(t), DrainHasSession(t),
         ~PastStop(t), PastStop(t)'
  PROVE  (Admitted(t) \/ Admitted(t)') /\ IsDeaf(t)'
<1> USE TtlIsRole DEF PastInv, ManagerInv, FilesTypeOK, TaskInv
<1>1. ~(UNCHANGED <<at, job, finished>>)
  BY DEF PastStop
<1>2. t \notin sessions /\ at[t]["finalize"] # "drain" => IsDeaf(t)
  BY DEF IsDeaf
<1>3. at[t]["finalize"] # "idle" => Admitted(t)
  BY DEF BusyIsAdmitted
<1>4. CASE FinalizeStep(t) \/ FinalizeTimesOut(t)
  <2>1. at[t]["finalize"] # "idle"
    BY <1>4, ScenarioAssumption
       DEF FinalizeStep, FinalizeTimesOut, FinalizeStarts, Drained, Appended, Stopped, Validated
  <2>2. \A s \in Roles \ {"finalize"} : at'[t][s] = at[t][s]
    BY <1>4, FinalizeKeepsOthers
  <2>3. ~(StopBegins(t) /\ job' = job)
    BY <2>2 DEF StopBegins, PastStop
  <2>4. at'[t]["finalize"] \notin {"spawned", "drain"}
    <3>1. ~SpawnFinalize(t)
      BY <2>1 DEF SpawnFinalize, FinalizeIsOnce
    <3>2. at'[t]["finalize"] \in {"spawned", "drain"} => at'[t]["finalize"] # at[t]["finalize"]
      BY <1>4, FinalizeMoves
    <3> QED
      BY <2>3, <3>1, <3>2, FinalizeBegins
  <2> QED
    BY <1>3, <2>1, <2>4, FinalizerIsDeaf
<1>5. CASE RunnerStep(t) \/ RequestSubmit(t) \/ Spool(t) \/ NudgeWaits(t)
  BY <1>1, <1>5 DEF RunnerStep, RunStep, Dispatch, SkipTask, StartCapture, OpenBrowser, JoinSeen, Joined,
                    JoinFails, CaptureEnds, CloseReturns, LeaveEngine, RequestSubmit, Submit, Spool, NudgeWaits,
                    managerVars, threadVars, allRunnerVars, runnerVars
<1>6. CASE CancelActive(t)
  <2>1. at'[t]["finalize"] = "idle"
    BY <1>6 DEF CancelActive, RolesWithoutFinalize
  <2>2. t \notin sessions'
    BY <1>6 DEF CancelActive, AbortBegins, AbortIsLost, CancelAtOnce, AbortAtOnce, Aborting, runnerVars, Inv,
                RunnerSafety, SessionIsLive
  <2> QED
    BY <1>6, <2>1, <2>2 DEF CancelActive, Admitted, IsDeaf
<1>7. CASE SpawnFinalize(t) \/ (DeleteQueued(t) /\ UNCHANGED <<threadVars, at>>)
           \/ (AbortCancelsItself(t) /\ UNCHANGED <<threadVars, at>>)
  <2>1. UNCHANGED <<finished, job>>
    BY <1>7 DEF SpawnFinalize, DeleteQueued, AbortCancelsItself, threadVars, runnerVars
  <2>2. \A s \in Roles \ {"finalize"} : at'[t][s] = at[t][s]
    BY <1>7, OneRoleMoves DEF SpawnFinalize
  <2> QED
    BY <2>1, <2>2 DEF PastStop
<1>8. CASE status[t] = "joining" /\ CancelAtOnce(t) /\ UNCHANGED at
  <2>1. at[t]["finalize"] = "idle"
    BY <1>8 DEF JoinIsOver, Inv, RunnerSafety, JoiningHasRunner, Joining
  <2>2. t \notin sessions'
    BY <1>8 DEF CancelAtOnce, AbortAtOnce, runnerVars
  <2> QED
    BY <1>8, <2>1, <2>2 DEF Admitted, IsDeaf
<1>9. CASE RequestStop(t) \/ RequestDelete(t) \/ Disconnects(t) \/ TimerFires(t)
  BY <1>6, <1>7, <1>8, <1>9 DEF RequestStop, RequestDelete, Disconnects, TimerFires
<1>10. ASSUME NEW p \in Pollers, RequestState(t, p)
       PROVE  Admitted(t) /\ IsDeaf(t)'
  <2>1. Admitted(t) /\ t \notin sessions
    BY <1>10 DEF RequestState, Admitted, EndedIsGone
  <2> QED
    BY <1>2, <2>1, DeafForEver DEF DrainHasSession
<1>11. ASSUME NEW r \in Recoverers, RecoveryStep(t, r)
       PROVE  Admitted(t) /\ IsDeaf(t)'
  <2>1. r \in Roles /\ at[t][r] \notin {"idle", "spawned", "drain"}
    BY <1>11 DEF RecoveryStep, Accepted, Rejected, Converted, PartFileGone, Roles
  <2>2. r = "finalize"
    BY <2>1 DEF PastStop
  <2>3. ~SpawnFinalize(t)
    BY <2>1, <2>2 DEF SpawnFinalize, FinalizeIsOnce
  <2>4. at'[t]["finalize"] \notin {"spawned", "drain"}
    BY <2>1, <2>2, <2>3, FinalizeBegins
  <2> QED
    BY <1>3, <2>1, <2>2, <2>4, FinalizerIsDeaf
<1>12. ASSUME NEW r \in Roles, AbortDone(t, r)
       PROVE  Admitted(t) /\ IsDeaf(t)'
  <2>1. at[t][r] \notin {"idle", "spawned", "drain"}
    BY <1>12 DEF AbortDone
  <2>2. r = "finalize"
    BY <2>1 DEF PastStop
  <2>3. at'[t]["finalize"] = "idle"
    BY <1>12, <2>2 DEF AbortDone, Goto
  <2> QED
    BY <1>3, <2>1, <2>2, <2>3, FinalizerIsDeaf
<1>13. CASE ThreadStep(t)
  <2>1. \A w \in Writers : job[t][w] = "none"
    BY DEF PastStop
  <2>2. AppendLands(t)
    BY <1>13, <2>1 DEF ThreadStep, WriterStep, EncodeBegins, EncodeFinishes, EncodeFails, Probe, Writers
  <2> QED
    BY <1>1, <2>2 DEF AppendLands, allRunnerVars, runnerVars
<1>14. CASE Nudge(t)
  <2>1. t \in loop["ttl"].todo /\ loop["ttl"].phase = "nudge"
    BY <1>14 DEF Nudge, NudgeVisits
  <2>2. JoinIsPast(t) /\ status[t] # "capturing"
    BY <2>1 DEF ListedIsPast, Loops, TtlInv, NudgesNoCapture
  <2>3. at'[t]["finalize"] = "idle" /\ status' = status
    BY <1>14, NudgeFinalizes DEF Nudge, storeVars
  <2>4. t \in sessions => run[t] = "capture"
    BY <2>2 DEF JoinIsPast, Inv, RunnerSafety, SessionIsLive, InEngine
  <2>5. t \in sessions' => run'[t] = "capture"
    BY <2>2, <2>4, SessionsGo DEF StepOK, JoinIsPast
  <2> QED
    BY <2>2, <2>3, <2>5 DEF IsDeaf, JoinIsPast
<1>15. ASSUME NEW l \in Loops, Reconcile(l, t)
       PROVE  Admitted(t) /\ IsDeaf(t)'
  <2>1. t \notin sessions
    BY <1>1, <1>15 DEF Reconcile, IsActive, allRunnerVars, runnerVars
  <2>2. Admitted(t)
    BY <1>15 DEF Reconcile, ListedIsAdmitted
  <2> QED
    BY <1>2, <2>1, <2>2, DeafForEver DEF DrainHasSession
<1> QED
  BY <1>4, <1>5, <1>9, <1>10, <1>11, <1>12, <1>13, <1>14, <1>15 DEF TaskStep, CoroutineStep

(* The session of a drain goes with the drain.                             *)
LEMMA DrainKeepsSession ==
  ASSUME ManagerInv, StepOK, NEW t \in Tasks, TaskStep(t), DrainHasSession(t), StoppedIsDeaf(t)
  PROVE  DrainHasSession(t)'
<1> USE TtlIsRole DEF ManagerInv, FilesTypeOK, TaskInv
<1>1. SUFFICES ASSUME at[t]["finalize"] = "drain", at'[t]["finalize"] = "drain", ~(sessions \subseteq sessions')
               PROVE  FALSE
  BY FinalizeBegins DEF DrainHasSession, SpawnFinalize, StopBegins, Goto
<1>2. /\ t \notin finished
      /\ \A r \in Roles \ {"finalize"} : at[t][r] = "idle"
  BY <1>1 DEF StoppedIsDeaf, IsDeaf, PastStop
<1>3. run[t] \in {"capture", "closing", "done"}
  BY <1>1 DEF JoinIsOver
<1>4. CASE RunStep(t)
  BY <1>1, <1>2, <1>3, <1>4 DEF RunStep, Dispatch, SkipTask, StartCapture, OpenBrowser, JoinSeen, Joined, JoinFails,
                    CaptureEnds, CloseReturns, Joining
<1>5. ~(FinalizeStep(t) \/ FinalizeTimesOut(t)) /\ ~Nudge(t)
  BY <1>1, FinalizeMoves, NudgeFinalizes
<1>6. ~CancelActive(t)
  BY <1>1 DEF CancelActive, RolesWithoutFinalize
<1>7. status[t] # "joining"
  BY <1>3 DEF Inv, RunnerSafety, JoiningHasRunner, Joining
<1>8. ~RequestStop(t) /\ ~RequestDelete(t) /\ ~Disconnects(t) /\ ~TimerFires(t)
  BY <1>1, <1>6, <1>7 DEF RequestStop, RequestDelete, Disconnects, TimerFires, SpawnFinalize, DeleteQueued,
                          runnerVars
<1>9. \A r \in Recoverers : ~RecoveryStep(t, r)
  BY <1>1, <1>2 DEF RecoveryStep, Accepted, Rejected, Converted, PartFileGone, Roles
<1>10. \A r \in Roles : ~AbortDone(t, r)
  BY <1>1, <1>2 DEF AbortDone
<1>11. \A p \in Pollers : ~RequestState(t, p)
  BY <1>1, ScenarioAssumption DEF RequestState, Proceed, AbortIfAfterFailure, AfterFailure, runnerVars
<1>12. \A l \in Loops : ~Reconcile(l, t)
  BY <1>1 DEF Reconcile, Proceed, AbortIfAfterFailure, AfterFailure, Loops, allRunnerVars, runnerVars
<1>13. CASE RequestSubmit(t) \/ Spool(t) \/ NudgeWaits(t) \/ ThreadStep(t)
  BY <1>1, <1>13 DEF RequestSubmit, Submit, Spool, NudgeWaits, ThreadStep, WriterStep, EncodeBegins,
                     EncodeFinishes, EncodeFails, Probe, AppendLands, allRunnerVars, runnerVars
<1> QED
  BY <1>4, <1>5, <1>8, <1>9, <1>10, <1>11, <1>12, <1>13 DEF TaskStep, CoroutineStep, RunnerStep

LEMMA TaskStepIsDeaf ==
  ASSUME PastInv, TtlInv, StepOK, NEW t \in Tasks, TaskStep(t), DrainHasSession(t), StoppedIsDeaf(t)
  PROVE  StoppedIsDeaf(t)'
<1>1. CASE PastStop(t)
  BY <1>1, DeafForEver, AdmittedForEver DEF StoppedIsDeaf, PastInv, ManagerInv, StepOK
<1>2. CASE ~PastStop(t) /\ PastStop(t)'
  BY <1>2, DeafBegins, AdmittedForEver DEF StoppedIsDeaf, PastInv, ManagerInv, StepOK
<1> QED
  BY <1>1, <1>2 DEF StoppedIsDeaf

LEMMA DeafStep ==
  ASSUME DeafInv, [ManagerNext]_vars
  PROVE  DeafInv'
<1> USE DEF DeafInv
<1>1. PastInv' /\ TtlInv' /\ StepOK
  BY PastStep, TtlStep, ManagerNextStep DEF PastInv
<1>2. ASSUME NEW u \in Tasks
      PROVE  Ears(u)'
  BY <1>1, EarsStep DEF PastInv, StepOK
<1>3. ASSUME NEW u \in Tasks
      PROVE  (DrainHasSession(u) /\ StoppedIsDeaf(u))'
  <2> USE DEF DrainHasSession, StoppedIsDeaf, IsDeaf, PastStop, Admitted
  <2>1. ASSUME NEW t \in Tasks, TaskStep(t)
        PROVE  (DrainHasSession(u) /\ StoppedIsDeaf(u))'
    <3>1. CASE u = t
      <4> HIDE DEF DrainHasSession, StoppedIsDeaf
      <4> QED
        BY <1>1, <2>1, <3>1, DrainKeepsSession, TaskStepIsDeaf DEF PastInv
    <3>2. CASE u # t
      BY <2>1, <3>2, TaskStepIsSame DEF PastInv, OthersSame, Same, RowSame, RunSame, WorkSame
    <3> QED
      BY <3>1, <3>2
  <2>2. CASE LoopsMove
    BY <2>2 DEF LoopsMove, TtlWakes, LoopAdvances, vars, managerVars, allRunnerVars, storeVars, runnerVars, threadVars
  <2>3. CASE Purge
    <3>1. UNCHANGED <<runnerVars, job, at>>
      BY <2>3 DEF Purge, threadVars
    <3>2. status'[u] \in {status[u], "purged"} /\ (status'[u] = "purged" => Admitted(u))
      BY <1>1, <2>3 DEF Purge, PurgeExpired, TerminalStatus, PastInv, ManagerInv, Inv, TypeOK, StoreTypeOK
    <3> QED
      BY <3>1, <3>2 DEF runnerVars
  <2>4. CASE Reboot
    BY <2>4, TtlIsRole DEF Reboot, CrashRestart, Restarted
  <2> QED
    BY <2>1, <2>2, <2>3, <2>4, StepsAreOfFourKinds
<1> QED
  BY <1>1, <1>2, <1>3

(* While a conversion reads the PCM file nothing new is drained for it,    *)
(* with every request, timeout, failure, nudge and restart: whoever        *)
(* converts has ended the spool loop (browser.cancel_pcm_spool, called by  *)
(* finalize_to_mp3), or the session is closed.                             *)
THEOREM NoAudioComesLate == ManagerSpec => NothingNewWhileConverting
<1>1. ManagerInit => DeafInv
  BY PastInitInv, TtlInitInv
     DEF ManagerInit, VolatileInit, Init, RunnerInit, DeafInv, Ears, DrainHasSession, StoppedIsDeaf, PastStop,
         InEngine, Joining, Roles, Recoverers
<1>2. DeafInv /\ [ManagerNext]_vars => DeafInv'
  BY DeafStep
<1>3. DeafInv /\ [ManagerNext]_vars =>
        [\A t \in Tasks : BeingConverted(t) => append'[t] \subseteq append[t]]_vars
  <2>1. SUFFICES ASSUME DeafInv, [ManagerNext]_vars, NEW u \in Tasks, BeingConverted(u)
                 PROVE  append'[u] \subseteq append[u]
    OBVIOUS
  <2>2. IsDeaf(u)
    BY <2>1 DEF DeafInv, StoppedIsDeaf, PastStop, BeingConverted
  <2>3. ~Spool(u) /\ ~Drained(u)
    BY <2>1, <2>2 DEF DeafInv, Ears, IsDeaf, Spool, Drained, InEngine
  <2>4. append' = append \/ Spool(u) \/ Drained(u) \/ append'[u] \subseteq append[u]
    <3>1. ASSUME NEW t \in Tasks, TaskStep(t)
          PROVE  append' = append \/ Spool(t) \/ Drained(t) \/ append'[t] \subseteq append[t]
      <4>1. CASE FinalizeStep(t) \/ FinalizeTimesOut(t)
        BY <4>1 DEF FinalizeStep, FinalizeTimesOut, FinalizeStarts, Appended, Stopped, Validated
      <4>2. CASE \E r \in Recoverers : RecoveryStep(t, r)
        BY <4>2 DEF RecoveryStep, Accepted, Rejected, Converted, PartFileGone
      <4>3. CASE RequestStop(t) \/ RequestDelete(t) \/ Disconnects(t) \/ TimerFires(t)
        BY <4>3 DEF RequestStop, RequestDelete, Disconnects, TimerFires, SpawnFinalize, CancelActive, threadVars
      <4>4. CASE RequestSubmit(t) \/ RunnerStep(t) \/ (\E p \in Pollers : RequestState(t, p))
                 \/ (\E r \in Roles : AbortDone(t, r))
        BY <4>4 DEF RequestSubmit, RunnerStep, RequestState, AbortDone, managerVars, threadVars
      <4>5. CASE ThreadStep(t)
        <5>1. append \in [Tasks -> SUBSET {"spool", "drain"}]
          BY <2>1 DEF DeafInv, PastInv, ManagerInv, FilesTypeOK
        <5>2. CASE AppendLands(t)
          <6>1. PICK a : append' = [append EXCEPT ![t] = append[t] \ {a}]
            BY <5>2 DEF AppendLands
          <6> QED
            BY <5>1, <6>1
        <5> QED
          BY <4>5, <5>2 DEF ThreadStep, WriterStep, EncodeBegins, EncodeFinishes, EncodeFails, Probe
      <4>6. CASE Nudge(t) \/ NudgeWaits(t) \/ \E l \in Loops : Reconcile(l, t)
        BY <4>6 DEF Nudge, NudgeWaits, Reconcile, threadVars
      <4> QED
        BY <3>1, <4>1, <4>2, <4>3, <4>4, <4>5, <4>6 DEF TaskStep, CoroutineStep
    <3>2. CASE \E t \in Tasks : TaskStep(t)
      BY <2>1, <3>1, <3>2, TaskStepIsSame DEF DeafInv, PastInv, OthersSame, Same, FilesSame
    <3>3. CASE LoopsMove \/ Purge
      BY <3>3 DEF LoopsMove, TtlWakes, LoopAdvances, Purge, vars, managerVars, threadVars
    <3>4. CASE Reboot
      BY <3>4 DEF Reboot
    <3> QED
      BY <2>1, <3>2, <3>3, <3>4, StepsAreOfFourKinds
  <2> QED
    BY <2>3, <2>4
<1> QED
  BY <1>1, <1>2, <1>3, PTL DEF ManagerSpec, NothingNewWhileConverting
===============================================================================
