---------------------------- MODULE CaptureManager ----------------------------
(***************************************************************************)
(* CaptureManager (src/app/manager.py) composed with the runner it drives, *)
(* the files of src/app/artifacts.py and the clients of src/app/main.py:   *)
(* stopping, finalizing, cancelling and recovering a capture.              *)
(*                                                                         *)
(* Several coroutines may work on the same task at once, and none of them  *)
(* looks at the row again after an await.  at[t][r] is where role r stands *)
(* with task t:                                                            *)
(*   "finalize"  the task's _finalize coroutine                            *)
(*   "ttl"       _ttl_loop: nudge, reconcile_all, purge                    *)
(*   "startup"   the reconcile_all of start(), before HTTP is served       *)
(*   "client"    a stop or DELETE request awaiting engine.cancel           *)
(*   pollers     GET requests inside refresh_capture_state                 *)
(* Work handed to a thread by asyncio.to_thread outlives the cancellation  *)
(* of the coroutine that awaits it: job[t][w] is the thread of writer w.   *)
(* The thread of engine.stop has a writer of its own, "stop", since        *)
(* _finalize may start a second conversion while that one still runs.      *)
(***************************************************************************)
EXTENDS CaptureRunner

CONSTANTS Pollers,      \* GET requests that may be recovering at one time
          ClientOps,    \* the requests this instance issues
          Timeouts,     \* the awaits of engine.stop that may exceed the timeout
          ToolsCanFail, \* whether ffmpeg and ffprobe may fail
          Overdue,      \* whether _finalize may outlast its timeout plus grace
          Retention,    \* settings.TASK_TTL_SEC > 0
          Restarts      \* whether the process may die

Loops == {"ttl", "startup"}
Recoverers == {"finalize"} \cup Loops \cup Pollers
Roles == Recoverers \cup {"client"}
Writers == Recoverers \cup {"stop"}

ASSUME ScenarioAssumption ==
  /\ Pollers \cap {"finalize", "ttl", "startup", "client", "stop", "none", "partial", "full"} = {}
  /\ ClientOps \subseteq {"submit", "stop", "delete", "poll"}
  /\ Timeouts \subseteq {"drain", "append", "stop"}
  /\ {ToolsCanFail, Overdue, Retention, Restarts} \subseteq BOOLEAN

VARIABLES pcm,      \* tmp/<id>.pcm: "none" (missing or empty) or "some"
          mp3,      \* artifacts/<id>.mp3, or the writer still writing into it
          part,     \* tmp/<id>.part.mp3: "none", or the writer whose output it is
          job,      \* the threads
          append,   \* PCM appends in flight, of the spool loop and of the drain
          at,       \* where each role stands
          loop      \* the phase of each background loop and what it has listed

fileVars == <<pcm, mp3, part>>
threadVars == <<job, append>>
managerVars == <<fileVars, threadVars, at, loop>>
vars == <<allRunnerVars, managerVars>>

Place == {"idle",
          "spawned",     \* the task was created and has not run yet
          "drain",       \* engine.stop: await _drain_pcm()
          "append",      \* engine.stop: await the append of what was drained
          "stop",        \* engine.stop: await the conversion
          "validate",    \* _finalize: await validate_artifact
          "artifact",    \* _try_recover_artifact, first attempt
          "artifact2",   \* _try_recover_artifact, called by _try_recover_pcm
          "encode",      \* _try_recover_pcm: await the conversion
          "check",       \* _try_recover_pcm: await validate_artifact
          "abort_ok",    \* await abort_session after a recovery
          "abort_err"}   \* await abort_session after none, or for a request

JobState == {"none", "submitted", "encoding", "encoded", "valerr", "oserr",
             "probing", "bad", "partial", "full"}

Phase == {"nudge", "error", "finalizing", "capturing", "purge", "rest"}

ManagerTypeOK ==
  /\ TypeOK
  /\ pcm \in [Tasks -> {"none", "some"}]
  /\ mp3 \in [Tasks -> {"none", "partial", "full"} \cup Writers]
  /\ part \in [Tasks -> {"none"} \cup Writers]
  /\ job \in [Tasks -> [Writers -> JobState]]
  /\ append \in [Tasks -> SUBSET {"spool", "drain"}]
  /\ at \in [Tasks -> [Roles -> Place]]
  /\ loop \in [Loops -> [phase : Phase, todo : SUBSET Tasks]]

VolatileInit ==
  /\ part = [t \in Tasks |-> "none"]
  /\ job = [t \in Tasks |-> [w \in Writers |-> "none"]]
  /\ append = [t \in Tasks |-> {}]
  /\ at = [t \in Tasks |-> [r \in Roles |-> "idle"]]

ManagerInit ==
  /\ Init
  /\ VolatileInit
  /\ pcm = [t \in Tasks |-> "none"]
  /\ mp3 = [t \in Tasks |-> "none"]
  /\ loop = [l \in Loops |-> [phase |-> "rest", todo |-> {}]]

-----------------------------------------------------------------------------
Serving == loop["startup"].phase = "rest"      \* start() has returned
IsNeverActive(t) == FALSE                      \* mutant: nothing is skipped
IsActive(t) == t \in sessions                  \* CaptureEngine.is_active

(* A background loop runs from one await to the next without letting any   *)
(* other coroutine in: while it is between two tasks, only threads move.   *)
LoopIdle(l) == \A t \in Tasks : at[t][l] = "idle"
Quiet == \A l \in Loops : loop[l].phase = "rest" \/ ~LoopIdle(l)

Goto(t, r, place) == at' = [at EXCEPT ![t][r] = place]
SetJob(t, w, state) == job' = [job EXCEPT ![t][w] = state]

(* A conversion returns to the coroutine that awaits it, or to nobody.     *)
Awaited(t, w) == IF w = "stop" THEN at[t]["finalize"] = "stop" ELSE at[t][w] = "encode"
Return(t, w, result) == SetJob(t, w, IF Awaited(t, w) THEN result ELSE "none")

(* remove_task_artifacts unlinks the MP3, the part file and the PCM file.  *)
RemoveFiles(t) ==
  /\ pcm' = [pcm EXCEPT ![t] = "none"]
  /\ mp3' = [mp3 EXCEPT ![t] = "none"]
  /\ part' = [part EXCEPT ![t] = "none"]

-----------------------------------------------------------------------------
(***************************************************************************)
(* Threads.  convert_pcm_to_mp3 uses one part file per task, whoever runs  *)
(* it: a second conversion unlinks the file the first is writing, and each *)
(* publishes whatever is at the part path when its own ffmpeg returns.     *)
(***************************************************************************)
EncodeBegins(t, w) ==
  /\ job[t][w] = "submitted"
  /\ IF pcm[t] = "some"
     THEN /\ part' = [part EXCEPT ![t] = w]
          /\ SetJob(t, w, "encoding")
     ELSE /\ part' = [part EXCEPT ![t] = "none"]
          /\ Return(t, w, "valerr")
  /\ UNCHANGED <<allRunnerVars, pcm, mp3, append, at, loop>>

(* ffmpeg wrote its file and tmp_path.replace(mp3_path) follows.  An output *)
(* published early by another writer is completed in place.                *)
EncodeFinishes(t, w) ==
  /\ job[t][w] = "encoding"
  /\ part' = [part EXCEPT ![t] = "none"]
  /\ \/ /\ part[t] = w
        /\ mp3' = [mp3 EXCEPT ![t] = "full"]
        /\ Return(t, w, "encoded")
     \/ /\ part[t] \notin {w, "none"}
        /\ mp3' = [mp3 EXCEPT ![t] = part[t]]
        /\ Return(t, w, "encoded")
     \/ /\ part[t] = "none"
        /\ mp3' = IF mp3[t] = w THEN [mp3 EXCEPT ![t] = "full"] ELSE mp3
        /\ Return(t, w, "oserr")
  /\ UNCHANGED <<allRunnerVars, pcm, append, at, loop>>

EncodeFails(t, w) ==
  /\ ToolsCanFail
  /\ job[t][w] = "encoding"
  /\ part' = [part EXCEPT ![t] = "none"]
  /\ mp3' = IF mp3[t] = w THEN [mp3 EXCEPT ![t] = "partial"] ELSE mp3
  /\ Return(t, w, "valerr")
  /\ UNCHANGED <<allRunnerVars, pcm, append, at, loop>>

(* validate_artifact: the size is measured here and stored by the caller   *)
(* later.  ffprobe may or may not accept a file that is not finished.      *)
Probe(t, w) ==
  /\ job[t][w] = "probing"
  /\ \/ mp3[t] = "full" /\ SetJob(t, w, "full")
     \/ mp3[t] \notin {"none", "full"} /\ SetJob(t, w, "partial")
     \/ /\ mp3[t] # "full" \/ ToolsCanFail
        /\ SetJob(t, w, "bad")
  /\ UNCHANGED <<allRunnerVars, fileVars, append, at, loop>>

(* Mutant: the loop is not cancelled.                                      *)
SpoolKeepsOn(t) ==
  /\ run[t] = "capture" /\ t \notin finished
  /\ browser[t] = "open"
  /\ "spool" \notin append[t]
  /\ append' = [append EXCEPT ![t] = @ \cup {"spool"}]
  /\ UNCHANGED <<allRunnerVars, fileVars, job, at, loop>>

(* _spool_pcm_chunk hands what the page recorded to a thread.  The loop    *)
(* runs from the join until _finalize, a recovery or an abort cancels it.  *)
(* If the event is set already the run closes before the first sleep ends. *)
Spool(t) ==
  /\ run[t] = "capture" /\ t \notin finished
  /\ browser[t] = "open"
  /\ status[t] = "capturing" \/ at[t]["finalize"] = "spawned"
  /\ "spool" \notin append[t]
  /\ append' = [append EXCEPT ![t] = @ \cup {"spool"}]
  /\ UNCHANGED <<allRunnerVars, fileVars, job, at, loop>>

(* append_pcm_samples opens the file with "ab", so it also creates it.     *)
AppendLands(t) ==
  /\ \E a \in append[t] : append' = [append EXCEPT ![t] = @ \ {a}]
  /\ pcm' = [pcm EXCEPT ![t] = "some"]
  /\ UNCHANGED <<allRunnerVars, mp3, part, job, at, loop>>

-----------------------------------------------------------------------------
(***************************************************************************)
(* Recovery: _try_recover_artifact, then _try_recover_pcm.                 *)
(***************************************************************************)

(* The first await they reach in the present state of the files.           *)
PcmPlace(t) == IF pcm[t] = "none" THEN "failed"
               ELSE IF mp3[t] # "none" THEN "artifact2" ELSE "encode"
ArtifactPlace(t) == IF mp3[t] # "none" THEN "artifact" ELSE PcmPlace(t)

(* _finalize and the nudge recover through _recover_after_finalize_failure, *)
(* which ends with abort_session; the other callers just return.           *)
AfterFailure(r) ==
  \/ r = "finalize"
  \/ r = "ttl" /\ loop["ttl"].phase = "nudge"

MustAwaitClose(t) == t \in sessions /\ browser[t] = "open"

AbortPlace(t, r, recovered) ==
  IF ~(AfterFailure(r) /\ MustAwaitClose(t)) THEN "idle"
  ELSE IF recovered THEN "abort_ok" ELSE "abort_err"

(* abort_session up to its await of close(), or to its end if it has none. *)
CallAbort(t) ==
  \/ AbortBegins(t)
  \/ AbortAtOnce(t)
  \/ t \notin sessions /\ UNCHANGED runnerVars

AbortIfAfterFailure(t, r) == IF AfterFailure(r) THEN CallAbort(t) ELSE UNCHANGED runnerVars

(* Role r moves to the await at place; a and j are the roles and threads   *)
(* of t, with those the caller has cancelled taken out.                    *)
MoveTo(t, r, place, a, j) ==
  /\ at' = [at EXCEPT ![t] =
              [a EXCEPT ![r] = IF place = "failed" THEN AbortPlace(t, r, FALSE) ELSE place]]
  /\ job' = [job EXCEPT ![t] =
              [j EXCEPT ![r] = CASE place = "failed" -> "none"
                                 [] place = "encode" -> "submitted"
                                 [] OTHER -> "probing"]]

(* Mutant: _finalize does not mark the row.                                *)
ProceedSilently(t, r, place, j) ==
  /\ MoveTo(t, r, place, at[t], j)
  /\ IF place = "failed" THEN AbortIfAfterFailure(t, r) ELSE UNCHANGED runnerVars
  /\ UNCHANGED storeVars

(* Without a recovery only _finalize marks the row, after its abort.       *)
Proceed(t, r, place, j) ==
  /\ MoveTo(t, r, place, at[t], j)
  /\ IF place = "failed" THEN AbortIfAfterFailure(t, r) ELSE UNCHANGED runnerVars
  /\ IF place = "failed" /\ r = "finalize" /\ ~MustAwaitClose(t)
     THEN MarkError(t) ELSE UNCHANGED storeVars

(* A file was accepted: the row becomes a success, whatever it was.        *)
Accepted(t, r) ==
  /\ at[t][r] \in {"artifact", "artifact2", "check"}
  /\ job[t][r] \in {"partial", "full"}
  /\ MarkSuccess(t, job[t][r])
  /\ Goto(t, r, AbortPlace(t, r, TRUE))
  /\ AbortIfAfterFailure(t, r)
  /\ SetJob(t, r, "none")
  /\ UNCHANGED <<fileVars, append, loop>>

Rejected(t, r) ==
  /\ job[t][r] = "bad"
  /\ \/ at[t][r] = "artifact" /\ Proceed(t, r, PcmPlace(t), job[t])
     \/ at[t][r] \in {"artifact2", "check"} /\ Proceed(t, r, "failed", job[t])
  /\ UNCHANGED <<fileVars, append, loop>>

(* Mutant: the PCM file is unlinked whether or not it was converted.       *)
ConvertedUnlinks(t, r) ==
  /\ at[t][r] = "encode"
  /\ pcm' = [pcm EXCEPT ![t] = "none"]
  /\ \/ job[t][r] = "encoded" /\ Proceed(t, r, "check", job[t])
     \/ job[t][r] = "valerr" /\ Proceed(t, r, "failed", job[t])
  /\ UNCHANGED <<mp3, part, append, loop>>

Converted(t, r) ==
  /\ at[t][r] = "encode"
  /\ \/ /\ job[t][r] = "encoded"
        /\ pcm' = [pcm EXCEPT ![t] = "none"]
        /\ Proceed(t, r, "check", job[t])
     \/ /\ job[t][r] = "valerr"
        /\ pcm' = pcm
        /\ Proceed(t, r, "failed", job[t])
  /\ UNCHANGED <<mp3, part, append, loop>>

(* FileNotFoundError is no ValueError: it ends _finalize with the row and  *)
(* the session as they are, the request, or this round of the TTL loop.    *)
PartFileGone(t, r) ==
  /\ r # "startup"
  /\ at[t][r] = "encode"
  /\ job[t][r] = "oserr"
  /\ Goto(t, r, "idle")
  /\ SetJob(t, r, "none")
  /\ loop' = IF r = "ttl" THEN [loop EXCEPT !["ttl"] = [phase |-> "purge", todo |-> {}]]
             ELSE loop
  /\ UNCHANGED <<allRunnerVars, fileVars, append>>

(* The await of abort_session returned.                                    *)
AbortDone(t, r) ==
  /\ at[t][r] \in {"abort_ok", "abort_err"}
  /\ AbortReturns(t)
  /\ Goto(t, r, "idle")
  /\ \/ /\ r = "client"
        /\ RemoveFiles(t)
        /\ MarkCanceled(t)
     \/ /\ r = "finalize" /\ at[t][r] = "abort_err"
        /\ MarkError(t)
        /\ UNCHANGED fileVars
     \/ /\ \/ r = "ttl"
           \/ r = "finalize" /\ at[t][r] = "abort_ok"
        /\ UNCHANGED <<storeVars, fileVars>>
  /\ UNCHANGED <<threadVars, loop>>

RecoveryStep(t, r) ==
  \/ Accepted(t, r)
  \/ Rejected(t, r)
  \/ Converted(t, r)
  \/ PartFileGone(t, r)

-----------------------------------------------------------------------------
(***************************************************************************)
(* _finalize and engine.stop.                                              *)
(***************************************************************************)

(* Mutant: the row is left to the new task.                                *)
SpawnFinalizeOnly(t) ==
  /\ status[t] = "capturing"
  /\ job[t]["finalize"] = "none" /\ job[t]["stop"] = "none"
  /\ Goto(t, "finalize", "spawned")
  /\ UNCHANGED <<allRunnerVars, fileVars, threadVars, loop>>

(* stop_capture of a capturing row: the row is written and the task is     *)
(* created in one step.  Bound: the threads of an earlier _finalize of     *)
(* this task have ended.                                                   *)
SpawnFinalize(t) ==
  /\ status[t] = "capturing"
  /\ job[t]["finalize"] = "none" /\ job[t]["stop"] = "none"
  /\ UpdateStatus(t, "finalizing")
  /\ Goto(t, "finalize", "spawned")
  /\ UNCHANGED <<runnerVars, fileVars, threadVars, loop>>

(* engine.stop failed or timed out: _recover_after_finalize_failure.  A    *)
(* conversion that is still running goes on with nobody waiting for it.    *)
Orphaned(j, w) == [j EXCEPT ![w] = IF @ \in {"submitted", "encoding"} THEN @ ELSE "none"]

(* Mutant: the exception is not caught.                                    *)
FinalizeRaises(t) ==
  /\ Goto(t, "finalize", "idle")
  /\ job' = [job EXCEPT ![t] = Orphaned(@, "stop")]
  /\ UNCHANGED allRunnerVars

FinalizeFailed(t) ==
  Proceed(t, "finalize", ArtifactPlace(t), Orphaned(job[t], "stop"))

(* The session may already be gone: "capture session not active".          *)
FinalizeStarts(t) ==
  /\ at[t]["finalize"] = "spawned"
  /\ \/ /\ t \notin sessions
        /\ FinalizeFailed(t)
     \/ /\ StopBegins(t)
        /\ Goto(t, "finalize", "drain")
        /\ UNCHANGED <<storeVars, job>>
  /\ UNCHANGED <<fileVars, append, loop>>

(* Nothing more to append: convert, or raise "no remote audio captured".   *)
ConvertOrFail(t) ==
  \/ /\ pcm[t] = "some"
     /\ Goto(t, "finalize", "stop")
     /\ SetJob(t, "stop", "submitted")
     /\ UNCHANGED allRunnerVars
  \/ /\ pcm[t] = "none"
     /\ FinalizeFailed(t)

(* The page answered with audio, or without any, or not in time.           *)
Drained(t) ==
  /\ at[t]["finalize"] = "drain"
  /\ \/ /\ append' = [append EXCEPT ![t] = @ \cup {"drain"}]
        /\ Goto(t, "finalize", "append")
        /\ UNCHANGED <<allRunnerVars, job>>
     \/ /\ ConvertOrFail(t)
        /\ append' = append
  /\ UNCHANGED <<fileVars, loop>>

Appended(t) ==
  /\ at[t]["finalize"] = "append"
  /\ "drain" \notin append[t]
  /\ ConvertOrFail(t)
  /\ UNCHANGED <<fileVars, append, loop>>

(* engine.stop returns after it has set the event, or raises.              *)
Stopped(t) ==
  /\ at[t]["finalize"] = "stop"
  /\ \/ /\ job[t]["stop"] = "encoded"
        /\ pcm' = [pcm EXCEPT ![t] = "none"]
        /\ StopReturns(t)
        /\ MoveTo(t, "finalize", "validate", at[t], Orphaned(job[t], "stop"))
        /\ UNCHANGED storeVars
     \/ /\ job[t]["stop"] \in {"valerr", "oserr"}
        /\ FinalizeFailed(t)
        /\ pcm' = pcm
  /\ UNCHANGED <<mp3, part, append, loop>>

Validated(t) ==
  /\ at[t]["finalize"] = "validate"
  /\ \/ /\ job[t]["finalize"] \in {"partial", "full"}
        /\ MarkSuccess(t, job[t]["finalize"])
        /\ Goto(t, "finalize", "idle")
        /\ SetJob(t, "finalize", "none")
        /\ UNCHANGED runnerVars
     \/ /\ job[t]["finalize"] = "bad"
        /\ FinalizeFailed(t)
  /\ UNCHANGED <<fileVars, append, loop>>

(* asyncio.wait_for(engine.stop, CAPTURE_FINALIZE_TIMEOUT_SEC).            *)
FinalizeTimesOut(t) ==
  /\ at[t]["finalize"] \in Timeouts
  /\ FinalizeFailed(t)
  /\ UNCHANGED <<fileVars, append, loop>>

FinalizeStep(t) ==
  \/ FinalizeStarts(t)
  \/ Drained(t)
  \/ Appended(t)
  \/ Stopped(t)
  \/ Validated(t)

-----------------------------------------------------------------------------
(***************************************************************************)
(* Cancellation.                                                           *)
(***************************************************************************)

(* Mutant: _finalize is not cancelled.                                     *)
RolesUntouched(t) == at[t]

(* task.cancel() on _finalize takes effect at whatever await it stands.    *)
RolesWithoutFinalize(t) == [at[t] EXCEPT !["finalize"] = "idle"]
JobsWithoutFinalize(t) == Orphaned(Orphaned(job[t], "stop"), "finalize")
FinalizeAborting(t) == at[t]["finalize"] \in {"abort_ok", "abort_err"}

(* Mutant: the engine is not told.                                         *)
CancelKeepsSession(t) ==
  /\ UNCHANGED runnerVars
  /\ RemoveFiles(t)
  /\ MarkCanceled(t)

(* engine.cancel, the files and the row, when there is nothing to await.   *)
CancelAtOnce(t) ==
  /\ AbortAtOnce(t) \/ (t \notin sessions /\ UNCHANGED runnerVars)
  /\ RemoveFiles(t)
  /\ MarkCanceled(t)

(* cancel_capture of a row in progress.  If _finalize is awaiting          *)
(* abort_session, that abort is lost and engine.cancel finds no session.   *)
CancelActive(t) ==
  /\ status[t] \in {"joining", "capturing", "finalizing"}
  /\ job' = [job EXCEPT ![t] = JobsWithoutFinalize(t)]
  /\ at' = [at EXCEPT ![t] = [RolesWithoutFinalize(t) EXCEPT
                                !["client"] = IF MustAwaitClose(t) THEN "abort_err" ELSE @]]
  /\ \/ /\ MustAwaitClose(t)
        /\ AbortBegins(t)
        /\ UNCHANGED <<storeVars, fileVars>>
     \/ /\ FinalizeAborting(t)
        /\ AbortIsLost(t)
        /\ RemoveFiles(t)
        /\ MarkCanceled(t)
     \/ /\ ~FinalizeAborting(t)
        /\ CancelAtOnce(t)
  /\ UNCHANGED <<append, loop>>

(* POST /tasks/{id}/stop: a joining row is cancelled, a capturing one is   *)
(* finalized; the other statuses are answered without a change.            *)
RequestStop(t) ==
  /\ Serving /\ "stop" \in ClientOps
  /\ \/ status[t] = "joining" /\ CancelActive(t)
     \/ SpawnFinalize(t)

(* Mutant: a queued row is marked without telling the queue.               *)
RequestDeleteAny(t) ==
  /\ Serving /\ "delete" \in ClientOps
  /\ \/ /\ status[t] = "queued"
        /\ MarkCanceled(t)
        /\ RemoveFiles(t)
        /\ UNCHANGED <<runnerVars, threadVars, at, loop>>
     \/ CancelActive(t)

(* DELETE /tasks/{id}.                                                     *)
RequestDelete(t) ==
  /\ Serving /\ "delete" \in ClientOps
  /\ \/ /\ DeleteQueued(t)
        /\ RemoveFiles(t)
        /\ UNCHANGED <<threadVars, at, loop>>
     \/ CancelActive(t)

(* GET /tasks/{id} of an error row tries to recover it.                    *)
RequestState(t, p) ==
  /\ Serving /\ "poll" \in ClientOps
  /\ status[t] = "error"
  /\ \A u \in Tasks : at[u][p] = "idle"
  /\ Proceed(t, p, ArtifactPlace(t), job[t])
  /\ UNCHANGED <<fileVars, append, loop>>

(* _watch_disconnect saw the meeting end.                                  *)
Disconnects(t) ==
  /\ run[t] = "capture" /\ t \in sessions
  /\ SpawnFinalize(t)

(* _auto_stop_task: stop_capture called from the timer's own task.         *)
TimerFires(t) ==
  /\ t \in armed
  /\ \/ SpawnFinalize(t)
     \/ /\ status[t] = "joining"
        /\ \/ AbortCancelsItself(t) /\ UNCHANGED <<storeVars, fileVars>>
           \/ browser[t] # "open" /\ CancelAtOnce(t)
        /\ UNCHANGED <<threadVars, at, loop>>

-----------------------------------------------------------------------------
(***************************************************************************)
(* The background loops.  A loop lists the rows of one status at a time    *)
(* and handles them one after another without looking at the status again. *)
(***************************************************************************)
Enter(l, phase, todo) == loop' = [loop EXCEPT ![l] = [phase |-> phase, todo |-> todo]]

TtlWakes ==
  /\ loop["ttl"].phase = "rest"
  /\ Enter("ttl", "nudge", Listed("finalizing"))
  /\ UNCHANGED <<allRunnerVars, fileVars, threadVars, at>>

LoopAdvances(l) ==
  /\ LoopIdle(l) /\ loop[l].todo = {}
  /\ \/ loop[l].phase = "nudge" /\ Enter(l, "error", Listed("error"))
     \/ loop[l].phase = "error" /\ Enter(l, "finalizing", Listed("finalizing"))
     \/ loop[l].phase = "finalizing" /\ Enter(l, "capturing", Listed("capturing"))
     \/ loop[l].phase = "capturing" /\ Enter(l, IF l = "ttl" THEN "purge" ELSE "rest", {})
  /\ UNCHANGED <<allRunnerVars, fileVars, threadVars, at>>

Handled(l, t) == loop' = [loop EXCEPT ![l].todo = @ \ {t}]

(* reconcile_all: a task whose session is registered is left alone.        *)
Reconcile(l, t) ==
  /\ LoopIdle(l)
  /\ loop[l].phase \in {"error", "finalizing", "capturing"} /\ t \in loop[l].todo
  /\ IF IsActive(t)
     THEN UNCHANGED <<allRunnerVars, at, job>>
     ELSE Proceed(t, l, ArtifactPlace(t), job[t])
  /\ Handled(l, t)
  /\ UNCHANGED <<fileVars, append>>

(* _nudge_stuck_finalizing is due when _finalize has run for longer than   *)
(* its timeout and the grace, which puts it past engine.stop, or when no   *)
(* _finalize runs and the PCM file has not been written for a while.       *)
FinalizeStarted(t) == at[t]["finalize"] \notin {"idle", "spawned"}

NudgeIsDue(t) ==
  IF FinalizeStarted(t)
  THEN Overdue /\ at[t]["finalize"] \notin {"drain", "append", "stop"}
  ELSE pcm[t] = "some"

NudgeVisits(t) ==
  /\ LoopIdle("ttl")
  /\ loop["ttl"].phase = "nudge" /\ t \in loop["ttl"].todo
  /\ Handled("ttl", t)

Nudge(t) ==
  /\ NudgeVisits(t)
  /\ NudgeIsDue(t)
  /\ MoveTo(t, "ttl", ArtifactPlace(t), RolesWithoutFinalize(t), JobsWithoutFinalize(t))
  /\ IF FinalizeAborting(t) THEN AbortIsLost(t)
     ELSE IF ArtifactPlace(t) = "failed" THEN CallAbort(t) ELSE UNCHANGED runnerVars
  /\ UNCHANGED <<storeVars, fileVars, append>>

NudgeWaits(t) ==
  /\ NudgeVisits(t)
  /\ UNCHANGED <<allRunnerVars, fileVars, threadVars, at>>

Purge ==
  /\ loop["ttl"].phase = "purge"
  /\ \E expired \in IF Retention THEN SUBSET Tasks ELSE {{}} :
       /\ PurgeExpired(expired)
       /\ pcm' = [t \in Tasks |-> IF t \in expired THEN "none" ELSE pcm[t]]
       /\ mp3' = [t \in Tasks |-> IF t \in expired THEN "none" ELSE mp3[t]]
       /\ part' = [t \in Tasks |-> IF t \in expired THEN "none" ELSE part[t]]
  /\ Enter("ttl", "rest", {})
  /\ UNCHANGED <<runnerVars, threadVars, at>>

-----------------------------------------------------------------------------
(***************************************************************************)
(* Death and restart of the process: the rows and the files survive.       *)
(***************************************************************************)
Reboot ==
  /\ CrashRestart({t \in Tasks : mp3[t] # "none"})
  /\ pcm' = pcm
  /\ mp3' = [t \in Tasks |-> IF mp3[t] \in Writers THEN "partial" ELSE mp3[t]]
  /\ part' = [t \in Tasks |-> "none"]
  /\ job' = [t \in Tasks |-> [w \in Writers |-> "none"]]
  /\ append' = [t \in Tasks |-> {}]
  /\ at' = [t \in Tasks |-> [r \in Roles |-> "idle"]]
  /\ loop' = [ttl |-> [phase |-> "rest", todo |-> {}],
              startup |-> [phase |-> "error", todo |-> {t \in Tasks : status'[t] = "error"}]]

Dies == Restarts /\ Reboot

(* The exception that a request survives ends start(), and the process.    *)
StartupFails(t) ==
  /\ at[t]["startup"] = "encode"
  /\ job[t]["startup"] = "oserr"
  /\ Reboot

-----------------------------------------------------------------------------
RunnerStep(t) ==
  /\ RunStep(t)
  /\ UNCHANGED managerVars

RequestSubmit(t) ==
  /\ Serving /\ "submit" \in ClientOps
  /\ Submit(t)
  /\ UNCHANGED managerVars

WriterStep(t, w) == EncodeBegins(t, w) \/ EncodeFinishes(t, w) \/ EncodeFails(t, w)

ThreadStep(t) ==
  \/ \E w \in Writers : WriterStep(t, w)
  \/ \E r \in Recoverers : Probe(t, r)
  \/ AppendLands(t)

CoroutineStep(t) ==
  \/ RequestSubmit(t) \/ RequestStop(t) \/ RequestDelete(t)
  \/ \E p \in Pollers : RequestState(t, p)
  \/ RunnerStep(t) \/ FinalizeStep(t) \/ FinalizeTimesOut(t) \/ Spool(t)
  \/ Disconnects(t) \/ TimerFires(t)
  \/ \E r \in Recoverers : RecoveryStep(t, r)
  \/ \E r \in Roles : AbortDone(t, r)

LoopStep ==
  \/ \E l \in Loops : \/ LoopAdvances(l)
                     \/ \E t \in Tasks : Reconcile(l, t)
  \/ \E t \in Tasks : Nudge(t) \/ NudgeWaits(t)
  \/ Purge

ManagerNext ==
  \/ Quiet /\ (TtlWakes \/ \E t \in Tasks : CoroutineStep(t))
  \/ LoopStep
  \/ \E t \in Tasks : ThreadStep(t)
  \/ \E t \in Tasks : StartupFails(t)
  \/ Dies

ManagerSpec == ManagerInit /\ [][ManagerNext]_vars

-----------------------------------------------------------------------------
(***************************************************************************)
(* Fairness.  The event loop runs every coroutine that can run, a thread   *)
(* that reads and writes local files ends, and the TTL loop never stops.   *)
(* The awaits of _finalize inside engine.stop are bounded by wait_for.  No *)
(* other call to Playwright is assumed to return: an evaluate, a goto or a *)
(* close has no timeout that the worker sets on all its ways, so the steps *)
(* that need an answer (OpenBrowser, JoinSeen, Joined, JoinFails,          *)
(* CloseReturns, AbortDone) have no fairness, and neither has Disconnects: *)
(* a meeting may go on for ever, or its watch hang.  The coroutines need   *)
(* strong fairness since a loop that is between two awaits keeps them from *)
(* running, and Nudge since a PCM file is idle only when nobody appends.   *)
(***************************************************************************)
OwnRunStep(t) ==
  /\ Dispatch(t) \/ SkipTask(t) \/ StartCapture(t) \/ CaptureEnds(t)
  /\ UNCHANGED managerVars

CoroutinesRun(t) ==
  /\ SF_vars(Quiet /\ OwnRunStep(t))
  /\ SF_vars(Quiet /\ FinalizeStep(t))
  /\ \A r \in Recoverers : SF_vars(Quiet /\ RecoveryStep(t, r))

ThreadsEnd(t) ==
  /\ \A w \in Writers : WF_vars(WriterStep(t, w))
  /\ \A r \in Recoverers : WF_vars(Probe(t, r))
  /\ WF_vars(AppendLands(t))

LoopsRun ==
  /\ SF_vars(Quiet /\ TtlWakes)
  /\ WF_vars(LoopStep)
  /\ \A t \in Tasks : SF_vars(Nudge(t))

FairManagerSpec ==
  /\ ManagerSpec
  /\ \A t \in Tasks : CoroutinesRun(t) /\ ThreadsEnd(t)
  /\ LoopsRun

-----------------------------------------------------------------------------
(* record_to_response: what the answers of the API say of the artifact.    *)
ArtifactReady(t) == status[t] = "success"

SizeOnDisk(t) == IF mp3[t] \in {"none", "full"} THEN mp3[t] ELSE "partial"

(* get_artifact_download and read_body: the file is sent if it has the     *)
(* recorded size.  Two partial sizes may be equal.                         *)
Served(t) ==
  {size \in Size \ {"none"} :
     ArtifactReady(t) /\ recorded[t] = size /\ SizeOnDisk(t) = size}

-----------------------------------------------------------------------------
(***************************************************************************)
(* Properties.                                                             *)
(***************************************************************************)

(* The manager uses the runner as CaptureRunner.tla lets its environment:  *)
(* it writes no queued row but through delete_queued_or_cancel, and none   *)
(* of its calls into the engine finds a state the runner did not expect.   *)
ManagerImplementsRunner == Spec

(* At most one _finalize runs for a task, and it starts only after the row *)
(* has left capturing: stop, disconnect and auto-stop may all ask for it.  *)
OneFinalize ==
  \A t \in Tasks : status[t] \in {"none", "queued", "joining", "capturing"}
                    => at[t]["finalize"] = "idle"

(* A browser that is being closed by an abort has exactly one caller that  *)
(* awaits it, whichever of _finalize, the nudge and the requests began it  *)
(* and whoever was cancelled meanwhile.                                    *)
AbortHasOwner ==
  \A t \in Tasks :
    Cardinality({r \in Roles : at[t][r] \in {"abort_ok", "abort_err"}}) =
      IF Aborting(t) THEN 1 ELSE 0

(* A row that ended without an artifact has no session left in the engine: *)
(* its slot is on the way back and reconcile_all will not skip it.         *)
EndedHasNoSession ==
  \A t \in Tasks : status[t] \in {"error", "canceled"} => t \notin sessions

(* A run that waits for its finished event can still get it: its session   *)
(* is registered, so stop or abort_session will set the event, or an abort *)
(* is on its way to do so.  Otherwise the slot is gone until a restart     *)
(* ("Release worker slot without producing an artifact",                   *)
(* engine.abort_session).                                                  *)
CaptureCanEnd ==
  \A t \in Tasks : run[t] = "capture" /\ t \notin finished
                    => t \in sessions \/ Aborting(t)

(* A Chromium that nobody is closing is in a slot.  An abort that is       *)
(* cancelled at its close() leaves one for ever (engine.py:136-141: nobody *)
(* knows of it any more), its run gives the slot back, and WORKERS bounds  *)
(* the captures but not the browsers.                                      *)
NoBrowserIsLeft ==
  \A t \in Tasks : browser[t] \in {"open", "leaked"} => run[t] \in Holding

(* A finalizing row has somebody working on it, or files from which the    *)
(* nudge or reconcile_all will recover it.                                 *)
FinalizingIsAttended ==
  \A t \in Tasks : status[t] = "finalizing" =>
     \/ \E r \in Roles : at[t][r] # "idle"
     \/ pcm[t] = "some" \/ mp3[t] # "none"

(* A capturing row that nothing has ended yet has a run that waits in the  *)
(* meeting, and a session that a stop request or the disconnect watch can  *)
(* end, or an abort that is about to.  By that session reconcile_all tells *)
(* it from the rows it has to recover (is_active).                         *)
CapturingIsAttended ==
  \A t \in Tasks : status[t] = "capturing" /\ t \notin finished =>
     run[t] = "capture" /\ (t \in sessions \/ Aborting(t))

(* A task that the API reports as ready is served, and whole: the recorded *)
(* size, measured by whichever coroutine marked the row, is that of the    *)
(* file which the download finds, and both are of the finished MP3         *)
(* (README: the download is the .mp3 "when success").                      *)
Downloadable == \A t \in Tasks : ArtifactReady(t) => Served(t) = {"full"}

(* While a conversion reads the PCM file, or its result waits to be seen,  *)
(* nothing new is drained for it: whoever converts has ended the spool     *)
(* loop.  What lands all the same, and is unlinked without being in the    *)
(* MP3, is an append whose thread had begun before (browser.py:498).       *)
BeingConverted(t) == \E w \in Writers : job[t][w] \in {"encoding", "encoded"}

NothingNewWhileConverting ==
  [][\A t \in Tasks : BeingConverted(t) => append'[t] \subseteq append[t]]_vars

(* The PCM file is given up only when the task has a finished MP3, or      *)
(* because the task was cancelled or purged.                               *)
PcmFileKept ==
  [][\A t \in Tasks : pcm[t] = "some" /\ pcm'[t] = "none" =>
        mp3'[t] = "full" \/ status'[t] \in {"canceled", "purged"}]_vars

(* README: a task goes "... -> success | error | canceled".                *)
CanceledIsFinal ==
  [][\A t \in Tasks : status[t] = "canceled" => status'[t] \in {"canceled", "purged"}]_vars

(* Some coroutine of the task stands at a call into the browser that has  *)
(* no timeout: the join, run_capture's own close, or an abort's.           *)
AwaitsBrowser(t) == run[t] \in Joining \cup {"closing", "failing"} \/ Aborting(t)

(* The capture goes on, or its disconnect watch is never answered.         *)
GoesOn(t) == status[t] = "capturing" /\ t \in sessions

(* ffmpeg or ffprobe fails on files it can read.                           *)
ToolFails ==
  \E t \in Tasks, w \in Writers :
     \/ EncodeFails(t, w)
     \/ job[t][w] = "probing" /\ mp3[t] = "full" /\ job'[t][w] = "bad"

(* What can hold a task up for ever: a browser that does not answer, a     *)
(* meeting that does not end, a tool that fails again and again.           *)
HeldUp ==
  \/ \E t \in Tasks : <>[]AwaitsBrowser(t) \/ <>[]GoesOn(t)
  \/ []<><<ToolFails>>_vars

(* Unless one of these holds it up, every accepted task reaches a terminal *)
(* status.                                                                 *)
TasksEnd ==
  HeldUp \/ \A t \in Tasks : status[t] = "queued" ~> status[t] \in TerminalStatus \cup {"purged"}

(* "Finalize must not block forever on Playwright"                         *)
(* (manager._nudge_stuck_finalizing).                                      *)
FinalizeEnds ==
  \/ \E t \in Tasks : <>[]AwaitsBrowser(t)
  \/ \A t \in Tasks : status[t] = "finalizing" ~> status[t] # "finalizing"

(* Unless one of these holds it up, every slot that is taken is given      *)
(* back.                                                                   *)
SlotsReturn == HeldUp \/ \A t \in Tasks : slot[t] # NoSlot ~> slot[t] = NoSlot
==============================================================================
