---------------------------- MODULE DownloadProofs ----------------------------
(***************************************************************************)
(* What a task that the API calls ready can be downloaded as, and when its *)
(* recorded audio is given up.  Two writers or two recoveries on the files *)
(* of one task can leave it with the wrong file or the wrong size, so both *)
(* theorems need that nobody polls or deletes, that the conversion of      *)
(* engine.stop does not time out, that no _finalize is overdue and that    *)
(* the process does not restart: TLC finds either property violated with   *)
(* any one of the five.                                                    *)
(***************************************************************************)
EXTENDS CaptureOutcomeProofs

Undisturbed ==
  /\ {"poll", "delete"} \cap ClientOps = {}
  /\ "stop" \notin Timeouts
  /\ ~Overdue
  /\ ~Restarts

Converting == {"submitted", "encoding", "encoded", "valerr", "oserr"}
Probing == {"probing", "bad", "partial", "full"}
ProbePlaces == {"validate", "artifact", "artifact2", "check"}

(* Only _finalize and the TTL loop work on files.                          *)
RestIdle(t) ==
  \A r \in Recoverers \ {"finalize", "ttl"} : at[t][r] = "idle" /\ job[t][r] = "none"

(* Every thread is awaited.                                                *)
JobFits(t) ==
  /\ at[t]["finalize"] = "stop" => job[t]["stop"] \in Converting
  /\ at[t]["finalize"] # "stop" => job[t]["stop"] = "none"
  /\ at[t]["ttl"] \notin {"spawned", "drain", "append", "stop", "validate"}
  /\ \A r \in {"finalize", "ttl"} :
       /\ at[t][r] = "encode" => job[t][r] \in Converting
       /\ at[t][r] \in ProbePlaces => job[t][r] \in Probing
       /\ at[t][r] \notin ProbePlaces \cup {"encode"} => job[t][r] = "none"

StartupRests == loop["startup"] = [phase |-> "rest", todo |-> {}]

Shape(t) == RestIdle(t) /\ JobFits(t)

ShapeInv == ManagerInv /\ StartupRests /\ \A t \in Tasks : Shape(t)

LEMMA RoleNames ==
  /\ {"finalize", "ttl", "client"} \subseteq Roles
  /\ {"finalize", "ttl", "stop"} \subseteq Writers
  /\ {"finalize", "ttl"} \subseteq Recoverers
  /\ {"stop", "client"} \cap Recoverers = {}
  /\ Roles = Recoverers \cup {"client"}
  /\ Writers = Recoverers \cup {"stop"}
BY ScenarioAssumption DEF Roles, Writers, Recoverers, Loops

LEMMA MoveView ==
  ASSUME ManagerInv, NEW t \in Tasks, NEW r \in Recoverers, NEW place,
         NEW a \in [Roles -> Place], NEW j \in [Writers -> JobState], MoveTo(t, r, place, a, j)
  PROVE  /\ place = "failed" => at'[t][r] \in {"idle", "abort_err"} /\ job'[t][r] = "none"
         /\ place # "failed" => at'[t][r] = place
         /\ place = "encode" => job'[t][r] = "submitted"
         /\ place \notin {"failed", "encode"} => job'[t][r] = "probing"
         /\ \A s \in Roles \ {r} : at'[t][s] = a[s]
         /\ \A w \in Writers \ {r} : job'[t][w] = j[w]
<1> DEFINE next == Moved(t, r, place)
           state == CASE place = "failed" -> "none"
                      [] place = "encode" -> "submitted"
                      [] OTHER -> "probing"
<1>1. at' = [at EXCEPT ![t] = [a EXCEPT ![r] = next]]
  BY DEF MoveTo, Moved
<1>2. job' = [job EXCEPT ![t] = [j EXCEPT ![r] = state]]
  BY DEF MoveTo
<1>3. state = IF place = "failed" THEN "none" ELSE IF place = "encode" THEN "submitted" ELSE "probing"
  OBVIOUS
<1> HIDE DEF next, state
<1>4. at'[t][r] = next /\ \A s \in Roles \ {r} : at'[t][s] = a[s]
  BY <1>1, RoleNames DEF ManagerInv, FilesTypeOK
<1>5. job'[t][r] = state /\ \A w \in Writers \ {r} : job'[t][w] = j[w]
  BY <1>2, RoleNames DEF ManagerInv, FilesTypeOK
<1>6. place = "failed" => next \in {"idle", "abort_err"}
  BY DEF next, Moved, AbortPlace
<1>7. place # "failed" => next = place
  BY DEF next, Moved
<1> QED
  BY <1>3, <1>4, <1>5, <1>6, <1>7

LEMMA MoveTarget ==
  ASSUME ManagerInv, NEW t \in Tasks, NEW r \in Recoverers, NEW place, place # "failed",
         NEW a \in [Roles -> Place], NEW j \in [Writers -> JobState], MoveTo(t, r, place, a, j)
  PROVE  at'[t][r] = place /\ job'[t][r] = IF place = "encode" THEN "submitted" ELSE "probing"
BY MoveView

LEMMA MoveOtherRoles ==
  ASSUME ManagerInv, NEW t \in Tasks, NEW r, NEW place, NEW a \in [Roles -> Place], NEW j,
         MoveTo(t, r, place, a, j)
  PROVE  \A s \in Roles : s # r => at'[t][s] = a[s]
<1> DEFINE next == Moved(t, r, place)
<1>1. at' = [at EXCEPT ![t] = [a EXCEPT ![r] = next]]
  BY DEF MoveTo, Moved
<1> HIDE DEF next
<1> QED
  BY <1>1 DEF ManagerInv, FilesTypeOK

LEMMA MoveOtherJobs ==
  ASSUME ManagerInv, NEW t \in Tasks, NEW r, NEW place, NEW a, NEW j \in [Writers -> JobState],
         MoveTo(t, r, place, a, j)
  PROVE  \A w \in Writers : w # r => job'[t][w] = j[w]
<1> DEFINE state == CASE place = "failed" -> "none"
                      [] place = "encode" -> "submitted"
                      [] OTHER -> "probing"
<1>1. job' = [job EXCEPT ![t] = [j EXCEPT ![r] = state]]
  BY DEF MoveTo
<1> HIDE DEF state
<1> QED
  BY <1>1 DEF ManagerInv, FilesTypeOK

LEMMA ProceedShape ==
  ASSUME ManagerInv, NEW t \in Tasks, Shape(t), NEW r \in {"finalize", "ttl"}, NEW place \in NextPlaces,
         NEW j \in [Writers -> JobState],
         \A w \in Writers \ {r, "stop"} : j[w] = job[t][w],
         j["stop"] = IF r = "finalize" THEN "none" ELSE job[t]["stop"],
         Proceed(t, r, place, j)
  PROVE  Shape(t)'
<1>1. at[t] \in [Roles -> Place] /\ r \in Recoverers
  BY RoleNames DEF ManagerInv, FilesTypeOK
<1>2. MoveTo(t, r, place, at[t], j)
  BY DEF Proceed
<1>3. /\ place = "failed" => at'[t][r] \in {"idle", "abort_err"} /\ job'[t][r] = "none"
      /\ place # "failed" => at'[t][r] = place
      /\ place = "encode" => job'[t][r] = "submitted"
      /\ place \notin {"failed", "encode"} => job'[t][r] = "probing"
      /\ \A s \in Roles \ {r} : at'[t][s] = at[t][s]
      /\ \A w \in Writers \ {r} : job'[t][w] = j[w]
  BY <1>1, <1>2, MoveView
<1>5. RestIdle(t)'
  BY <1>3, RoleNames DEF Shape, RestIdle
<1>6. CASE r = "finalize"
  <2>1. /\ job'[t]["stop"] = "none" /\ at'[t]["ttl"] = at[t]["ttl"] /\ job'[t]["ttl"] = job[t]["ttl"]
        /\ at'[t]["finalize"] # "stop"
    BY <1>3, <1>6, RoleNames DEF NextPlaces
  <2>2. /\ at'[t]["finalize"] = "encode" => job'[t]["finalize"] \in Converting
        /\ at'[t]["finalize"] \in ProbePlaces => job'[t]["finalize"] \in Probing
        /\ at'[t]["finalize"] \notin ProbePlaces \cup {"encode"} => job'[t]["finalize"] = "none"
    BY <1>3, <1>6 DEF Converting, Probing, ProbePlaces, NextPlaces
  <2>3. JobFits(t)'
    BY <2>1, <2>2 DEF Shape, JobFits
  <2> QED
    BY <1>5, <2>3 DEF Shape
<1>7. CASE r = "ttl"
  <2>1. /\ job'[t]["stop"] = job[t]["stop"] /\ at'[t]["finalize"] = at[t]["finalize"]
        /\ job'[t]["finalize"] = job[t]["finalize"]
    BY <1>3, <1>7, RoleNames
  <2>2. /\ at'[t]["ttl"] = "encode" => job'[t]["ttl"] \in Converting
        /\ at'[t]["ttl"] \in ProbePlaces => job'[t]["ttl"] \in Probing
        /\ at'[t]["ttl"] \notin ProbePlaces \cup {"encode"} => job'[t]["ttl"] = "none"
        /\ at'[t]["ttl"] \notin {"spawned", "drain", "append", "stop", "validate"}
    BY <1>3, <1>7 DEF Converting, Probing, ProbePlaces, NextPlaces
  <2>3. JobFits(t)'
    BY <2>1, <2>2 DEF Shape, JobFits
  <2> QED
    BY <1>5, <2>3 DEF Shape
<1> QED
  BY <1>6, <1>7

LEMMA FailedShape ==
  ASSUME ManagerInv, NEW t \in Tasks, Shape(t), FinalizeFailed(t),
         job[t]["stop"] \notin {"submitted", "encoding"}
  PROVE  Shape(t)'
<1> DEFINE j == Orphaned(job[t], "stop")
<1>1. /\ j \in [Writers -> JobState]
      /\ \A w \in Writers \ {"finalize", "stop"} : j[w] = job[t][w]
      /\ j["stop"] = "none"
  BY OrphanedJobs, RoleNames DEF Orphaned
<1>2. Proceed(t, "finalize", ArtifactPlace(t), j)
  BY DEF FinalizeFailed
<1> HIDE DEF j
<1> QED
  BY <1>1, <1>2, ProceedShape, ArtifactPlaceIsNext

(* _finalize moves to a place where it awaits no thread of its own.        *)
LEMMA GotoShape ==
  ASSUME ManagerInv, NEW t \in Tasks, Shape(t), NEW r \in {"finalize", "ttl", "client"},
         NEW place \in {"idle", "spawned", "drain", "append", "abort_ok", "abort_err"}, Goto(t, r, place),
         r = "ttl" => place \in {"idle", "abort_ok", "abort_err"},
         r = "finalize" => job'[t]["stop"] = "none",
         r # "client" => job'[t][r] = "none",
         \A w \in Writers \ {r} : job'[t][w] = job[t][w]
  PROVE  Shape(t)'
<1>1. at'[t][r] = place /\ \A s \in Roles \ {r} : at'[t][s] = at[t][s]
  BY RoleNames DEF Goto, ManagerInv, FilesTypeOK
<1>2. RestIdle(t)'
  BY <1>1, RoleNames DEF Shape, RestIdle
<1>3. JobFits(t)'
  BY <1>1, RoleNames DEF Shape, JobFits, ProbePlaces
<1> QED
  BY <1>2, <1>3 DEF Shape

LEMMA SameShape ==
  ASSUME NEW t, Shape(t), at'[t] = at[t], job'[t] = job[t]
  PROVE  Shape(t)'
BY DEF Shape, RestIdle, JobFits

LEMMA SpawnShape ==
  ASSUME ManagerInv, NEW t \in Tasks, Shape(t), SpawnFinalize(t)
  PROVE  Shape(t)'
<1>1. job' = job /\ job[t]["stop"] = "none" /\ job[t]["finalize"] = "none"
  BY DEF SpawnFinalize, threadVars
<1> QED
  BY <1>1, GotoShape DEF SpawnFinalize

(* While a task joins there is no _finalize to cancel.                     *)
LEMMA CancelShape ==
  ASSUME ManagerInv, NEW t \in Tasks, Shape(t), status[t] = "joining", CancelActive(t)
  PROVE  /\ Shape(t)'
         /\ at[t]["finalize"] = "idle" /\ at'[t]["finalize"] = "idle"
         /\ job'[t] = job[t]
<1>1. at[t]["finalize"] = "idle"
  BY DEF ManagerInv, TaskInv, JoinIsOver, Inv, RunnerSafety, JoiningHasRunner, Joining
<1>2. job[t]["stop"] = "none" /\ job[t]["finalize"] = "none"
  BY <1>1 DEF Shape, JobFits, ProbePlaces
<1>3. JobsWithoutFinalize(t) = job[t]
  BY <1>2, OrphanedJobs DEF JobsWithoutFinalize, Orphaned
<1>4. job'[t] = job[t]
  BY <1>3 DEF CancelActive, ManagerInv, FilesTypeOK
<1>5. at'[t]["finalize"] = "idle" /\ \A s \in Roles \ {"finalize", "client"} : at'[t][s] = at[t][s]
  BY RoleNames DEF CancelActive, RolesWithoutFinalize, ManagerInv, FilesTypeOK
<1>6. RestIdle(t)'
  BY <1>4, <1>5, RoleNames DEF Shape, RestIdle
<1>7. JobFits(t)'
  BY <1>1, <1>4, <1>5, RoleNames DEF Shape, JobFits
<1> QED
  BY <1>1, <1>4, <1>5, <1>6, <1>7 DEF Shape

LEMMA FinalizeShape ==
  ASSUME Undisturbed, ManagerInv, NEW t \in Tasks, Shape(t), FinalizeStep(t) \/ FinalizeTimesOut(t)
  PROVE  Shape(t)'
<1> USE RoleNames
<1>1. at[t]["finalize"] # "stop" => job[t]["stop"] = "none"
  BY DEF Shape, JobFits
<1>2. at[t]["finalize"] \in {"spawned", "drain", "append", "stop"} => job[t]["finalize"] = "none"
  BY DEF Shape, JobFits, ProbePlaces
<1>3. at[t]["finalize"] # "stop" /\ FinalizeFailed(t) => Shape(t)'
  BY <1>1, FailedShape
<1>4. ASSUME NEW place \in {"drain", "append"}, Goto(t, "finalize", place), job' = job,
             at[t]["finalize"] \in {"spawned", "drain"}
      PROVE  Shape(t)'
  BY <1>1, <1>2, <1>4, GotoShape
<1>5. ASSUME ConvertOrFail(t), at[t]["finalize"] \in {"drain", "append"}
      PROVE  Shape(t)'
  <2>1. CASE FinalizeFailed(t)
    BY <1>3, <1>5, <2>1
  <2>2. CASE Goto(t, "finalize", "stop") /\ SetJob(t, "stop", "submitted")
    <3>1. at'[t]["finalize"] = "stop" /\ \A s \in Roles \ {"finalize"} : at'[t][s] = at[t][s]
      BY <2>2 DEF Goto, ManagerInv, FilesTypeOK
    <3>2. job'[t]["stop"] = "submitted" /\ \A w \in Writers \ {"stop"} : job'[t][w] = job[t][w]
      BY <2>2 DEF SetJob, ManagerInv, FilesTypeOK
    <3>3. RestIdle(t)'
      BY <3>1, <3>2 DEF Shape, RestIdle
    <3>4. JobFits(t)'
      BY <1>2, <1>5, <3>1, <3>2 DEF Shape, JobFits, Converting, ProbePlaces
    <3> QED
      BY <3>3, <3>4 DEF Shape
  <2> QED
    BY <1>5, <2>1, <2>2 DEF ConvertOrFail
<1>6. CASE FinalizeStarts(t)
  BY <1>3, <1>4, <1>6 DEF FinalizeStarts
<1>7. CASE Drained(t) \/ Appended(t)
  BY <1>4, <1>5, <1>7 DEF Drained, Appended
<1>8. CASE FinalizeTimesOut(t)
  BY <1>3, <1>8 DEF FinalizeTimesOut, Undisturbed
<1>9. CASE Stopped(t)
  <2>1. CASE FinalizeFailed(t) /\ job[t]["stop"] \in {"valerr", "oserr"}
    BY <2>1, FailedShape
  <2>2. CASE /\ job[t]["stop"] = "encoded"
             /\ MoveTo(t, "finalize", "validate", at[t], Orphaned(job[t], "stop"))
    <3> DEFINE j == Orphaned(job[t], "stop")
    <3>1. j \in [Writers -> JobState] /\ j["stop"] = "none" /\ \A w \in Writers \ {"stop"} : j[w] = job[t][w]
      BY <2>2, OrphanedJobs DEF Orphaned
    <3>2. MoveTo(t, "finalize", "validate", at[t], j)
      BY <2>2
    <3> HIDE DEF j
    <3>3. at[t] \in [Roles -> Place]
      BY DEF ManagerInv, FilesTypeOK
    <3>4. /\ at'[t]["finalize"] = "validate" /\ \A s \in Roles \ {"finalize"} : at'[t][s] = at[t][s]
          /\ job'[t]["finalize"] = "probing" /\ \A w \in Writers \ {"finalize"} : job'[t][w] = j[w]
      <4>1. "finalize" \in Recoverers /\ "validate" \notin {"failed", "encode"}
        OBVIOUS
      <4> QED
        <5>1. at'[t]["finalize"] = "validate" /\ job'[t]["finalize"] = "probing"
          BY <3>1, <3>2, <3>3, <4>1, MoveTarget
        <5>2. ASSUME NEW s \in Roles \ {"finalize"}
              PROVE  at'[t][s] = at[t][s]
          <6>1. s \in Roles /\ s # "finalize"
            BY <5>2
          <6> QED
            BY <3>2, <3>3, <6>1, MoveOtherRoles
        <5>3. ASSUME NEW w \in Writers \ {"finalize"}
              PROVE  job'[t][w] = j[w]
          <6>1. w \in Writers /\ w # "finalize"
            BY <5>3
          <6>2. j \in [Writers -> JobState]
            BY <3>1
          <6> QED
            BY <3>2, <6>1, <6>2, MoveOtherJobs
        <5> QED
          BY <5>1, <5>2, <5>3
    <3>5. RestIdle(t)'
      BY <3>1, <3>4 DEF Shape, RestIdle
    <3>6. JobFits(t)'
      BY <3>1, <3>4 DEF Shape, JobFits, Probing, ProbePlaces
    <3> QED
      BY <3>5, <3>6 DEF Shape
  <2> QED
    BY <1>9, <2>1, <2>2 DEF Stopped
<1>10. CASE Validated(t)
  <2>1. CASE Goto(t, "finalize", "idle") /\ SetJob(t, "finalize", "none")
    <3>1. job'[t]["finalize"] = "none" /\ \A w \in Writers \ {"finalize"} : job'[t][w] = job[t][w]
      BY <2>1 DEF SetJob, ManagerInv, FilesTypeOK
    <3> QED
      BY <1>1, <1>10, <2>1, <3>1, GotoShape DEF Validated
  <2> QED
    BY <1>3, <1>10, <2>1 DEF Validated
<1> QED
  BY <1>6, <1>7, <1>8, <1>9, <1>10 DEF FinalizeStep

LEMMA RecoveryShape ==
  ASSUME ManagerInv, NEW t \in Tasks, Shape(t), NEW r \in Recoverers, RecoveryStep(t, r)
  PROVE  Shape(t)' /\ r \in {"finalize", "ttl"}
<1> USE RoleNames
<1>1. at[t][r] \in {"artifact", "artifact2", "check", "encode"}
  BY DEF RecoveryStep, Accepted, Rejected, Converted, PartFileGone
<1>2. r \in {"finalize", "ttl"}
  BY <1>1 DEF Shape, RestIdle
<1>3. r = "finalize" => job[t]["stop"] = "none"
  BY <1>1 DEF Shape, JobFits
<1>4. ASSUME NEW place \in NextPlaces, Proceed(t, r, place, job[t])
      PROVE  Shape(t)'
  <2>1. job[t]["stop"] = IF r = "finalize" THEN "none" ELSE job[t]["stop"]
    BY <1>3
  <2> QED
    BY <1>2, <1>4, <2>1, OrphanedJobs, ProceedShape
<1>5. ASSUME NEW place \in {"idle", "abort_ok", "abort_err"}, Goto(t, r, place), SetJob(t, r, "none")
      PROVE  Shape(t)'
  <2>1. job'[t][r] = "none" /\ \A w \in Writers \ {r} : job'[t][w] = job[t][w]
    BY <1>5 DEF SetJob, ManagerInv, FilesTypeOK
  <2>2. r = "finalize" => job'[t]["stop"] = "none"
    BY <1>2, <1>3, <2>1
  <2> QED
    BY <1>2, <1>5, <2>1, <2>2, GotoShape
<1>6. CASE Accepted(t, r)
  <2>1. AbortPlace(t, r, TRUE) \in {"idle", "abort_ok", "abort_err"}
    BY DEF AbortPlace
  <2> QED
    BY <1>2, <1>5, <1>6, <2>1 DEF Accepted
<1>7. CASE Rejected(t, r) \/ Converted(t, r)
  BY <1>2, <1>4, <1>7, ArtifactPlaceIsNext DEF Rejected, Converted, NextPlaces
<1>8. CASE PartFileGone(t, r)
  BY <1>2, <1>5, <1>8 DEF PartFileGone
<1> QED
  BY <1>2, <1>6, <1>7, <1>8 DEF RecoveryStep

LEMMA AbortDoneShape ==
  ASSUME ManagerInv, NEW t \in Tasks, Shape(t), NEW r \in Roles, AbortDone(t, r)
  PROVE  Shape(t)'
<1>1. r \in {"finalize", "ttl", "client"} /\ job' = job /\ at[t][r] \in {"abort_ok", "abort_err"}
  BY DEF AbortDone, threadVars
<1>2. r # "client" => job[t][r] = "none"
  BY <1>1 DEF Shape, JobFits, ProbePlaces
<1>3. r = "finalize" => job[t]["stop"] = "none"
  BY <1>1 DEF Shape, JobFits
<1> QED
  BY <1>1, <1>2, <1>3, GotoShape DEF AbortDone

LEMMA ReconcileShape ==
  ASSUME ManagerInv, StartupRests, NEW t \in Tasks, Shape(t), NEW l \in Loops, Reconcile(l, t)
  PROVE  l = "ttl" /\ Shape(t)'
<1>1. l = "ttl"
  BY DEF Reconcile, StartupRests, Loops
<1>2. CASE UNCHANGED <<at, job>>
  BY <1>1, <1>2, SameShape
<1>3. CASE Proceed(t, "ttl", ArtifactPlace(t), job[t])
  BY <1>1, <1>3, ProceedShape, OrphanedJobs, ArtifactPlaceIsNext
<1> QED
  BY <1>1, <1>2, <1>3 DEF Reconcile

(* The nudge finds no _finalize, or one that has not run yet.              *)
LEMMA NudgeView ==
  ASSUME Undisturbed, ManagerInv, NEW t \in Tasks, Shape(t), Nudge(t)
  PROVE  /\ at[t]["finalize"] \in {"idle", "spawned"} /\ at[t]["ttl"] = "idle" /\ pcm[t] = "some"
         /\ at'[t]["finalize"] = "idle"
         /\ at'[t]["ttl"] = ArtifactPlace(t) /\ ArtifactPlace(t) \in {"artifact", "artifact2", "encode"}
         /\ at'[t]["client"] = at[t]["client"]
         /\ job[t]["stop"] = "none" /\ job'[t]["stop"] = "none"
         /\ job[t]["finalize"] = "none" /\ job'[t]["finalize"] = "none"
         /\ job'[t]["ttl"] = IF ArtifactPlace(t) = "encode" THEN "submitted" ELSE "probing"
         /\ UNCHANGED <<allRunnerVars, fileVars, append>>
         /\ \A r \in Recoverers \ {"finalize", "ttl"} : at'[t][r] = at[t][r] /\ job'[t][r] = job[t][r]
<1> USE RoleNames
<1>1. at[t]["finalize"] \in {"idle", "spawned"} /\ pcm[t] = "some" /\ at[t]["ttl"] = "idle"
  BY DEF Nudge, NudgeIsDue, FinalizeStarted, Undisturbed, NudgeVisits, LoopIdle
<1>2. job[t]["stop"] = "none" /\ job[t]["finalize"] = "none"
  BY <1>1 DEF Shape, JobFits, ProbePlaces
<1>3. ArtifactPlace(t) \in {"artifact", "artifact2", "encode"}
  BY <1>1 DEF ArtifactPlace, PcmPlace
<1>4. JobsWithoutFinalize(t) = job[t] /\ job[t] \in [Writers -> JobState]
  BY <1>2, OrphanedJobs DEF JobsWithoutFinalize, Orphaned
<1>5. /\ RolesWithoutFinalize(t) \in [Roles -> Place]
      /\ RolesWithoutFinalize(t)["finalize"] = "idle"
      /\ \A s \in Roles \ {"finalize"} : RolesWithoutFinalize(t)[s] = at[t][s]
  BY RolesWithoutFinalizeFrame DEF ManagerInv
<1>6. MoveTo(t, "ttl", ArtifactPlace(t), RolesWithoutFinalize(t), job[t])
  BY <1>4 DEF Nudge
<1>7. /\ at'[t]["ttl"] = ArtifactPlace(t)
      /\ \A s \in Roles \ {"ttl"} : at'[t][s] = RolesWithoutFinalize(t)[s]
      /\ ArtifactPlace(t) = "encode" => job'[t]["ttl"] = "submitted"
      /\ ArtifactPlace(t) # "encode" => job'[t]["ttl"] = "probing"
      /\ \A w \in Writers \ {"ttl"} : job'[t][w] = job[t][w]
  <2> DEFINE place == ArtifactPlace(t)
  <2>1. "ttl" \in Recoverers /\ place # "failed"
    BY <1>3
  <2>2. MoveTo(t, "ttl", place, RolesWithoutFinalize(t), job[t])
    BY <1>6
  <2>3. RolesWithoutFinalize(t) \in [Roles -> Place] /\ job[t] \in [Writers -> JobState]
    BY <1>4, <1>5
  <2> HIDE DEF place
  <2>4. at'[t]["ttl"] = place /\ job'[t]["ttl"] = IF place = "encode" THEN "submitted" ELSE "probing"
    BY <2>1, <2>2, <2>3, MoveTarget
  <2>5. ASSUME NEW s \in Roles \ {"ttl"}
        PROVE  at'[t][s] = RolesWithoutFinalize(t)[s]
    <3>1. s \in Roles /\ s # "ttl"
      BY <2>5
    <3> QED
      BY <2>2, <2>3, <3>1, MoveOtherRoles
  <2>6. ASSUME NEW w \in Writers \ {"ttl"}
        PROVE  job'[t][w] = job[t][w]
    <3>1. w \in Writers /\ w # "ttl"
      BY <2>6
    <3> QED
      BY <2>2, <2>3, <3>1, MoveOtherJobs
  <2> QED
    BY <2>4, <2>5, <2>6 DEF place
<1>8. UNCHANGED <<allRunnerVars, fileVars, append>>
  BY <1>1, <1>3 DEF Nudge, FinalizeAborting, allRunnerVars
<1> QED
  BY <1>1, <1>2, <1>3, <1>5, <1>7, <1>8

LEMMA NudgeShape ==
  ASSUME Undisturbed, ManagerInv, NEW t \in Tasks, Shape(t), Nudge(t)
  PROVE  Shape(t)'
BY NudgeView DEF Shape, RestIdle, JobFits, Converting, Probing, ProbePlaces

(* A thread works for the coroutine that awaits it.                        *)
LEMMA ThreadView ==
  ASSUME ManagerInv, NEW t \in Tasks, Shape(t), NEW w \in Writers, job[t][w] # "none"
  PROVE  /\ w \in {"stop", "finalize", "ttl"}
         /\ job[t][w] \in Converting => Awaited(t, w)
<1>1. w \in {"stop", "finalize", "ttl"}
  BY RoleNames DEF Shape, RestIdle
<1> QED
  BY <1>1 DEF Shape, JobFits, Awaited, Converting, Probing, ProbePlaces

LEMMA ThreadShape ==
  ASSUME ManagerInv, NEW t \in Tasks, Shape(t), ThreadStep(t)
  PROVE  Shape(t)'
<1> USE RoleNames
<1>1. CASE AppendLands(t)
  BY <1>1, SameShape DEF AppendLands
<1>2. ASSUME NEW w \in Writers, job[t][w] \in Converting, at' = at,
             NEW result \in Converting, SetJob(t, w, result)
      PROVE  Shape(t)'
  <2>1. w \in {"stop", "finalize", "ttl"} /\ Awaited(t, w)
    BY <1>2, ThreadView DEF Converting
  <2>2. job'[t][w] = result /\ \A v \in Writers \ {w} : job'[t][v] = job[t][v]
    BY <1>2 DEF SetJob, ManagerInv, FilesTypeOK
  <2> QED
    BY <1>2, <2>1, <2>2 DEF Shape, RestIdle, JobFits, Awaited, ProbePlaces
<1>3. ASSUME NEW w \in Writers, WriterStep(t, w)
      PROVE  Shape(t)'
  <2>1. job[t][w] \in Converting /\ at' = at
    BY <1>3 DEF WriterStep, EncodeBegins, EncodeFinishes, EncodeFails, Converting
  <2>2. Awaited(t, w)
    BY <2>1, ThreadView DEF Converting
  <2>3. \E result \in Converting : SetJob(t, w, result)
    BY <1>3, <2>2 DEF WriterStep, EncodeBegins, EncodeFinishes, EncodeFails, Converting, Return
  <2> QED
    BY <1>2, <2>1, <2>3
<1>4. ASSUME NEW r \in Recoverers, Probe(t, r)
      PROVE  Shape(t)'
  <2>1. r \in {"finalize", "ttl"} /\ r \in Writers /\ at' = at /\ job[t][r] = "probing"
    BY <1>4, ThreadView DEF Probe
  <2>2. PICK result \in Probing : SetJob(t, r, result)
    BY <1>4 DEF Probe, Probing
  <2>3. job'[t][r] = result /\ \A v \in Writers \ {r} : job'[t][v] = job[t][v]
    BY <2>1, <2>2 DEF SetJob, ManagerInv, FilesTypeOK
  <2> QED
    BY <2>1, <2>3 DEF Shape, RestIdle, JobFits, Converting, Probing, ProbePlaces
<1> QED
  BY <1>1, <1>3, <1>4 DEF ThreadStep

LEMMA TaskStepShape ==
  ASSUME Undisturbed, ManagerInv, StartupRests, NEW t \in Tasks, Shape(t), TaskStep(t)
  PROVE  Shape(t)'
<1>1. CASE RequestSubmit(t) \/ RunnerStep(t) \/ Spool(t) \/ NudgeWaits(t)
  BY <1>1, SameShape DEF RequestSubmit, RunnerStep, Spool, NudgeWaits, managerVars, threadVars
<1>2. CASE RequestStop(t) \/ Disconnects(t) \/ TimerFires(t)
  BY <1>2, SpawnShape, CancelShape, SameShape DEF RequestStop, Disconnects, TimerFires, threadVars
<1>3. ~RequestDelete(t) /\ \A p \in Pollers : ~RequestState(t, p)
  BY DEF RequestDelete, RequestState, Undisturbed
<1> QED
  BY <1>1, <1>2, <1>3, FinalizeShape, RecoveryShape, AbortDoneShape, ReconcileShape, NudgeShape, ThreadShape
     DEF TaskStep, CoroutineStep

(* What is left when the process does not restart.                         *)
NoRestart ==
  \/ \E t \in Tasks : TaskStep(t)
  \/ LoopsMove
  \/ Purge

LEMMA NothingRestarts ==
  ASSUME Undisturbed, ShapeInv, [ManagerNext]_vars
  PROVE  NoRestart
<1>1. ~Dies /\ \A t \in Tasks : ~StartupFails(t)
  BY RoleNames DEF Dies, StartupFails, Undisturbed, ShapeInv, Shape, RestIdle, Recoverers, Loops
<1> QED
  BY <1>1 DEF ManagerNext, LoopStep, TaskStep, LoopsMove, NoRestart

(* The reconcile_all of start() is over and does not come again.           *)
LEMMA StartupStep ==
  ASSUME ManagerInv, StartupRests, NoRestart
  PROVE  StartupRests'
<1> USE DEF StartupRests, ManagerInv, FilesTypeOK, Loops
<1>1. ASSUME NEW t \in Tasks, TaskStep(t)
      PROVE  loop'["startup"] = loop["startup"]
  <2>1. CASE loop' = loop
    BY <2>1
  <2>2. CASE \E r \in Recoverers : PartFileGone(t, r)
    BY <2>2 DEF PartFileGone
  <2>3. CASE Nudge(t) \/ NudgeWaits(t)
    BY <2>3 DEF Nudge, NudgeWaits, NudgeVisits, Handled
  <2>4. CASE \E l \in Loops : Reconcile(l, t)
    <3>1. PICK l \in Loops : Reconcile(l, t)
      BY <2>4
    <3>2. l = "ttl"
      BY <3>1 DEF Reconcile
    <3> QED
      BY <3>1, <3>2 DEF Reconcile, Handled
  <2> QED
    BY <1>1, <2>1, <2>2, <2>3, <2>4
       DEF TaskStep, CoroutineStep, RequestSubmit, RequestStop, RequestDelete, RequestState, RunnerStep,
           FinalizeStep, FinalizeTimesOut, Spool, Disconnects, TimerFires, RecoveryStep, AbortDone,
           FinalizeStarts, Drained, Appended, Stopped, Validated, Accepted, Rejected, Converted,
           SpawnFinalize, CancelActive, managerVars, ThreadStep, WriterStep, EncodeBegins, EncodeFinishes,
           EncodeFails, Probe, AppendLands
<1>2. ASSUME NEW l \in Loops, LoopAdvances(l)
      PROVE  loop'["startup"] = loop["startup"]
  <2>1. l = "ttl"
    BY <1>2 DEF LoopAdvances
  <2> QED
    BY <1>2, <2>1 DEF LoopAdvances, Enter
<1>3. UNCHANGED vars \/ TtlWakes \/ Purge => loop'["startup"] = loop["startup"]
  BY DEF TtlWakes, Purge, Enter, vars, managerVars
<1> QED
  BY <1>1, <1>2, <1>3 DEF NoRestart, LoopsMove

LEMMA ShapeStep ==
  ASSUME Undisturbed, ShapeInv, [ManagerNext]_vars
  PROVE  ShapeInv' /\ NoRestart
<1> USE DEF ShapeInv
<1>1. ManagerInv'
  BY ManagerNextStep DEF StepOK
<1>2. NoRestart
  BY NothingRestarts
<1>3. StartupRests'
  BY <1>2, StartupStep
<1>4. ASSUME NEW u \in Tasks
      PROVE  Shape(u)'
  <2>1. ASSUME NEW t \in Tasks, TaskStep(t)
        PROVE  Shape(u)'
    <3>1. CASE u = t
      BY <2>1, <3>1, TaskStepShape
    <3>2. CASE u # t
      BY <2>1, <3>2, TaskStepIsSame, SameShape DEF OthersSame, Same, WorkSame
    <3> QED
      BY <3>1, <3>2
  <2>2. CASE LoopsMove \/ Purge
    <3>1. UNCHANGED <<at, job>>
      BY <2>2 DEF LoopsMove, TtlWakes, LoopAdvances, Purge, vars, managerVars, threadVars
    <3> QED
      BY <3>1, SameShape
  <2> QED
    BY <1>2, <2>1, <2>2 DEF NoRestart
<1> QED
  BY <1>1, <1>2, <1>3, <1>4

-----------------------------------------------------------------------------
(***************************************************************************)
(* From the join to the download: what the files, the threads and the      *)
(* event of a task are at each stage.                                      *)
(***************************************************************************)
Live(t) == status[t] # "purged"
Silent(t) == pcm[t] = "none" /\ append[t] = {} /\ mp3[t] = "none"

(* The join is under way, or a stop of it is.                              *)
NotBegun(t) ==
  run[t] \in {"none", "waiting", "failing"} \cup Joining \/ at[t]["client"] # "idle"

(* Nothing is recorded and nobody works on files before the join is over.  *)
BeginsSilent(t) ==
  /\ at[t]["client"] \in {"idle", "abort_err"}
  /\ NotBegun(t) => Silent(t) /\ at[t]["ttl"] = "idle" /\ at[t]["finalize"] \in {"idle", "spawned"}

(* The event is set only once the capture has been stopped.                *)
EventIsNew(t) ==
  /\ run[t] \in {"none", "waiting"} => t \notin finished
  /\ /\ t \in sessions
     /\ \/ run[t] \in Joining
        \/ status[t] = "capturing"
        \/ at[t]["finalize"] \in {"spawned", "drain", "append", "stop"}
     => t \notin finished

(* Until the stop there is no MP3, and audio only while there is a session *)
(* by which it can be stopped, so reconcile_all stays away.                *)
BeforeStop(t) ==
  /\ status[t] = "capturing" \/ at[t]["finalize"] = "spawned" =>
       /\ mp3[t] = "none" /\ at[t]["ttl"] = "idle"
       /\ Silent(t) \/ t \in sessions
  /\ at[t]["finalize"] = "spawned" /\ t \in sessions => status[t] = "finalizing"

(* While _finalize stops the capture, or converts after a failed stop, the *)
(* session is registered, so nobody else recovers the task.                *)
Stopping(t) ==
  at[t]["finalize"] \in {"drain", "append", "stop"} \/ (Live(t) /\ at[t]["finalize"] = "encode") =>
    /\ t \in sessions /\ t \notin finished
    /\ status[t] = "finalizing"
    /\ at[t]["ttl"] = "idle"
    /\ at[t]["finalize"] \in {"drain", "append"} => mp3[t] = "none"

(* One conversion at a time: it has its input and its part file, and the   *)
(* MP3 is its own.                                                         *)
OneConverts(t) ==
  Live(t) =>
    /\ mp3[t] \in {"none", "full"}
    /\ \A w \in {"stop", "finalize", "ttl"} :
         /\ job[t][w] \in {"submitted", "encoding"} => pcm[t] = "some" /\ mp3[t] = "none"
         /\ job[t][w] = "encoding" => part[t] = w
         /\ job[t][w] = "encoded" => mp3[t] = "full"
         /\ job[t][w] \notin {"partial", "oserr"}
    /\ at[t]["ttl"] = "encode" => at[t]["finalize"] \in {"idle", "abort_err"}

(* Who examines an MP3, or has accepted one, has a finished one.           *)
FilePlaces == {"artifact", "artifact2", "check", "abort_ok"}
Found(t) ==
  /\ Live(t)
  /\ at[t]["finalize"] \in FilePlaces \cup {"validate"} \/ at[t]["ttl"] \in FilePlaces
  => mp3[t] = "full"

Good(t) == status[t] = "success" => recorded[t] = "full" /\ mp3[t] = "full"

Safe(t) ==
  /\ Ears(t) /\ BeginsSilent(t) /\ EventIsNew(t) /\ BeforeStop(t) /\ Stopping(t)
  /\ OneConverts(t) /\ Found(t) /\ Good(t)

OutcomeInv == PastInv /\ TtlInv /\ ShapeInv /\ \A t \in Tasks : Safe(t)

(* What the invariants of the runner and of the coroutines say of one task. *)
LEMMA TaskFacts ==
  ASSUME ManagerInv, NEW t \in Tasks
  PROVE  /\ t \in sessions => /\ run[t] \in InEngine
                              /\ run[t] = "launch" <=> browser[t] = "none"
                              /\ browser[t] \in {"none", "open"}
                              /\ \A r \in Roles : at[t][r] \notin AbortPlaces
                              /\ status[t] \notin {"error", "canceled"}
         /\ run[t] \in {"none", "waiting", "launch"} => browser[t] = "none"
         /\ status[t] = "none" => run[t] = "none"
         /\ status[t] = "joining" => run[t] \in Joining \cup {"failing"} /\ at[t]["finalize"] = "idle"
         /\ status[t] = "capturing" => run[t] \in {"capture", "closing", "done"} /\ at[t]["finalize"] = "idle"
         /\ at[t]["finalize"] # "idle" =>
              run[t] \in {"capture", "closing", "done"} /\ Admitted(t)
         /\ \A r \in Roles : at[t][r] \in AbortPlaces =>
              browser[t] = "closing" /\ run[t] \notin {"closing", "failing", "none", "waiting", "launch"}
<1> USE RoleNames DEF ManagerInv, Inv, TypeOK, StoreTypeOK
<1>1. /\ t \in sessions => /\ run[t] \in InEngine
                           /\ run[t] = "launch" <=> browser[t] = "none"
                           /\ browser[t] \in {"none", "open"}
      /\ run[t] \in {"none", "waiting", "launch"} => browser[t] = "none"
      /\ status[t] = "none" => run[t] = "none"
  BY DEF RunnerSafety, SessionIsLive, Fresh, TaskInv, LaunchIsBare
<1>2. \A r \in Roles : at[t][r] \in AbortPlaces =>
        browser[t] = "closing" /\ run[t] \notin {"closing", "failing", "none", "waiting", "launch"}
  BY <1>1 DEF TaskInv, OneAborter, Aborting
<1>3. t \in sessions => \A r \in Roles : at[t][r] \notin AbortPlaces
  BY <1>1, <1>2
<1>4. status[t] \in {"error", "canceled"} => t \notin sessions
  BY DEF TaskInv, EndedIsGone
<1>5. at[t]["finalize"] # "idle" \/ status[t] = "capturing" => run[t] \in {"capture", "closing", "done"}
  BY DEF TaskInv, JoinIsOver
<1>6. status[t] = "joining" => run[t] \in Joining \cup {"failing"}
  BY DEF RunnerSafety, JoiningHasRunner
<1>7. status[t] = "joining" => at[t]["finalize"] = "idle"
  BY <1>5, <1>6 DEF Joining
<1>8. status[t] = "capturing" => at[t]["finalize"] = "idle"
  BY DEF TaskInv, FinalizeIsOnce
<1>9. at[t]["finalize"] # "idle" => Admitted(t)
  BY BusyTask
<1> QED
  BY <1>1, <1>2, <1>3, <1>4, <1>5, <1>6, <1>7, <1>8, <1>9

(* The files and who works on them stay as they are.                       *)
LEMMA FilesStaySafe ==
  ASSUME NEW t, Safe(t), WorkSame(t), FilesSame(t), recorded'[t] = recorded[t],
         status[t] = "purged" => status'[t] = "purged",
         status'[t] = "success" => status[t] = "success"
  PROVE  OneConverts(t)' /\ Found(t)' /\ Good(t)'
BY DEF Safe, WorkSame, FilesSame, OneConverts, Found, Good, Live

LEMMA RunView ==
  ASSUME ManagerInv, NEW t \in Tasks, RunStep(t)
  PROVE  /\ recorded'[t] = recorded[t]
         /\ t \in finished' <=> t \in finished
         /\ \/ /\ run[t] = "none" /\ run'[t] = "waiting" /\ status'[t] = status[t]
               /\ t \in sessions' <=> t \in sessions
            \/ /\ run[t] = "waiting" /\ run'[t] = "done" /\ status'[t] = status[t]
               /\ t \in sessions' <=> t \in sessions
            \/ /\ run[t] = "waiting" /\ run'[t] = "launch" /\ status'[t] = "joining" /\ status[t] = "queued"
               /\ t \in sessions'
            \/ /\ run[t] \in {"launch", "join"} /\ run'[t] \in {"join", "ready"} /\ status'[t] = status[t]
               /\ browser[t] \in {"none", "open"}
               /\ t \in sessions' <=> t \in sessions
            \/ /\ run[t] = "ready" /\ run'[t] = "capture" /\ browser'[t] = browser[t]
               /\ t \in sessions' <=> t \in sessions
               /\ status'[t] = IF HasRow(t) THEN "capturing" ELSE status[t]
            \/ /\ run[t] \in Joining /\ run'[t] \in {"failing", "done"} /\ t \notin sessions'
               /\ status'[t] = status[t] \/ status'[t] = IF HasRow(t) THEN "error" ELSE status[t]
            \/ /\ run[t] = "capture" /\ run'[t] \in {"closing", "done"} /\ t \notin sessions'
               /\ status'[t] = status[t] /\ t \in finished
            \/ /\ run[t] \in {"closing", "failing"} /\ run'[t] = "done"
               /\ t \in sessions' <=> t \in sessions
               /\ \/ status'[t] = status[t]
                  \/ run[t] = "failing" /\ status'[t] = IF HasRow(t) THEN "error" ELSE status[t]
<1> USE DEF ManagerInv, Inv, TypeOK, StoreTypeOK
<1>1. CASE Dispatch(t)
  BY <1>1 DEF Dispatch, RunnerSafety, DispatchedOnce, storeVars
<1>2. CASE SkipTask(t)
  BY <1>2 DEF SkipTask, storeVars
<1>3. CASE StartCapture(t)
  BY <1>3 DEF StartCapture, UpdateStatus, HasRow
<1>4. CASE OpenBrowser(t) \/ JoinSeen(t)
  BY <1>4 DEF OpenBrowser, JoinSeen, storeVars, TaskInv, LaunchIsBare
<1>5. CASE Joined(t)
  BY <1>5 DEF Joined, UpdateStatus, HasRow
<1>6. CASE JoinFails(t)
  BY <1>6 DEF JoinFails, LeaveEngine, Leave, MarkError, UpdateStatus, HasRow, storeVars
<1>7. CASE CaptureEnds(t)
  BY <1>7 DEF CaptureEnds, LeaveEngine, Leave, storeVars
<1>8. CASE CloseReturns(t)
  BY <1>8 DEF CloseReturns, Leave, MarkError, UpdateStatus, HasRow, storeVars
<1> QED
  BY <1>1, <1>2, <1>3, <1>4, <1>5, <1>6, <1>7, <1>8 DEF RunStep

LEMMA RunnerSafe ==
  ASSUME ManagerInv, NEW t \in Tasks, Safe(t), RunStep(t), UNCHANGED managerVars
  PROVE  Safe(t)'
<1>1. WorkSame(t) /\ FilesSame(t)
  BY DEF managerVars, threadVars, fileVars, WorkSame, FilesSame
<1>2. UNCHANGED <<at[t], pcm[t], mp3[t], append[t]>>
  BY <1>1 DEF WorkSame, FilesSame
<1> USE TaskFacts, RunView DEF HasRow, Joining, InEngine
<1>3. OneConverts(t)' /\ Found(t)' /\ Good(t)'
  BY <1>1, FilesStaySafe
<1>4. Ears(t)'
  BY DEF Safe, Ears
<1>5. BeginsSilent(t)'
  BY <1>2 DEF Safe, BeginsSilent, NotBegun, Silent
<1>6. EventIsNew(t)'
  BY <1>2 DEF Safe, EventIsNew
<1>7. BeforeStop(t)'
  BY <1>2 DEF Safe, BeforeStop, BeginsSilent, NotBegun, EventIsNew, Silent
<1>8. Stopping(t)'
  BY <1>2 DEF Safe, Stopping, Live
<1> QED
  BY <1>3, <1>4, <1>5, <1>6, <1>7, <1>8 DEF Safe

-----------------------------------------------------------------------------
(* The row of a new task.                                                  *)
LEMMA SubmitSafe ==
  ASSUME ManagerInv, NEW t \in Tasks, Safe(t), RequestSubmit(t)
  PROVE  Safe(t)'
<1>1. /\ status[t] = "none" /\ status'[t] = "queued"
      /\ UNCHANGED <<recorded[t], run[t], browser[t], at[t], pcm[t], mp3[t], append[t]>>
      /\ UNCHANGED <<sessions, finished>>
      /\ WorkSame(t) /\ FilesSame(t)
  BY DEF RequestSubmit, Submit, Create, managerVars, threadVars, fileVars, WorkSame, FilesSame, ManagerInv, Inv,
         TypeOK, StoreTypeOK
<1>2. OneConverts(t)' /\ Found(t)' /\ Good(t)'
  BY <1>1, FilesStaySafe
<1> QED
  BY <1>1, <1>2, TaskFacts DEF Safe, Ears, BeginsSilent, NotBegun, EventIsNew, BeforeStop, Stopping, Live, Silent

LEMMA SpawnSafe ==
  ASSUME ManagerInv, NEW t \in Tasks, Shape(t), Safe(t), SpawnFinalize(t)
  PROVE  Safe(t)'
<1>1. /\ status[t] = "capturing" /\ status'[t] = "finalizing"
      /\ at'[t]["finalize"] = "spawned" /\ at[t]["finalize"] = "idle"
      /\ \A r \in Roles : r # "finalize" => at'[t][r] = at[t][r]
      /\ recorded'[t] = recorded[t]
      /\ UNCHANGED <<run, browser, sessions, finished, pcm, mp3, part, append, job>>
  <2>1. /\ at'[t]["finalize"] = "spawned"
        /\ \A r \in Roles : r # "finalize" => at'[t][r] = at[t][r]
    BY RoleNames DEF SpawnFinalize, Goto, ManagerInv, FilesTypeOK
  <2>2. status[t] = "capturing" /\ status'[t] = "finalizing" /\ recorded'[t] = recorded[t]
    BY DEF SpawnFinalize, UpdateStatus, HasRow, ManagerInv, Inv, TypeOK, StoreTypeOK
  <2>3. UNCHANGED <<run, browser, sessions, finished, pcm, mp3, part, append, job>>
    BY DEF SpawnFinalize, runnerVars, fileVars, threadVars
  <2> QED
    BY <2>1, <2>2, <2>3, TaskFacts
<1> USE <1>1, RoleNames, TaskFacts DEF Safe
<1>2. Ears(t)' /\ EventIsNew(t)' /\ Good(t)'
  BY DEF Ears, EventIsNew, Good
<1>3. BeginsSilent(t)' /\ BeforeStop(t)' /\ Stopping(t)'
  BY DEF BeginsSilent, NotBegun, BeforeStop, Stopping, Silent, Live
<1>4. OneConverts(t)' /\ Found(t)'
  BY DEF OneConverts, Found, Live, BeforeStop, FilePlaces
<1> QED
  BY <1>2, <1>3, <1>4

(* A stop, or the timer, while a task joins.                               *)
LEMMA CancelSafe ==
  ASSUME ManagerInv, NEW t \in Tasks, Shape(t), Safe(t), status[t] = "joining",
         CancelActive(t) \/ ((CancelAtOnce(t) \/ (AbortCancelsItself(t) /\ UNCHANGED <<storeVars, fileVars>>))
                             /\ UNCHANGED <<threadVars, at, loop>>)
  PROVE  Safe(t)'
<1> USE DEF ManagerInv, Inv, TypeOK, StoreTypeOK, FilesTypeOK
<1>1. /\ run'[t] = run[t] /\ run[t] \in Joining \cup {"failing"}
      /\ at[t]["finalize"] = "idle" /\ at'[t]["finalize"] = "idle"
      /\ at'[t]["client"] \in {at[t]["client"], "abort_err"}
      /\ at'[t]["ttl"] = at[t]["ttl"]
      /\ job'[t] = job[t] /\ append'[t] = append[t]
  <2>1. run'[t] = run[t] /\ append'[t] = append[t]
    BY DEF CancelActive, CancelAtOnce, AbortBegins, AbortAtOnce, AbortIsLost, AbortCancelsItself, runnerVars, threadVars
  <2>2. at'[t]["ttl"] = at[t]["ttl"] /\ at'[t]["client"] \in {at[t]["client"], "abort_err"}
    BY RoleNames DEF CancelActive, RolesWithoutFinalize
  <2>3. at'[t]["finalize"] = "idle" /\ job'[t] = job[t]
    BY TaskFacts, CancelShape DEF threadVars
  <2> QED
    BY <2>1, <2>2, <2>3, TaskFacts
<1>2. status'[t] \in {"joining", "canceled"}
  BY DEF CancelActive, CancelAtOnce, MarkCanceled, HasRow, storeVars
<1>3. UNCHANGED <<pcm[t], mp3[t]>> \/ (pcm'[t] = "none" /\ mp3'[t] = "none")
  BY DEF CancelActive, CancelAtOnce, RemoveFiles, fileVars
<1>4. /\ t \in sessions' => t \in sessions
      /\ t \in finished' => t \in finished \/ t \notin sessions'
      /\ Ears(t)'
  <2>1. Ears(t)
    BY DEF Safe
  <2>2. CASE AbortBegins(t) \/ AbortAtOnce(t) \/ AbortCancelsItself(t)
    BY <2>2 DEF AbortBegins, AbortAtOnce, AbortCancelsItself, Ears
  <2>3. CASE AbortIsLost(t)
    BY <2>3 DEF AbortIsLost, Ears
  <2>4. CASE UNCHANGED runnerVars
    BY <2>1, <2>4 DEF runnerVars, Ears
  <2> QED
    BY <2>2, <2>3, <2>4 DEF CancelActive, CancelAtOnce
<1>5. NotBegun(t) /\ NotBegun(t)'
  BY <1>1 DEF NotBegun
<1>6. Silent(t) /\ Silent(t)' /\ at[t]["ttl"] = "idle"
  BY <1>1, <1>3, <1>5 DEF Safe, BeginsSilent, Silent
<1>7. BeginsSilent(t)' /\ BeforeStop(t)' /\ Stopping(t)'
  BY <1>1, <1>2, <1>6 DEF Safe, BeginsSilent, BeforeStop, Stopping, Live
<1>8. EventIsNew(t)'
  BY <1>1, <1>2, <1>4, TaskFacts DEF Safe, EventIsNew, Joining
<1>9. job'[t]["stop"] = "none" /\ job'[t]["finalize"] = "none" /\ job'[t]["ttl"] = "none"
  BY <1>1, <1>6, RoleNames DEF Shape, JobFits, ProbePlaces
<1>10. OneConverts(t)' /\ Found(t)' /\ Good(t)'
  BY <1>1, <1>2, <1>6, <1>9 DEF OneConverts, Found, Good, Silent, FilePlaces
<1> QED
  BY <1>4, <1>7, <1>8, <1>10 DEF Safe

LEMMA RequestSafe ==
  ASSUME ManagerInv, NEW t \in Tasks, Shape(t), Safe(t), RequestStop(t) \/ Disconnects(t) \/ TimerFires(t)
  PROVE  Safe(t)'
BY SpawnSafe, CancelSafe DEF RequestStop, Disconnects, TimerFires

(* The spool of a session in its meeting.                                  *)
LEMMA SpoolSafe ==
  ASSUME ManagerInv, NEW t \in Tasks, Shape(t), Safe(t), Spool(t) \/ AppendLands(t)
  PROVE  Safe(t)'
<1>1. /\ UNCHANGED <<status, recorded, run, browser, sessions, finished, mp3, part, job, at>>
      /\ pcm'[t] \in {pcm[t], "some"}
  BY DEF Spool, AppendLands, allRunnerVars, storeVars, runnerVars, fileVars, ManagerInv, FilesTypeOK
<1>2. ~NotBegun(t)
  <2>1. CASE Spool(t)
    BY <2>1, TaskFacts, RoleNames DEF Spool, NotBegun, Joining, Safe, BeginsSilent, AbortPlaces
  <2>2. CASE AppendLands(t)
    BY <2>2 DEF AppendLands, Safe, BeginsSilent, Silent
  <2> QED
    BY <2>1, <2>2
<1>3. Silent(t) => t \in sessions
  <2>1. CASE Spool(t)
    BY <2>1 DEF Spool, Safe, Ears, InEngine
  <2>2. CASE AppendLands(t)
    BY <2>2 DEF AppendLands, Silent
  <2> QED
    BY <2>1, <2>2
<1>4. ~NotBegun(t)'
  BY <1>1, <1>2 DEF NotBegun
<1> QED
  BY <1>1, <1>3, <1>4
     DEF Safe, Ears, BeginsSilent, EventIsNew, BeforeStop, Stopping, OneConverts, Found, Good, Live, Silent

-----------------------------------------------------------------------------
(* While one coroutine converts, no other works on the task's files.       *)
LEMMA ConvertsAlone ==
  ASSUME NEW t \in Tasks, Shape(t), Safe(t), NEW w \in {"stop", "finalize", "ttl"},
         job[t][w] \in Converting
  PROVE  /\ ~NotBegun(t) /\ status[t] # "capturing"
         /\ at[t]["finalize"] \notin {"spawned", "drain", "append"}
         /\ Live(t) => \A v \in {"stop", "finalize", "ttl"} \ {w} : job[t][v] = "none"
<1>1. /\ w = "stop" => at[t]["finalize"] = "stop"
      /\ w = "finalize" => at[t]["finalize"] = "encode"
      /\ w = "ttl" => at[t]["ttl"] = "encode"
  BY DEF Shape, JobFits, Converting, Probing, ProbePlaces
<1>2. at[t]["ttl"] # "idle" \/ at[t]["finalize"] \in {"stop", "encode"}
  BY <1>1
<1>3. ~NotBegun(t)
  BY <1>2 DEF Safe, BeginsSilent
<1>4. at[t]["finalize"] \notin {"spawned", "drain", "append"}
  BY <1>2 DEF Safe, BeforeStop, Stopping
<1>5. ASSUME Live(t), NEW v \in {"stop", "finalize", "ttl"} \ {w}
      PROVE  job[t][v] = "none"
  <2>1. CASE w = "ttl"
    BY <1>1, <1>5, <2>1 DEF Safe, OneConverts, Shape, JobFits, ProbePlaces
  <2>2. CASE w # "ttl"
    BY <1>1, <1>5, <2>2 DEF Safe, Stopping, Shape, JobFits, ProbePlaces
  <2> QED
    BY <2>1, <2>2
<1>6. status[t] # "capturing"
  <2>1. CASE w = "ttl"
    BY <1>1, <2>1 DEF Safe, BeforeStop
  <2>2. CASE w # "ttl"
    BY <1>1, <1>5, <2>2 DEF Safe, Stopping, Live
  <2> QED
    BY <2>1, <2>2
<1> QED
  BY <1>3, <1>4, <1>5, <1>6

LEMMA WriterSafe ==
  ASSUME ManagerInv, NEW t \in Tasks, Shape(t), Safe(t), NEW w \in Writers, WriterStep(t, w)
  PROVE  Safe(t)'
<1> USE DEF ManagerInv, FilesTypeOK
<1>1. /\ UNCHANGED <<status, recorded, run, browser, sessions, finished, pcm, append, at>>
      /\ job[t][w] \in {"submitted", "encoding"}
  BY DEF WriterStep, EncodeBegins, EncodeFinishes, EncodeFails, allRunnerVars, storeVars, runnerVars
<1>2. w \in {"stop", "finalize", "ttl"} /\ job[t][w] \in Converting /\ Awaited(t, w)
  BY <1>1, ThreadView DEF Converting
<1>3. \/ job[t][w] = "submitted" /\ pcm[t] = "some" /\ part'[t] = w /\ mp3'[t] = mp3[t] /\ job'[t][w] = "encoding"
      \/ job[t][w] = "submitted" /\ pcm[t] = "none" /\ mp3'[t] = mp3[t] /\ job'[t][w] = "valerr"
      \/ job[t][w] = "encoding" /\ part[t] = w /\ mp3'[t] = "full" /\ job'[t][w] = "encoded"
      \/ job[t][w] = "encoding" /\ part[t] # w
      \/ job[t][w] = "encoding" /\ (mp3[t] # w => mp3'[t] = mp3[t]) /\ job'[t][w] = "valerr"
  <2>1. CASE EncodeBegins(t, w)
    BY <1>2, <2>1 DEF EncodeBegins, SetJob, Return
  <2>2. CASE EncodeFinishes(t, w)
    BY <1>2, <2>2 DEF EncodeFinishes, SetJob, Return
  <2>3. CASE EncodeFails(t, w)
    BY <1>2, <2>3 DEF EncodeFails, SetJob, Return
  <2> QED
    BY <2>1, <2>2, <2>3 DEF WriterStep
<1>4. \A v \in Writers : v # w => job'[t][v] = job[t][v]
  BY DEF WriterStep, EncodeBegins, EncodeFinishes, EncodeFails, SetJob, Return
<1>5. /\ ~NotBegun(t) /\ status[t] # "capturing"
      /\ at[t]["finalize"] \notin {"spawned", "drain", "append"}
      /\ Live(t) => \A v \in {"stop", "finalize", "ttl"} \ {w} : job[t][v] = "none"
  BY <1>2, ConvertsAlone
<1>6. ~NotBegun(t)'
  BY <1>1, <1>5 DEF NotBegun
<1>7. Ears(t)' /\ BeginsSilent(t)' /\ EventIsNew(t)' /\ BeforeStop(t)' /\ Stopping(t)'
  BY <1>1, <1>5, <1>6 DEF Safe, Ears, BeginsSilent, EventIsNew, BeforeStop, Stopping, Live
<1>8. CASE ~Live(t)
  BY <1>1, <1>7, <1>8 DEF Safe, OneConverts, Found, Good, Live
<1>9. CASE Live(t)
  <2>1. mp3[t] = "none" /\ pcm[t] = "some" /\ (job[t][w] = "encoding" => part[t] = w)
    BY <1>1, <1>2, <1>9 DEF Safe, OneConverts
  <2>2. mp3[t] # w
    BY <2>1, WritersAreNamed
  <2>3. mp3'[t] \in {"none", "full"}
    BY <1>3, <2>1, <2>2
  <2>4. \A v \in {"stop", "finalize", "ttl"} \ {w} : job'[t][v] = "none"
    BY <1>4, <1>5, <1>9, RoleNames
  <2>5. /\ job'[t][w] \in {"submitted", "encoding"} => pcm'[t] = "some" /\ mp3'[t] = "none"
        /\ job'[t][w] = "encoding" => part'[t] = w
        /\ job'[t][w] = "encoded" => mp3'[t] = "full"
        /\ job'[t][w] \notin {"partial", "oserr"}
    BY <1>1, <1>3, <2>1, <2>2
  <2>6. OneConverts(t)'
    BY <1>1, <1>9, <2>3, <2>4, <2>5 DEF Safe, OneConverts, Live
  <2>7. Found(t)' /\ Good(t)'
    BY <1>1, <1>9, <2>1 DEF Safe, Found, Good, Live
  <2> QED
    BY <1>7, <2>6, <2>7 DEF Safe
<1> QED
  BY <1>8, <1>9

LEMMA ProbeSafe ==
  ASSUME ManagerInv, NEW t \in Tasks, Shape(t), Safe(t), NEW r \in Recoverers, Probe(t, r)
  PROVE  Safe(t)'
<1>1. /\ UNCHANGED <<status, recorded, run, browser, sessions, finished, pcm, mp3, part, append, at>>
      /\ job[t][r] = "probing"
  BY DEF Probe, allRunnerVars, storeVars, runnerVars, fileVars
<1>2. /\ job'[t][r] \in {"bad", "partial", "full"}
      /\ job'[t][r] = "partial" => mp3[t] \notin {"none", "full"}
      /\ \A v \in Writers : v # r => job'[t][v] = job[t][v]
  BY RoleNames DEF Probe, SetJob, ManagerInv, FilesTypeOK
<1>3. OneConverts(t)'
  BY <1>1, <1>2, RoleNames DEF Safe, OneConverts, Live
<1> QED
  BY <1>1, <1>3
     DEF Safe, Ears, BeginsSilent, NotBegun, EventIsNew, BeforeStop, Stopping, Found, Good, Live, Silent

LEMMA ThreadSafe ==
  ASSUME ManagerInv, NEW t \in Tasks, Shape(t), Safe(t), ThreadStep(t)
  PROVE  Safe(t)'
BY WriterSafe, ProbeSafe, SpoolSafe DEF ThreadStep

-----------------------------------------------------------------------------
(* After an abort has begun, or was not needed, there is no session.       *)
LEMMA AbortView ==
  ASSUME ManagerInv, NEW t \in Tasks, Ears(t), CallAbort(t)
  PROVE  run'[t] = run[t] /\ t \notin sessions' /\ Ears(t)'
<1> USE DEF ManagerInv, Inv, TypeOK, Ears
<1>1. CASE AbortBegins(t)
  BY <1>1 DEF AbortBegins
<1>2. CASE AbortAtOnce(t)
  BY <1>2 DEF AbortAtOnce
<1>3. CASE t \notin sessions /\ UNCHANGED runnerVars
  BY <1>3 DEF runnerVars
<1> QED
  BY <1>1, <1>2, <1>3 DEF CallAbort

(* What comes of a recovery: the next await, or an end with or without an  *)
(* abort.                                                                  *)
LEMMA ProceedView ==
  ASSUME ManagerInv, NEW t \in Tasks, Ears(t), NEW r \in {"finalize", "ttl"}, NEW place, NEW j,
         Proceed(t, r, place, j)
  PROVE  /\ place # "failed" => at'[t][r] = place /\ UNCHANGED <<allRunnerVars>>
         /\ place = "encode" => (j \in [Writers -> JobState] => job'[t][r] = "submitted")
         /\ place \notin {"failed", "encode"} => (j \in [Writers -> JobState] => job'[t][r] = "probing")
         /\ place = "failed" =>
              /\ at'[t][r] \in {"idle", "abort_err"}
              /\ j \in [Writers -> JobState] => job'[t][r] = "none"
              /\ ~AfterFailure(r) => at'[t][r] = "idle" /\ UNCHANGED <<allRunnerVars>>
              /\ AfterFailure(r) => t \notin sessions'
              /\ t \notin sessions => at'[t][r] = "idle"
         /\ \A s \in Roles : s # r => at'[t][s] = at[t][s]
         /\ j \in [Writers -> JobState] => \A w \in Writers : w # r => job'[t][w] = j[w]
         /\ run'[t] = run[t] /\ recorded'[t] = recorded[t] /\ Ears(t)'
         /\ status'[t] = status[t] \/ (HasRow(t) /\ status'[t] = "error")
<1> USE RoleNames
<1>1. at[t] \in [Roles -> Place] /\ MoveTo(t, r, place, at[t], j)
  BY DEF Proceed, ManagerInv, FilesTypeOK
<1>2. /\ \A s \in Roles : s # r => at'[t][s] = at[t][s]
      /\ j \in [Writers -> JobState] => \A w \in Writers : w # r => job'[t][w] = j[w]
  BY <1>1, MoveOtherRoles, MoveOtherJobs
<1>3. /\ place # "failed" => at'[t][r] = place
      /\ place = "failed" => at'[t][r] = AbortPlace(t, r, FALSE)
  <2> DEFINE next == IF place = "failed" THEN AbortPlace(t, r, FALSE) ELSE place
  <2>1. at' = [at EXCEPT ![t] = [at[t] EXCEPT ![r] = next]]
    BY <1>1 DEF MoveTo
  <2> HIDE DEF next
  <2>2. at'[t][r] = next
    BY <2>1 DEF ManagerInv, FilesTypeOK
  <2> QED
    BY <2>2 DEF next
<1>4. /\ place = "encode" => (j \in [Writers -> JobState] => job'[t][r] = "submitted")
      /\ place \notin {"failed", "encode"} => (j \in [Writers -> JobState] => job'[t][r] = "probing")
      /\ place = "failed" => (j \in [Writers -> JobState] => job'[t][r] = "none")
  <2> DEFINE state == CASE place = "failed" -> "none"
                        [] place = "encode" -> "submitted"
                        [] OTHER -> "probing"
  <2>1. job' = [job EXCEPT ![t] = [j EXCEPT ![r] = state]]
    BY <1>1 DEF MoveTo
  <2>2. state = IF place = "failed" THEN "none" ELSE IF place = "encode" THEN "submitted" ELSE "probing"
    OBVIOUS
  <2> HIDE DEF state
  <2>3. j \in [Writers -> JobState] => job'[t][r] = state
    BY <2>1 DEF ManagerInv, FilesTypeOK
  <2> QED
    BY <2>2, <2>3
<1>5. CASE place # "failed"
  <2>1. UNCHANGED allRunnerVars
    BY <1>5 DEF Proceed, allRunnerVars
  <2>2. run'[t] = run[t] /\ recorded'[t] = recorded[t] /\ status'[t] = status[t] /\ Ears(t)'
    BY <2>1 DEF allRunnerVars, runnerVars, storeVars, Ears
  <2> QED
    BY <1>2, <1>3, <1>4, <1>5, <2>1, <2>2
<1>6. CASE place = "failed"
  <2>1. recorded'[t] = recorded[t] /\ (status'[t] = status[t] \/ (HasRow(t) /\ status'[t] = "error"))
    BY <1>6 DEF Proceed, MarkError, UpdateStatus, storeVars, ManagerInv, Inv, TypeOK, StoreTypeOK
  <2>2. CASE AfterFailure(r)
    <3>1. CallAbort(t)
      BY <1>6, <2>2 DEF Proceed, AbortIfAfterFailure
    <3>2. run'[t] = run[t] /\ t \notin sessions' /\ Ears(t)'
      BY <3>1, AbortView
    <3>3. at'[t][r] \in {"idle", "abort_err"} /\ (t \notin sessions => at'[t][r] = "idle")
      BY <1>3, <1>6 DEF AbortPlace, MustAwaitClose
    <3> QED
      BY <1>2, <1>4, <1>6, <2>1, <2>2, <3>2, <3>3
  <2>3. CASE ~AfterFailure(r)
    <3>1. r # "finalize"
      BY <2>3 DEF AfterFailure
    <3>2. UNCHANGED allRunnerVars
      BY <1>6, <2>3, <3>1 DEF Proceed, AbortIfAfterFailure, allRunnerVars
    <3>3. run'[t] = run[t] /\ Ears(t)'
      BY <3>2 DEF allRunnerVars, runnerVars, Ears
    <3>4. at'[t][r] = "idle"
      BY <1>3, <1>6, <2>3 DEF AbortPlace
    <3> QED
      BY <1>2, <1>4, <1>6, <2>1, <2>3, <3>2, <3>3, <3>4
  <2> QED
    BY <2>2, <2>3
<1> QED
  BY <1>5, <1>6

LEMMA ArtifactView ==
  ASSUME ManagerInv, NEW t \in Tasks
  PROVE  /\ ArtifactPlace(t) = "artifact" <=> mp3[t] # "none"
         /\ ArtifactPlace(t) = "encode" => mp3[t] = "none" /\ pcm[t] = "some"
         /\ ArtifactPlace(t) = "failed" <=> mp3[t] = "none" /\ pcm[t] = "none"
         /\ ArtifactPlace(t) \in {"artifact", "encode", "failed"}
         /\ mp3[t] # "none" => PcmPlace(t) \in {"artifact2", "failed"}
BY DEF ArtifactPlace, PcmPlace, ManagerInv, FilesTypeOK

(* engine.stop has failed, or the file it made.                            *)
LEMMA FailedSafe ==
  ASSUME ManagerInv, NEW t \in Tasks, Shape(t), Safe(t),
         at[t]["finalize"] \in {"spawned", "drain", "append", "stop", "validate"},
         at[t]["finalize"] = "spawned" => t \notin sessions,
         job[t]["stop"] \notin {"submitted", "encoding"},
         FinalizeFailed(t), UNCHANGED <<fileVars, append>>
  PROVE  Safe(t)'
<1> DEFINE j == Orphaned(job[t], "stop")
           place == ArtifactPlace(t)
<1>1. /\ j \in [Writers -> JobState]
      /\ \A w \in Writers : w # "stop" => j[w] = job[t][w]
      /\ j["stop"] = "none"
  BY OrphanedJobs, RoleNames DEF Orphaned
<1>2. Proceed(t, "finalize", place, j) /\ Ears(t)
  BY DEF FinalizeFailed, Safe
<1>3. /\ place = "artifact" <=> mp3[t] # "none"
      /\ place = "encode" => mp3[t] = "none" /\ pcm[t] = "some"
      /\ place = "failed" <=> mp3[t] = "none" /\ pcm[t] = "none"
      /\ place \in {"artifact", "encode", "failed"}
  BY ArtifactView
<1> HIDE DEF j, place
<1>4. /\ place # "failed" => at'[t]["finalize"] = place /\ UNCHANGED <<allRunnerVars>>
      /\ place = "encode" => job'[t]["finalize"] = "submitted"
      /\ place \notin {"failed", "encode"} => job'[t]["finalize"] = "probing"
      /\ place = "failed" =>
           /\ at'[t]["finalize"] \in {"idle", "abort_err"}
           /\ job'[t]["finalize"] = "none"
           /\ t \notin sessions => at'[t]["finalize"] = "idle"
      /\ \A s \in Roles : s # "finalize" => at'[t][s] = at[t][s]
      /\ \A w \in Writers : w # "finalize" => job'[t][w] = j[w]
      /\ run'[t] = run[t] /\ recorded'[t] = recorded[t] /\ Ears(t)'
      /\ status'[t] = status[t] \/ (HasRow(t) /\ status'[t] = "error")
  BY <1>1, <1>2, ProceedView
<1>5. /\ at'[t]["client"] = at[t]["client"] /\ at'[t]["ttl"] = at[t]["ttl"]
      /\ job'[t]["ttl"] = job[t]["ttl"] /\ job'[t]["stop"] = "none"
      /\ UNCHANGED <<pcm, mp3, part, append>>
  BY <1>1, <1>4, RoleNames DEF fileVars
<1>6. /\ run[t] \in {"capture", "closing", "done"} /\ status[t] # "capturing"
      /\ status'[t] # "capturing"
      /\ Live(t)' <=> Live(t)
  BY <1>4, TaskFacts DEF HasRow, Live
<1>7. at'[t]["finalize"] \in {"idle", "abort_err", "artifact", "encode"}
  BY <1>3, <1>4
<1>8. BeginsSilent(t)'
  <2>1. NotBegun(t)' <=> NotBegun(t)
    BY <1>4, <1>5 DEF NotBegun
  <2>2. CASE NotBegun(t)
    <3>1. Silent(t) /\ at[t]["finalize"] = "spawned" /\ at[t]["ttl"] = "idle" /\ place = "failed"
      BY <1>3, <2>2 DEF Safe, BeginsSilent, Silent
    <3> QED
      BY <1>4, <1>5, <3>1 DEF Safe, BeginsSilent, Silent
  <2> QED
    BY <1>5, <2>1, <2>2 DEF Safe, BeginsSilent
<1>9. EventIsNew(t)' /\ BeforeStop(t)'
  BY <1>4, <1>6, <1>7 DEF EventIsNew, BeforeStop, Joining
<1>10. Stopping(t)'
  <2>1. SUFFICES ASSUME Live(t), place = "encode"
                 PROVE  Stopping(t)'
    BY <1>3, <1>4, <1>6, <1>7 DEF Stopping
  <2>2. at[t]["finalize"] # "spawned" /\ at[t]["finalize"] # "validate"
    BY <1>3, <2>1 DEF Safe, BeforeStop, Silent, Found
  <2>3. t \in sessions /\ t \notin finished /\ status[t] = "finalizing" /\ at[t]["ttl"] = "idle"
    BY <2>2 DEF Safe, Stopping
  <2>4. UNCHANGED <<sessions, finished, status>>
    BY <1>4, <2>1 DEF allRunnerVars, runnerVars, storeVars
  <2> QED
    BY <1>4, <1>5, <2>1, <2>3, <2>4 DEF Stopping
<1>11. OneConverts(t)'
  <2>1. SUFFICES ASSUME Live(t)
                 PROVE  OneConverts(t)'
    BY <1>6 DEF OneConverts
  <2>2. at[t]["ttl"] # "encode" /\ mp3[t] \in {"none", "full"}
    BY <2>1 DEF Safe, OneConverts
  <2>3. job[t]["ttl"] \notin Converting
    BY <2>2 DEF Shape, JobFits, Converting, Probing, ProbePlaces
  <2>4. job[t]["ttl"] # "partial"
    BY <2>1 DEF Safe, OneConverts
  <2> QED
    BY <1>3, <1>4, <1>5, <2>2, <2>3, <2>4 DEF OneConverts, Converting
<1>12. Found(t)'
  <2>1. SUFFICES ASSUME Live(t)
                 PROVE  Found(t)'
    BY <1>6 DEF Found
  <2>2. mp3[t] \in {"none", "full"}
    BY <2>1 DEF Safe, OneConverts
  <2> QED
    BY <1>3, <1>4, <1>5, <1>7, <2>1, <2>2 DEF Safe, Found, FilePlaces
<1>13. Good(t)'
  BY <1>4, <1>5 DEF Safe, Good
<1> QED
  BY <1>4, <1>8, <1>9, <1>10, <1>11, <1>12, <1>13 DEF Safe

(* engine.stop: the timer is cancelled, the page is drained.               *)
LEMMA StartsSafe ==
  ASSUME ManagerInv, NEW t \in Tasks, Shape(t), Safe(t), at[t]["finalize"] = "spawned", StopBegins(t),
         Goto(t, "finalize", "drain"), UNCHANGED <<storeVars, job, fileVars, append>>
  PROVE  Safe(t)'
<1>1. /\ at'[t]["finalize"] = "drain"
      /\ \A r \in Roles : r # "finalize" => at'[t][r] = at[t][r]
      /\ UNCHANGED <<status, recorded, run, browser, sessions, finished, pcm, mp3, part, append, job>>
      /\ t \in sessions
  BY RoleNames DEF Goto, StopBegins, storeVars, fileVars, ManagerInv, FilesTypeOK
<1>2. /\ mp3[t] = "none" /\ at[t]["ttl"] = "idle" /\ status[t] = "finalizing" /\ t \notin finished
      /\ run[t] \notin {"none", "waiting", "failing"} \cup Joining
  BY <1>1, TaskFacts DEF Safe, BeforeStop, EventIsNew, Joining
<1>3. at[t]["client"] = "idle"
  BY <1>1, TaskFacts, RoleNames DEF Safe, BeginsSilent, AbortPlaces
<1>4. at'[t]["client"] = "idle" /\ at'[t]["ttl"] = "idle"
  BY <1>1, <1>2, <1>3, RoleNames
<1>5. Ears(t)' /\ BeginsSilent(t)' /\ EventIsNew(t)' /\ BeforeStop(t)' /\ Stopping(t)'
  BY <1>1, <1>2, <1>4 DEF Safe, Ears, BeginsSilent, NotBegun, EventIsNew, BeforeStop, Stopping
<1>6. OneConverts(t)' /\ Found(t)' /\ Good(t)'
  BY <1>1, <1>2, <1>4 DEF Safe, OneConverts, Found, Good, FilePlaces, Live
<1> QED
  BY <1>5, <1>6 DEF Safe

(* engine.stop from an await to the next.                                  *)
LEMMA StopGoesOnSafe ==
  ASSUME ManagerInv, NEW t \in Tasks, Shape(t), Safe(t), at[t]["finalize"] \in {"drain", "append"},
         NEW place \in {"append", "stop"}, Goto(t, "finalize", place),
         place = "append" => job' = job,
         place = "stop" => SetJob(t, "stop", "submitted") /\ pcm[t] = "some",
         UNCHANGED <<allRunnerVars, fileVars>>
  PROVE  Safe(t)'
<1>1. /\ at'[t]["finalize"] = place
      /\ \A r \in Roles : r # "finalize" => at'[t][r] = at[t][r]
      /\ UNCHANGED <<status, recorded, run, browser, sessions, finished, pcm, mp3, part>>
  BY RoleNames DEF Goto, allRunnerVars, runnerVars, storeVars, fileVars, ManagerInv, FilesTypeOK
<1>2. /\ mp3[t] = "none" /\ at[t]["ttl"] = "idle" /\ status[t] = "finalizing"
      /\ t \notin finished /\ t \in sessions
  BY DEF Safe, Stopping
<1>3. ~NotBegun(t)
  BY DEF Safe, BeginsSilent
<1>4. at'[t]["client"] = at[t]["client"] /\ at'[t]["ttl"] = "idle"
  BY <1>1, <1>2, RoleNames
<1>5. Ears(t)' /\ BeginsSilent(t)' /\ EventIsNew(t)' /\ BeforeStop(t)' /\ Stopping(t)'
  BY <1>1, <1>2, <1>3, <1>4 DEF Safe, Ears, BeginsSilent, NotBegun, EventIsNew, BeforeStop, Stopping
<1>6. job[t]["stop"] = "none" /\ job[t]["finalize"] = "none" /\ job[t]["ttl"] = "none"
  BY <1>2 DEF Shape, JobFits, ProbePlaces
<1>7. /\ job'[t]["finalize"] = "none" /\ job'[t]["ttl"] = "none"
      /\ job'[t]["stop"] = "none" \/ (job'[t]["stop"] = "submitted" /\ pcm[t] = "some")
  BY <1>6, RoleNames DEF SetJob, ManagerInv, FilesTypeOK
<1>8. OneConverts(t)' /\ Found(t)' /\ Good(t)'
  BY <1>1, <1>2, <1>4, <1>7 DEF OneConverts, Found, Good, FilePlaces
<1> QED
  BY <1>5, <1>8 DEF Safe

(* engine.stop returns, and the event is set.                              *)
LEMMA StoppedSafe ==
  ASSUME ManagerInv, NEW t \in Tasks, Shape(t), Safe(t), at[t]["finalize"] = "stop",
         job[t]["stop"] = "encoded", pcm' = [pcm EXCEPT ![t] = "none"], StopReturns(t),
         MoveTo(t, "finalize", "validate", at[t], Orphaned(job[t], "stop")),
         UNCHANGED <<storeVars, mp3, part, append>>
  PROVE  Safe(t)'
<1> DEFINE j == Orphaned(job[t], "stop")
<1>1. j \in [Writers -> JobState] /\ j["stop"] = "none" /\ \A w \in Writers : w # "stop" => j[w] = job[t][w]
  BY OrphanedJobs, RoleNames DEF Orphaned
<1>2. MoveTo(t, "finalize", "validate", at[t], j)
  OBVIOUS
<1> HIDE DEF j
<1>3. at[t] \in [Roles -> Place] /\ "finalize" \in Recoverers /\ "validate" \notin {"failed", "encode"}
  BY RoleNames DEF ManagerInv, FilesTypeOK
<1>4. at'[t]["finalize"] = "validate" /\ job'[t]["finalize"] = "probing"
  BY <1>1, <1>2, <1>3, MoveView
<1>5. \A s \in Roles : s # "finalize" => at'[t][s] = at[t][s]
  BY <1>2, <1>3, MoveOtherRoles
<1>6. \A w \in Writers : w # "finalize" => job'[t][w] = j[w]
  BY <1>1, <1>2, <1>3, MoveOtherJobs
<1>7. /\ UNCHANGED <<status, recorded, run, browser, sessions, mp3, part, append>>
      /\ pcm'[t] = "none"
  BY DEF StopReturns, storeVars, ManagerInv, FilesTypeOK
<1>8. /\ at[t]["ttl"] = "idle" /\ status[t] = "finalizing" /\ t \in sessions /\ ~NotBegun(t)
      /\ Live(t) => mp3[t] = "full"
      /\ run[t] \in {"capture", "closing", "done"}
  BY TaskFacts DEF Safe, Stopping, BeginsSilent, OneConverts
<1>9. at'[t]["client"] = at[t]["client"] /\ at'[t]["ttl"] = "idle"
  BY <1>5, <1>8, RoleNames
<1>10. Ears(t)' /\ BeginsSilent(t)' /\ EventIsNew(t)' /\ BeforeStop(t)' /\ Stopping(t)'
  BY <1>4, <1>7, <1>8, <1>9 DEF Safe, Ears, BeginsSilent, NotBegun, EventIsNew, BeforeStop, Stopping, Joining
<1>11. job[t]["ttl"] = "none" /\ job'[t]["ttl"] = "none" /\ job'[t]["stop"] = "none"
  BY <1>1, <1>6, <1>8, RoleNames DEF Shape, JobFits, ProbePlaces
<1>12. OneConverts(t)' /\ Found(t)' /\ Good(t)'
  BY <1>4, <1>7, <1>8, <1>9, <1>11 DEF OneConverts, Found, Good, Live
<1> QED
  BY <1>10, <1>12 DEF Safe

(* _finalize has found its file good.                                      *)
LEMMA ValidatedSafe ==
  ASSUME ManagerInv, NEW t \in Tasks, Shape(t), Safe(t), at[t]["finalize"] = "validate",
         job[t]["finalize"] \in {"partial", "full"}, MarkSuccess(t, job[t]["finalize"]),
         Goto(t, "finalize", "idle"), SetJob(t, "finalize", "none"), UNCHANGED <<runnerVars, fileVars, append>>
  PROVE  Safe(t)'
<1>1. /\ at'[t]["finalize"] = "idle"
      /\ \A r \in Roles : r # "finalize" => at'[t][r] = at[t][r]
      /\ job'[t]["finalize"] = "none"
      /\ \A w \in Writers : w # "finalize" => job'[t][w] = job[t][w]
      /\ UNCHANGED <<run, browser, sessions, finished, pcm, mp3, part, append>>
  BY RoleNames DEF Goto, SetJob, runnerVars, fileVars, ManagerInv, FilesTypeOK
<1>2. \/ status'[t] = "success" /\ recorded'[t] = job[t]["finalize"] /\ Live(t)
      \/ status'[t] = status[t] /\ status[t] = "purged"
  BY TaskFacts DEF MarkSuccess, HasRow, Admitted, Live, ManagerInv, Inv, TypeOK, StoreTypeOK
<1>3. Live(t) => mp3[t] = "full" /\ job[t]["finalize"] = "full"
  BY RoleNames DEF Safe, Found, OneConverts
<1>4. ~NotBegun(t) /\ run[t] \in {"capture", "closing", "done"}
  BY TaskFacts DEF Safe, BeginsSilent
<1>5. at'[t]["client"] = at[t]["client"] /\ at'[t]["ttl"] = at[t]["ttl"]
  BY <1>1, RoleNames
<1>6. Ears(t)' /\ BeginsSilent(t)' /\ EventIsNew(t)' /\ BeforeStop(t)' /\ Stopping(t)'
  BY <1>1, <1>2, <1>4, <1>5 DEF Safe, Ears, BeginsSilent, NotBegun, EventIsNew, BeforeStop, Stopping, Joining
<1>7. Live(t)' => Live(t)
  BY <1>2 DEF Live
<1>8. OneConverts(t)' /\ Found(t)' /\ Good(t)'
  BY <1>1, <1>2, <1>3, <1>5, <1>7, RoleNames DEF Safe, OneConverts, Found, Good, FilePlaces, Live
<1> QED
  BY <1>6, <1>8 DEF Safe

LEMMA FinalizeSafe ==
  ASSUME Undisturbed, ManagerInv, NEW t \in Tasks, Shape(t), Safe(t), FinalizeStep(t) \/ FinalizeTimesOut(t)
  PROVE  Safe(t)'
<1>1. at[t]["finalize"] # "stop" => job[t]["stop"] = "none"
  BY DEF Shape, JobFits
<1>2. ASSUME at[t]["finalize"] \in {"drain", "append"}, ConvertOrFail(t), UNCHANGED <<fileVars, append>>
      PROVE  Safe(t)'
  BY <1>1, <1>2, FailedSafe, StopGoesOnSafe DEF ConvertOrFail
<1>3. CASE FinalizeStarts(t)
  BY <1>1, <1>3, StartsSafe, FailedSafe DEF FinalizeStarts, StopBegins
<1>4. CASE Drained(t) \/ Appended(t)
  BY <1>2, <1>4, StopGoesOnSafe DEF Drained, Appended
<1>5. CASE Stopped(t)
  <2>1. CASE FinalizeFailed(t) /\ job[t]["stop"] \in {"valerr", "oserr"} /\ pcm' = pcm
    BY <1>5, <2>1, FailedSafe DEF Stopped, fileVars
  <2>2. CASE job[t]["stop"] = "encoded" /\ StopReturns(t)
    BY <1>5, <2>2, StoppedSafe DEF Stopped
  <2> QED
    BY <1>5, <2>1, <2>2 DEF Stopped
<1>6. CASE Validated(t)
  BY <1>1, <1>6, ValidatedSafe, FailedSafe DEF Validated
<1>7. CASE FinalizeTimesOut(t)
  <2>1. at[t]["finalize"] \in {"drain", "append"}
    BY <1>7, ScenarioAssumption DEF FinalizeTimesOut, Undisturbed
  <2> QED
    BY <1>1, <1>7, <2>1, FailedSafe DEF FinalizeTimesOut
<1> QED
  BY <1>3, <1>4, <1>5, <1>6, <1>7 DEF FinalizeStep

-----------------------------------------------------------------------------
(* Who recovers a task is past the stop, and the other one converts not.   *)
LEMMA RecovererAlone ==
  ASSUME ManagerInv, NEW t \in Tasks, Shape(t), Safe(t), NEW r \in {"finalize", "ttl"},
         at[t][r] \in {"artifact", "artifact2", "check", "encode"}
  PROVE  /\ ~NotBegun(t) /\ status[t] # "capturing"
         /\ run[t] \notin {"none", "waiting", "failing"} \cup Joining
         /\ at[t]["finalize"] \notin {"spawned", "drain", "append", "stop"}
         /\ job[t]["stop"] = "none"
         /\ r = "ttl" /\ Live(t) => at[t]["finalize"] # "encode"
         /\ r = "finalize" /\ Live(t) => at[t]["ttl"] # "encode"
         /\ Admitted(t)
<1>1. ~NotBegun(t) /\ run[t] \notin {"none", "waiting", "failing"} \cup Joining
  BY DEF Safe, BeginsSilent, NotBegun
<1>2. status[t] # "capturing" /\ at[t]["finalize"] \notin {"spawned", "drain", "append", "stop"}
  BY TaskFacts DEF Safe, BeforeStop, Stopping
<1>3. job[t]["stop"] = "none"
  BY <1>2 DEF Shape, JobFits
<1>4. /\ r = "ttl" /\ Live(t) => at[t]["finalize"] # "encode"
      /\ r = "finalize" /\ Live(t) => at[t]["ttl"] # "encode"
  BY DEF Safe, Stopping, OneConverts
<1>5. Admitted(t)
  BY BusyTask, RoleNames
<1> QED
  BY <1>1, <1>2, <1>3, <1>4, <1>5

(* What every step of a recovery has in common.                            *)
LEMMA RecoveredSafe ==
  ASSUME ManagerInv, NEW t \in Tasks, Shape(t), Safe(t), NEW r \in {"finalize", "ttl"},
         at[t][r] \in {"artifact", "artifact2", "check", "encode"},
         at'[t][r] \in {"idle", "abort_ok", "abort_err", "artifact2", "check", "encode"},
         \A s \in Roles : s # r => at'[t][s] = at[t][s],
         Live(t) => /\ at'[t][r] # "encode" /\ job'[t][r] \in {"none", "probing"}
                    /\ at'[t][r] \in FilePlaces => mp3[t] = "full",
         \A w \in Writers : w # r => job'[t][w] = job[t][w],
         run'[t] = run[t], Ears(t)', mp3'[t] = mp3[t], part'[t] = part[t],
         status[t] = "purged" => status'[t] = "purged", status'[t] # "capturing",
         Good(t)'
  PROVE  Safe(t)'
<1>1. /\ ~NotBegun(t) /\ status[t] # "capturing"
      /\ run[t] \notin {"none", "waiting", "failing"} \cup Joining
      /\ at[t]["finalize"] \notin {"spawned", "drain", "append", "stop"}
      /\ job[t]["stop"] = "none"
      /\ r = "ttl" /\ Live(t) => at[t]["finalize"] # "encode"
      /\ r = "finalize" /\ Live(t) => at[t]["ttl"] # "encode"
  BY RecovererAlone
<1>2. Live(t)' => Live(t)
  BY DEF Live
<1>3. /\ at'[t]["client"] = at[t]["client"]
      /\ r = "finalize" => at'[t]["ttl"] = at[t]["ttl"]
      /\ r = "ttl" => at'[t]["finalize"] = at[t]["finalize"]
  BY RoleNames
<1>4. ~NotBegun(t)' /\ at'[t]["finalize"] \notin {"spawned", "drain", "append", "stop"}
  BY <1>1, <1>3 DEF NotBegun
<1>5. BeginsSilent(t)' /\ EventIsNew(t)' /\ BeforeStop(t)'
  BY <1>1, <1>3, <1>4 DEF Safe, BeginsSilent, EventIsNew, BeforeStop
<1>6. Live(t)' => at'[t]["finalize"] # "encode" /\ at'[t]["ttl"] # "encode"
  BY <1>1, <1>2, <1>3
<1>7. Stopping(t)'
  BY <1>4, <1>6 DEF Stopping
<1>8. ASSUME Live(t)'
      PROVE  OneConverts(t)' /\ Found(t)'
  <2>1. Live(t)
    BY <1>2, <1>8
  <2>2. mp3'[t] \in {"none", "full"}
    BY <2>1 DEF Safe, OneConverts
  <2>3. job'[t]["stop"] = "none"
    BY <1>1, RoleNames
  <2>4. ASSUME NEW s \in {"finalize", "ttl"}
        PROVE  job'[t][s] \notin Converting \cup {"partial"}
    <3>1. CASE s = r
      BY <2>1, <3>1 DEF Converting
    <3>2. CASE s # r
      <4>1. job'[t][s] = job[t][s]
        BY <3>2, RoleNames
      <4>2. at[t][s] # "encode"
        BY <1>1, <2>1, <3>2
      <4> QED
        BY <2>1, <4>1, <4>2 DEF Safe, OneConverts, Shape, JobFits, Converting, Probing, ProbePlaces
    <3> QED
      BY <3>1, <3>2
  <2>5. OneConverts(t)'
    BY <1>6, <1>8, <2>2, <2>3, <2>4 DEF OneConverts, Converting
  <2>6. Found(t)'
    <3>1. CASE at[t]["finalize"] \in FilePlaces \cup {"validate"} \/ at[t]["ttl"] \in FilePlaces
      BY <2>1, <3>1 DEF Safe, Found
    <3>2. CASE ~(at[t]["finalize"] \in FilePlaces \cup {"validate"} \/ at[t]["ttl"] \in FilePlaces)
      BY <1>3, <2>1, <3>2 DEF Found
    <3> QED
      BY <3>1, <3>2
  <2> QED
    BY <2>5, <2>6
<1>9. OneConverts(t)' /\ Found(t)'
  BY <1>8 DEF OneConverts, Found
<1> QED
  BY <1>5, <1>7, <1>9 DEF Safe

LEMMA AcceptedSafe ==
  ASSUME ManagerInv, NEW t \in Tasks, Shape(t), Safe(t), NEW r \in {"finalize", "ttl"}, Accepted(t, r)
  PROVE  Safe(t)'
<1>1. /\ at'[t][r] = AbortPlace(t, r, TRUE)
      /\ \A s \in Roles : s # r => at'[t][s] = at[t][s]
      /\ job'[t][r] = "none"
      /\ \A w \in Writers : w # r => job'[t][w] = job[t][w]
      /\ UNCHANGED <<pcm, mp3, part, append>>
  <2>1. Goto(t, r, AbortPlace(t, r, TRUE)) /\ SetJob(t, r, "none") /\ UNCHANGED <<pcm, mp3, part, append>>
    BY DEF Accepted, fileVars
  <2>2. /\ at'[t][r] = AbortPlace(t, r, TRUE)
        /\ \A s \in Roles : s # r => at'[t][s] = at[t][s]
    BY <2>1, RoleNames DEF Goto, ManagerInv, FilesTypeOK
  <2>3. /\ job'[t][r] = "none"
        /\ \A w \in Writers : w # r => job'[t][w] = job[t][w]
    BY <2>1, RoleNames DEF SetJob, ManagerInv, FilesTypeOK
  <2> QED
    BY <2>1, <2>2, <2>3
<1>2. AbortPlace(t, r, TRUE) \in {"idle", "abort_ok"}
  BY DEF AbortPlace
<1>3. run'[t] = run[t] /\ Ears(t)'
  BY AbortView DEF Accepted, AbortIfAfterFailure, runnerVars, Safe, Ears
<1>4. at[t][r] \in {"artifact", "artifact2", "check"} /\ Admitted(t)
  BY RecovererAlone DEF Accepted
<1>5. Live(t) => mp3[t] = "full" /\ job[t][r] = "full"
  BY <1>4, RoleNames DEF Accepted, Safe, Found, FilePlaces, OneConverts
<1>6. \/ status'[t] = "success" /\ recorded'[t] = job[t][r] /\ Live(t)
      \/ status'[t] = status[t] /\ status[t] = "purged"
  BY <1>4 DEF Accepted, MarkSuccess, HasRow, Admitted, Live, ManagerInv, Inv, TypeOK, StoreTypeOK
<1>7. Good(t)'
  BY <1>1, <1>5, <1>6 DEF Good
<1> QED
  BY <1>1, <1>2, <1>3, <1>4, <1>5, <1>6, <1>7, RecoveredSafe DEF Live

(* The next attempt, or none.                                              *)
LEMMA ProceedSafe ==
  ASSUME ManagerInv, NEW t \in Tasks, Shape(t), Safe(t), NEW r \in {"finalize", "ttl"},
         at[t][r] \in {"artifact", "artifact2", "check", "encode"},
         NEW place \in {"failed", "artifact2", "check", "encode"}, Proceed(t, r, place, job[t]),
         Live(t) => place # "encode" /\ (place # "failed" => mp3[t] = "full"),
         UNCHANGED <<mp3, part>>
  PROVE  Safe(t)'
<1>1. Ears(t) /\ job[t] \in [Writers -> JobState]
  BY OrphanedJobs DEF Safe
<1> DEFINE j == job[t]
<1>2. Proceed(t, r, place, j) /\ j \in [Writers -> JobState]
  BY <1>1
<1> HIDE DEF j
<1>3. /\ place # "failed" => at'[t][r] = place
      /\ place \notin {"failed", "encode"} => job'[t][r] = "probing"
      /\ place = "failed" => at'[t][r] \in {"idle", "abort_err"} /\ job'[t][r] = "none"
      /\ \A s \in Roles : s # r => at'[t][s] = at[t][s]
      /\ \A w \in Writers : w # r => job'[t][w] = j[w]
      /\ run'[t] = run[t] /\ recorded'[t] = recorded[t] /\ Ears(t)'
      /\ status'[t] = status[t] \/ (HasRow(t) /\ status'[t] = "error")
  BY <1>1, <1>2, ProceedView
<1>4. status'[t] # "capturing"
  BY <1>3, RecovererAlone
<1>5. Good(t)'
  BY <1>3 DEF Safe, Good
<1>6. status[t] = "purged" => status'[t] = "purged"
  BY <1>3 DEF HasRow
<1>7. /\ at'[t][r] \in {"idle", "abort_err", "artifact2", "check", "encode"}
      /\ Live(t) => /\ at'[t][r] # "encode" /\ job'[t][r] \in {"none", "probing"}
                    /\ at'[t][r] \in FilePlaces => mp3[t] = "full"
  BY <1>3 DEF FilePlaces
<1>8. \A w \in Writers : w # r => job'[t][w] = job[t][w]
  BY <1>3 DEF j
<1> QED
  BY <1>3, <1>4, <1>5, <1>6, <1>7, <1>8, RecoveredSafe

LEMMA PartFileGoneSafe ==
  ASSUME ManagerInv, NEW t \in Tasks, Shape(t), Safe(t), NEW r \in {"finalize", "ttl"}, PartFileGone(t, r)
  PROVE  Safe(t)'
<1>1. /\ at[t][r] = "encode" /\ job[t][r] = "oserr"
      /\ at'[t][r] = "idle" /\ job'[t][r] = "none"
      /\ \A s \in Roles : s # r => at'[t][s] = at[t][s]
      /\ \A w \in Writers : w # r => job'[t][w] = job[t][w]
      /\ UNCHANGED <<status, recorded, run, browser, sessions, finished, mp3, part>>
  BY RoleNames
     DEF PartFileGone, Goto, SetJob, allRunnerVars, storeVars, runnerVars, fileVars, ManagerInv, FilesTypeOK
<1>2. ~Live(t) /\ status[t] # "capturing"
  BY <1>1, RecovererAlone DEF Safe, OneConverts
<1>3. Ears(t)' /\ Good(t)'
  BY <1>1 DEF Safe, Ears, Good
<1> QED
  BY <1>1, <1>2, <1>3, RecoveredSafe

LEMMA RecoverySafe ==
  ASSUME ManagerInv, NEW t \in Tasks, Shape(t), Safe(t), NEW r \in Recoverers, RecoveryStep(t, r)
  PROVE  Safe(t)'
<1>1. r \in {"finalize", "ttl"}
  BY RecoveryShape
<1>2. CASE Rejected(t, r)
  <2>1. UNCHANGED <<mp3, part>>
    BY <1>2 DEF Rejected, fileVars
  <2>2. CASE at[t][r] = "artifact" /\ Proceed(t, r, PcmPlace(t), job[t])
    <3> DEFINE place == PcmPlace(t)
    <3>1. place \in {"failed", "artifact2", "check", "encode"} /\ (mp3[t] # "none" => place # "encode")
      BY DEF PcmPlace
    <3>2. Live(t) => mp3[t] = "full"
      BY <1>1, <2>2 DEF Safe, Found, FilePlaces
    <3>3. Proceed(t, r, place, job[t])
      BY <2>2
    <3> HIDE DEF place
    <3> QED
      BY <1>1, <2>1, <2>2, <3>1, <3>2, <3>3, ProceedSafe
  <2>3. CASE at[t][r] \in {"artifact2", "check"} /\ Proceed(t, r, "failed", job[t])
    BY <1>1, <2>1, <2>3, ProceedSafe
  <2> QED
    BY <1>2, <2>2, <2>3 DEF Rejected
<1>3. CASE Converted(t, r)
  <2>1. at[t][r] = "encode" /\ UNCHANGED <<mp3, part>>
    BY <1>3 DEF Converted
  <2>2. CASE job[t][r] = "encoded" /\ Proceed(t, r, "check", job[t])
    <3>1. Live(t) => mp3[t] = "full"
      BY <1>1, <2>2 DEF Safe, OneConverts
    <3> QED
      BY <1>1, <2>1, <2>2, <3>1, ProceedSafe
  <2>3. CASE Proceed(t, r, "failed", job[t])
    BY <1>1, <2>1, <2>3, ProceedSafe
  <2> QED
    BY <1>3, <2>2, <2>3 DEF Converted
<1> QED
  BY <1>1, <1>2, <1>3, AcceptedSafe, PartFileGoneSafe DEF RecoveryStep

(* abort_session has returned, to whoever awaits it.                       *)
LEMMA AbortDoneSafe ==
  ASSUME ManagerInv, NEW t \in Tasks, Shape(t), Safe(t), NEW r \in Roles, AbortDone(t, r)
  PROVE  Safe(t)'
<1>1. /\ r \in {"finalize", "ttl", "client"} /\ at[t][r] \in AbortPlaces
      /\ r # "client" => UNCHANGED <<pcm, mp3>>
      /\ r = "client" => RemoveFiles(t) /\ MarkCanceled(t)
      /\ UNCHANGED <<part, job, append, run, sessions>> \/ (r = "client" /\ UNCHANGED <<job, append, run, sessions>>)
  BY DEF AbortDone, AbortReturns, AbortPlaces, fileVars, threadVars
<1>2. /\ at'[t][r] = "idle" /\ \A s \in Roles : s # r => at'[t][s] = at[t][s]
      /\ browser'[t] = "closed"
  BY DEF AbortDone, Goto, AbortReturns, ManagerInv, FilesTypeOK, Inv, TypeOK
<1>3. /\ run[t] \notin {"closing", "failing", "none", "waiting", "launch"} /\ t \notin sessions
      /\ Admitted(t)
  BY <1>1, TaskFacts, BusyTask DEF AbortPlaces
<1>4. /\ r = "client" => status'[t] \in {"canceled", "purged"} /\ mp3'[t] = "none" /\ pcm'[t] = "none"
      /\ r # "client" => (status'[t] = status[t] \/ status'[t] = "error") /\ recorded'[t] = recorded[t]
      /\ status[t] = "purged" => status'[t] = "purged"
  BY <1>1, <1>3
     DEF AbortDone, RemoveFiles, MarkCanceled, MarkError, UpdateStatus, HasRow, Admitted, storeVars, ManagerInv, Inv,
         TypeOK, StoreTypeOK, FilesTypeOK
<1>5. Ears(t)' /\ EventIsNew(t)'
  BY <1>1, <1>2, <1>3 DEF Ears, EventIsNew
<1>6. Live(t)' => Live(t)
  BY <1>4 DEF Live
<1>7. CASE r = "client"
  <2>1. Silent(t) /\ at[t]["ttl"] = "idle" /\ at[t]["finalize"] \in {"idle", "spawned"}
    BY <1>1, <1>7 DEF Safe, BeginsSilent, NotBegun, AbortPlaces
  <2>2. at'[t]["client"] = "idle" /\ at'[t]["ttl"] = "idle" /\ at'[t]["finalize"] = at[t]["finalize"]
    BY <1>2, <1>7, <2>1, RoleNames
  <2>3. Silent(t)'
    BY <1>1, <1>4, <1>7, <2>1 DEF Silent
  <2>4. BeginsSilent(t)' /\ BeforeStop(t)' /\ Stopping(t)'
    BY <1>1, <1>3, <2>1, <2>2, <2>3 DEF BeginsSilent, BeforeStop, Stopping, Silent
  <2>5. job'[t]["stop"] = "none" /\ job'[t]["finalize"] = "none" /\ job'[t]["ttl"] = "none"
    BY <1>1, <2>1 DEF Shape, JobFits, ProbePlaces
  <2>6. OneConverts(t)' /\ Found(t)' /\ Good(t)'
    BY <1>4, <1>7, <2>1, <2>2, <2>5 DEF OneConverts, Found, Good, FilePlaces
  <2> QED
    BY <1>5, <2>4, <2>6 DEF Safe
<1>8. CASE r \in {"finalize", "ttl"}
  <2>1. UNCHANGED <<pcm, mp3, part, append, job>> /\ r # "client"
    BY <1>1, <1>8
  <2>2. ~NotBegun(t) /\ status[t] # "capturing" /\ (r = "ttl" => at[t]["finalize"] # "spawned")
    BY <1>1, <1>8, TaskFacts DEF Safe, BeginsSilent, BeforeStop, AbortPlaces
  <2>3. /\ at'[t]["client"] = at[t]["client"]
        /\ at'[t]["ttl"] \in {at[t]["ttl"], "idle"} /\ at'[t]["finalize"] \in {at[t]["finalize"], "idle"}
        /\ at'[t]["finalize"] # "spawned"
    BY <1>2, <1>8, <2>2, RoleNames
  <2>4. ~NotBegun(t)'
    BY <1>1, <2>2, <2>3 DEF NotBegun
  <2>5. BeginsSilent(t)' /\ BeforeStop(t)'
    BY <1>4, <2>1, <2>2, <2>3, <2>4 DEF Safe, BeginsSilent, BeforeStop
  <2>6. Stopping(t)'
    BY <1>3, <1>6, <2>3 DEF Safe, Stopping
  <2>7. OneConverts(t)' /\ Found(t)' /\ Good(t)'
    BY <1>4, <1>6, <2>1, <2>3 DEF Safe, OneConverts, Found, Good, FilePlaces
  <2> QED
    BY <1>5, <2>5, <2>6, <2>7 DEF Safe
<1> QED
  BY <1>1, <1>7, <1>8

LEMMA SameSafe ==
  ASSUME NEW u, Safe(u), Same(u)
  PROVE  Safe(u)'
<1> USE DEF Same, RowSame, RunSame, WorkSame, FilesSame
<1>1. Ears(u)' /\ BeginsSilent(u)' /\ EventIsNew(u)' /\ BeforeStop(u)'
  BY DEF Safe, Ears, BeginsSilent, NotBegun, EventIsNew, BeforeStop, Silent
<1>2. Stopping(u)' /\ OneConverts(u)' /\ Found(u)' /\ Good(u)'
  BY DEF Safe, Stopping, OneConverts, Found, Good, Live
<1> QED
  BY <1>1, <1>2 DEF Safe

(* reconcile_all recovers only a task without a session.                   *)
LEMMA ReconcileSafe ==
  ASSUME ManagerInv, StartupRests, NEW t \in Tasks, Shape(t), Safe(t), NEW l \in Loops, Reconcile(l, t)
  PROVE  Safe(t)'
<1>1. l = "ttl" /\ at[t]["ttl"] = "idle" /\ loop["ttl"].phase # "nudge" /\ UNCHANGED <<fileVars, append>>
  BY ReconcileShape DEF Reconcile, LoopIdle
<1>2. CASE UNCHANGED <<allRunnerVars, at, job>>
  BY <1>1, <1>2, SameSafe, UnchangedIsSame DEF allRunnerVars, Same
<1>3. CASE t \notin sessions /\ Proceed(t, "ttl", ArtifactPlace(t), job[t])
  <2> DEFINE place == ArtifactPlace(t)
             j == job[t]
  <2>1. Ears(t) /\ j \in [Writers -> JobState] /\ Proceed(t, "ttl", place, j) /\ ~AfterFailure("ttl")
    BY <1>1, <1>3, OrphanedJobs DEF Safe, AfterFailure
  <2>2. /\ place = "artifact" <=> mp3[t] # "none"
        /\ place = "encode" => mp3[t] = "none" /\ pcm[t] = "some"
        /\ place = "failed" <=> mp3[t] = "none" /\ pcm[t] = "none"
        /\ place \in {"artifact", "encode", "failed"}
    BY ArtifactView
  <2> HIDE DEF place, j
  <2>3. /\ place # "failed" => at'[t]["ttl"] = place
        /\ place = "failed" => at'[t]["ttl"] = "idle" /\ job'[t]["ttl"] = "none"
        /\ place = "encode" => job'[t]["ttl"] = "submitted"
        /\ place \notin {"failed", "encode"} => job'[t]["ttl"] = "probing"
        /\ UNCHANGED <<allRunnerVars>>
        /\ \A s \in Roles : s # "ttl" => at'[t][s] = at[t][s]
        /\ \A w \in Writers : w # "ttl" => job'[t][w] = j[w]
    BY <2>1, ProceedView
  <2>4. /\ at'[t]["client"] = at[t]["client"] /\ at'[t]["finalize"] = at[t]["finalize"]
        /\ job'[t]["stop"] = job[t]["stop"] /\ job'[t]["finalize"] = job[t]["finalize"]
        /\ UNCHANGED <<status, recorded, run, browser, sessions, finished, pcm, mp3, part, append>>
    BY <1>1, <2>3, RoleNames DEF j, allRunnerVars, storeVars, runnerVars, fileVars
  <2>5. Silent(t) => at'[t]["ttl"] = "idle"
    BY <2>2, <2>3 DEF Silent
  <2>6. Ears(t)' /\ EventIsNew(t)' /\ BeginsSilent(t)' /\ BeforeStop(t)'
    BY <1>3, <2>4, <2>5 DEF Safe, Ears, EventIsNew, BeginsSilent, NotBegun, BeforeStop, Silent
  <2>7. at[t]["finalize"] \notin {"drain", "append", "stop"} /\ (Live(t) => at[t]["finalize"] # "encode")
    BY <1>3 DEF Safe, Stopping
  <2>8. Stopping(t)'
    BY <2>4, <2>7 DEF Stopping, Live
  <2>9. Live(t) /\ place = "encode" => at[t]["finalize"] \in {"idle", "abort_err"}
    <3>1. SUFFICES ASSUME Live(t), place = "encode"
                   PROVE  at[t]["finalize"] \in {"idle", "abort_err"}
      OBVIOUS
    <3>2. at[t]["finalize"] \notin FilePlaces \cup {"validate", "spawned"}
      BY <1>3, <2>2, <3>1 DEF Safe, Found, BeforeStop, Silent
    <3>3. at[t]["finalize"] \in Place
      BY RoleNames DEF ManagerInv, FilesTypeOK
    <3> QED
      BY <2>7, <3>1, <3>2, <3>3 DEF Place, FilePlaces
  <2>10. OneConverts(t)'
    BY <2>2, <2>3, <2>4, <2>9 DEF Safe, OneConverts, Live
  <2>11. Found(t)' /\ Good(t)'
    BY <2>2, <2>3, <2>4 DEF Safe, Found, Good, Live, OneConverts, FilePlaces
  <2> QED
    BY <2>6, <2>8, <2>10, <2>11 DEF Safe
<1> QED
  BY <1>1, <1>2, <1>3 DEF Reconcile, IsActive

(* The nudge recovers a task whose _finalize is gone.                      *)
LEMMA NudgeSafe ==
  ASSUME Undisturbed, ManagerInv, TtlInv, NEW t \in Tasks, Shape(t), Safe(t), Nudge(t)
  PROVE  Safe(t)'
<1>1. status[t] # "capturing"
  BY DEF TtlInv, NudgesNoCapture, Nudge, NudgeVisits
<1>2. /\ at'[t]["finalize"] = "idle" /\ at'[t]["client"] = at[t]["client"]
      /\ at'[t]["ttl"] = ArtifactPlace(t)
      /\ job'[t]["stop"] = "none" /\ job'[t]["finalize"] = "none"
      /\ ArtifactPlace(t) = "encode" => job'[t]["ttl"] = "submitted"
      /\ ArtifactPlace(t) # "encode" => job'[t]["ttl"] = "probing"
      /\ UNCHANGED <<status, recorded, run, browser, sessions, finished, pcm, mp3, part, append>>
      /\ pcm[t] = "some"
  BY NudgeView DEF allRunnerVars, storeVars, runnerVars, fileVars
<1>3. ~NotBegun(t) /\ ~NotBegun(t)'
  BY <1>2 DEF Safe, BeginsSilent, NotBegun, Silent
<1>4. Ears(t)' /\ EventIsNew(t)' /\ BeginsSilent(t)' /\ BeforeStop(t)' /\ Stopping(t)'
  BY <1>1, <1>2, <1>3 DEF Safe, Ears, EventIsNew, BeginsSilent, BeforeStop, Stopping
<1>5. /\ ArtifactPlace(t) = "artifact" <=> mp3[t] # "none"
      /\ ArtifactPlace(t) = "encode" => mp3[t] = "none"
      /\ ArtifactPlace(t) \in {"artifact", "encode", "failed"}
  BY ArtifactView
<1>6. OneConverts(t)' /\ Found(t)' /\ Good(t)'
  BY <1>2, <1>5 DEF Safe, OneConverts, Found, Good, Live, FilePlaces
<1> QED
  BY <1>4, <1>6 DEF Safe

LEMMA TaskStepSafe ==
  ASSUME Undisturbed, ManagerInv, TtlInv, StartupRests, NEW t \in Tasks, Shape(t), Safe(t), TaskStep(t)
  PROVE  Safe(t)'
<1>1. CASE RunnerStep(t)
  BY <1>1, RunnerSafe DEF RunnerStep
<1>2. CASE NudgeWaits(t)
  BY <1>2, SameSafe, UnchangedIsSame DEF NudgeWaits, threadVars, allRunnerVars, Same
<1>3. ~RequestDelete(t) /\ \A p \in Pollers : ~RequestState(t, p)
  BY DEF RequestDelete, RequestState, Undisturbed
<1> QED
  BY <1>1, <1>2, <1>3, SubmitSafe, RequestSafe, FinalizeSafe, SpoolSafe, RecoverySafe, AbortDoneSafe, ThreadSafe,
     NudgeSafe, ReconcileSafe
     DEF TaskStep, CoroutineStep

(* A purge takes the rows of tasks that are over, and their files.         *)
LEMMA PurgeSafe ==
  ASSUME ManagerInv, NEW u \in Tasks, Safe(u), Purge
  PROVE  Safe(u)' /\ (pcm[u] = "some" /\ pcm'[u] = "none" => status'[u] = "purged")
<1>1. PICK expired : /\ PurgeExpired(expired)
                     /\ pcm' = [t \in Tasks |-> IF t \in expired THEN "none" ELSE pcm[t]]
                     /\ mp3' = [t \in Tasks |-> IF t \in expired THEN "none" ELSE mp3[t]]
                     /\ part' = [t \in Tasks |-> IF t \in expired THEN "none" ELSE part[t]]
                     /\ UNCHANGED <<runnerVars, job, append, at>>
  BY DEF Purge, threadVars
<1>2. RunSame(u) /\ WorkSame(u) /\ append'[u] = append[u]
  BY <1>1, UnchangedIsSame
<1>3. CASE u \notin expired
  <2>1. RowSame(u) /\ pcm'[u] = pcm[u] /\ mp3'[u] = mp3[u] /\ part'[u] = part[u]
    BY <1>1, <1>3 DEF PurgeExpired, RowSame
  <2> QED
    BY <1>2, <2>1, SameSafe DEF Same, FilesSame
<1>4. CASE u \in expired
  <2>1. /\ status[u] \in TerminalStatus /\ status'[u] = "purged"
        /\ pcm'[u] = "none" /\ mp3'[u] = "none"
    BY <1>1, <1>4 DEF PurgeExpired
  <2>2. Ears(u)' /\ EventIsNew(u)' /\ BeginsSilent(u)'
    BY <1>2, <2>1
       DEF RunSame, WorkSame, Safe, Ears, EventIsNew, BeginsSilent, NotBegun, Silent, TerminalStatus
  <2>3. BeforeStop(u)' /\ Stopping(u)'
    BY <1>2, <2>1 DEF RunSame, WorkSame, Safe, BeforeStop, Stopping, Live, Silent, TerminalStatus
  <2>4. OneConverts(u)' /\ Found(u)' /\ Good(u)'
    BY <2>1 DEF OneConverts, Found, Good, Live
  <2> QED
    BY <2>1, <2>2, <2>3, <2>4 DEF Safe
<1> QED
  BY <1>3, <1>4

LEMMA OutcomeStep ==
  ASSUME Undisturbed, OutcomeInv, [ManagerNext]_vars
  PROVE  OutcomeInv'
<1>1. PastInv' /\ TtlInv'
  BY PastStep, TtlStep DEF OutcomeInv
<1>2. ShapeInv' /\ NoRestart
  BY ShapeStep DEF OutcomeInv
<1>3. ASSUME NEW u \in Tasks
      PROVE  Safe(u)'
  <2> USE DEF OutcomeInv, ShapeInv
  <2>1. ASSUME NEW t \in Tasks, TaskStep(t)
        PROVE  Safe(u)'
    <3>1. CASE u = t
      BY <2>1, <3>1, TaskStepSafe
    <3>2. CASE u # t
      BY <2>1, <3>2, TaskStepIsSame, SameSafe DEF OthersSame
    <3> QED
      BY <3>1, <3>2
  <2>2. CASE LoopsMove
    <3>1. UNCHANGED <<allRunnerVars, fileVars, threadVars, at>>
      BY <2>2 DEF LoopsMove, TtlWakes, LoopAdvances, vars, managerVars
    <3> QED
      BY <3>1, SameSafe, UnchangedIsSame DEF allRunnerVars, threadVars, Same
  <2>3. CASE Purge
    BY <2>3, PurgeSafe
  <2> QED
    BY <1>2, <2>1, <2>2, <2>3 DEF NoRestart
<1> QED
  BY <1>1, <1>2, <1>3 DEF OutcomeInv

LEMMA OutcomeInitInv == ManagerInit => OutcomeInv
<1> SUFFICES ASSUME ManagerInit
             PROVE  OutcomeInv
  OBVIOUS
<1>1. PastInv /\ TtlInv /\ ManagerInv
  BY PastInitInv, TtlInitInv, ManagerInitInv
<1>2. StartupRests
  BY DEF ManagerInit, StartupRests, Loops
<1>3. ASSUME NEW t \in Tasks
      PROVE  Shape(t) /\ Safe(t)
  <2>1. /\ \A r \in Roles : at[t][r] = "idle"
        /\ \A w \in Writers : job[t][w] = "none"
        /\ append[t] = {} /\ pcm[t] = "none" /\ mp3[t] = "none"
        /\ status[t] = "none" /\ run[t] = "none" /\ sessions = {} /\ finished = {}
    BY DEF ManagerInit, VolatileInit, Init, StoreInit, RunnerInit
  <2>2. Shape(t)
    BY <2>1, RoleNames DEF Shape, RestIdle, JobFits, ProbePlaces
  <2>3. /\ at[t]["finalize"] = "idle" /\ at[t]["ttl"] = "idle" /\ at[t]["client"] = "idle"
        /\ job[t]["finalize"] = "none" /\ job[t]["ttl"] = "none" /\ job[t]["stop"] = "none"
    BY <2>1, RoleNames
  <2>4. Ears(t) /\ BeginsSilent(t) /\ EventIsNew(t) /\ BeforeStop(t) /\ Stopping(t)
    BY <2>1, <2>3 DEF Ears, BeginsSilent, NotBegun, EventIsNew, BeforeStop, Stopping, Silent, InEngine, Joining
  <2>5. OneConverts(t) /\ Found(t) /\ Good(t)
    BY <2>1, <2>3 DEF OneConverts, Found, Good, FilePlaces
  <2> QED
    BY <2>2, <2>4, <2>5 DEF Safe
<1> QED
  BY <1>1, <1>2, <1>3 DEF OutcomeInv, ShapeInv

(* A purged row does not come back.                                        *)
LEMMA PurgedStays ==
  ASSUME Undisturbed, ManagerInv, NEW t \in Tasks, TaskStep(t), status[t] = "purged"
  PROVE  status'[t] = "purged"
<1> USE DEF ManagerInv, Inv, TypeOK, StoreTypeOK
<1>1. /\ \A s : UpdateStatus(t, s) => status'[t] = "purged"
      /\ \A size : MarkSuccess(t, size) => status'[t] = "purged"
      /\ MarkError(t) \/ MarkCanceled(t) \/ UNCHANGED storeVars => status'[t] = "purged"
  BY DEF UpdateStatus, MarkSuccess, MarkError, MarkCanceled, HasRow, storeVars
<1>2. \A r, place, j : Proceed(t, r, place, j) => status'[t] = "purged"
  BY <1>1 DEF Proceed
<1> USE <1>1 DEF allRunnerVars
<1>3. RunStep(t) => status'[t] = "purged"
  BY DEF RunStep, Dispatch, SkipTask, StartCapture, OpenBrowser, JoinSeen, Joined, JoinFails, CaptureEnds,
         CloseReturns
<1>4. FinalizeStep(t) \/ FinalizeTimesOut(t) => status'[t] = "purged"
  BY <1>2 DEF FinalizeStep, FinalizeTimesOut, FinalizeStarts, Drained, Appended, Stopped, Validated,
         ConvertOrFail, FinalizeFailed
<1>5. ASSUME NEW r \in Recoverers, RecoveryStep(t, r)
      PROVE  status'[t] = "purged"
  BY <1>2, <1>5 DEF RecoveryStep, Accepted, Rejected, Converted, PartFileGone
<1>6. ASSUME NEW r \in Roles, AbortDone(t, r)
      PROVE  status'[t] = "purged"
  BY <1>6 DEF AbortDone
<1>7. RequestStop(t) \/ Disconnects(t) \/ TimerFires(t) => status'[t] = "purged"
  BY DEF RequestStop, Disconnects, TimerFires, SpawnFinalize, CancelActive, CancelAtOnce
<1>8. ~RequestDelete(t) /\ \A p \in Pollers : ~RequestState(t, p)
  BY DEF RequestDelete, RequestState, Undisturbed
<1>9. ThreadStep(t) \/ Nudge(t) \/ NudgeWaits(t) \/ Spool(t) => status'[t] = "purged"
  BY DEF ThreadStep, WriterStep, EncodeBegins, EncodeFinishes, EncodeFails, Probe, AppendLands, Nudge,
         NudgeWaits, Spool
<1>10. ASSUME NEW l \in Loops, Reconcile(l, t)
       PROVE  status'[t] = "purged"
  BY <1>2, <1>10 DEF Reconcile
<1> QED
  BY <1>3, <1>4, <1>5, <1>6, <1>7, <1>8, <1>9, <1>10
     DEF TaskStep, CoroutineStep, RequestSubmit, Submit, Create, RunnerStep

(* A task that the API calls ready is served whole: with stops, auto-stops, *)
(* disconnects, failing tools and timeouts before the conversion, as long  *)
(* as the run is Undisturbed.                                              *)
THEOREM SuccessesAreDownloadable ==
  ASSUME Undisturbed
  PROVE  ManagerSpec => []Downloadable
<1>1. OutcomeInv /\ [ManagerNext]_vars => OutcomeInv'
  BY OutcomeStep
<1>2. OutcomeInv => Downloadable
  <2>1. SUFFICES ASSUME OutcomeInv, NEW t \in Tasks, ArtifactReady(t)
                 PROVE  Served(t) = {"full"}
    BY DEF Downloadable
  <2>2. recorded[t] = "full" /\ mp3[t] = "full"
    BY <2>1 DEF ArtifactReady, OutcomeInv, Safe, Good
  <2>3. SizeOnDisk(t) = "full"
    BY <2>2 DEF SizeOnDisk
  <2> QED
    BY <2>1, <2>2, <2>3 DEF Served, Size
<1> QED
  BY <1>1, <1>2, OutcomeInitInv, PTL DEF ManagerSpec

(* The PCM file is given up only when the task has a finished MP3, or      *)
(* because the task was cancelled or purged.                               *)
THEOREM PcmFileIsKept ==
  ASSUME Undisturbed
  PROVE  ManagerSpec => PcmFileKept
<1>1. OutcomeInv /\ [ManagerNext]_vars => OutcomeInv'
  BY OutcomeStep
<1>2. OutcomeInv /\ [ManagerNext]_vars =>
        [\A t \in Tasks : pcm[t] = "some" /\ pcm'[t] = "none" =>
            mp3'[t] = "full" \/ status'[t] \in {"canceled", "purged"}]_vars
  <2> DEFINE Kept1(u) == pcm[u] = "some" /\ pcm'[u] = "none" =>
                           mp3'[u] = "full" \/ status'[u] \in {"canceled", "purged"}
  <2>1. SUFFICES ASSUME OutcomeInv, [ManagerNext]_vars, NEW u \in Tasks
                 PROVE  Kept1(u)
    OBVIOUS
  <2> USE <2>1 DEF OutcomeInv, ShapeInv
  <2>2. NoRestart
    BY ShapeStep
  <2>3. ASSUME NEW t \in Tasks, TaskStep(t)
        PROVE  Kept1(u)
    <3>1. CASE u # t
      BY <2>3, <3>1, TaskStepIsSame DEF OthersSame, Same, FilesSame
    <3>2. CASE u = t /\ status'[u] \notin {"canceled", "purged"} /\ pcm[u] = "some" /\ pcm'[u] = "none"
      <4>1. mp3' = mp3 /\ \E w \in Writers : job[u][w] = "encoded"
        BY <2>3, <3>2, FilesGo
      <4>2. PICK w \in Writers : job[u][w] = "encoded"
        BY <4>1
      <4>3. w \in {"stop", "finalize", "ttl"}
        BY <4>2, ThreadView
      <4>4. Live(u)
        BY <2>3, <3>2, PurgedStays DEF Live
      <4> QED
        BY <4>1, <4>2, <4>3, <4>4 DEF Safe, OneConverts
    <3> QED
      BY <3>1, <3>2
  <2>4. CASE LoopsMove
    BY <2>4 DEF LoopsMove, TtlWakes, LoopAdvances, vars, managerVars, fileVars
  <2>5. CASE Purge
    BY <2>5, PurgeSafe
  <2> QED
    BY <2>2, <2>3, <2>4, <2>5 DEF NoRestart
<1> QED
  BY <1>1, <1>2, OutcomeInitInv, PTL DEF ManagerSpec, PcmFileKept
===============================================================================
