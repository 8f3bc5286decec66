------------------------------ MODULE TaskStore ------------------------------
(***************************************************************************)
(* The SQLite table capture_tasks of src/app/tasks.py, as far as the       *)
(* worker's decisions depend on it: the status of a row and the size       *)
(* recorded for its artifact.  Every method of the class takes the store's *)
(* lock and commits, and is called from the one event loop, so each        *)
(* operator below is one atomic step of its caller.                        *)
(*                                                                         *)
(* Task identifiers are uuid4 values that are never drawn twice: a task is *)
(* "none" before its row is inserted and "purged" after it is deleted.     *)
(***************************************************************************)
EXTENDS Integers, FiniteSets

CONSTANT Tasks          \* the task identifiers that may ever be drawn

VARIABLES status,       \* status[t]: the row's status column
          recorded      \* recorded[t]: the row's artifact_size_bytes column

storeVars == <<status, recorded>>

ActiveStatus == {"queued", "joining", "capturing", "finalizing"}
TerminalStatus == {"success", "error", "canceled"}
Status == {"none", "purged"} \cup ActiveStatus \cup TerminalStatus

(* artifact_size_bytes: NULL, the size of an MP3 that was still being      *)
(* written when it was measured, or the size of the finished MP3.          *)
Size == {"none", "partial", "full"}

StoreTypeOK ==
  /\ status \in [Tasks -> Status]
  /\ recorded \in [Tasks -> Size]

StoreInit ==
  /\ status = [t \in Tasks |-> "none"]
  /\ recorded = [t \in Tasks |-> "none"]

(***************************************************************************)
(* Queries.                                                                *)
(***************************************************************************)
HasRow(t) == status[t] \notin {"none", "purged"}

Listed(s) == {t \in Tasks : status[t] = s}

CountActive == Cardinality({t \in Tasks : status[t] \in ActiveStatus})

(***************************************************************************)
(* Updates.  Each UPDATE is keyed by the task id alone: it neither looks   *)
(* at the row's present status nor fails when the row is gone.             *)
(***************************************************************************)
Create(t) ==
  /\ status[t] = "none"
  /\ status' = [status EXCEPT ![t] = "queued"]
  /\ recorded' = recorded

UpdateStatus(t, s) ==
  /\ status' = IF HasRow(t) THEN [status EXCEPT ![t] = s] ELSE status
  /\ recorded' = recorded

MarkSuccess(t, size) ==
  /\ status' = IF HasRow(t) THEN [status EXCEPT ![t] = "success"] ELSE status
  /\ recorded' = IF HasRow(t) THEN [recorded EXCEPT ![t] = size] ELSE recorded

MarkError(t) == UpdateStatus(t, "error")

MarkCanceled(t) ==
  /\ status' = IF HasRow(t) THEN [status EXCEPT ![t] = "canceled"] ELSE status
  /\ recorded' = IF HasRow(t) THEN [recorded EXCEPT ![t] = "none"] ELSE recorded

(* purge_expired: the rows older than TASK_TTL_SEC are some of the rows in *)
(* a terminal status, since every transition to one sets stopped_at.       *)
PurgeExpired(expired) ==
  /\ expired \subseteq {t \in Tasks : status[t] \in TerminalStatus}
  /\ status' = [t \in Tasks |-> IF t \in expired THEN "purged" ELSE status[t]]
  /\ recorded' = [t \in Tasks |-> IF t \in expired THEN "none" ELSE recorded[t]]
==============================================================================
