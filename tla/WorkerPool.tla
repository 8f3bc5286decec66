------------------------------ MODULE WorkerPool ------------------------------
(***************************************************************************)
(* What the worker promises about its slots (settings.WORKERS), without a  *)
(* queue, slots, browsers or rows: a task is captured at most once, by one *)
(* of at most Workers captures at a time, and only if it was not withdrawn *)
(* while it was waiting.  Pending tasks survive a crash; a task whose      *)
(* capture a crash interrupts is never captured again.                     *)
(*                                                                         *)
(* CaptureRunner.tla implements this specification.                        *)
(***************************************************************************)
EXTENDS Integers, FiniteSets

CONSTANTS Tasks, Workers

VARIABLE phase

Phases == {"new", "pending", "active", "over"}
In(p) == {t \in Tasks : phase[t] = p}

PoolInit == phase = [t \in Tasks |-> "new"]

Move(t, from, to) ==
  /\ phase[t] = from
  /\ phase' = [phase EXCEPT ![t] = to]

Arrive(t) == Move(t, "new", "pending")
Withdraw(t) == Move(t, "pending", "over")
Begin(t) == Cardinality(In("active")) < Workers /\ Move(t, "pending", "active")
End(t) == Move(t, "active", "over")

Crash == phase' = [t \in Tasks |-> IF phase[t] = "active" THEN "over" ELSE phase[t]]

PoolNext ==
  \/ \E t \in Tasks : Arrive(t) \/ Withdraw(t) \/ Begin(t) \/ End(t)
  \/ Crash

PoolSpec == PoolInit /\ [][PoolNext]_phase

-----------------------------------------------------------------------------
(* What follows from the promise: never more than Workers captures.        *)
WithinWorkers == Cardinality(In("active")) <= Workers
===============================================================================
