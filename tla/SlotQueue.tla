------------------------------- MODULE SlotQueue -------------------------------
(***************************************************************************)
(* The order in which tasks get a slot: POST /capture, _dispatch_loop and  *)
(* the head of _run_one (src/app/main.py, manager.py, queueing.py) with    *)
(* their two asyncio queues and the event loop that runs their coroutines  *)
(* in turn.  CaptureRunner.tla has sets where this module has sequences,   *)
(* and the life of a capture where this module has only its two ends, the  *)
(* row's and the slot's, which come in either order.                       *)
(*                                                                         *)
(* Tasks are numbered in the order in which they are accepted.  A POST     *)
(* that is refused before the browser check changes nothing.               *)
(***************************************************************************)
EXTENDS Integers, Sequences, SequencesExt

CONSTANTS NTasks,            \* bound: tasks accepted
          Workers,           \* settings.WORKERS
          WorkerQueueSize,   \* settings.WORKER_QUEUE_SIZE
          MaxPosts,          \* bound: requests that await the browser check at once
          MaxRestarts        \* bound

ASSUME QueueAssumption ==
  /\ NTasks \in Nat /\ Workers \in Nat \ {0} /\ WorkerQueueSize \in Nat
  /\ MaxPosts \in Nat /\ MaxRestarts \in Nat

Tasks == 1 .. NTasks
Dispatcher == 0

VARIABLES checking,   \* POSTs that await refresh_browser_health
          row,        \* "none", "queued", "active" (joining to finalizing), "over"
          fifo,       \* _queue
          ready,      \* the event loop's callbacks: Dispatcher or a _run_one that is
                      \* about to take a slot
          free,       \* how many slots are in _free_slots
          getters,    \* the _run_one coroutines asleep in _free_slots.get()
          held,       \* those that hold a slot
          restarts,
          slept,      \* history: the tasks that have been asleep
          passed      \* history: those that were woken and found no slot

queueVars == <<checking, row, fifo, ready, free, getters, held, restarts, slept, passed>>
history == <<slept, passed>>

Queued == {t \in Tasks : row[t] = "queued"}
CountActive == Cardinality({t \in Tasks : row[t] \in {"queued", "active"}})
On(s) == {t \in Tasks : Contains(s, t)}
InReady == On(ready)

SlotTypeOK ==
  /\ checking \in 0 .. MaxPosts
  /\ row \in [Tasks -> {"none", "queued", "active", "over"}]
  /\ fifo \in Seq(Tasks) /\ getters \in Seq(Tasks)
  /\ ready \in Seq(Tasks \cup {Dispatcher})
  /\ free \in 0 .. Workers /\ free + Cardinality(held) = Workers
  /\ held \subseteq Tasks
  /\ restarts \in 0 .. MaxRestarts
  /\ passed \subseteq slept /\ slept \subseteq Tasks

QueueInit ==
  /\ checking = 0
  /\ row = [t \in Tasks |-> "none"]
  /\ fifo = <<>> /\ ready = <<Dispatcher>>
  /\ free = Workers /\ getters = <<>> /\ held = {}
  /\ restarts = 0
  /\ slept = {} /\ passed = {}

-----------------------------------------------------------------------------
(***************************************************************************)
(* Requests.                                                               *)
(***************************************************************************)
PostArrives ==
  /\ checking < MaxPosts
  /\ checking' = checking + 1
  /\ UNCHANGED <<row, fifo, ready, free, getters, held, restarts, history>>

(* asyncio.Queue.put_nowait wakes the first getter, here the dispatcher.   *)
WakeDispatcher ==
  ready' = IF Contains(ready, Dispatcher) THEN ready ELSE Append(ready, Dispatcher)

Submit ==
  \E t \in Tasks :
    /\ row[t] = "none" /\ \A u \in 1 .. t - 1 : row[u] # "none"
    /\ CountActive < Workers + WorkerQueueSize
    /\ row' = [row EXCEPT ![t] = "queued"]
    /\ fifo' = Append(fifo, t)
    /\ WakeDispatcher

(* The check returned: 503 without a browser or with a full queue.         *)
CheckReturns ==
  /\ checking > 0
  /\ checking' = checking - 1
  /\ Submit \/ UNCHANGED <<row, fifo, ready>>
  /\ UNCHANGED <<free, getters, held, restarts, history>>

DeleteQueued(t) ==
  /\ row[t] = "queued"
  /\ row' = [row EXCEPT ![t] = "over"]
  /\ UNCHANGED <<checking, fifo, ready, free, getters, held, restarts, history>>

-----------------------------------------------------------------------------
(***************************************************************************)
(* The event loop runs its callbacks in the order in which they were       *)
(* scheduled.                                                              *)
(***************************************************************************)

(* Mutant: one coroutine is created for every waking.                      *)
DispatchOne ==
  /\ ready # <<>> /\ Head(ready) = Dispatcher
  /\ ready' = Tail(ready) \o (IF fifo = <<>> THEN <<>> ELSE <<Head(fifo)>>)
  /\ fifo' = IF fifo = <<>> THEN <<>> ELSE Tail(fifo)
  /\ UNCHANGED <<checking, row, free, getters, held, restarts, history>>

(* get() does not suspend while the queue has items, so the loop creates a *)
(* coroutine for each before it sleeps.                                    *)
Dispatch ==
  /\ ready # <<>> /\ Head(ready) = Dispatcher
  /\ ready' = Tail(ready) \o fifo
  /\ fifo' = <<>>
  /\ UNCHANGED <<checking, row, free, getters, held, restarts, history>>

(* Mutant: the slot is put where no waiter is woken.                       *)
PutSlotSilently(rest, left) ==
  /\ free' = left + 1
  /\ ready' = rest
  /\ UNCHANGED getters

(* put_nowait: the first getter is woken; the slot is anyone's until then. *)
PutSlot(rest, left) ==
  /\ free' = left + 1
  /\ IF getters = <<>>
     THEN ready' = rest /\ UNCHANGED getters
     ELSE ready' = Append(rest, Head(getters)) /\ getters' = Tail(getters)

(* No slot: asleep, behind all others, also when it was woken in vain.     *)
Sleeps(t) ==
  /\ free = 0
  /\ ready' = Tail(ready)
  /\ getters' = Append(getters, t)
  /\ passed' = passed \cup ({t} \cap slept)
  /\ slept' = slept \cup {t}
  /\ UNCHANGED <<row, free, held>>

(* Mutant: the slot is put back although none was taken.                   *)
SkipsPutting(t) ==
  /\ row[t] # "queued"
  /\ PutSlot(Tail(ready), free)
  /\ UNCHANGED <<row, held, history>>

(* A task that was withdrawn takes the slot and puts it back.              *)
Skips(t) ==
  /\ free > 0 /\ row[t] # "queued"
  /\ PutSlot(Tail(ready), free - 1)
  /\ UNCHANGED <<row, held, history>>

(* Mutant: nobody looks whether it was withdrawn.                          *)
StartsAnyway(t) ==
  /\ free > 0
  /\ free' = free - 1 /\ ready' = Tail(ready)
  /\ row' = [row EXCEPT ![t] = "active"]
  /\ held' = held \cup {t}
  /\ UNCHANGED <<getters, history>>

Starts(t) ==
  /\ free > 0 /\ row[t] = "queued"
  /\ free' = free - 1 /\ ready' = Tail(ready)
  /\ row' = [row EXCEPT ![t] = "active"]
  /\ held' = held \cup {t}
  /\ UNCHANGED <<getters, history>>

TakeSlot ==
  /\ ready # <<>>
  /\ \E t \in Tasks : t = Head(ready) /\ (Sleeps(t) \/ Skips(t) \/ Starts(t))
  /\ UNCHANGED <<checking, fifo, restarts>>

(* The task reaches a terminal status.                                     *)
RowEnds(t) ==
  /\ row[t] = "active"
  /\ row' = [row EXCEPT ![t] = "over"]
  /\ UNCHANGED <<checking, fifo, ready, free, getters, held, restarts, history>>

(* run_capture returned or raised.                                         *)
SlotBack(t) ==
  /\ t \in held
  /\ held' = held \ {t}
  /\ PutSlot(ready, free)
  /\ UNCHANGED <<checking, row, fifo, restarts, history>>

(* Mutant: the rows are listed newest first, as list_tasks lists them.     *)
NewestFirst(s) == \A i, j \in 1 .. Len(s) : i < j => s[i] > s[j]

(* list_queued_fifo; SQLite sorts rows of the same second stably.          *)
OldestFirst(s) == \A i, j \in 1 .. Len(s) : i < j => s[i] < s[j]

(* The process dies or is stopped, and starts again.                       *)
Restart ==
  /\ restarts < MaxRestarts /\ restarts' = restarts + 1
  /\ checking' = 0
  /\ row' = [t \in Tasks |-> IF row[t] = "active" THEN "over" ELSE row[t]]
  /\ \E s \in [1 .. Cardinality(Queued) -> Queued] : OldestFirst(s) /\ fifo' = s
  /\ ready' = <<Dispatcher>>
  /\ free' = Workers /\ getters' = <<>> /\ held' = {}
  /\ slept' = {} /\ passed' = {}

QueueNext ==
  \/ PostArrives \/ CheckReturns \/ Dispatch \/ TakeSlot \/ Restart
  \/ \E t \in Tasks : DeleteQueued(t) \/ RowEnds(t) \/ SlotBack(t)

(* The event loop runs what is ready, and every capture ends               *)
(* (MAX_CAPTURE_DURATION_SEC, or the end of its meeting).                  *)
QueueSpec ==
  /\ QueueInit /\ [][QueueNext]_queueVars
  /\ WF_queueVars(Dispatch \/ TakeSlot)
  /\ \A t \in Tasks : WF_queueVars(SlotBack(t))

-----------------------------------------------------------------------------
(* No slot lies idle while a task sleeps: for every free slot a coroutine  *)
(* is on its way to take it, though a slot can be taken by another than    *)
(* the one it woke, and one that finds none goes to sleep again            *)
(* (_free_slots in _run_one).                                              *)
NoIdleSlot == getters # <<>> => free <= Cardinality(InReady)

(* Tasks start in the order in which they were accepted, through restarts  *)
(* (list_queued_fifo), with one exception: a task whose coroutine is new   *)
(* can take a slot in the moment between its release and the waking of the *)
(* one that slept for it, which then goes behind all the others.           *)
InOrder ==
  [][\A t, u \in Tasks :
       u < t /\ row[u] = "queued" /\ row[t] = "queued" /\ row'[t] = "active" =>
         \/ u \in passed
         \/ t \notin slept /\ InReady \cap slept # {}]_queueVars

(* An accepted task starts or is withdrawn, also when the process is       *)
(* restarted and other tasks pass it.                                      *)
AcceptedStarts == \A t \in Tasks : row[t] = "queued" ~> row[t] # "queued"

PoolPhase ==
  [t \in Tasks |-> IF t \in held THEN "active"
                  ELSE IF row[t] = "queued" THEN "pending"
                  ELSE IF row[t] = "none" THEN "new" ELSE "over"]

Pool == INSTANCE WorkerPool WITH phase <- PoolPhase

(* In whatever order the loop runs the coroutines, the two queues keep the *)
(* promise of the worker pool: at most WORKERS captures, none of a task    *)
(* that was withdrawn, none twice.                                         *)
QueueImplementsPool == Pool!PoolSpec
================================================================================
