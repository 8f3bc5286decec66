---------------------------- MODULE SlotQueueProofs ----------------------------
(***************************************************************************)
(* The two asyncio queues keep the promise of the worker pool, for every   *)
(* number of tasks, slots, requests and restarts: in whatever order the    *)
(* event loop runs its callbacks, and whoever passes whom.                 *)
(***************************************************************************)
EXTENDS SlotQueue, FiniteSetTheorems, TLAPS

(* A slot is free or held, by a task that has started; a waiter that is    *)
(* woken holds nothing.                                                    *)
SlotInv ==
  /\ row \in [Tasks -> {"none", "queued", "active", "over"}]
  /\ free \in Nat
  /\ held \subseteq Tasks
  /\ free + Cardinality(held) = Workers
  /\ \A t \in held : row[t] \in {"active", "over"}

LEMMA HeldIsFinite == ASSUME held \subseteq Tasks PROVE IsFiniteSet(held) /\ Cardinality(held) \in Nat
<1>1. IsFiniteSet(Tasks)
  BY QueueAssumption, FS_Interval DEF Tasks
<1> QED
  BY <1>1, FS_Subset, FS_CardinalityType

LEMMA InitSlots == QueueInit => SlotInv
BY QueueAssumption, FS_EmptySet DEF QueueInit, SlotInv, Tasks

(* Only the taking and the return of a slot change what is free or held.   *)
LEMMA SameSlots ==
  ASSUME SlotInv, UNCHANGED <<free, held>>,
         row' \in [Tasks -> {"none", "queued", "active", "over"}],
         \A t \in held : row[t] \in {"active", "over"} => row'[t] \in {"active", "over"}
  PROVE  SlotInv'
BY DEF SlotInv

LEMMA SubmitSlots ==
  ASSUME SlotInv, Submit, UNCHANGED <<free, held>>
  PROVE  SlotInv' /\ (\E t \in Tasks : Pool!Arrive(t))
<1>1. PICK t \in Tasks : row[t] = "none" /\ row' = [row EXCEPT ![t] = "queued"]
  BY DEF Submit
<1>2. SlotInv'
  BY <1>1, SameSlots DEF SlotInv
<1>3. Pool!Arrive(t)
  BY <1>1 DEF Pool!Arrive, Pool!Move, PoolPhase, SlotInv
<1> QED
  BY <1>2, <1>3

LEMMA DeleteSlots ==
  ASSUME SlotInv, NEW t \in Tasks, DeleteQueued(t)
  PROVE  SlotInv' /\ Pool!Withdraw(t)
<1>1. SlotInv'
  BY SameSlots DEF DeleteQueued, SlotInv
<1>2. Pool!Withdraw(t)
  BY DEF DeleteQueued, Pool!Withdraw, Pool!Move, PoolPhase, SlotInv
<1> QED
  BY <1>1, <1>2

(* A row that ends changes no phase: the slot decides.                     *)
LEMMA RowEndsSlots ==
  ASSUME SlotInv, NEW t \in Tasks, RowEnds(t)
  PROVE  SlotInv' /\ UNCHANGED PoolPhase
<1>1. SlotInv'
  BY SameSlots DEF RowEnds, SlotInv
<1>2. UNCHANGED PoolPhase
  BY DEF RowEnds, PoolPhase, SlotInv
<1> QED
  BY <1>1, <1>2

(* A task that was withdrawn returns the slot that it took.                *)
LEMMA SkipSlots ==
  ASSUME SlotInv, NEW t \in Tasks, Skips(t)
  PROVE  SlotInv' /\ UNCHANGED PoolPhase
<1>1. free' = free /\ UNCHANGED <<row, held>>
  BY DEF Skips, PutSlot, SlotInv
<1> QED
  BY <1>1 DEF SlotInv, PoolPhase

LEMMA PoolCounts == \A S : Pool!Cardinality(S) = Cardinality(S)
BY DEF Pool!Cardinality, Cardinality

LEMMA StartSlots ==
  ASSUME SlotInv, NEW t \in Tasks, Starts(t)
  PROVE  SlotInv' /\ Pool!Begin(t)
<1>1. t \notin held /\ row[t] = "queued" /\ free > 0
  BY DEF Starts, SlotInv
<1>2. held' = held \cup {t} /\ free' = free - 1 /\ row' = [row EXCEPT ![t] = "active"]
  BY DEF Starts
<1>3. IsFiniteSet(held) /\ Cardinality(held) \in Nat
  BY HeldIsFinite DEF SlotInv
<1>4. Cardinality(held') = Cardinality(held) + 1
  BY <1>1, <1>2, <1>3, FS_AddElement
<1>5. SlotInv'
  BY <1>1, <1>2, <1>3, <1>4 DEF SlotInv
<1>6. Pool!In("active") = held
  BY DEF Pool!In, PoolPhase, SlotInv
<1>7. Pool!Cardinality(Pool!In("active")) < Workers
  BY <1>1, <1>3, <1>6, PoolCounts DEF SlotInv
<1>8. Pool!Move(t, "pending", "active")
  BY <1>1, <1>2 DEF Pool!Move, PoolPhase, SlotInv
<1> QED
  BY <1>5, <1>7, <1>8 DEF Pool!Begin

LEMMA ReturnSlots ==
  ASSUME SlotInv, NEW t \in Tasks, SlotBack(t)
  PROVE  SlotInv' /\ Pool!End(t)
<1>1. t \in held /\ held' = held \ {t} /\ row' = row /\ free' = free + 1
  BY DEF SlotBack, PutSlot
<1>2. IsFiniteSet(held) /\ Cardinality(held) \in Nat
  BY HeldIsFinite DEF SlotInv
<1>3. Cardinality(held') = Cardinality(held) - 1
  BY <1>1, <1>2, FS_RemoveElement
<1>4. SlotInv'
  BY <1>1, <1>2, <1>3 DEF SlotInv
<1>5. Pool!End(t)
  BY <1>1 DEF Pool!End, Pool!Move, PoolPhase, SlotInv
<1> QED
  BY <1>4, <1>5

(* A restart ends what was active and gives every slot back.               *)
LEMMA RestartSlots ==
  ASSUME SlotInv, Restart
  PROVE  SlotInv' /\ Pool!Crash
<1>1. /\ row' = [t \in Tasks |-> IF row[t] = "active" THEN "over" ELSE row[t]]
      /\ free' = Workers /\ held' = {}
  BY DEF Restart
<1>2. SlotInv'
  BY <1>1, QueueAssumption, FS_EmptySet DEF SlotInv
<1>3. \A t \in Tasks : PoolPhase'[t] = IF PoolPhase[t] = "active" THEN "over" ELSE PoolPhase[t]
  BY <1>1 DEF PoolPhase, SlotInv
<1> QED
  BY <1>2, <1>3 DEF Pool!Crash, PoolPhase

LEMMA StepSlots ==
  ASSUME SlotInv, [QueueNext]_queueVars
  PROVE  SlotInv' /\ [Pool!PoolNext]_PoolPhase
<1>1. ASSUME UNCHANGED <<row, free, held>>
      PROVE  SlotInv' /\ UNCHANGED PoolPhase
  BY <1>1, SameSlots DEF SlotInv, PoolPhase
<1>2. CASE PostArrives
  BY <1>1, <1>2 DEF PostArrives
<1>3. CASE CheckReturns
  BY <1>1, <1>3, SubmitSlots DEF CheckReturns, Pool!PoolNext
<1>4. CASE Dispatch
  BY <1>1, <1>4 DEF Dispatch
<1>5. CASE TakeSlot
  <2>1. PICK t \in Tasks : Sleeps(t) \/ Skips(t) \/ Starts(t)
    BY <1>5 DEF TakeSlot
  <2>2. CASE Sleeps(t)
    BY <1>1, <2>2 DEF Sleeps
  <2>3. CASE Skips(t)
    BY <2>3, SkipSlots
  <2>4. CASE Starts(t)
    BY <2>4, StartSlots DEF Pool!PoolNext
  <2> QED
    BY <2>1, <2>2, <2>3, <2>4
<1>6. CASE Restart
  BY <1>6, RestartSlots DEF Pool!PoolNext
<1>7. ASSUME NEW t \in Tasks, DeleteQueued(t) \/ RowEnds(t) \/ SlotBack(t)
      PROVE  SlotInv' /\ [Pool!PoolNext]_PoolPhase
  BY <1>7, DeleteSlots, RowEndsSlots, ReturnSlots DEF Pool!PoolNext
<1>8. CASE UNCHANGED queueVars
  BY <1>1, <1>8 DEF queueVars
<1> QED
  BY <1>2, <1>3, <1>4, <1>5, <1>6, <1>7, <1>8 DEF QueueNext

(* Whatever order the event loop runs the coroutines in, the two queues of *)
(* queueing.py keep the promise of the worker pool: at most WORKERS        *)
(* captures at a time, none of a task that was withdrawn, none twice, none *)
(* forgotten in a restart.                                                 *)
THEOREM QueueImplementsWorkerPool == QueueSpec => QueueImplementsPool
<1>1. QueueInit => SlotInv
  BY InitSlots
<1>2. QueueInit => Pool!PoolInit
  BY DEF QueueInit, Pool!PoolInit, PoolPhase
<1>3. SlotInv /\ [QueueNext]_queueVars => SlotInv' /\ [Pool!PoolNext]_PoolPhase
  BY StepSlots
<1> QED
  BY <1>1, <1>2, <1>3, PTL DEF QueueSpec, QueueImplementsPool, Pool!PoolSpec

-----------------------------------------------------------------------------
(***************************************************************************)
(* Sequences in which a task is at most once, and the tasks on them.       *)
(***************************************************************************)
Callbacks == Tasks \cup {Dispatcher}
OnceOn(s) == \A i, j \in 1 .. Len(s) : s[i] = s[j] /\ s[i] \in Tasks => i = j

LEMMA OnTail ==
  ASSUME NEW s \in Seq(Callbacks), s # <<>>, OnceOn(s)
  PROVE  /\ Tail(s) \in Seq(Callbacks) /\ OnceOn(Tail(s))
         /\ On(Tail(s)) = On(s) \ {Head(s)}
<1>1. /\ Len(s) \in Nat \ {0} /\ Len(Tail(s)) = Len(s) - 1
      /\ \A i \in 1 .. Len(s) - 1 : Tail(s)[i] = s[i + 1]
      /\ Head(s) = s[1] /\ Tail(s) \in Seq(Callbacks)
  OBVIOUS
<1>2. OnceOn(Tail(s))
  <2> SUFFICES ASSUME NEW i \in 1 .. Len(s) - 1, NEW j \in 1 .. Len(s) - 1,
                      Tail(s)[i] = Tail(s)[j], Tail(s)[i] \in Tasks
               PROVE  i = j
    BY <1>1 DEF OnceOn
  <2>1. i + 1 \in 1 .. Len(s) /\ j + 1 \in 1 .. Len(s)
    BY <1>1
  <2>2. s[i + 1] = s[j + 1] /\ s[i + 1] \in Tasks
    BY <1>1
  <2>3. i + 1 = j + 1
    BY <2>1, <2>2 DEF OnceOn
  <2> QED
    BY <2>3
<1>3. ASSUME NEW t \in Tasks
      PROVE  t \in On(Tail(s)) <=> t \in On(s) \ {Head(s)}
  <2>1. CASE t \in On(Tail(s))
    <3>1. PICK i \in 1 .. Len(s) - 1 : s[i + 1] = t
      BY <1>1, <2>1 DEF On, Contains
    <3>2. i + 1 \in 1 .. Len(s) /\ 1 \in 1 .. Len(s) /\ i + 1 # 1
      BY <1>1
    <3>3. t # s[1]
      BY <3>1, <3>2 DEF OnceOn
    <3> QED
      BY <1>1, <3>1, <3>2, <3>3 DEF On, Contains
  <2>2. CASE t \in On(s) \ {Head(s)}
    <3>1. PICK i \in 1 .. Len(s) : s[i] = t
      BY <2>2 DEF On, Contains
    <3>2. i # 1
      BY <1>1, <2>2, <3>1
    <3>3. i - 1 \in 1 .. Len(s) - 1 /\ Tail(s)[i - 1] = t
      BY <1>1, <3>1, <3>2
    <3> QED
      BY <1>1, <2>2, <3>3 DEF On, Contains
  <2> QED
    BY <2>1, <2>2
<1>4. On(Tail(s)) \subseteq Tasks /\ On(s) \subseteq Tasks
  BY DEF On
<1> QED
  BY <1>1, <1>2, <1>3, <1>4

LEMMA OnAppend ==
  ASSUME NEW s \in Seq(Callbacks), NEW c \in Callbacks, OnceOn(s), c \notin On(s)
  PROVE  /\ Append(s, c) \in Seq(Callbacks) /\ OnceOn(Append(s, c))
         /\ On(Append(s, c)) = On(s) \cup ({c} \cap Tasks)
<1>1. /\ Len(s) \in Nat /\ Len(Append(s, c)) = Len(s) + 1
      /\ \A i \in 1 .. Len(s) : Append(s, c)[i] = s[i]
      /\ Append(s, c)[Len(s) + 1] = c
      /\ Append(s, c) \in Seq(Callbacks)
  OBVIOUS
<1>2. \A i \in 1 .. Len(s) : s[i] = c => c \notin Tasks
  BY DEF On, Contains
<1>3. OnceOn(Append(s, c))
  BY <1>1, <1>2 DEF OnceOn
<1>4. ASSUME NEW t \in Tasks
      PROVE  t \in On(Append(s, c)) <=> t \in On(s) \/ t = c
  BY <1>1 DEF On, Contains
<1> QED
  BY <1>1, <1>3, <1>4 DEF On

LEMMA OnConcat ==
  ASSUME NEW s \in Seq(Callbacks), NEW u \in Seq(Callbacks), OnceOn(s), OnceOn(u),
         On(s) \cap On(u) = {}
  PROVE  /\ s \o u \in Seq(Callbacks) /\ OnceOn(s \o u)
         /\ On(s \o u) = On(s) \cup On(u)
<1>1. /\ Len(s) \in Nat /\ Len(u) \in Nat /\ Len(s \o u) = Len(s) + Len(u)
      /\ \A i \in 1 .. Len(s) + Len(u) :
           (s \o u)[i] = IF i <= Len(s) THEN s[i] ELSE u[i - Len(s)]
      /\ s \o u \in Seq(Callbacks)
  OBVIOUS
<1>2. \A i \in 1 .. Len(s), j \in 1 .. Len(u) : s[i] = u[j] => s[i] \notin Tasks
  BY DEF On, Contains
<1>3. OnceOn(s \o u)
  <2> SUFFICES ASSUME NEW i \in 1 .. Len(s) + Len(u), NEW j \in 1 .. Len(s) + Len(u),
                      (s \o u)[i] = (s \o u)[j], (s \o u)[i] \in Tasks
               PROVE  i = j
    BY <1>1 DEF OnceOn
  <2>1. CASE i <= Len(s) /\ j <= Len(s)
    BY <1>1, <2>1 DEF OnceOn
  <2>2. CASE i <= Len(s) /\ j > Len(s)
    <3>1. j - Len(s) \in 1 .. Len(u) /\ i \in 1 .. Len(s)
      BY <1>1, <2>2
    <3> QED
      BY <1>1, <1>2, <2>2, <3>1
  <2>3. CASE i > Len(s) /\ j <= Len(s)
    <3>1. i - Len(s) \in 1 .. Len(u) /\ j \in 1 .. Len(s)
      BY <1>1, <2>3
    <3> QED
      BY <1>1, <1>2, <2>3, <3>1
  <2>4. CASE i > Len(s) /\ j > Len(s)
    <3>1. i - Len(s) \in 1 .. Len(u) /\ j - Len(s) \in 1 .. Len(u)
      BY <1>1, <2>4
    <3>2. u[i - Len(s)] = u[j - Len(s)] /\ u[i - Len(s)] \in Tasks
      BY <1>1, <2>4
    <3>3. i - Len(s) = j - Len(s)
      BY <3>1, <3>2 DEF OnceOn
    <3> QED
      BY <1>1, <3>3
  <2> QED
    BY <1>1, <2>1, <2>2, <2>3, <2>4
<1>4. ASSUME NEW t \in Tasks
      PROVE  t \in On(s \o u) <=> t \in On(s) \/ t \in On(u)
  <2>1. CASE t \in On(s \o u)
    <3>1. PICK i \in 1 .. Len(s) + Len(u) : (s \o u)[i] = t
      BY <1>1, <2>1 DEF On, Contains
    <3>2. CASE i <= Len(s)
      BY <1>1, <3>1, <3>2 DEF On, Contains
    <3>3. CASE i > Len(s)
      <4>1. i - Len(s) \in 1 .. Len(u) /\ u[i - Len(s)] = t
        BY <1>1, <3>1, <3>3
      <4> QED
        BY <4>1 DEF On, Contains
    <3> QED
      BY <1>1, <3>2, <3>3
  <2>2. CASE t \in On(s)
    <3>1. PICK i \in 1 .. Len(s) : s[i] = t
      BY <2>2 DEF On, Contains
    <3>2. i \in 1 .. Len(s) + Len(u) /\ (s \o u)[i] = t
      BY <1>1, <3>1
    <3> QED
      BY <1>1, <3>2 DEF On, Contains
  <2>3. CASE t \in On(u)
    <3>1. PICK i \in 1 .. Len(u) : u[i] = t
      BY <2>3 DEF On, Contains
    <3>2. i + Len(s) \in 1 .. Len(s) + Len(u) /\ (s \o u)[i + Len(s)] = t
      BY <1>1, <3>1
    <3> QED
      BY <1>1, <3>2 DEF On, Contains
  <2> QED
    BY <2>1, <2>2, <2>3
<1> QED
  BY <1>1, <1>3, <1>4 DEF On

LEMMA OnTasks ==
  ASSUME NEW s \in Seq(Tasks)
  PROVE  /\ s \in Seq(Callbacks) /\ Tasks \subseteq Callbacks
         /\ s # <<>> => Head(s) \in On(s) /\ Head(s) \in Tasks /\ Tail(s) \in Seq(Tasks)
<1>1. s \in Seq(Callbacks)
  BY DEF Callbacks
<1>2. ASSUME s # <<>>
      PROVE  Head(s) \in On(s) /\ Head(s) \in Tasks /\ Tail(s) \in Seq(Tasks)
  <2>1. 1 \in 1 .. Len(s) /\ Head(s) = s[1] /\ s[1] \in Tasks /\ Tail(s) \in Seq(Tasks)
    BY <1>2
  <2> QED
    BY <2>1 DEF On, Contains
<1> QED
  BY <1>1, <1>2 DEF Callbacks

LEMMA OnNothing == On(<<>>) = {} /\ OnceOn(<<>>)
BY DEF On, Contains, OnceOn

LEMMA OnDispatcher ==
  /\ <<Dispatcher>> \in Seq(Callbacks) /\ On(<<Dispatcher>>) = {} /\ OnceOn(<<Dispatcher>>)
<1>1. Dispatcher \notin Tasks
  BY DEF Dispatcher, Tasks
<1> QED
  BY <1>1 DEF On, Contains, OnceOn, Callbacks

LEMMA Counts ==
  ASSUME NEW S \in SUBSET Tasks
  PROVE  IsFiniteSet(S) /\ Cardinality(S) \in Nat
<1>1. IsFiniteSet(Tasks)
  BY QueueAssumption, FS_Interval DEF Tasks
<1> QED
  BY <1>1, FS_Subset, FS_CardinalityType

LEMMA CountsMore ==
  ASSUME NEW S \in SUBSET Tasks, NEW T \in SUBSET Tasks, S \subseteq T
  PROVE  Cardinality(S) <= Cardinality(T)
BY Counts, FS_Subset

LEMMA OnIsTasks == \A s : On(s) \subseteq Tasks
BY DEF On

-----------------------------------------------------------------------------
(* A task is in one place at most: in _queue, with the event loop or       *)
(* asleep; and then it has a row.                                          *)
LineInv ==
  /\ fifo \in Seq(Tasks) /\ getters \in Seq(Tasks) /\ ready \in Seq(Callbacks)
  /\ OnceOn(fifo) /\ OnceOn(ready) /\ OnceOn(getters)
  /\ On(fifo) \cap On(ready) = {}
  /\ On(fifo) \cap On(getters) = {}
  /\ On(ready) \cap On(getters) = {}
  /\ \A t \in On(fifo) \cup On(ready) \cup On(getters) : row[t] # "none"
  /\ NoIdleSlot

RowsStay == \A t \in Tasks : row[t] # "none" => row'[t] # "none"

LEMMA InitLine == QueueInit => LineInv
<1>1. <<>> \in Seq(Tasks)
  OBVIOUS
<1> QED
  BY <1>1, OnNothing, OnDispatcher DEF QueueInit, LineInv, NoIdleSlot

(* Steps that leave the lines as they are, and free no slot.               *)
LEMMA SameLine ==
  ASSUME LineInv, UNCHANGED <<fifo, ready, getters, free>>, RowsStay
  PROVE  LineInv'
BY OnIsTasks DEF LineInv, NoIdleSlot, InReady, RowsStay

(* A callback that ends: the one that ran is off the line, and what is     *)
(* left still answers for the slots it did not take.                       *)
LEMMA HeadRuns ==
  ASSUME SlotInv, LineInv, ready # <<>>, NEW t \in Tasks, t = Head(ready)
  PROVE  /\ Tail(ready) \in Seq(Callbacks) /\ OnceOn(Tail(ready))
         /\ On(Tail(ready)) = On(ready) \ {t}
         /\ t \in On(ready) /\ row[t] # "none"
         /\ getters # <<>> => free - 1 <= Cardinality(On(Tail(ready)))
<1>1. /\ Tail(ready) \in Seq(Callbacks) /\ OnceOn(Tail(ready))
      /\ On(Tail(ready)) = On(ready) \ {t}
  BY OnTail DEF LineInv
<1>2. t \in On(ready)
  <2>1. 1 \in 1 .. Len(ready) /\ ready[1] = t
    BY DEF LineInv
  <2> QED
    BY <2>1 DEF On, Contains
<1>3. Cardinality(On(ready) \ {t}) = Cardinality(On(ready)) - 1 /\ Cardinality(On(ready)) \in Nat
  BY <1>2, OnIsTasks, Counts, FS_RemoveElement
<1>4. ASSUME getters # <<>>
      PROVE  free - 1 <= Cardinality(On(Tail(ready)))
  <2>1. free <= Cardinality(On(ready)) /\ free \in Nat
    BY <1>4 DEF SlotInv, LineInv, NoIdleSlot, InReady
  <2>2. Cardinality(On(Tail(ready))) = Cardinality(On(ready)) - 1
    BY <1>1, <1>3
  <2> QED
    BY <1>3, <2>1, <2>2
<1> QED
  BY <1>1, <1>2, <1>4 DEF LineInv

(* A slot that is put back: the waiter that is woken answers for it.       *)
LEMMA PutSlotLine ==
  ASSUME LineInv, NEW rest \in Seq(Callbacks), NEW left \in Nat,
         OnceOn(rest), On(rest) \subseteq On(ready),
         getters # <<>> => left <= Cardinality(On(rest)),
         PutSlot(rest, left), UNCHANGED fifo, RowsStay
  PROVE  LineInv'
<1>1. CASE getters = <<>>
  <2>1. ready' = rest /\ getters' = <<>>
    BY <1>1 DEF PutSlot
  <2> QED
    BY <1>1, <2>1, OnIsTasks DEF LineInv, NoIdleSlot, RowsStay
<1>2. CASE getters # <<>>
  <2> DEFINE g == Head(getters)
  <2>1. ready' = Append(rest, g) /\ getters' = Tail(getters) /\ free' = left + 1
    BY <1>2 DEF PutSlot
  <2>2. /\ g \in On(getters) /\ g \in Tasks /\ g \in Callbacks
        /\ Tail(getters) \in Seq(Tasks) /\ getters \in Seq(Callbacks)
    BY <1>2, OnTasks DEF LineInv
  <2>3. OnceOn(Tail(getters)) /\ On(Tail(getters)) = On(getters) \ {g}
    BY <1>2, <2>2, OnTail DEF LineInv
  <2>4. g \notin On(rest)
    BY <2>2 DEF LineInv
  <2>5. /\ ready' \in Seq(Callbacks) /\ OnceOn(ready')
        /\ On(ready') = On(rest) \cup {g}
    BY <2>1, <2>2, <2>4, OnAppend
  <2>6. Cardinality(On(ready')) = Cardinality(On(rest)) + 1 /\ Cardinality(On(rest)) \in Nat
    BY <2>4, <2>5, OnIsTasks, Counts, FS_AddElement
  <2>7. free' <= Cardinality(On(ready'))
    BY <1>2, <2>1, <2>6
  <2>8. /\ On(fifo) \cap On(ready') = {} /\ On(fifo) \cap On(getters') = {}
        /\ On(ready') \cap On(getters') = {}
        /\ \A t \in On(fifo) \cup On(ready') \cup On(getters') : row'[t] # "none"
    BY <2>1, <2>2, <2>3, <2>5, OnIsTasks DEF LineInv, RowsStay
  <2> QED
    BY <2>1, <2>2, <2>3, <2>5, <2>7, <2>8 DEF LineInv, NoIdleSlot, InReady
<1> QED
  BY <1>1, <1>2

(* A new task goes to the end of _queue and the dispatcher is woken.       *)
LEMMA SubmitLine ==
  ASSUME SlotInv, LineInv, Submit, UNCHANGED <<free, getters>>
  PROVE  LineInv'
<1>1. PICK t \in Tasks : /\ row[t] = "none" /\ row' = [row EXCEPT ![t] = "queued"]
                         /\ fifo' = Append(fifo, t) /\ WakeDispatcher
  BY DEF Submit
<1>2. Dispatcher \in Callbacks /\ Dispatcher \notin Tasks /\ t \in Callbacks
  BY DEF Dispatcher, Tasks, Callbacks
<1>3. t \notin On(fifo) \cup On(ready) \cup On(getters)
  BY <1>1 DEF LineInv
<1>4. fifo' \in Seq(Tasks) /\ OnceOn(fifo') /\ On(fifo') = On(fifo) \cup {t}
  BY <1>1, <1>2, <1>3, OnTasks, OnAppend DEF LineInv
<1>5. ready' \in Seq(Callbacks) /\ OnceOn(ready') /\ On(ready') = On(ready)
  <2>1. Dispatcher \notin On(ready) /\ {Dispatcher} \cap Tasks = {}
    BY <1>2, OnIsTasks
  <2>2. ready \in Seq(Callbacks) /\ OnceOn(ready)
    BY DEF LineInv
  <2>3. /\ Append(ready, Dispatcher) \in Seq(Callbacks) /\ OnceOn(Append(ready, Dispatcher))
        /\ On(Append(ready, Dispatcher)) = On(ready) \cup ({Dispatcher} \cap Tasks)
    BY <1>2, <2>1, <2>2, OnAppend
  <2>4. ready' = ready \/ ready' = Append(ready, Dispatcher)
    BY <1>1 DEF WakeDispatcher
  <2>5. CASE ready' = ready
    BY <2>2, <2>5
  <2>6. CASE ready' = Append(ready, Dispatcher)
    BY <2>1, <2>3, <2>6
  <2> QED
    BY <2>4, <2>5, <2>6
<1>6. RowsStay
  BY <1>1 DEF RowsStay, SlotInv
<1>7. /\ On(fifo') \cap On(ready') = {} /\ On(fifo') \cap On(getters) = {}
      /\ \A u \in On(fifo') \cup On(ready') \cup On(getters) : row'[u] # "none"
  BY <1>1, <1>3, <1>4, <1>5, <1>6, OnIsTasks DEF LineInv, RowsStay, SlotInv
<1> QED
  BY <1>4, <1>5, <1>7 DEF LineInv, NoIdleSlot, InReady

(* Dispatching moves _queue to the event loop.                             *)
LEMMA DispatchLine ==
  ASSUME SlotInv, LineInv, Dispatch
  PROVE  LineInv'
<1>1. /\ ready # <<>> /\ Head(ready) = Dispatcher
      /\ ready' = Tail(ready) \o fifo /\ fifo' = <<>>
      /\ UNCHANGED <<row, free, getters>>
  BY DEF Dispatch
<1>2. /\ Tail(ready) \in Seq(Callbacks) /\ OnceOn(Tail(ready))
      /\ On(Tail(ready)) = On(ready)
  <2>1. On(ready) \ {Dispatcher} = On(ready)
    BY OnIsTasks DEF Dispatcher, Tasks
  <2>2. ready \in Seq(Callbacks) /\ OnceOn(ready)
    BY DEF LineInv
  <2>3. /\ Tail(ready) \in Seq(Callbacks) /\ OnceOn(Tail(ready))
        /\ On(Tail(ready)) = On(ready) \ {Head(ready)}
    BY <1>1, <2>2, OnTail
  <2> QED
    BY <1>1, <2>1, <2>3
<1>3. /\ ready' \in Seq(Callbacks) /\ OnceOn(ready')
      /\ On(ready') = On(ready) \cup On(fifo)
  <2>1. fifo \in Seq(Callbacks) /\ OnceOn(fifo) /\ On(Tail(ready)) \cap On(fifo) = {}
    BY <1>2, OnTasks DEF LineInv
  <2>2. ready' = Tail(ready) \o fifo
    BY <1>1
  <2> QED
    BY <1>2, <2>1, <2>2, OnConcat
<1>4. Cardinality(On(ready)) <= Cardinality(On(ready'))
  BY <1>3, OnIsTasks, CountsMore
<1>5. Cardinality(On(ready)) \in Nat /\ Cardinality(On(ready')) \in Nat /\ free \in Nat
  BY OnIsTasks, Counts DEF SlotInv
<1>6. NoIdleSlot'
  BY <1>1, <1>4, <1>5 DEF LineInv, NoIdleSlot, InReady
<1>7. fifo' \in Seq(Tasks)
  BY <1>1
<1> QED
  BY <1>1, <1>3, <1>6, <1>7, OnNothing DEF LineInv

(* A coroutine that looks for a slot sleeps behind the others, or takes    *)
(* one.                                                                    *)
LEMMA TakeSlotLine ==
  ASSUME SlotInv, LineInv, TakeSlot
  PROVE  LineInv'
<1>1. PICK t \in Tasks : t = Head(ready) /\ (Sleeps(t) \/ Skips(t) \/ Starts(t))
  BY DEF TakeSlot
<1>2. ready # <<>> /\ UNCHANGED fifo
  BY DEF TakeSlot
<1>3. /\ Tail(ready) \in Seq(Callbacks) /\ OnceOn(Tail(ready))
      /\ On(Tail(ready)) = On(ready) \ {t}
      /\ t \in On(ready) /\ row[t] # "none"
      /\ getters # <<>> => free - 1 <= Cardinality(On(Tail(ready)))
  BY <1>1, <1>2, HeadRuns
<1>4. CASE Sleeps(t)
  <2>1. /\ free = 0 /\ ready' = Tail(ready) /\ getters' = Append(getters, t)
        /\ UNCHANGED <<row, free>>
    BY <1>4 DEF Sleeps
  <2>2. t \notin On(getters)
    BY <1>3 DEF LineInv
  <2>3. getters' \in Seq(Tasks) /\ OnceOn(getters') /\ On(getters') = On(getters) \cup {t}
    BY <2>1, <2>2, OnTasks, OnAppend DEF LineInv
  <2>4. NoIdleSlot'
    BY <2>1, OnIsTasks, Counts DEF NoIdleSlot, InReady
  <2> QED
    BY <1>2, <1>3, <2>1, <2>3, <2>4 DEF LineInv
<1>5. CASE Skips(t)
  <2>1. free > 0 /\ free - 1 \in Nat /\ PutSlot(Tail(ready), free - 1) /\ row' = row
    BY <1>5 DEF Skips, SlotInv
  <2>2. RowsStay
    BY <2>1 DEF RowsStay
  <2> QED
    BY <1>2, <1>3, <2>1, <2>2, PutSlotLine
<1>6. CASE Starts(t)
  <2>1. /\ free > 0 /\ free' = free - 1 /\ ready' = Tail(ready) /\ getters' = getters
        /\ row' = [row EXCEPT ![t] = "active"]
    BY <1>6 DEF Starts
  <2>2. RowsStay
    BY <2>1 DEF RowsStay, SlotInv
  <2> QED
    BY <1>2, <1>3, <2>1, <2>2, OnIsTasks DEF LineInv, NoIdleSlot, InReady, RowsStay
<1> QED
  BY <1>1, <1>4, <1>5, <1>6

(* A restart empties all lines and fills _queue from the table.            *)
LEMMA RestartLine ==
  ASSUME SlotInv, LineInv, Restart
  PROVE  LineInv'
<1>1. /\ row' = [t \in Tasks |-> IF row[t] = "active" THEN "over" ELSE row[t]]
      /\ ready' = <<Dispatcher>> /\ getters' = <<>>
  BY DEF Restart
<1>2. PICK s \in [1 .. Cardinality(Queued) -> Queued] : OldestFirst(s) /\ fifo' = s
  BY DEF Restart
<1>3. Cardinality(Queued) \in Nat /\ Queued \subseteq Tasks
  BY Counts DEF Queued
<1>4. s \in Seq(Tasks) /\ Len(s) = Cardinality(Queued)
  BY <1>2, <1>3
<1>5. \A i, j \in 1 .. Len(s) : i < j => s[i] < s[j]
  BY <1>2 DEF OldestFirst
<1>6. OnceOn(s)
  BY <1>4, <1>5 DEF OnceOn, Tasks
<1>7. \A t \in On(s) : row'[t] # "none"
  BY <1>1, <1>2, <1>4 DEF On, Contains, Queued
<1>8. <<>> \in Seq(Tasks)
  OBVIOUS
<1> QED
  BY <1>1, <1>2, <1>4, <1>6, <1>7, <1>8, OnNothing, OnDispatcher DEF LineInv, NoIdleSlot

LEMMA StepLine == SlotInv /\ LineInv /\ [QueueNext]_queueVars => LineInv'
<1> SUFFICES ASSUME SlotInv, LineInv, [QueueNext]_queueVars PROVE LineInv'
  OBVIOUS
<1>1. CASE PostArrives
  BY <1>1, SameLine DEF PostArrives, RowsStay
<1>2. CASE CheckReturns
  BY <1>2, SubmitLine, SameLine DEF CheckReturns, RowsStay
<1>3. CASE Dispatch
  BY <1>3, DispatchLine
<1>4. CASE TakeSlot
  BY <1>4, TakeSlotLine
<1>5. CASE Restart
  BY <1>5, RestartLine
<1>6. ASSUME NEW t \in Tasks, DeleteQueued(t) \/ RowEnds(t)
      PROVE  LineInv'
  BY <1>6, SameLine DEF DeleteQueued, RowEnds, RowsStay, SlotInv
<1>7. ASSUME NEW t \in Tasks, SlotBack(t)
      PROVE  LineInv'
  <2>1. PutSlot(ready, free) /\ UNCHANGED <<row, fifo>> /\ free \in Nat
    BY <1>7 DEF SlotBack, SlotInv
  <2>2. RowsStay
    BY <2>1 DEF RowsStay
  <2>3. getters # <<>> => free <= Cardinality(On(ready))
    BY DEF LineInv, NoIdleSlot, InReady
  <2> QED
    BY <2>1, <2>2, <2>3, PutSlotLine DEF LineInv
<1>8. CASE UNCHANGED queueVars
  BY <1>8, SameLine DEF queueVars, RowsStay
<1> QED
  BY <1>1, <1>2, <1>3, <1>4, <1>5, <1>6, <1>7, <1>8 DEF QueueNext

(* No slot of _free_slots lies idle while a _run_one sleeps for one,       *)
(* whatever order the event loop runs the others in and whoever takes a    *)
(* slot that another was woken for (queueing.py, _run_one).                *)
THEOREM NoSlotIsIdle == QueueSpec => []NoIdleSlot
<1>1. QueueInit => SlotInv /\ LineInv
  BY InitSlots, InitLine
<1>2. SlotInv /\ LineInv /\ [QueueNext]_queueVars => (SlotInv /\ LineInv)'
  BY StepSlots, StepLine
<1>3. LineInv => NoIdleSlot
  BY DEF LineInv
<1> QED
  BY <1>1, <1>2, <1>3, PTL DEF QueueSpec

-----------------------------------------------------------------------------
(* The bounds and the histories.                                           *)
BoundsInv ==
  /\ checking \in 0 .. MaxPosts /\ restarts \in 0 .. MaxRestarts
  /\ passed \subseteq slept /\ slept \subseteq Tasks

LEMMA StepBounds == BoundsInv /\ [QueueNext]_queueVars => BoundsInv'
<1> SUFFICES ASSUME BoundsInv, [QueueNext]_queueVars PROVE BoundsInv'
  OBVIOUS
<1> USE QueueAssumption DEF BoundsInv, history
<1>1. CASE PostArrives \/ CheckReturns \/ Dispatch \/ Restart
  BY <1>1 DEF PostArrives, CheckReturns, Dispatch, Restart
<1>2. CASE TakeSlot
  BY <1>2 DEF TakeSlot, Sleeps, Skips, Starts
<1>3. ASSUME NEW t \in Tasks, DeleteQueued(t) \/ RowEnds(t) \/ SlotBack(t)
      PROVE  BoundsInv'
  BY <1>3 DEF DeleteQueued, RowEnds, SlotBack
<1>4. CASE UNCHANGED queueVars
  BY <1>4 DEF queueVars
<1> QED
  BY <1>1, <1>2, <1>3, <1>4 DEF QueueNext

(* Every variable has its type, and slots are neither lost nor made.       *)
THEOREM QueueTypeCorrect == QueueSpec => []SlotTypeOK
<1>1. QueueInit => SlotInv /\ LineInv /\ BoundsInv
  BY InitSlots, InitLine, QueueAssumption DEF QueueInit, BoundsInv
<1>2. SlotInv /\ LineInv /\ BoundsInv /\ [QueueNext]_queueVars => (SlotInv /\ LineInv /\ BoundsInv)'
  BY StepSlots, StepLine, StepBounds
<1>3. SlotInv /\ LineInv /\ BoundsInv => SlotTypeOK
  <2> SUFFICES ASSUME SlotInv, LineInv, BoundsInv PROVE SlotTypeOK
    OBVIOUS
  <2>1. free \in 0 .. Workers
    BY HeldIsFinite, QueueAssumption DEF SlotInv
  <2> QED
    BY <2>1 DEF SlotInv, LineInv, BoundsInv, SlotTypeOK, Callbacks
<1> QED
  BY <1>1, <1>2, <1>3, PTL DEF QueueSpec

-----------------------------------------------------------------------------
(***************************************************************************)
(* The order in which tasks get a slot.                                    *)
(***************************************************************************)
(* Task y may be behind x, given which have passed.                        *)
Turn(x, y, past) == x < y \/ y \in past

(* The coroutines of a line that have slept are in turn, and so are those  *)
(* that are new.                                                           *)
InTurn(s, asleep, past) ==
  \A i, j \in 1 .. Len(s) :
    i < j /\ s[i] \in Tasks /\ s[j] \in Tasks /\ (s[i] \in asleep <=> s[j] \in asleep) =>
      Turn(s[i], s[j], past)

(* Rows are made in the order of the numbers, and a queued one is in line. *)
RowsInOrder ==
  /\ \A t, u \in Tasks : u < t /\ row[t] # "none" => row[u] # "none"
  /\ \A t \in Queued : t \in On(fifo) \cup On(ready) \cup On(getters)

(* What is in _queue is later than whatever has been dispatched.           *)
FifoInOrder ==
  /\ OldestFirst(fifo)
  /\ \A x \in On(ready) \cup On(getters), y \in On(fifo) : x < y

(* A coroutine sleeps only when all that are before it in the loop have    *)
(* had their turn, so one that is new is later than all that have slept.   *)
SleepersFirst ==
  /\ \A t \in slept : row[t] # "none"
  /\ On(fifo) \cap slept = {} /\ On(getters) \subseteq slept
  /\ \A x \in On(ready) \cup On(getters), y \in On(ready) :
       x \in slept /\ y \notin slept => x < y

LinesInTurn ==
  /\ InTurn(ready, slept, passed) /\ InTurn(getters, slept, passed)
  /\ \A x \in On(ready), y \in On(getters) : x \in slept => Turn(x, y, passed)

(* While any sleeps, a free slot has a coroutine that was woken for it.    *)
WokenForEach == getters # <<>> => free <= Cardinality(InReady \cap slept)

TurnInv ==
  SlotInv /\ LineInv /\ BoundsInv /\ RowsInOrder /\ FifoInOrder /\ SleepersFirst /\ LinesInTurn
  /\ WokenForEach

LEMMA InTurnTail ==
  ASSUME NEW s \in Seq(Callbacks), s # <<>>, NEW asleep, NEW past, InTurn(s, asleep, past)
  PROVE  /\ InTurn(Tail(s), asleep, past)
         /\ \A y \in On(Tail(s)) :
              Head(s) \in Tasks /\ (Head(s) \in asleep <=> y \in asleep) => Turn(Head(s), y, past)
<1>1. /\ Len(s) \in Nat \ {0} /\ Len(Tail(s)) = Len(s) - 1
      /\ \A i \in 1 .. Len(s) - 1 : Tail(s)[i] = s[i + 1] /\ i + 1 \in 1 .. Len(s)
      /\ Head(s) = s[1] /\ 1 \in 1 .. Len(s)
  OBVIOUS
<1>2. InTurn(Tail(s), asleep, past)
  <2> SUFFICES ASSUME NEW i \in 1 .. Len(s) - 1, NEW j \in 1 .. Len(s) - 1, i < j,
                      Tail(s)[i] \in Tasks, Tail(s)[j] \in Tasks,
                      Tail(s)[i] \in asleep <=> Tail(s)[j] \in asleep
               PROVE  Turn(Tail(s)[i], Tail(s)[j], past)
    BY <1>1 DEF InTurn
  <2>1. i + 1 < j + 1 /\ i + 1 \in 1 .. Len(s) /\ j + 1 \in 1 .. Len(s)
    BY <1>1
  <2> QED
    BY <1>1, <2>1 DEF InTurn
<1>3. ASSUME NEW y \in On(Tail(s)), Head(s) \in Tasks, Head(s) \in asleep <=> y \in asleep
      PROVE  Turn(Head(s), y, past)
  <2>1. PICK i \in 1 .. Len(s) - 1 : Tail(s)[i] = y
    BY <1>1 DEF On, Contains
  <2>2. s[i + 1] = y /\ i + 1 \in 1 .. Len(s) /\ 1 < i + 1 /\ y \in Tasks
    BY <1>1, <2>1 DEF On
  <2> QED
    BY <1>1, <1>3, <2>2 DEF InTurn
<1> QED
  BY <1>2, <1>3

LEMMA InTurnAppend ==
  ASSUME NEW s \in Seq(Callbacks), NEW c \in Callbacks, NEW asleep, NEW past,
         InTurn(s, asleep, past),
         c \in Tasks => \A x \in On(s) : (x \in asleep <=> c \in asleep) => Turn(x, c, past)
  PROVE  InTurn(Append(s, c), asleep, past)
<1>1. /\ Len(s) \in Nat /\ Len(Append(s, c)) = Len(s) + 1
      /\ \A i \in 1 .. Len(s) : Append(s, c)[i] = s[i]
      /\ Append(s, c)[Len(s) + 1] = c
  OBVIOUS
<1> DEFINE a == Append(s, c)
<1> SUFFICES ASSUME NEW i \in 1 .. Len(s) + 1, NEW j \in 1 .. Len(s) + 1, i < j,
                    a[i] \in Tasks, a[j] \in Tasks, a[i] \in asleep <=> a[j] \in asleep
             PROVE  Turn(a[i], a[j], past)
  BY <1>1 DEF InTurn
<1>2. i \in 1 .. Len(s) /\ a[i] = s[i]
  BY <1>1
<1>3. CASE j \in 1 .. Len(s)
  <2>1. a[j] = s[j]
    BY <1>1, <1>3
  <2> QED
    BY <1>2, <1>3, <2>1 DEF InTurn
<1>4. CASE j = Len(s) + 1
  <2>1. a[j] = c /\ s[i] \in On(s)
    BY <1>1, <1>2, <1>4 DEF On, Contains
  <2> QED
    BY <1>2, <2>1
<1> QED
  BY <1>1, <1>3, <1>4

LEMMA InTurnConcat ==
  ASSUME NEW s \in Seq(Callbacks), NEW u \in Seq(Callbacks), NEW asleep, NEW past,
         InTurn(s, asleep, past), InTurn(u, asleep, past),
         \A x \in On(s), y \in On(u) : (x \in asleep <=> y \in asleep) => Turn(x, y, past)
  PROVE  InTurn(s \o u, asleep, past)
<1> DEFINE a == s \o u
<1>1. /\ Len(s) \in Nat /\ Len(u) \in Nat /\ Len(a) = Len(s) + Len(u)
      /\ \A i \in 1 .. Len(s) : a[i] = s[i]
      /\ \A i \in 1 .. Len(s) + Len(u) : i > Len(s) => a[i] = u[i - Len(s)] /\ i - Len(s) \in 1 .. Len(u)
  OBVIOUS
<1> SUFFICES ASSUME NEW i \in 1 .. Len(s) + Len(u), NEW j \in 1 .. Len(s) + Len(u), i < j,
                    a[i] \in Tasks, a[j] \in Tasks, a[i] \in asleep <=> a[j] \in asleep
             PROVE  Turn(a[i], a[j], past)
  BY <1>1 DEF InTurn
<1> HIDE DEF a
<1>2. CASE j <= Len(s)
  <2>1. i \in 1 .. Len(s) /\ j \in 1 .. Len(s) /\ a[i] = s[i] /\ a[j] = s[j]
    BY <1>1, <1>2
  <2> QED
    BY <2>1 DEF InTurn
<1>3. CASE i <= Len(s) /\ j > Len(s)
  <2>1. /\ i \in 1 .. Len(s) /\ j - Len(s) \in 1 .. Len(u)
        /\ a[i] = s[i] /\ a[j] = u[j - Len(s)]
    BY <1>1, <1>3
  <2>2. a[i] \in On(s) /\ a[j] \in On(u)
    BY <2>1 DEF On, Contains
  <2> QED
    BY <2>2
<1>4. CASE i > Len(s)
  <2>1. /\ i - Len(s) \in 1 .. Len(u) /\ j - Len(s) \in 1 .. Len(u) /\ i - Len(s) < j - Len(s)
        /\ a[i] = u[i - Len(s)] /\ a[j] = u[j - Len(s)]
    BY <1>1, <1>4
  <2> QED
    BY <2>1 DEF InTurn
<1> QED
  BY <1>1, <1>2, <1>3, <1>4

(* What is in turn stays so when others fall asleep or are passed.         *)
LEMMA InTurnOn ==
  ASSUME NEW s \in Seq(Callbacks), NEW asleep, NEW past, NEW asleep2, NEW past2,
         InTurn(s, asleep, past), past \subseteq past2,
         \A x \in On(s) : x \in asleep <=> x \in asleep2
  PROVE  InTurn(s, asleep2, past2)
<1>1. \A i \in 1 .. Len(s) : s[i] \in Tasks => s[i] \in On(s)
  BY DEF On, Contains
<1> QED
  BY <1>1 DEF InTurn, Turn

LEMMA NobodyInTurn == \A asleep, past : InTurn(<<>>, asleep, past) /\ InTurn(<<Dispatcher>>, asleep, past)
<1>1. Dispatcher \notin Tasks
  BY DEF Dispatcher, Tasks
<1> QED
  BY <1>1 DEF InTurn

LEMMA OldestInTurn ==
  ASSUME NEW s \in Seq(Tasks), OldestFirst(s), NEW asleep, NEW past
  PROVE  InTurn(s, asleep, past)
BY DEF OldestFirst, InTurn, Turn

LEMMA InitTurn == QueueInit => TurnInv
<1> SUFFICES ASSUME QueueInit PROVE TurnInv
  OBVIOUS
<1>1. SlotInv /\ LineInv /\ BoundsInv
  BY InitSlots, InitLine, QueueAssumption DEF QueueInit, BoundsInv
<1>2. RowsInOrder /\ FifoInOrder /\ SleepersFirst /\ LinesInTurn
  BY OnNothing, OnDispatcher, NobodyInTurn
     DEF QueueInit, RowsInOrder, Queued, FifoInOrder, OldestFirst, SleepersFirst, LinesInTurn
<1>3. WokenForEach
  BY DEF QueueInit, WokenForEach
<1> QED
  BY <1>1, <1>2, <1>3 DEF TurnInv

(* Steps that leave the lines as they are.                                 *)
LEMMA SameTurn ==
  ASSUME TurnInv, SlotInv', LineInv', BoundsInv',
         UNCHANGED <<fifo, ready, getters, free, slept, passed>>,
         \A t \in Tasks : row[t] = "none" <=> row'[t] = "none",
         \A t \in Tasks : row'[t] = "queued" => row[t] = "queued"
  PROVE  TurnInv'
<1>1. RowsInOrder' /\ SleepersFirst'
  BY OnIsTasks DEF TurnInv, RowsInOrder, Queued, SleepersFirst, BoundsInv
<1>2. FifoInOrder' /\ LinesInTurn' /\ WokenForEach'
  BY DEF TurnInv, FifoInOrder, LinesInTurn, WokenForEach, InReady
<1> QED
  BY <1>1, <1>2 DEF TurnInv

(* The coroutine that runs, and those behind it.                           *)
LEMMA HeadTurns ==
  ASSUME TurnInv, ready # <<>>, NEW t \in Tasks, t = Head(ready)
  PROVE  /\ Tail(ready) \in Seq(Callbacks) /\ OnceOn(Tail(ready))
         /\ On(Tail(ready)) = On(ready) \ {t} /\ t \in On(ready)
         /\ InTurn(Tail(ready), slept, passed)
         /\ \A y \in On(Tail(ready)) : (t \in slept <=> y \in slept) => Turn(t, y, passed)
         /\ getters # <<>> => free - 1 <= Cardinality(On(Tail(ready)) \cap slept)
<1>1. /\ Tail(ready) \in Seq(Callbacks) /\ OnceOn(Tail(ready))
      /\ On(Tail(ready)) = On(ready) \ {t} /\ t \in On(ready)
  BY HeadRuns DEF TurnInv
<1>2. ready \in Seq(Callbacks) /\ InTurn(ready, slept, passed)
  BY DEF TurnInv, LineInv, LinesInTurn
<1>3. /\ InTurn(Tail(ready), slept, passed)
      /\ \A y \in On(Tail(ready)) : (t \in slept <=> y \in slept) => Turn(t, y, passed)
  BY <1>2, InTurnTail
<1>4. ASSUME getters # <<>>
      PROVE  free - 1 <= Cardinality(On(Tail(ready)) \cap slept)
  <2> DEFINE S == On(ready) \cap slept
  <2>1. free <= Cardinality(S) /\ free \in Nat
    BY <1>4 DEF TurnInv, SlotInv, WokenForEach, InReady
  <2>2. IsFiniteSet(S) /\ Cardinality(S) \in Nat
    BY OnIsTasks, Counts
  <2>3. On(Tail(ready)) \cap slept = S \ {t}
    BY <1>1
  <2> HIDE DEF S
  <2>4. Cardinality(S \ {t}) = IF t \in S THEN Cardinality(S) - 1 ELSE Cardinality(S)
    BY <2>2, FS_RemoveElement
  <2>5. CASE t \in S
    <3>1. Cardinality(On(Tail(ready)) \cap slept) = Cardinality(S) - 1
      BY <2>3, <2>4, <2>5
    <3> QED
      BY <2>1, <2>2, <3>1
  <2>6. CASE t \notin S
    <3>1. Cardinality(On(Tail(ready)) \cap slept) = Cardinality(S)
      BY <2>3, <2>4, <2>6
    <3> QED
      BY <2>1, <2>2, <3>1
  <2> QED
    BY <2>5, <2>6
<1> QED
  BY <1>1, <1>3, <1>4

(* A slot that is put back wakes the one that has slept longest, who goes  *)
(* behind those that were woken before.                                    *)
LEMMA PutSlotTurn ==
  ASSUME TurnInv, SlotInv', LineInv', BoundsInv',
         NEW rest \in Seq(Callbacks), NEW left \in Nat,
         OnceOn(rest), On(rest) \subseteq On(ready),
         \A t \in On(ready) : row[t] = "queued" => t \in On(rest),
         InTurn(rest, slept, passed),
         getters # <<>> => left <= Cardinality(On(rest) \cap slept),
         PutSlot(rest, left), UNCHANGED <<row, fifo, slept, passed>>
  PROVE  TurnInv'
<1>1. CASE getters = <<>>
  <2>1. ready' = rest /\ getters' = <<>>
    BY <1>1 DEF PutSlot
  <2>2. RowsInOrder' /\ FifoInOrder' /\ SleepersFirst' /\ WokenForEach'
    BY <1>1, <2>1, OnNothing
       DEF TurnInv, RowsInOrder, Queued, FifoInOrder, SleepersFirst, WokenForEach
  <2>3. LinesInTurn'
    BY <2>1, OnNothing, NobodyInTurn DEF LinesInTurn
  <2> QED
    BY <2>2, <2>3 DEF TurnInv
<1>2. CASE getters # <<>>
  <2>0. PICK g : g = Head(getters)
    OBVIOUS
  <2>1. ready' = Append(rest, g) /\ getters' = Tail(getters) /\ free' = left + 1
    BY <1>2, <2>0 DEF PutSlot
  <2>2. /\ getters \in Seq(Tasks) /\ getters \in Seq(Callbacks) /\ OnceOn(getters)
        /\ g \in On(getters) /\ g \in Tasks /\ g \in Callbacks
    BY <1>2, <2>0, OnTasks DEF TurnInv, LineInv
  <2>3. On(getters') = On(getters) \ {g}
    BY <1>2, <2>0, <2>1, <2>2, OnTail
  <2>4. g \notin On(rest) /\ g \in slept /\ g \notin On(fifo)
    BY <2>2 DEF TurnInv, LineInv, SleepersFirst
  <2>5. On(ready') = On(rest) \cup {g}
    BY <2>1, <2>2, <2>4, OnAppend
  <2>6. InTurn(getters, slept, passed) /\ \A x \in On(ready) : x \in slept => Turn(x, g, passed)
    BY <2>2 DEF TurnInv, LinesInTurn
  <2>7. /\ InTurn(getters', slept, passed)
        /\ \A y \in On(getters') : (g \in slept <=> y \in slept) => Turn(g, y, passed)
    BY <1>2, <2>0, <2>1, <2>2, <2>6, InTurnTail
  <2>8. InTurn(ready', slept, passed)
    BY <2>1, <2>2, <2>4, <2>6, InTurnAppend
  <2>9. LinesInTurn'
    BY <2>3, <2>4, <2>5, <2>7, <2>8 DEF TurnInv, LinesInTurn, SleepersFirst
  <2>10. RowsInOrder' /\ FifoInOrder' /\ SleepersFirst'
    BY <2>2, <2>3, <2>4, <2>5 DEF TurnInv, RowsInOrder, Queued, FifoInOrder, SleepersFirst
  <2>11. WokenForEach'
    <3>1. On(ready') \cap slept = (On(rest) \cap slept) \cup {g}
      BY <2>4, <2>5
    <3>2. IsFiniteSet(On(rest) \cap slept) /\ Cardinality(On(rest) \cap slept) \in Nat
      BY OnIsTasks, Counts
    <3>3. Cardinality(On(ready') \cap slept) = Cardinality(On(rest) \cap slept) + 1
      BY <2>4, <3>1, <3>2, FS_AddElement
    <3> QED
      BY <1>2, <2>1, <3>2, <3>3 DEF WokenForEach, InReady
  <2> QED
    BY <2>9, <2>10, <2>11 DEF TurnInv
<1> QED
  BY <1>1, <1>2

(* One that finds no slot sleeps behind the others: it is later than they, *)
(* or has been passed.                                                     *)
LEMMA SleepTurn ==
  ASSUME TurnInv, SlotInv', LineInv', BoundsInv',
         ready # <<>>, NEW t \in Tasks, t = Head(ready), Sleeps(t), UNCHANGED fifo
  PROVE  TurnInv'
<1>1. /\ free' = 0 /\ ready' = Tail(ready) /\ getters' = Append(getters, t) /\ row' = row
      /\ passed' = passed \cup ({t} \cap slept) /\ slept' = slept \cup {t}
  BY DEF Sleeps
<1>2. /\ On(ready') = On(ready) \ {t} /\ t \in On(ready)
      /\ ready' \in Seq(Callbacks) /\ InTurn(ready', slept, passed)
      /\ \A y \in On(ready') : (t \in slept <=> y \in slept) => Turn(t, y, passed)
  BY <1>1, HeadTurns
<1>3. /\ getters \in Seq(Callbacks) /\ OnceOn(getters) /\ t \in Callbacks
      /\ t \notin On(getters) /\ t \notin On(fifo)
  BY <1>2, OnTasks DEF TurnInv, LineInv, Callbacks
<1>4. On(getters') = On(getters) \cup {t}
  BY <1>1, <1>3, OnAppend
<1>5. \A x \in On(ready) \cup On(getters) : x \in slept => Turn(x, t, passed')
  <2>1. t \notin slept => \A x \in On(ready) \cup On(getters) : x \in slept => x < t
    BY <1>2 DEF TurnInv, SleepersFirst
  <2> QED
    BY <1>1, <2>1 DEF Turn
<1>6. InTurn(ready', slept', passed')
  <2>1. passed \subseteq passed' /\ \A x \in On(ready') : x \in slept <=> x \in slept'
    BY <1>1, <1>2
  <2> QED
    BY <1>2, <2>1, InTurnOn
<1>7. InTurn(getters', slept', passed')
  <2>1. InTurn(getters, slept', passed')
    BY <1>1, <1>3, InTurnOn DEF TurnInv, LinesInTurn
  <2>2. \A x \in On(getters) : Turn(x, t, passed')
    BY <1>5 DEF TurnInv, SleepersFirst
  <2> QED
    BY <1>1, <1>3, <2>1, <2>2, InTurnAppend
<1>8. LinesInTurn'
  <2>1. \A x \in On(ready'), y \in On(getters') : x \in slept' => Turn(x, y, passed')
    <3> SUFFICES ASSUME NEW x \in On(ready'), NEW y \in On(getters'), x \in slept'
                 PROVE  Turn(x, y, passed')
      OBVIOUS
    <3>1. x \in On(ready) /\ x \in slept
      BY <1>1, <1>2
    <3>2. CASE y = t
      BY <1>5, <3>1, <3>2
    <3>3. CASE y \in On(getters)
      BY <1>1, <3>1, <3>3 DEF TurnInv, LinesInTurn, Turn
    <3> QED
      BY <1>4, <3>2, <3>3
  <2> QED
    BY <1>6, <1>7, <2>1 DEF LinesInTurn
<1>9. SleepersFirst'
  <2>1. ASSUME NEW x \in On(ready') \cup On(getters'), NEW y \in On(ready'),
               x \in slept', y \notin slept'
        PROVE  x < y
    <3>1. y \in On(ready) /\ y \notin slept /\ y # t
      BY <1>1, <1>2, <2>1
    <3>2. CASE x \in slept /\ x \in On(ready) \cup On(getters)
      BY <3>1, <3>2 DEF TurnInv, SleepersFirst
    <3>3. CASE x = t /\ t \notin slept
      <4>1. Turn(t, y, passed)
        BY <1>2, <2>1, <3>1, <3>3
      <4> QED
        BY <3>1, <3>3, <4>1 DEF TurnInv, BoundsInv, Turn
    <3> QED
      BY <1>1, <1>2, <1>4, <2>1, <3>2, <3>3
  <2>2. /\ \A u \in slept' : row'[u] # "none"
        /\ On(fifo') \cap slept' = {} /\ On(getters') \subseteq slept'
    BY <1>1, <1>2, <1>3, <1>4 DEF TurnInv, SleepersFirst, LineInv
  <2> QED
    BY <2>1, <2>2 DEF SleepersFirst
<1>10. RowsInOrder' /\ FifoInOrder'
  BY <1>1, <1>2, <1>4 DEF TurnInv, RowsInOrder, Queued, FifoInOrder
<1>11. WokenForEach'
  BY <1>1, OnIsTasks, Counts DEF WokenForEach, InReady
<1> QED
  BY <1>8, <1>9, <1>10, <1>11 DEF TurnInv

LEMMA TakeSlotTurn ==
  ASSUME TurnInv, SlotInv', LineInv', BoundsInv', TakeSlot
  PROVE  TurnInv'
<1>1. PICK t \in Tasks : t = Head(ready) /\ (Sleeps(t) \/ Skips(t) \/ Starts(t))
  BY DEF TakeSlot
<1>2. ready # <<>> /\ UNCHANGED fifo
  BY DEF TakeSlot
<1>3. /\ Tail(ready) \in Seq(Callbacks) /\ OnceOn(Tail(ready))
      /\ On(Tail(ready)) = On(ready) \ {t} /\ t \in On(ready)
      /\ InTurn(Tail(ready), slept, passed)
      /\ getters # <<>> => free - 1 <= Cardinality(On(Tail(ready)) \cap slept)
  BY <1>1, <1>2, HeadTurns
<1>4. CASE Sleeps(t)
  BY <1>1, <1>2, <1>4, SleepTurn
<1>5. CASE Skips(t)
  <2>1. /\ free - 1 \in Nat /\ PutSlot(Tail(ready), free - 1) /\ row[t] # "queued"
        /\ UNCHANGED <<row, slept, passed>>
    BY <1>5 DEF Skips, TurnInv, SlotInv, history
  <2>2. \A u \in On(ready) : row[u] = "queued" => u \in On(Tail(ready))
    BY <1>3, <2>1
  <2> QED
    BY <1>2, <1>3, <2>1, <2>2, PutSlotTurn
<1>6. CASE Starts(t)
  <2>1. /\ free' = free - 1 /\ ready' = Tail(ready) /\ row[t] = "queued"
        /\ row' = [row EXCEPT ![t] = "active"] /\ UNCHANGED <<getters, slept, passed>>
    BY <1>6 DEF Starts, history
  <2>2. \A u \in Tasks : /\ row[u] = "none" <=> row'[u] = "none"
                         /\ row'[u] = "queued" => row[u] = "queued" /\ u # t
    BY <2>1 DEF TurnInv, SlotInv
  <2>3. RowsInOrder' /\ FifoInOrder' /\ SleepersFirst'
    BY <1>2, <1>3, <2>1, <2>2, OnIsTasks
       DEF TurnInv, RowsInOrder, Queued, FifoInOrder, SleepersFirst, BoundsInv
  <2>4. LinesInTurn' /\ WokenForEach'
    BY <1>3, <2>1 DEF TurnInv, LinesInTurn, WokenForEach, InReady
  <2> QED
    BY <2>3, <2>4 DEF TurnInv
<1> QED
  BY <1>1, <1>4, <1>5, <1>6

(* The new task is later than all that have a row.                         *)
LEMMA SubmitTurn ==
  ASSUME TurnInv, SlotInv', LineInv', BoundsInv', Submit,
         UNCHANGED <<free, getters, slept, passed>>
  PROVE  TurnInv'
<1>1. PICK t \in Tasks : /\ row[t] = "none" /\ \A u \in 1 .. t - 1 : row[u] # "none"
                         /\ row' = [row EXCEPT ![t] = "queued"]
                         /\ fifo' = Append(fifo, t) /\ WakeDispatcher
  BY DEF Submit
<1>2. /\ fifo \in Seq(Tasks) /\ OnceOn(fifo) /\ getters \in Seq(Tasks) /\ ready \in Seq(Callbacks)
      /\ OnceOn(ready) /\ \A u \in On(fifo) \cup On(ready) \cup On(getters) : row[u] # "none"
  BY DEF TurnInv, LineInv
<1>3. On(fifo') = On(fifo) \cup {t}
  BY <1>1, <1>2, OnTasks, OnAppend DEF Callbacks
<1>4. Dispatcher \in Callbacks /\ Dispatcher \notin Tasks
  BY DEF Dispatcher, Tasks, Callbacks
<1>5. On(ready') = On(ready) /\ InTurn(ready', slept, passed)
  <2>1. InTurn(ready, slept, passed) /\ Dispatcher \notin On(ready)
    BY <1>4, OnIsTasks DEF TurnInv, LinesInTurn
  <2>2. ready' = ready \/ ready' = Append(ready, Dispatcher)
    BY <1>1 DEF WakeDispatcher
  <2>3. On(Append(ready, Dispatcher)) = On(ready) \cup ({Dispatcher} \cap Tasks)
    BY <1>2, <1>4, <2>1, OnAppend
  <2>4. InTurn(Append(ready, Dispatcher), slept, passed)
    BY <1>2, <1>4, <2>1, InTurnAppend
  <2> QED
    BY <1>4, <2>1, <2>2, <2>3, <2>4
<1>6. \A u \in Tasks : row'[u] # "none" <=> row[u] # "none" \/ u = t
  BY <1>1 DEF TurnInv, SlotInv
<1>7. \A u \in Tasks : row[u] # "none" => u < t
  <2> SUFFICES ASSUME NEW u \in Tasks, row[u] # "none" PROVE u < t
    OBVIOUS
  <2>1. ~(t < u)
    BY <1>1 DEF TurnInv, RowsInOrder
  <2> QED
    BY <1>1, <2>1 DEF Tasks
<1>8. RowsInOrder'
  <2>1. \A v, u \in Tasks : u < v /\ row'[v] # "none" => row'[u] # "none"
    <3> SUFFICES ASSUME NEW v \in Tasks, NEW u \in Tasks, u < v, row'[v] # "none"
                 PROVE  row'[u] # "none"
      OBVIOUS
    <3>1. CASE v = t
      <4>1. u \in 1 .. t - 1
        BY <3>1 DEF Tasks
      <4> QED
        BY <1>1, <1>6, <4>1
    <3>2. CASE v # t
      BY <1>6, <3>2 DEF TurnInv, RowsInOrder
    <3> QED
      BY <3>1, <3>2
  <2>2. \A v \in Queued' : v \in On(fifo') \cup On(ready') \cup On(getters')
    BY <1>1, <1>3, <1>5 DEF TurnInv, RowsInOrder, Queued, SlotInv
  <2> QED
    BY <2>1, <2>2 DEF RowsInOrder
<1>9. FifoInOrder'
  <2>1. OldestFirst(fifo')
    <3>1. /\ Len(fifo) \in Nat /\ Len(fifo') = Len(fifo) + 1
          /\ \A i \in 1 .. Len(fifo) : fifo'[i] = fifo[i]
          /\ fifo'[Len(fifo) + 1] = t
      BY <1>1, <1>2
    <3>2. \A i \in 1 .. Len(fifo) : fifo[i] < t
      <4> SUFFICES ASSUME NEW i \in 1 .. Len(fifo) PROVE fifo[i] < t
        OBVIOUS
      <4>1. fifo[i] \in On(fifo) /\ fifo[i] \in Tasks
        BY <1>2 DEF On, Contains
      <4> QED
        BY <1>2, <1>7, <4>1
    <3>3. \A i, j \in 1 .. Len(fifo) : i < j => fifo[i] < fifo[j]
      BY DEF TurnInv, FifoInOrder, OldestFirst
    <3> SUFFICES ASSUME NEW i \in 1 .. Len(fifo'), NEW j \in 1 .. Len(fifo'), i < j
                 PROVE  fifo'[i] < fifo'[j]
      BY DEF OldestFirst
    <3>4. i \in 1 .. Len(fifo) /\ (j \in 1 .. Len(fifo) \/ j = Len(fifo) + 1)
      BY <3>1
    <3> QED
      BY <3>1, <3>2, <3>3, <3>4
  <2>2. \A x \in On(ready') \cup On(getters'), y \in On(fifo') : x < y
    BY <1>2, <1>3, <1>5, <1>7, OnIsTasks DEF TurnInv, FifoInOrder
  <2> QED
    BY <2>1, <2>2 DEF FifoInOrder
<1>10. SleepersFirst'
  <2>1. t \notin slept
    BY <1>1 DEF TurnInv, SleepersFirst
  <2> QED
    BY <1>3, <1>5, <1>6, <2>1 DEF TurnInv, SleepersFirst, BoundsInv
<1>11. LinesInTurn' /\ WokenForEach'
  BY <1>5 DEF TurnInv, LinesInTurn, WokenForEach, InReady
<1> QED
  BY <1>8, <1>9, <1>10, <1>11 DEF TurnInv

(* The coroutines that the dispatcher makes are new, and later than all    *)
(* others.                                                                 *)
LEMMA DispatchTurn ==
  ASSUME TurnInv, SlotInv', LineInv', BoundsInv', Dispatch
  PROVE  TurnInv'
<1>1. /\ ready # <<>> /\ Head(ready) = Dispatcher
      /\ ready' = Tail(ready) \o fifo /\ fifo' = <<>>
      /\ UNCHANGED <<row, free, getters, slept, passed>>
  BY DEF Dispatch, history
<1>2. /\ ready \in Seq(Callbacks) /\ OnceOn(ready) /\ InTurn(ready, slept, passed)
      /\ fifo \in Seq(Tasks) /\ fifo \in Seq(Callbacks) /\ OnceOn(fifo)
      /\ On(fifo) \cap On(ready) = {}
  BY OnTasks DEF TurnInv, LineInv, LinesInTurn
<1>3. /\ Tail(ready) \in Seq(Callbacks) /\ OnceOn(Tail(ready)) /\ On(Tail(ready)) = On(ready)
      /\ InTurn(Tail(ready), slept, passed)
  <2>1. On(ready) \ {Dispatcher} = On(ready)
    BY OnIsTasks DEF Dispatcher, Tasks
  <2>2. /\ Tail(ready) \in Seq(Callbacks) /\ OnceOn(Tail(ready))
        /\ On(Tail(ready)) = On(ready) \ {Head(ready)}
    BY <1>1, <1>2, OnTail
  <2>3. InTurn(Tail(ready), slept, passed)
    BY <1>1, <1>2, InTurnTail
  <2> QED
    BY <1>1, <2>1, <2>2, <2>3
<1>4. On(ready') = On(ready) \cup On(fifo)
  BY <1>1, <1>2, <1>3, OnConcat
<1>5. InTurn(ready', slept, passed)
  <2>1. InTurn(fifo, slept, passed)
    BY <1>2, OldestInTurn DEF TurnInv, FifoInOrder
  <2>2. \A x \in On(Tail(ready)), y \in On(fifo) : Turn(x, y, passed)
    BY <1>3 DEF TurnInv, FifoInOrder, Turn
  <2> QED
    BY <1>1, <1>2, <1>3, <2>1, <2>2, InTurnConcat
<1>6. RowsInOrder' /\ FifoInOrder'
  BY <1>1, <1>4, OnNothing DEF TurnInv, RowsInOrder, Queued, FifoInOrder, OldestFirst
<1>7. SleepersFirst' /\ LinesInTurn'
  BY <1>1, <1>4, <1>5, OnNothing DEF TurnInv, SleepersFirst, LinesInTurn, FifoInOrder
<1>8. WokenForEach'
  <2>1. On(ready) \cap slept \subseteq On(ready') \cap slept /\ On(ready') \cap slept \subseteq Tasks
    BY <1>4, OnIsTasks
  <2>2. Cardinality(On(ready) \cap slept) <= Cardinality(On(ready') \cap slept)
    BY <2>1, CountsMore
  <2>3. Cardinality(On(ready) \cap slept) \in Nat /\ Cardinality(On(ready') \cap slept) \in Nat
    BY OnIsTasks, Counts
  <2>4. free \in Nat
    BY DEF TurnInv, SlotInv
  <2> QED
    BY <1>1, <2>2, <2>3, <2>4 DEF TurnInv, WokenForEach, InReady
<1> QED
  BY <1>6, <1>7, <1>8 DEF TurnInv

(* A restart puts every queued row into _queue, oldest first.              *)
LEMMA RestartTurn ==
  ASSUME TurnInv, SlotInv', LineInv', BoundsInv', Restart
  PROVE  TurnInv'
<1>1. /\ row' = [t \in Tasks |-> IF row[t] = "active" THEN "over" ELSE row[t]]
      /\ ready' = <<Dispatcher>> /\ getters' = <<>> /\ slept' = {} /\ passed' = {}
  BY DEF Restart
<1>2. PICK s \in [1 .. Cardinality(Queued) -> Queued] : OldestFirst(s) /\ fifo' = s
  BY DEF Restart
<1>3. /\ Cardinality(Queued) \in Nat /\ IsFiniteSet(Queued) /\ Queued \subseteq Tasks
      /\ Queued' = Queued
  BY <1>1, Counts DEF Queued
<1>4. s \in Seq(Tasks) /\ Len(s) = Cardinality(Queued)
  BY <1>2, <1>3
<1>5. \A t \in Queued : t \in On(s)
  <2> DEFINE N == Cardinality(Queued)
  <2>1. \A i, j \in 1 .. N : s[i] = s[j] => i = j
    <3>1. \A i, j \in 1 .. N : i < j => s[i] < s[j]
      BY <1>2, <1>4 DEF OldestFirst
    <3>2. \A i \in 1 .. N : s[i] \in Nat
      <4>1. \A t \in Tasks : t \in Nat
        BY DEF Tasks
      <4>2. \A i \in 1 .. N : s[i] \in Tasks
        BY <1>2, <1>3
      <4> QED
        BY <4>1, <4>2
    <3> QED
      BY <1>3, <3>1, <3>2
  <2>2. IsFiniteSet(1 .. N) /\ Cardinality(1 .. N) = N
    BY <1>3, FS_Interval
  <2>3. s \in Injection(1 .. N, Queued)
    BY <1>2, <2>1 DEF Injection, IsInjective
  <2>4. s \in Surjection(1 .. N, Queued)
    BY <1>3, <2>2, <2>3, FS_Injection
  <2> QED
    BY <1>3, <1>4, <2>4 DEF Surjection, On, Contains
<1>6. RowsInOrder'
  BY <1>1, <1>2, <1>3, <1>5 DEF TurnInv, RowsInOrder
<1>7. FifoInOrder' /\ SleepersFirst' /\ LinesInTurn'
  BY <1>1, <1>2, OnNothing, OnDispatcher, NobodyInTurn DEF FifoInOrder, SleepersFirst, LinesInTurn
<1>8. WokenForEach'
  BY <1>1 DEF WokenForEach
<1> QED
  BY <1>6, <1>7, <1>8 DEF TurnInv

LEMMA StepTurn == TurnInv /\ [QueueNext]_queueVars => TurnInv'
<1> SUFFICES ASSUME TurnInv, [QueueNext]_queueVars PROVE TurnInv'
  OBVIOUS
<1>0. SlotInv' /\ LineInv' /\ BoundsInv'
  BY StepSlots, StepLine, StepBounds DEF TurnInv
<1>1. CASE PostArrives
  BY <1>0, <1>1, SameTurn DEF PostArrives, history
<1>2. CASE CheckReturns
  BY <1>0, <1>2, SubmitTurn, SameTurn DEF CheckReturns, history
<1>3. CASE Dispatch
  BY <1>0, <1>3, DispatchTurn
<1>4. CASE TakeSlot
  BY <1>0, <1>4, TakeSlotTurn
<1>5. CASE Restart
  BY <1>0, <1>5, RestartTurn
<1>6. ASSUME NEW t \in Tasks, DeleteQueued(t) \/ RowEnds(t)
      PROVE  TurnInv'
  BY <1>0, <1>6, SameTurn DEF DeleteQueued, RowEnds, history, TurnInv, SlotInv
<1>7. ASSUME NEW t \in Tasks, SlotBack(t)
      PROVE  TurnInv'
  <2>1. PutSlot(ready, free) /\ UNCHANGED <<row, fifo, slept, passed>> /\ free \in Nat
    BY <1>7 DEF SlotBack, TurnInv, SlotInv, history
  <2>2. /\ ready \in Seq(Callbacks) /\ OnceOn(ready) /\ InTurn(ready, slept, passed)
        /\ getters # <<>> => free <= Cardinality(On(ready) \cap slept)
    BY DEF TurnInv, LineInv, LinesInTurn, WokenForEach, InReady
  <2> QED
    BY <1>0, <2>1, <2>2, PutSlotTurn
<1>8. CASE UNCHANGED queueVars
  BY <1>0, <1>8, SameTurn DEF queueVars, history
<1> QED
  BY <1>1, <1>2, <1>3, <1>4, <1>5, <1>6, <1>7, <1>8 DEF QueueNext

(* Whoever starts was in the loop, so an earlier task that still waits is  *)
(* behind it there or asleep.                                              *)
LEMMA StartsInTurn ==
  ASSUME TurnInv, [QueueNext]_queueVars, NEW t \in Tasks, NEW u \in Tasks,
         u < t, row[u] = "queued", row[t] = "queued", row'[t] = "active"
  PROVE  u \in passed \/ (t \notin slept /\ InReady \cap slept # {})
<1>1. ready # <<>> /\ t = Head(ready) /\ free > 0
  <2>1. row' # row
    OBVIOUS
  <2>2. TakeSlot
    BY <2>1 DEF QueueNext, PostArrives, CheckReturns, Submit, Dispatch, Restart, DeleteQueued,
       RowEnds, SlotBack, queueVars, TurnInv, SlotInv
  <2>3. PICK v \in Tasks : v = Head(ready) /\ (Sleeps(v) \/ Skips(v) \/ Starts(v))
    BY <2>2 DEF TakeSlot
  <2>4. Starts(v)
    BY <2>1, <2>3 DEF Sleeps, Skips
  <2>5. v = t /\ free > 0
    BY <2>4 DEF Starts, TurnInv, SlotInv
  <2> QED
    BY <2>2, <2>3, <2>5 DEF TakeSlot
<1>2. /\ On(Tail(ready)) = On(ready) \ {t} /\ t \in On(ready)
      /\ \A y \in On(Tail(ready)) : (t \in slept <=> y \in slept) => Turn(t, y, passed)
  BY <1>1, HeadTurns
<1>3. ~(t < u) /\ t # u
  BY DEF Tasks
<1>4. u \notin On(fifo)
  BY <1>2, <1>3 DEF TurnInv, FifoInOrder
<1>5. CASE u \in On(ready)
  <2>1. u \in On(Tail(ready))
    BY <1>2, <1>3, <1>5
  <2>2. ~(t \in slept /\ u \notin slept)
    BY <1>2, <1>3, <1>5 DEF TurnInv, SleepersFirst
  <2> QED
    BY <1>2, <1>3, <1>5, <2>1, <2>2 DEF Turn, InReady
<1>6. CASE u \in On(getters)
  <2>1. CASE t \in slept
    BY <1>2, <1>3, <1>6, <2>1 DEF TurnInv, LinesInTurn, Turn
  <2>2. CASE t \notin slept
    <3>1. getters # <<>>
      BY <1>6, OnNothing
    <3>2. free <= Cardinality(InReady \cap slept) /\ free \in Nat
      BY <3>1 DEF TurnInv, WokenForEach, SlotInv
    <3>3. Cardinality(InReady \cap slept) # 0
      BY <1>1, <3>2
    <3>4. InReady \cap slept # {}
      BY <3>3, FS_EmptySet
    <3> QED
      BY <2>2, <3>4
  <2> QED
    BY <2>1, <2>2
<1> QED
  BY <1>4, <1>5, <1>6 DEF TurnInv, RowsInOrder, Queued

(* Tasks get their slots in the order in which they were accepted, for any *)
(* number of tasks, slots and restarts, with the one exception of asyncio's*)
(* queue: a new coroutine may take the slot that another was woken for,    *)
(* which has then been passed (queueing.py, _run_one).                     *)
THEOREM TasksStartInOrder == QueueSpec => InOrder
<1>1. QueueInit => TurnInv
  BY InitTurn
<1>2. TurnInv /\ [QueueNext]_queueVars => TurnInv'
  BY StepTurn
<1>3. TurnInv /\ [QueueNext]_queueVars =>
        [\A t, u \in Tasks :
           u < t /\ row[u] = "queued" /\ row[t] = "queued" /\ row'[t] = "active" =>
             \/ u \in passed
             \/ t \notin slept /\ InReady \cap slept # {}]_queueVars
  BY StartsInTurn
<1> QED
  BY <1>1, <1>2, <1>3, PTL DEF QueueSpec, InOrder
================================================================================
