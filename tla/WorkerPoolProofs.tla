--------------------------- MODULE WorkerPoolProofs ---------------------------
(***************************************************************************)
(* What the promise of WorkerPool.tla implies: a crash, a withdrawal or an *)
(* end never leaves more than Workers captures running.  PoolInv is the    *)
(* inductive invariant: the type of phase and the bound.                   *)
(***************************************************************************)
EXTENDS WorkerPool, FiniteSetTheorems, TLAPS

PoolInv ==
  /\ phase \in [Tasks -> Phases]
  /\ WithinWorkers

(* One more member makes a finite set larger by at most one.               *)
LEMMA OneMore ==
  ASSUME NEW A, IsFiniteSet(A), NEW t
  PROVE  /\ Cardinality(A \cup {t}) \in Nat
         /\ Cardinality(A \cup {t}) <= Cardinality(A) + 1
BY FS_AddElement, FS_CardinalityType

(* A move keeps the bound, if a move to active is made below it.           *)
LEMMA MoveKeepsInv ==
  ASSUME IsFiniteSet(Tasks), Workers \in Nat, PoolInv,
         NEW t \in Tasks, NEW from \in Phases, NEW to \in Phases, Move(t, from, to),
         to = "active" => from # "active" /\ Cardinality(In("active")) < Workers
  PROVE  PoolInv'
<1>1. phase' \in [Tasks -> Phases]
  BY DEF PoolInv, Move
<1>2. IsFiniteSet(In("active")) /\ Cardinality(In("active")) \in Nat
  <2>1. In("active") \subseteq Tasks
    BY DEF In
  <2> QED
    BY <2>1, FS_Subset, FS_CardinalityType
<1>3. CASE to = "active"
  <2>1. In("active")' = In("active") \cup {t}
    BY <1>3 DEF In, Move, PoolInv
  <2>2. /\ Cardinality(In("active")') \in Nat
        /\ Cardinality(In("active")') <= Cardinality(In("active")) + 1
    BY <2>1, <1>2, OneMore
  <2> QED
    BY <1>1, <1>2, <1>3, <2>2 DEF PoolInv, WithinWorkers
<1>4. CASE to # "active"
  <2>1. In("active")' \subseteq In("active")
    BY <1>4 DEF In, Move, PoolInv
  <2>2. Cardinality(In("active")') <= Cardinality(In("active"))
    BY <2>1, <1>2, FS_Subset
  <2>3. Cardinality(In("active")') \in Nat
    BY <2>1, <1>2, FS_Subset, FS_CardinalityType
  <2> QED
    BY <1>1, <1>2, <2>2, <2>3 DEF PoolInv, WithinWorkers
<1> QED
  BY <1>3, <1>4

(* Every step of the pool is a move or a crash, which only ends captures.  *)
LEMMA PoolNextKeepsInv ==
  ASSUME IsFiniteSet(Tasks), Workers \in Nat, PoolInv, PoolNext
  PROVE  PoolInv'
<1>1. CASE \E t \in Tasks : Arrive(t) \/ Withdraw(t) \/ Begin(t) \/ End(t)
  BY <1>1, MoveKeepsInv DEF Arrive, Withdraw, Begin, End, Phases
<1>2. CASE Crash
  <2>1. phase' \in [Tasks -> Phases]
    BY <1>2 DEF Crash, PoolInv, Phases
  <2>2. In("active")' = {}
    BY <1>2 DEF Crash, In
  <2> QED
    BY <2>1, <2>2, FS_EmptySet DEF PoolInv, WithinWorkers
<1> QED
  BY <1>1, <1>2 DEF PoolNext

(* settings.WORKERS is a bound on the captures that run at one time, in    *)
(* every pool that keeps the promise, for every number of tasks.           *)
THEOREM PoolWithinWorkers ==
  ASSUME IsFiniteSet(Tasks), Workers \in Nat
  PROVE  PoolSpec => []WithinWorkers
<1>1. PoolInit => PoolInv
  <2> SUFFICES ASSUME PoolInit PROVE PoolInv
    OBVIOUS
  <2>1. In("active") = {}
    BY DEF PoolInit, In
  <2> QED
    BY <2>1, FS_EmptySet DEF PoolInit, PoolInv, Phases, WithinWorkers
<1>2. PoolInv /\ [PoolNext]_phase => PoolInv'
  BY PoolNextKeepsInv DEF PoolInv, In, WithinWorkers
<1>3. PoolInv => WithinWorkers
  BY DEF PoolInv
<1> QED
  BY <1>1, <1>2, <1>3, PTL DEF PoolSpec
===============================================================================
