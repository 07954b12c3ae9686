------------------------------ MODULE PtBarrier ------------------------------
(***************************************************************************)
(* The barrier of CMA_benchmarks/linux-scalability/ptbarrier.h: a counter  *)
(* under a mutex and a condition variable.  The body of                    *)
(* pthread_barrier_wait runs under the mutex, so it is one step up to the  *)
(* wait for the condition and one step after it.  The wait is not in a     *)
(* loop: pthread_cond_wait is taken to return after a broadcast only.      *)
(* arrived and left are history: they count the calls for the refinement.  *)
(***************************************************************************)
EXTENDS Naturals, FiniteSets

CONSTANT Threads  \* the threads that use the barrier: as many as it needs

VARIABLES
  called,   \* threads counted in the round in progress
  at,       \* each thread is out, waits for the condition or has been woken
  arrived,
  left

barrierVars == <<called, at, arrived, left>>

ASSUME PtBarrierAssumption == IsFiniteSet(Threads)

\* Faulty: the barrier opens when one thread is still to come.
NeededOneLess == Cardinality(Threads) - 1

needed == Cardinality(Threads)

Waiting == {t \in Threads : at[t] = "waiting"}

\* pthread_barrier_init
BarrierInit ==
  /\ called = 0
  /\ at = [t \in Threads |-> "out"]
  /\ arrived = [t \in Threads |-> 0]
  /\ left = [t \in Threads |-> 0]

\* Faulty: the count goes on from the round before.
CalledKept == called + 1

\* The last thread resets the count for the next round.
CalledReset == 0

\* pthread_barrier_wait up to pthread_cond_wait, or through the broadcast
Wait(t) ==
  /\ at[t] = "out"
  /\ IF called + 1 = needed
     THEN /\ called' = CalledReset
          /\ at' = [u \in Threads |-> IF u = t \/ at[u] = "waiting" THEN "woken" ELSE at[u]]
     ELSE /\ called' = called + 1
          /\ at' = [at EXCEPT ![t] = "waiting"]
  /\ arrived' = [arrived EXCEPT ![t] = @ + 1]
  /\ UNCHANGED left

\* The mutex is unlocked and the call returns.
Return(t) ==
  /\ at[t] = "woken"
  /\ at' = [at EXCEPT ![t] = "out"]
  /\ left' = [left EXCEPT ![t] = @ + 1]
  /\ UNCHANGED <<called, arrived>>

BarrierNext == \E t \in Threads : Wait(t) \/ Return(t)

BarrierSpec == BarrierInit /\ [][BarrierNext]_barrierVars

-----------------------------------------------------------------------------
A == INSTANCE Barrier

\* Nobody gets through a round of the barrier before everybody has reached
\* it, also when a fast thread is back at the barrier before a slow one has
\* returned from it.
ImplementsBarrier == A!Spec
=============================================================================
