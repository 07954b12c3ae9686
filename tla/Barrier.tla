------------------------------- MODULE Barrier -------------------------------
(***************************************************************************)
(* What a barrier promises the threads that use it again and again: a      *)
(* thread that has arrived for the n-th time leaves only when every thread *)
(* has arrived n times.                                                    *)
(***************************************************************************)
EXTENDS Naturals

CONSTANT Threads

VARIABLES
  arrived,  \* how often each thread has entered pthread_barrier_wait
  left      \* how often it has returned from it

Init ==
  /\ arrived = [t \in Threads |-> 0]
  /\ left = [t \in Threads |-> 0]

Arrive(t) ==
  /\ arrived[t] = left[t]
  /\ arrived' = [arrived EXCEPT ![t] = @ + 1]
  /\ UNCHANGED left

Leave(t) ==
  /\ left[t] < arrived[t]
  /\ \A u \in Threads : arrived[u] >= arrived[t]
  /\ left' = [left EXCEPT ![t] = @ + 1]
  /\ UNCHANGED arrived

Next == \E t \in Threads : Arrive(t) \/ Leave(t)

Spec == Init /\ [][Next]_<<arrived, left>>
=============================================================================
