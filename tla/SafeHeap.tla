------------------------------ MODULE SafeHeap ------------------------------
(***************************************************************************)
(* What nuaf promises a program: an object that has once been handed out   *)
(* keeps its addresses for itself for ever.  An object is alive from the   *)
(* return of malloc to the call of free, dying until free returns, and     *)
(* dead afterwards.  The program ends in a fault only if it has freed the  *)
(* object that it uses.                                                    *)
(***************************************************************************)
EXTENDS Integers

CONSTANTS
  Objects,         \* possible objects, records with fields page and np
  MayMisuse        \* does the program use or free objects it has freed?

VARIABLES alive, dying, dead, ended

heap == <<alive, dying, dead, ended>>

Span(o) == o.page .. (o.page + o.np - 1)

Known == alive \cup dying \cup dead

Init == alive = {} /\ dying = {} /\ dead = {} /\ ended = "no"

\* malloc returns an object on addresses no object has ever been on.
Malloc(o) ==
  /\ ended = "no"
  /\ alive' = alive \cup {o}
  /\ \A k \in Known : Span(o) \cap Span(k) = {}
  /\ UNCHANGED <<dying, dead, ended>>

FreeCalled(o) ==
  /\ ended = "no" /\ o \in alive
  /\ alive' = alive \ {o} /\ dying' = dying \cup {o}
  /\ UNCHANGED <<dead, ended>>

FreeReturns(o) ==
  /\ ended = "no" /\ o \in dying
  /\ dying' = dying \ {o} /\ dead' = dead \cup {o}
  /\ UNCHANGED <<alive, ended>>

\* Out of memory, or a second free that the allocator notices.
Abort ==
  /\ ended = "no" /\ ended' = "exit"
  /\ UNCHANGED <<alive, dying, dead>>

\* The program uses an object that it has freed.
Fault ==
  /\ ended = "no" /\ MayMisuse /\ dying \cup dead # {}
  /\ ended' = "segv"
  /\ UNCHANGED <<alive, dying, dead>>

Next ==
  \/ \E o \in alive : FreeCalled(o)
  \/ \E o \in dying : FreeReturns(o)
  \/ \E o \in Objects : Malloc(o)
  \/ Abort \/ Fault

Spec == Init /\ [][Next]_heap
=============================================================================
