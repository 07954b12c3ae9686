--------------------------- MODULE BenchmarkProofs ---------------------------
(***************************************************************************)
(* The benchmark programs, for any number of threads, rounds and objects:  *)
(* the barrier of linux-scalability keeps the promise of module Barrier,   *)
(* and every program uses each block of the heap while it is allocated and *)
(* frees it once.                                                          *)
(***************************************************************************)
EXTENDS Larson, FiniteSetTheorems, TLAPS

\* In round g the threads that are out of the barrier or on their way out of
\* it have arrived g times, those that wait once more; `called` counts them.
InRound(g) ==
  \A t \in Threads :
    /\ arrived[t] = IF at[t] = "waiting" THEN g + 1 ELSE g
    /\ left[t] = IF at[t] = "out" THEN g ELSE IF at[t] = "waiting" THEN g ELSE g - 1

BarrierInv ==
  /\ at \in [Threads -> {"out", "waiting", "woken"}]
  /\ arrived \in [Threads -> Nat]
  /\ left \in [Threads -> Nat]
  /\ called = Cardinality(Waiting)
  /\ \E g \in Nat : InRound(g)

-----------------------------------------------------------------------------
LEMMA WaitingFinite == IsFiniteSet(Waiting) /\ Cardinality(Waiting) \in Nat
BY PtBarrierAssumption, FS_Subset, FS_CardinalityType DEF PtBarrierAssumption, Waiting

\* The thread that makes the count complete is the last one that is out.
LEMMA LastThread ==
  ASSUME NEW t \in Threads, at[t] = "out", called = Cardinality(Waiting), called + 1 = needed
  PROVE  \A u \in Threads : u = t \/ at[u] = "waiting"
<1>1. IsFiniteSet(Waiting) /\ t \notin Waiting
  BY WaitingFinite DEF Waiting
<1>2. Cardinality(Waiting \cup {t}) = Cardinality(Threads)
  BY <1>1, FS_AddElement DEF needed
<1>3. Waiting \cup {t} = Threads
  <2>1. Waiting \cup {t} \in SUBSET Threads
    BY DEF Waiting
  <2>2. QED
    BY <2>1, <1>2, FS_Subset, PtBarrierAssumption DEF PtBarrierAssumption
<1>4. QED
  BY <1>3 DEF Waiting

LEMMA BarrierInvInit == BarrierInit => BarrierInv
<1> SUFFICES ASSUME BarrierInit PROVE BarrierInv
  OBVIOUS
<1>1. Waiting = {}
  BY DEF BarrierInit, Waiting
<1>2. called = Cardinality(Waiting)
  BY <1>1, FS_EmptySet DEF BarrierInit
<1>3. InRound(0)
  BY DEF BarrierInit, InRound
<1>4. QED
  BY <1>2, <1>3 DEF BarrierInit, BarrierInv

-----------------------------------------------------------------------------
(* A step of the barrier keeps the invariant and is a step of Barrier.     *)

LEMMA WaitStep ==
  ASSUME BarrierInv, NEW t \in Threads, Wait(t)
  PROVE  BarrierInv' /\ A!Arrive(t)
<1> USE DEF BarrierInv
<1>1. PICK g \in Nat : InRound(g)
  OBVIOUS
<1>2. A!Arrive(t)
  BY <1>1 DEF Wait, InRound, A!Arrive
<1>3. arrived' \in [Threads -> Nat] /\ left' \in [Threads -> Nat]
  BY DEF Wait
<1>4. CASE called + 1 = needed
  <2>1. at' = [u \in Threads |-> "woken"]
    BY <1>4, LastThread DEF Wait
  <2>2. called' = Cardinality(Waiting')
    <3>1. Waiting' = {}
      BY <2>1 DEF Waiting
    <3>2. QED
      BY <3>1, <1>4, FS_EmptySet DEF Wait, CalledReset
  <2>3. InRound(g + 1)'
    <3>1. \A u \in Threads : arrived'[u] = g + 1 /\ left'[u] = g
      BY <1>1, <1>4, LastThread DEF Wait, InRound
    <3>2. QED
      BY <2>1, <3>1 DEF InRound
  <2>4. QED
    BY <2>1, <2>2, <2>3, <1>2, <1>3
<1>5. CASE called + 1 # needed
  <2>1. at' = [at EXCEPT ![t] = "waiting"]
    BY <1>5 DEF Wait
  <2>2. called' = Cardinality(Waiting')
    <3>1. Waiting' = Waiting \cup {t} /\ t \notin Waiting
      BY <2>1 DEF Waiting, Wait
    <3>2. QED
      BY <3>1, <1>5, WaitingFinite, FS_AddElement DEF Wait
  <2>3. InRound(g)'
    BY <1>1, <2>1 DEF Wait, InRound
  <2>4. QED
    BY <2>1, <2>2, <2>3, <1>2, <1>3
<1>6. QED
  BY <1>4, <1>5

LEMMA ReturnStep ==
  ASSUME BarrierInv, NEW t \in Threads, Return(t)
  PROVE  BarrierInv' /\ A!Leave(t)
<1> USE DEF BarrierInv
<1>1. PICK g \in Nat : InRound(g)
  OBVIOUS
<1>2. A!Leave(t)
  BY <1>1 DEF Return, InRound, A!Leave
<1>3. at' \in [Threads -> {"out", "waiting", "woken"}] /\ left' \in [Threads -> Nat]
  BY DEF Return
<1>4. called' = Cardinality(Waiting')
  <2>1. Waiting' = Waiting
    BY DEF Waiting, Return
  <2>2. QED
    BY <2>1 DEF Return
<1>5. InRound(g)'
  BY <1>1 DEF Return, InRound
<1>6. QED
  BY <1>2, <1>3, <1>4, <1>5 DEF Return

LEMMA BarrierStep ==
  ASSUME BarrierInv, [BarrierNext]_barrierVars
  PROVE  BarrierInv' /\ [A!Next]_<<arrived, left>>
<1>1. CASE BarrierNext
  BY <1>1, WaitStep, ReturnStep DEF BarrierNext, A!Next
<1>2. CASE UNCHANGED barrierVars
  BY <1>2 DEF BarrierInv, Waiting, InRound, barrierVars
<1>3. QED
  BY <1>1, <1>2

\* The barrier alone: it lets nobody through a round that somebody has not
\* reached, although threads may be in two rounds of it at a time.
THEOREM BarrierImplementsBarrier == BarrierSpec => ImplementsBarrier
<1>1. BarrierInit => BarrierInv
  BY BarrierInvInit
<1>2. BarrierInv /\ [BarrierNext]_barrierVars => BarrierInv'
  BY BarrierStep
<1>3. BarrierInit => A!Init
  BY DEF BarrierInit, A!Init
<1>4. BarrierInv /\ [BarrierNext]_barrierVars => [A!Next]_<<arrived, left>>
  BY BarrierStep
<1>5. QED
  BY <1>1, <1>2, <1>3, <1>4, PTL DEF BarrierSpec, ImplementsBarrier, A!Spec

-----------------------------------------------------------------------------
(* The suite: only BarrierWait and BarrierReturn touch the barrier.         *)

LEMMA ForkStep ==
  ASSUME ForkNext
  PROVE  [BarrierNext]_barrierVars
<1> USE DEF barrierVars
<1>1. CASE MainStep
  BY <1>1 DEF MainStep, MainSetsUp, MainCreates, CreateFails, MainJoins, JoinCrashes,
              MainReports, MainExits, End, forkVars
<1>2. ASSUME NEW t \in Threads, ThreadStep(t)
      PROVE  [BarrierNext]_barrierVars
  <2>1. CASE BarrierWait(t)
    BY <2>1 DEF BarrierWait, BarrierNext
  <2>2. CASE BarrierReturn(t)
    BY <2>2 DEF BarrierReturn, BarrierNext
  <2>3. CASE Start(t) \/ MakeArrays(t) \/ Fill(t) \/ Drain(t) \/ Finish(t) \/ Record(t)
    BY <2>3 DEF Start, MakeArrays, Fill, Drain, Finish, Record
  <2>4. CASE PhongMallocs(t) \/ PhongChurns(t)
    BY <2>4 DEF PhongMallocs, PhongChurns, End, forkVars
  <2>5. QED
    BY <1>2, <2>1, <2>2, <2>3, <2>4 DEF ThreadStep
<1>3. QED
  BY <1>1, <1>2 DEF ForkNext

LEMMA SuiteStep ==
  ASSUME [Next]_vars
  PROVE  [BarrierNext]_barrierVars
<1>1. CASE ForkNext
  BY <1>1, ForkStep
<1>2. CASE UNCHANGED forkVars
  BY <1>2 DEF forkVars, barrierVars
<1>3. QED
  BY <1>1, <1>2 DEF Next, vars

\* The same as the programs use it: in every run of any of them.
THEOREM SuiteImplementsBarrier == Spec => ImplementsBarrier
<1>1. Init => BarrierInit
  BY DEF Init, ForkInit
<1>2. [Next]_vars => [BarrierNext]_barrierVars
  BY SuiteStep
<1>3. Spec => BarrierSpec
  BY <1>1, <1>2, PTL DEF Spec, BarrierSpec
<1>4. QED
  BY <1>3, BarrierImplementsBarrier

-----------------------------------------------------------------------------
(* larson.                                                                 *)

LarsonTypes ==
  /\ prog \in Programs
  /\ num_threads \in MIN_THREADS .. MAX_THREADS
  /\ mainAt \in {"warmup", "create", "sleep", "await", "grace", "return"}
  /\ cur \in 1 .. MAX_THREADS
  /\ relay \in [Relays -> {"none", "created", "respawn", "dead"} \cup Working]
  /\ victim \in [Relays -> Cells]
  /\ cblks \in [Relays -> 0 .. NumBlocks]
  /\ blkp \in [Cells -> {"none", "allocated", "freed"}]
  /\ finished \in [1 .. MAX_THREADS -> BOOLEAN]
  /\ {stopflag, deleted} \subseteq BOOLEAN

Active(r) == relay[r] \notin {"none", "dead"}

\* Relays are at work in the current round only, once main has created them,
\* and none is left when a round begins and when main has deleted the data.
RoundInv ==
  /\ \A r \in Relays : Active(r) =>
       /\ r[1] = num_threads
       /\ mainAt \notin {"warmup", "return"}
       /\ mainAt = "create" => r[2] < cur
  /\ mainAt \in {"create", "sleep", "await"} => cur <= num_threads
  /\ deleted <=> mainAt = "return"
  /\ mainAt = "return" => num_threads = MAX_THREADS

\* A worker has replaced fewer blocks than it is asked to; a cell points to a
\* freed block only while a worker is about to replace it.
CellsInv ==
  /\ \A r \in Relays :
       /\ victim[r] \in Array(r)
       /\ relay[r] \in {"free", "malloc"} => cblks[r] < NumBlocks
       /\ relay[r] = "malloc" => blkp[victim[r]] = "freed"
  /\ \A c \in Cells :
       /\ blkp[c] = "none" => c[1] > num_threads \/ mainAt = "warmup"
       /\ blkp[c] = "freed" => \E r \in Relays : relay[r] = "malloc" /\ victim[r] = c

LarsonInv ==
  /\ LarsonTypes /\ RoundInv /\ CellsInv
  /\ prog = "larson" => ended \in {"no", "exit"}
  /\ prog = "larson" /\ ended = "exit" => \A c \in Cells : blkp[c] = "allocated"

LEMMA LarsonConstants ==
  /\ MIN_THREADS \in Nat \ {0} /\ MAX_THREADS \in Nat \ {0} /\ MIN_THREADS <= MAX_THREADS
  /\ CHPERTHREAD \in Nat \ {0} /\ NUM_ROUNDS \in Nat \ {0}
  /\ NumBlocks \in Nat \ {0}
  /\ GRACE_OUTLASTS_THREADS \in BOOLEAN
<1>1. \A a, b \in Nat \ {0} : a * b \in Nat \ {0}
  OBVIOUS
<1> QED
  BY <1>1, LarsonAssumption DEF LarsonAssumption, NumBlocks

LEMMA RelayBounds ==
  /\ \A r \in Relays :
       /\ r[1] \in Nat /\ r[2] \in Nat /\ r = <<r[1], r[2]>>
       /\ 1 <= r[2] /\ r[2] <= r[1] /\ r[1] <= MAX_THREADS
       /\ r[2] \in 1 .. MAX_THREADS
       /\ <<r[2], 1>> \in Array(r)
       /\ \A c \in Array(r) : c \in Cells /\ c[1] = r[2]
  /\ \A c \in Cells : c[1] \in Nat
  /\ \A n \in MIN_THREADS .. MAX_THREADS, i \in 1 .. MAX_THREADS : i <= n => <<n, i>> \in Relays
BY LarsonConstants DEF Relays, Array, Cells

\* Two relays at work are of different arrays.
LEMMA OneActive ==
  ASSUME RoundInv, NEW r \in Relays, NEW s \in Relays, Active(r), Active(s), r[2] = s[2]
  PROVE  r = s
BY RelayBounds DEF RoundInv

LEMMA InitLarsonInv == Init => LarsonInv
<1> SUFFICES ASSUME Init PROVE LarsonInv
  OBVIOUS
<1>1. LarsonTypes
  <2>1. \A r \in Relays : <<r[2], 1>> \in Cells
    BY RelayBounds
  <2>2. victim \in [Relays -> Cells]
    BY <2>1 DEF Init
  <2>3. 0 \in 0 .. NumBlocks /\ num_threads \in MIN_THREADS .. MAX_THREADS /\ cur \in 1 .. MAX_THREADS
    BY LarsonConstants DEF Init
  <2> QED
    BY <2>2, <2>3 DEF Init, LarsonTypes
<1>2. RoundInv
  BY DEF Init, RoundInv, Active
<1>3. CellsInv
  BY RelayBounds DEF Init, CellsInv
<1> QED
  BY <1>1, <1>2, <1>3 DEF Init, LarsonInv

\* A relay at work finds that main has not deleted its data, and that no other
\* relay is at work on its array.
LEMMA AtWork ==
  ASSUME LarsonInv, NEW r \in Relays, Active(r)
  PROVE  /\ ~deleted /\ mainAt # "warmup" /\ r[1] = num_threads
         /\ \A s \in Relays : Active(s) /\ s[2] = r[2] => s = r
         /\ \A c \in Array(r) : blkp[c] = "freed" => relay[r] = "malloc" /\ victim[r] = c
         /\ \A c \in Array(r) : blkp[c] # "none"
<1>1. ~deleted /\ mainAt # "warmup" /\ r[1] = num_threads
  BY DEF LarsonInv, RoundInv
<1>2. \A s \in Relays : Active(s) /\ s[2] = r[2] => s = r
  BY OneActive DEF LarsonInv
<1>3. ASSUME NEW c \in Array(r), blkp[c] = "freed"
      PROVE  relay[r] = "malloc" /\ victim[r] = c
  <2>1. c \in Cells /\ c[1] = r[2]
    BY RelayBounds
  <2>2. PICK s \in Relays : relay[s] = "malloc" /\ victim[s] = c
    BY <1>3, <2>1 DEF LarsonInv, CellsInv
  <2>3. s[2] = c[1] /\ Active(s)
    BY <2>2, RelayBounds DEF LarsonInv, CellsInv, Active
  <2> QED
    BY <1>2, <2>1, <2>2, <2>3
<1>4. ASSUME NEW c \in Array(r), blkp[c] = "none"
      PROVE  FALSE
  <2>1. c \in Cells /\ c[1] = r[2] /\ r[2] \in Nat /\ r[1] \in Nat /\ r[2] <= r[1]
    BY RelayBounds
  <2>2. c[1] > num_threads
    BY <1>1, <1>4, <2>1 DEF LarsonInv, CellsInv
  <2> QED
    BY <1>1, <2>1, <2>2
<1> QED
  BY <1>1, <1>2, <1>3, <1>4

\* A relay goes on to a place where it does not work on a cell, main is where
\* it was, and the cells are as they were.
LEMMA RelayGoesOn ==
  ASSUME LarsonInv, NEW r \in Relays, Active(r), relay[r] # "malloc",
         NEW place \in {"dead", "begin", "respawn", "created", "free"},
         relay' = [relay EXCEPT ![r] = place],
         place = "free" => cblks'[r] < NumBlocks,
         cblks' \in [Relays -> 0 .. NumBlocks],
         \A s \in Relays \ {r} : cblks'[s] = cblks[s],
         finished' \in [1 .. MAX_THREADS -> BOOLEAN],
         UNCHANGED <<prog, ended, num_threads, mainAt, cur, victim, blkp, stopflag, deleted>>
  PROVE  LarsonInv'
<1> USE DEF LarsonInv
<1>1. LarsonTypes'
  BY DEF LarsonTypes, Working
<1>2. RoundInv'
  BY DEF LarsonTypes, RoundInv, Active
<1>3. ASSUME NEW s \in Relays
      PROVE  /\ victim'[s] \in Array(s)
             /\ relay'[s] \in {"free", "malloc"} => cblks'[s] < NumBlocks
             /\ relay'[s] = "malloc" => blkp'[victim'[s]] = "freed"
  BY DEF LarsonTypes, CellsInv
<1>4. ASSUME NEW c \in Cells
      PROVE  /\ blkp'[c] = "none" => c[1] > num_threads' \/ mainAt' = "warmup"
             /\ blkp'[c] = "freed" => \E s \in Relays : relay'[s] = "malloc" /\ victim'[s] = c
  BY DEF LarsonTypes, CellsInv
<1>5. CellsInv'
  BY <1>3, <1>4 DEF CellsInv
<1> QED
  BY <1>1, <1>2, <1>5

LEMMA EnterLarson ==
  ASSUME LarsonInv, NEW r \in Relays, Enter(r), prog' = prog
  PROVE  LarsonInv'
<1>1. Active(r) /\ relay[r] # "malloc"
  BY DEF Enter, Active
<1>2. PICK place \in {"dead", "begin", "respawn", "created", "free"} :
        relay' = [relay EXCEPT ![r] = place] /\ place # "free"
  BY Zenon DEF Enter, Put
<1>3. UNCHANGED <<prog, ended, num_threads, mainAt, cur, victim, cblks, finished, blkp, stopflag, deleted>>
  BY DEF Enter
<1> QED
  BY <1>1, <1>2, <1>3, RelayGoesOn DEF LarsonInv, LarsonTypes

LEMMA RespawnLarson ==
  ASSUME LarsonInv, NEW r \in Relays, Respawn(r), prog' = prog
  PROVE  LarsonInv'
<1>1. Active(r) /\ relay[r] # "malloc"
  BY DEF Respawn, Active
<1>2. PICK place \in {"dead", "begin", "respawn", "created", "free"} :
        relay' = [relay EXCEPT ![r] = place] /\ place # "free"
  BY Zenon DEF Respawn, BeginThread, Put
<1>3. UNCHANGED <<prog, ended, num_threads, mainAt, cur, victim, cblks, finished, blkp, stopflag, deleted>>
  BY DEF Respawn
<1> QED
  BY <1>1, <1>2, <1>3, RelayGoesOn DEF LarsonInv, LarsonTypes

LEMMA SayFinishedLarson ==
  ASSUME LarsonInv, NEW r \in Relays, SayFinished(r), prog' = prog
  PROVE  LarsonInv'
<1>1. Active(r) /\ relay[r] # "malloc"
  BY DEF SayFinished, Active
<1>2. ~deleted
  BY <1>1, AtWork
<1>3. /\ finished' = [finished EXCEPT ![r[2]] = TRUE]
      /\ relay' = [relay EXCEPT ![r] = "respawn"]
      /\ UNCHANGED <<prog, ended, num_threads, mainAt, cur, victim, cblks, blkp, stopflag, deleted>>
  BY <1>2 DEF SayFinished, SaysFinished, Put
<1>4. finished' \in [1 .. MAX_THREADS -> BOOLEAN]
  BY <1>3 DEF LarsonInv, LarsonTypes
<1> QED
  BY <1>1, <1>3, <1>4, RelayGoesOn DEF LarsonInv, LarsonTypes

LEMMA BeginLarson ==
  ASSUME LarsonInv, NEW r \in Relays, Begin(r), prog' = prog
  PROVE  LarsonInv'
<1>1. Active(r) /\ relay[r] # "malloc"
  BY DEF Begin, Active
<1>2. ~deleted
  BY <1>1, AtWork
<1>3. /\ finished' = [finished EXCEPT ![r[2]] = FALSE]
      /\ cblks' = [cblks EXCEPT ![r] = 0]
      /\ relay' = [relay EXCEPT ![r] = "free"]
      /\ UNCHANGED <<prog, ended, num_threads, mainAt, cur, victim, blkp, stopflag, deleted>>
  BY <1>2 DEF Begin, Put
<1>4. finished' \in [1 .. MAX_THREADS -> BOOLEAN]
  BY <1>3 DEF LarsonInv, LarsonTypes
<1>5. /\ cblks' \in [Relays -> 0 .. NumBlocks] /\ cblks'[r] < NumBlocks
      /\ \A s \in Relays \ {r} : cblks'[s] = cblks[s]
  BY <1>3, LarsonConstants DEF LarsonInv, LarsonTypes
<1> QED
  BY <1>1, <1>3, <1>4, <1>5, RelayGoesOn

LEMMA FreeVictimLarson ==
  ASSUME LarsonInv, NEW r \in Relays, FreeVictim(r), prog' = prog
  PROVE  LarsonInv'
<1> USE DEF LarsonInv
<1>1. relay[r] = "free" /\ Active(r)
  BY DEF FreeVictim, Active
<1>2. PICK c \in Array(r) :
        IF deleted \/ blkp[c] # "allocated" THEN Misuse
        ELSE /\ blkp' = [blkp EXCEPT ![c] = "freed"]
             /\ victim' = [victim EXCEPT ![r] = c]
             /\ Put(r, "malloc")
             /\ UNCHANGED <<num_threads, mainAt, cur, cblks, stopflag, finished, deleted, ended>>
  BY DEF FreeVictim
<1>3. c \in Cells /\ c[1] = r[2]
  BY RelayBounds
<1>4. ~deleted /\ blkp[c] = "allocated"
  BY <1>1, <1>3, AtWork DEF LarsonTypes
<1>5. /\ blkp' = [blkp EXCEPT ![c] = "freed"]
      /\ victim' = [victim EXCEPT ![r] = c]
      /\ relay' = [relay EXCEPT ![r] = "malloc"]
      /\ UNCHANGED <<prog, num_threads, mainAt, cur, cblks, stopflag, finished, deleted, ended>>
  BY <1>2, <1>4 DEF Put
<1> ended = "no"
  BY DEF FreeVictim, LarsonRuns, Running
<1>6. LarsonTypes'
  BY <1>3, <1>5 DEF LarsonTypes, Working
<1>7. RoundInv'
  BY <1>1, <1>5 DEF LarsonTypes, RoundInv, Active
<1>8. ASSUME NEW s \in Relays
      PROVE  /\ victim'[s] \in Array(s)
             /\ relay'[s] \in {"free", "malloc"} => cblks'[s] < NumBlocks
             /\ relay'[s] = "malloc" => blkp'[victim'[s]] = "freed"
  <2>1. CASE s = r
    BY <1>1, <1>3, <1>5, <2>1 DEF LarsonTypes, CellsInv
  <2>2. CASE s # r
    BY <1>3, <1>5, <2>2 DEF LarsonTypes, CellsInv
  <2> QED
    BY <2>1, <2>2
<1>9. ASSUME NEW d \in Cells
      PROVE  /\ blkp'[d] = "none" => d[1] > num_threads' \/ mainAt' = "warmup"
             /\ blkp'[d] = "freed" => \E s \in Relays : relay'[s] = "malloc" /\ victim'[s] = d
  <2>1. CASE d = c
    BY <1>3, <1>5, <2>1 DEF LarsonTypes
  <2>2. CASE d # c
    <3>1. blkp'[d] = blkp[d]
      BY <1>3, <1>5, <2>2 DEF LarsonTypes
    <3>2. \A s \in Relays : relay[s] = "malloc" => s # r /\ relay'[s] = "malloc" /\ victim'[s] = victim[s]
      BY <1>1, <1>5 DEF LarsonTypes
    <3> QED
      BY <1>5, <3>1, <3>2 DEF CellsInv
  <2> QED
    BY <2>1, <2>2
<1>10. CellsInv'
  BY <1>8, <1>9 DEF CellsInv
<1> QED
  BY <1>5, <1>6, <1>7, <1>10

LEMMA MallocVictimLarson ==
  ASSUME LarsonInv, NEW r \in Relays, MallocVictim(r), prog' = prog
  PROVE  LarsonInv'
<1> USE DEF LarsonInv
<1>1. relay[r] = "malloc" /\ Active(r)
  BY DEF MallocVictim, Active
<1>2. PICK c : c = victim[r]
  OBVIOUS
<1>3. c \in Array(r) /\ c \in Cells /\ c[1] = r[2] /\ blkp[c] = "freed" /\ cblks[r] < NumBlocks
  BY <1>1, <1>2, RelayBounds DEF CellsInv
<1>4. PICK place \in {"finish", "free"} :
        /\ place = IF cblks[r] + 1 = NumBlocks \/ stopflag THEN "finish" ELSE "free"
  OBVIOUS
<1>5. /\ blkp' = [blkp EXCEPT ![c] = "allocated"]
      /\ cblks' = [cblks EXCEPT ![r] = cblks[r] + 1]
      /\ relay' = [relay EXCEPT ![r] = place]
      /\ UNCHANGED <<prog, num_threads, mainAt, cur, victim, stopflag, finished, deleted, ended>>
  <2>1. ~deleted
    BY <1>1, AtWork
  <2> QED
    BY <1>2, <1>3, <1>4, <2>1 DEF MallocVictim, Put
<1> ended = "no"
  BY DEF MallocVictim, LarsonRuns, Running
<1>6. cblks[r] + 1 \in 0 .. NumBlocks /\ (place = "free" => cblks[r] + 1 < NumBlocks)
  BY <1>3, <1>4, LarsonConstants DEF LarsonTypes
<1>7. LarsonTypes'
  BY <1>3, <1>5, <1>6 DEF LarsonTypes, Working
<1>8. RoundInv'
  BY <1>1, <1>5 DEF LarsonTypes, RoundInv, Active
<1>9. ASSUME NEW s \in Relays
      PROVE  /\ victim'[s] \in Array(s)
             /\ relay'[s] \in {"free", "malloc"} => cblks'[s] < NumBlocks
             /\ relay'[s] = "malloc" => blkp'[victim'[s]] = "freed"
  <2>1. CASE s = r
    BY <1>1, <1>5, <1>6, <2>1 DEF LarsonTypes, CellsInv
  <2>2. CASE s # r
    <3>1. relay[s] = "malloc" => victim[s] # c
      <4>1. relay[s] = "malloc" => Active(s)
        BY DEF Active
      <4>2. s[2] = r[2] => ~Active(s)
        BY <1>1, <2>2, AtWork
      <4>3. victim[s] \in Array(s)
        BY DEF CellsInv
      <4> QED
        BY <1>3, <4>1, <4>2, <4>3, RelayBounds
    <3> QED
      BY <1>3, <1>5, <2>2, <3>1 DEF LarsonTypes, CellsInv
  <2> QED
    BY <2>1, <2>2
<1>10. ASSUME NEW d \in Cells
       PROVE  /\ blkp'[d] = "none" => d[1] > num_threads' \/ mainAt' = "warmup"
              /\ blkp'[d] = "freed" => \E s \in Relays : relay'[s] = "malloc" /\ victim'[s] = d
  <2>1. CASE d = c
    BY <1>3, <1>5, <2>1 DEF LarsonTypes
  <2>2. CASE d # c
    <3>1. blkp'[d] = blkp[d]
      BY <1>3, <1>5, <2>2 DEF LarsonTypes
    <3>2. \A s \in Relays : relay[s] = "malloc" /\ victim[s] = d =>
            s # r /\ relay'[s] = "malloc" /\ victim'[s] = victim[s]
      BY <1>2, <1>5, <2>2 DEF LarsonTypes
    <3> QED
      BY <1>5, <3>1, <3>2 DEF CellsInv
  <2> QED
    BY <2>1, <2>2
<1>11. CellsInv'
  BY <1>9, <1>10 DEF CellsInv
<1> QED
  BY <1>5, <1>7, <1>8, <1>11

LEMMA ExerciseLarson ==
  ASSUME LarsonInv, NEW r \in Relays, Exercise(r), prog' = prog
  PROVE  LarsonInv'
BY EnterLarson, BeginLarson, FreeVictimLarson, MallocVictimLarson, SayFinishedLarson,
   RespawnLarson DEF Exercise

LEMMA WarmupLarson ==
  ASSUME LarsonInv, Warmup, prog' = prog
  PROVE  LarsonInv'
<1> USE DEF LarsonInv
<1>1. /\ mainAt = "warmup"
      /\ blkp' = [c \in Cells |-> IF c[1] <= num_threads /\ blkp[c] = "none"
                               THEN "allocated" ELSE blkp[c]]
      /\ stopflag' = FALSE /\ mainAt' = "create" /\ cur' = 1
      /\ UNCHANGED <<prog, num_threads, relay, victim, cblks, finished, deleted, ended>>
  BY DEF Warmup
<1> ended = "no"
  BY DEF Warmup, LarsonRuns, Running
<1>2. \A r \in Relays : ~Active(r)
  BY <1>1 DEF RoundInv
<1>3. LarsonTypes'
  <2>1. blkp' \in [Cells -> {"none", "allocated", "freed"}]
    BY <1>1 DEF LarsonTypes
  <2>2. cur' \in 1 .. MAX_THREADS
    BY <1>1, LarsonConstants
  <2> QED
    BY <1>1, <2>1, <2>2 DEF LarsonTypes
<1>4. RoundInv'
  <2>1. \A r \in Relays : ~Active(r)'
    BY <1>1, <1>2 DEF Active
  <2>2. cur' <= num_threads'
    BY <1>1, LarsonConstants DEF LarsonTypes
  <2> QED
    BY <1>1, <2>1, <2>2 DEF RoundInv
<1>5. CellsInv'
  <2>1. \A r \in Relays : relay'[r] \notin {"free", "malloc"}
    BY <1>1, <1>2 DEF Active
  <2>2. ASSUME NEW c \in Cells
        PROVE  /\ blkp'[c] = "none" => c[1] > num_threads'
               /\ blkp'[c] # "freed"
    <3>1. blkp[c] # "freed"
      BY <1>2 DEF CellsInv, Active
    <3>2. c[1] \in Nat /\ num_threads \in Nat
      BY RelayBounds, LarsonConstants DEF LarsonTypes
    <3> QED
      BY <1>1, <3>1, <3>2
  <2> QED
    BY <1>1, <2>1, <2>2 DEF CellsInv
<1> QED
  BY <1>1, <1>3, <1>4, <1>5

LEMMA CreateThreadLarson ==
  ASSUME LarsonInv, CreateThread, prog' = prog
  PROVE  LarsonInv'
<1> USE DEF LarsonInv
<1> DEFINE n == <<num_threads, cur>>
<1>1. /\ mainAt = "create" /\ cur <= num_threads
      /\ num_threads \in Nat /\ cur \in Nat \ {0} /\ num_threads <= MAX_THREADS
      /\ n \in Relays /\ n[1] = num_threads /\ n[2] = cur
  BY RelayBounds, LarsonConstants DEF CreateThread, LarsonTypes, RoundInv
<1>2. /\ finished' = [finished EXCEPT ![cur] = FALSE]
      /\ UNCHANGED <<prog, num_threads, victim, cblks, blkp, stopflag, deleted, ended>>
  BY DEF CreateThread
<1>8. PICK place \in {"created", "none"} : relay' = [relay EXCEPT ![n] = place]
  BY Zenon DEF CreateThread, BeginThread, Put
<1>3. \/ cur = num_threads /\ mainAt' = "sleep" /\ cur' = 1
      \/ cur # num_threads /\ mainAt' = "create" /\ cur' = cur + 1
  BY <1>1 DEF CreateThread
<1> HIDE DEF n
<1>4. LarsonTypes'
  <2>1. cur' \in 1 .. MAX_THREADS
    BY <1>1, <1>3, LarsonConstants DEF LarsonTypes
  <2> QED
    BY <1>1, <1>2, <1>3, <1>8, <2>1 DEF LarsonTypes
<1>5. RoundInv'
  <2>1. ASSUME NEW r \in Relays, Active(r)'
        PROVE  r[1] = num_threads' /\ (mainAt' = "create" => r[2] < cur')
    <3>1. CASE r = n
      BY <1>1, <1>2, <1>3, <3>1
    <3>2. CASE r # n
      <4>1. Active(r)
        BY <1>8, <2>1, <3>2 DEF Active, LarsonTypes
      <4>2. r[1] = num_threads /\ r[2] < cur
        BY <1>1, <4>1 DEF RoundInv
      <4>3. r[2] \in Nat
        BY RelayBounds
      <4> QED
        BY <1>1, <1>2, <1>3, <4>2, <4>3
    <3> QED
      BY <3>1, <3>2
  <2>2. mainAt' \in {"create", "sleep", "await"} => cur' <= num_threads'
    BY <1>1, <1>2, <1>3
  <2> QED
    BY <1>1, <1>2, <1>3, <2>1, <2>2 DEF RoundInv
<1>6. relay[n] # "malloc"
  <2>1. ~(n[2] < cur)
    BY <1>1
  <2> QED
    BY <1>1, <2>1 DEF RoundInv, Active
<1>7. CellsInv'
  <2>1. \A r \in Relays : relay'[r] \in {"free", "malloc"} => relay'[r] = relay[r]
    BY <1>8 DEF LarsonTypes
  <2>2. \A r \in Relays : relay[r] = "malloc" => relay'[r] = "malloc"
    BY <1>6, <1>8 DEF LarsonTypes
  <2>3. mainAt # "warmup"
    BY <1>1
  <2> QED
    BY <1>2, <2>1, <2>2, <2>3 DEF CellsInv
<1> QED
  BY <1>2, <1>4, <1>5, <1>7

\* main goes on, and the relays and the cells are as they were.
LEMMA MainGoesOn ==
  ASSUME LarsonInv, mainAt # "warmup",
         mainAt' \in {"sleep", "await", "grace"},
         cur' \in 1 .. MAX_THREADS, mainAt' # "grace" => cur' <= num_threads,
         stopflag' \in BOOLEAN, ~deleted,
         UNCHANGED <<prog, ended, num_threads, relay, victim, cblks, blkp, finished, deleted>>
  PROVE  LarsonInv'
<1> USE DEF LarsonInv
<1>1. LarsonTypes'
  BY DEF LarsonTypes
<1>2. RoundInv'
  BY DEF RoundInv, Active
<1>3. CellsInv'
  BY DEF CellsInv
<1> QED
  BY <1>1, <1>2, <1>3

LEMMA StopLarson ==
  ASSUME LarsonInv, Stop, prog' = prog
  PROVE  LarsonInv'
<1>1. ~deleted /\ mainAt # "warmup" /\ cur \in 1 .. MAX_THREADS /\ cur <= num_threads
  BY DEF Stop, LarsonInv, LarsonTypes, RoundInv
<1>2. /\ mainAt' = "await" /\ stopflag' = TRUE
      /\ UNCHANGED <<prog, ended, num_threads, cur, relay, victim, cblks, blkp, finished, deleted>>
  BY DEF Stop
<1> QED
  BY <1>1, <1>2, MainGoesOn

LEMMA AwaitFinishedLarson ==
  ASSUME LarsonInv, AwaitFinished, prog' = prog
  PROVE  LarsonInv'
<1>1. /\ mainAt = "await" /\ ~deleted /\ cur <= num_threads /\ stopflag \in BOOLEAN
      /\ cur \in Nat \ {0} /\ num_threads \in Nat /\ num_threads <= MAX_THREADS
  BY LarsonConstants DEF AwaitFinished, LarsonInv, LarsonTypes, RoundInv
<1>2. \/ cur = num_threads /\ mainAt' = "grace" /\ cur' = 1
      \/ cur # num_threads /\ mainAt' = mainAt /\ cur' = cur + 1
  BY DEF AwaitFinished
<1>3. cur' \in 1 .. MAX_THREADS /\ (mainAt' # "grace" => cur' <= num_threads)
  BY <1>1, <1>2, LarsonConstants
<1>4. UNCHANGED <<prog, ended, num_threads, relay, victim, cblks, blkp, stopflag, finished, deleted>>
  BY DEF AwaitFinished
<1> QED
  BY <1>1, <1>2, <1>3, <1>4, MainGoesOn

\* A round begins, and main deletes the data, when the threads are dead: this
\* is what the five seconds are for.
LEMMA NextRoundLarson ==
  ASSUME LarsonInv, NextRound, prog' = prog, GRACE_OUTLASTS_THREADS
  PROVE  LarsonInv'
<1> USE DEF LarsonInv
<1>1. /\ mainAt = "grace" /\ ~deleted
      /\ \A r \in Relays : ~Active(r)
      /\ UNCHANGED <<prog, cur, relay, victim, cblks, blkp, stopflag, finished, ended>>
  BY DEF NextRound, Grace, Active, RoundInv
<1>2. \/ num_threads < MAX_THREADS /\ num_threads' = num_threads + 1 /\ mainAt' = "warmup" /\ deleted' = deleted
      \/ /\ num_threads = MAX_THREADS /\ num_threads' = num_threads
         /\ mainAt' = "return" /\ deleted' = TRUE
  BY LarsonConstants DEF NextRound, LarsonTypes
<1>3. /\ num_threads \in Nat /\ num_threads' \in Nat /\ num_threads <= num_threads'
      /\ num_threads' \in MIN_THREADS .. MAX_THREADS
  BY <1>2, LarsonConstants DEF LarsonTypes
<1>4. LarsonTypes'
  BY <1>1, <1>2, <1>3 DEF LarsonTypes
<1>5. RoundInv'
  BY <1>1, <1>2 DEF RoundInv, Active
<1>6. CellsInv'
  <2>1. \A r \in Relays : relay[r] \notin {"free", "malloc"}
    BY <1>1 DEF Active
  <2>2. ASSUME NEW c \in Cells
        PROVE  /\ blkp'[c] = "none" => c[1] > num_threads' \/ mainAt' = "warmup"
               /\ blkp'[c] # "freed"
    BY <1>1, <1>2, <2>1 DEF CellsInv
  <2> QED
    BY <1>1, <2>1, <2>2 DEF CellsInv
<1> QED
  BY <1>1, <1>4, <1>5, <1>6

LEMMA LarsonUnchanged ==
  ASSUME LarsonInv, UNCHANGED <<prog, larsonVars>>, prog = "larson" => ended' = ended
  PROVE  LarsonInv'
BY DEF LarsonInv, larsonVars, LarsonTypes, RoundInv, CellsInv, Active

\* When main returns nobody is at work, so each cell has its block.
LEMMA MainReturnsLarson ==
  ASSUME LarsonInv, MainReturns, prog' = prog
  PROVE  LarsonInv'
<1>1. mainAt = "return" /\ ended' = "exit" /\ UNCHANGED larsonVars
  BY DEF MainReturns
<1>2. num_threads = MAX_THREADS /\ \A r \in Relays : relay[r] # "malloc"
  BY <1>1 DEF LarsonInv, RoundInv, Active
<1>3. ASSUME NEW c \in Cells PROVE blkp[c] = "allocated"
  <2>1. c[1] \in Nat /\ c[1] <= MAX_THREADS
    BY LarsonConstants DEF Cells
  <2>2. blkp[c] # "none" /\ blkp[c] # "freed"
    BY <1>1, <1>2, <2>1, LarsonConstants DEF LarsonInv, CellsInv
  <2> QED
    BY <2>2 DEF LarsonInv, LarsonTypes
<1>4. LarsonTypes' /\ RoundInv' /\ CellsInv'
  BY <1>1 DEF LarsonInv, larsonVars, LarsonTypes, RoundInv, CellsInv, Active
<1> QED
  BY <1>1, <1>3, <1>4 DEF LarsonInv, larsonVars

LEMMA NextLarsonInv ==
  ASSUME LarsonInv, [Next]_vars, GRACE_OUTLASTS_THREADS
  PROVE  LarsonInv'
<1>1. CASE prog # "larson" /\ ForkNext /\ UNCHANGED <<prog, larsonVars>>
  BY <1>1, LarsonUnchanged
<1>2. CASE RunThreads /\ UNCHANGED <<prog, forkVars>>
  BY <1>2, WarmupLarson, CreateThreadLarson, StopLarson, AwaitFinishedLarson, NextRoundLarson,
     MainReturnsLarson DEF RunThreads
<1>3. CASE (\E r \in Relays : Exercise(r)) /\ UNCHANGED <<prog, forkVars>>
  BY <1>3, ExerciseLarson
<1>4. CASE UNCHANGED vars
  BY <1>4, LarsonUnchanged DEF vars, LarsonInv
<1> QED
  BY <1>1, <1>2, <1>3, <1>4 DEF Next

LEMMA LarsonInvariance == ASSUME GRACE_OUTLASTS_THREADS PROVE Spec => []LarsonInv
<1>1. Init => LarsonInv
  BY InitLarsonInv
<1>2. LarsonInv /\ [Next]_vars => LarsonInv'
  BY NextLarsonInv
<1> QED
  BY <1>1, <1>2, PTL DEF Spec

-----------------------------------------------------------------------------
(* The programs that create threads and join them.                         *)

LEMMA ThreadNumbers ==
  /\ N \in Nat \ {0} /\ Threads = 1 .. N
  /\ \A t \in Threads : t \in Nat /\ t # 0 /\ t <= N
<1>1. N \in Nat /\ Threads = 1 .. N /\ N > 0
  BY FS_CardinalityType, PtBarrierAssumption, ForkJoinAssumption
     DEF N, PtBarrierAssumption, ForkJoinAssumption
<1> QED
  BY <1>1

LEMMA ForkConstants ==
  /\ OBJECTS \in Nat \ {0} /\ ROUNDS \in Nat \ {0} /\ WARMUP \in Nat \ {0}
  /\ Minsize \in Nat \ {0} /\ Maxsize \in Nat \ {0}
  /\ Objects \in Nat \ {0} /\ Objects <= OBJECTS
  /\ Rounds \in Nat \ {0} /\ Rounds <= ROUNDS
BY ForkJoinAssumption DEF ForkJoinAssumption, Minsize, Maxsize, Objects, Rounds

\* The counter of main's loops.
LEMMA CountOn ==
  ASSUME NEW x \in Threads
  PROVE  (x % N) + 1 = IF x = N THEN 1 ELSE x + 1
<1>1. \A n \in Nat \ {0} : n % n = 0
  OBVIOUS
<1>2. \A n \in Nat \ {0} : \A y \in 0 .. (n - 1) : y % n = y
  OBVIOUS
<1> QED
  BY <1>1, <1>2, ThreadNumbers

\* The blocks main holds, and those made for, handed to or made by thread t.
MainHolds ==
  IF main = "setup" THEN {}
  ELSE Shared \ ({<<0, "obj", t>> : t \in Threads} \cup IF main = "exit" THEN DeletedByMain ELSE {})

Created(t) == main \in {"join", "report", "exit"} \/ (main = "create" /\ t < next)

Told(t) == IF Created(t) THEN WithThread(t) ELSE {}

NotStarted(t) == IF main # "setup" /\ pc[t] \in {"none", "start"} THEN Handed(t) ELSE {}

HasArrays(t) ==
  \/ pc[t] \in {"fill", "churn", "drain", "finish"}
  \/ prog = "linux-scalability" /\ pc[t] \in {"wait_end", "return_end", "record", "done"}

ArraysHeld(t) == IF HasArrays(t) THEN Arrays(t) ELSE {}

\* Indices of the objects that thread t has.
Held(t) ==
  IF prog = "phong" THEN {i \in 0 .. (OBJECTS - 1) : size[t][i] # 0}
  ELSE {i \in 0 .. (Objects - 1) : \/ pc[t] = "fill" /\ i < k[t]
                                   \/ pc[t] = "drain" /\ k[t] <= i}

ObjectsOf(t) == {<<t, "object", i>> : i \in Held(t)}

Holds(t) == Told(t) \cup NotStarted(t) \cup ArraysHeld(t) \cup ObjectsOf(t)

LiveInv == live = MainHolds \cup UNION {Holds(t) : t \in Threads}

\* The owner of a block, 0 for main, is one of the numbers of its name.
Owner(b) == IF b[1] = 0 THEN b[3] ELSE b[1]

LEMMA SharedBlocks ==
  /\ \A b \in Shared : b = <<0, b[2], b[3]>>
  /\ \A b \in Shared : b \in {<<0, "obj", t>> : t \in Threads} \/ b[3] = 0
  /\ \A t \in Threads : <<0, "obj", t>> \in Shared <=> prog = "cache-scratch"
BY ThreadNumbers DEF Shared, Main

LEMMA ThreadBlocks ==
  ASSUME NEW t \in Threads
  PROVE  /\ \A b \in WithThread(t) : b = <<0, b[2], t>> /\ b[2] \in {"thread", "tid"}
         /\ \A b \in Handed(t) : b = <<0, "obj", t>>
         /\ \A b \in Arrays(t) : b = <<t, b[2], 0>> /\ b[2] \in {"a", "buf", "list", "size"}
BY DEF WithThread, Handed, Arrays

\* Every block that is held has its holder for owner.
LEMMA Owners ==
  /\ \A b \in MainHolds : Owner(b) = 0
  /\ \A t \in Threads : \A b \in Holds(t) : Owner(b) = t
<1>1. ASSUME NEW b \in MainHolds PROVE Owner(b) = 0
  BY SharedBlocks DEF MainHolds, Owner
<1>2. ASSUME NEW t \in Threads, NEW b \in Holds(t) PROVE Owner(b) = t
  <2>1. CASE b \in WithThread(t) \cup Handed(t)
    BY <2>1, ThreadBlocks DEF Owner
  <2>2. CASE b \in Arrays(t)
    BY <2>2, ThreadBlocks, ThreadNumbers DEF Owner
  <2>3. CASE b \in ObjectsOf(t)
    BY <2>3, ThreadNumbers DEF Owner, ObjectsOf
  <2> QED
    BY <1>2, <2>1, <2>2, <2>3 DEF Holds, Told, NotStarted, ArraysHeld
<1> QED
  BY <1>1, <1>2

\* The blocks thread t holds change and those of main and of the others do not.
LEMMA HeapStep ==
  ASSUME LiveInv, NEW t \in Threads, NEW uses, NEW makes, NEW frees,
         Heap(uses, makes, frees),
         MainHolds' = MainHolds,
         \A u \in Threads : u # t => Holds(u)' = Holds(u),
         uses \subseteq MainHolds \cup Holds(t),
         frees \subseteq Holds(t),
         \A b \in makes : Owner(b) = t /\ b \notin Holds(t),
         Holds(t)' = (Holds(t) \cup makes) \ frees
  PROVE  LiveInv' /\ ended' = ended
<1>1. \A b : b \in live <=> b \in MainHolds \/ \E u \in Threads : b \in Holds(u)
  BY DEF LiveInv
<1>2. makes \cap live = {}
  <2>1. ASSUME NEW b \in makes, b \in live PROVE FALSE
    <3>1. Owner(b) = t /\ t # 0
      BY ThreadNumbers
    <3>2. b \notin MainHolds
      BY <3>1, Owners
    <3>3. PICK u \in Threads : b \in Holds(u)
      BY <1>1, <2>1, <3>2
    <3>4. u = t
      BY <3>1, <3>3, Owners
    <3> QED
      BY <3>3, <3>4
  <2> QED
    BY <2>1
<1>3. (uses \cup frees) \subseteq live \cup makes
  BY <1>1
<1>4. live' = (live \cup makes) \ frees /\ ended' = ended
  BY <1>2, <1>3 DEF Heap
<1>5. ASSUME NEW b
      PROVE  b \in live' <=> b \in MainHolds' \/ \E u \in Threads : b \in Holds(u)'
  <2>1. b \in frees => b \notin MainHolds /\ \A u \in Threads : b \in Holds(u) => u = t
    <3>1. b \in frees => Owner(b) = t /\ t # 0
      BY Owners, ThreadNumbers
    <3> QED
      BY <3>1, Owners
  <2>2. b \in live' <=> (b \in live \/ b \in makes) /\ b \notin frees
    BY <1>4
  <2>3. b \in Holds(t)' <=> (b \in Holds(t) \/ b \in makes) /\ b \notin frees
    OBVIOUS
  <2>4. CASE b \in live' 
    <3>1. CASE b \in MainHolds
      BY <2>4, <3>1
    <3>2. CASE b \in makes \/ b \in Holds(t)
      BY <2>2, <2>3, <2>4, <3>2
    <3>3. CASE \E u \in Threads : u # t /\ b \in Holds(u)
      BY <2>4, <3>3
    <3> QED
      BY <1>1, <2>2, <2>4, <3>1, <3>2, <3>3
  <2>5. CASE b \notin live'
    <3>1. b \notin MainHolds'
      BY <1>1, <2>1, <2>2, <2>5
    <3>2. b \notin Holds(t)'
      BY <1>1, <2>2, <2>3, <2>5
    <3>3. ASSUME NEW u \in Threads, u # t, b \in Holds(u)' PROVE FALSE
      BY <1>1, <2>1, <2>2, <2>5, <3>3
    <3> QED
      BY <2>5, <3>1, <3>2, <3>3
  <2> QED
    BY <2>4, <2>5
<1> QED
  BY <1>4, <1>5 DEF LiveInv

\* Where main and thread t are.
PlaceInv(t) ==
  /\ ~Created(t) => pc[t] = "none"
  /\ main = "join" /\ t < next => pc[t] \in {"done", "none"}
  /\ main \in {"report", "exit"} => pc[t] \in {"done", "none"}
  /\ pc[t] \in {"wait", "return", "wait_end", "return_end", "record"} => prog = "linux-scalability"
  /\ pc[t] = "churn" => prog = "phong"
  /\ pc[t] = "drain" => prog # "phong"
  /\ pc[t] = "finish" => prog # "linux-scalability"

\* The counters of a thread, and the objects phong has at the places before
\* and after it has made the one it counts.
CounterInv(t) ==
  /\ k[t] < Objects
  /\ pc[t] \notin {"fill", "churn", "drain"} => k[t] = 0
  /\ pc[t] \in {"none", "start", "wait", "return", "arrays", "fill", "drain"} => j[t] < Rounds
  /\ prog = "phong" => /\ j[t] = 0
                       /\ pc[t] \in {"none", "start", "arrays"} => Held(t) = {}
                       /\ pc[t] = "fill" => \A i \in Held(t) : i < k[t]
                       /\ pc[t] = "churn" => \A i \in Held(t) : i <= k[t]

WrittenInv(t) == prog = "linux-scalability" /\ pc[t] = "done" => t - 1 \in written

\* Sizes are doubled up to the largest one and quartered above it: only for a
\* largest size of 1 do they get to 0.
SizesInv ==
  /\ \A t \in Threads : \A i \in 0 .. (OBJECTS - 1) :
       /\ size[t][i] <= 2 * Maxsize
       /\ Maxsize = 2 => size[t][i] # 3
  /\ Maxsize # 1 => ended # "realloc_failed"

Blocks ==
  (0 .. N) \X {"threads", "w", "objs", "obj", "executionTime", "thread", "tid",
                "a", "buf", "list", "size", "object"} \X Nat

ForkTypes ==
  /\ prog \in Programs
  /\ main \in {"setup", "create", "join", "report", "exit"}
  /\ next \in Threads
  /\ pc \in [Threads -> {"none", "start", "wait", "return", "arrays", "fill", "churn",
                         "drain", "wait_end", "return_end", "record", "finish", "done"}]
  /\ j \in [Threads -> 0 .. ROUNDS] /\ k \in [Threads -> 0 .. (OBJECTS - 1)]
  /\ size \in [Threads -> [0 .. (OBJECTS - 1) -> Nat]]
  /\ live \subseteq Blocks
  /\ written \subseteq 0 .. (N - 1)
  /\ ended \in {"no", "exit", "error", "segv", "garbage", "misuse", "realloc_failed"}

RunInv ==
  /\ LiveInv
  /\ main = "setup" => next = 1
  /\ \A t \in Threads : PlaceInv(t) /\ CounterInv(t) /\ WrittenInv(t)

ForkInv ==
  /\ ForkTypes /\ SizesInv
  /\ ended = "no" => RunInv
  /\ prog = "larson" => main = "setup" /\ live = {} /\ ended # "realloc_failed"
                        /\ \A t \in Threads : \A i \in DOMAIN size[t] : size[t][i] = 0
  /\ ended # "no" /\ prog # "larson" => ForkHeapUsed

LEMMA BlockTypes == LiveInv => live \subseteq Blocks
<1> SUFFICES ASSUME LiveInv, NEW b \in live PROVE b \in Blocks
  OBVIOUS
<1> USE DEF Blocks
<1>1. CASE b \in MainHolds
  <2>1. b \in Shared
    BY <1>1 DEF MainHolds
  <2> QED
    BY <2>1, ThreadNumbers DEF Shared, Main
<1>2. ASSUME NEW t \in Threads, b \in Holds(t) PROVE b \in Blocks
  <2>1. CASE b \in WithThread(t)
    BY <2>1, ThreadNumbers DEF WithThread
  <2>2. CASE b \in Handed(t)
    BY <2>2, ThreadNumbers DEF Handed
  <2>3. CASE b \in Arrays(t)
    BY <2>3, ThreadNumbers DEF Arrays
  <2>4. CASE b \in ObjectsOf(t)
    <3>1. \A i \in Held(t) : i \in Nat
      BY ForkConstants DEF Held
    <3> QED
      BY <2>4, <3>1, ThreadNumbers DEF ObjectsOf
  <2> QED
    BY <1>2, <2>1, <2>2, <2>3, <2>4 DEF Holds, Told, NotStarted, ArraysHeld
<1> QED
  BY <1>1, <1>2 DEF LiveInv

LEMMA InitForkInv == Init => ForkInv
<1> SUFFICES ASSUME Init PROVE ForkInv
  OBVIOUS
<1> USE DEF Init, ForkInit
<1>1. ForkTypes
  BY ThreadNumbers, ForkConstants DEF ForkTypes
<1>2. SizesInv
  BY ForkConstants DEF SizesInv
<1>3. LiveInv
  <2>1. MainHolds = {}
    BY DEF MainHolds
  <2>2. ASSUME NEW t \in Threads PROVE Holds(t) = {}
    <3>1. Held(t) = {}
      BY DEF Held
    <3> QED
      BY <3>1 DEF Holds, Told, Created, NotStarted, ArraysHeld, HasArrays, ObjectsOf
  <2> QED
    BY <2>1, <2>2 DEF LiveInv
<1>4. ASSUME NEW t \in Threads PROVE PlaceInv(t) /\ CounterInv(t) /\ WrittenInv(t)
  <2>1. Held(t) = {}
    BY DEF Held
  <2> QED
    BY <2>1, ForkConstants DEF PlaceInv, CounterInv, WrittenInv
<1> QED
  BY <1>1, <1>2, <1>3, <1>4 DEF ForkInv, RunInv

-----------------------------------------------------------------------------
(* A step of thread t changes what that thread holds and where it is.      *)

\* A thread that is not there yet or no more does not take a step.
LEMMA AtStep ==
  ASSUME RunInv, NEW t \in Threads, pc[t] \notin {"none", "done"}
  PROVE  Created(t) /\ main \notin {"setup", "report", "exit"} /\ ~(main = "join" /\ t < next)
BY DEF RunInv, PlaceInv, Created

LEMMA OtherHolds ==
  ASSUME NEW u \in Threads, UNCHANGED <<prog, main, next>>,
         pc'[u] = pc[u], k'[u] = k[u], size'[u] = size[u]
  PROVE  Holds(u)' = Holds(u) /\ Held(u)' = Held(u)
<1>1. Held(u)' = Held(u)
  BY DEF Held, Objects, Cached
<1>2. Told(u)' = Told(u)
  BY DEF Told, Created, WithThread
<1>3. NotStarted(u)' = NotStarted(u)
  BY DEF NotStarted, Handed
<1>4. ArraysHeld(u)' = ArraysHeld(u)
  BY DEF ArraysHeld, HasArrays, Arrays
<1> QED
  BY <1>1, <1>2, <1>3, <1>4 DEF Holds, ObjectsOf

ThreadVarsOK ==
  /\ pc \in [Threads -> {"none", "start", "wait", "return", "arrays", "fill", "churn",
                         "drain", "wait_end", "return_end", "record", "finish", "done"}]
  /\ j \in [Threads -> 0 .. ROUNDS] /\ k \in [Threads -> 0 .. (OBJECTS - 1)]
  /\ size \in [Threads -> [0 .. (OBJECTS - 1) -> Nat]]
  /\ written \subseteq 0 .. (N - 1)

SizeInv(t) ==
  \A i \in 0 .. (OBJECTS - 1) : size[t][i] <= 2 * Maxsize /\ (Maxsize = 2 => size[t][i] # 3)

\* Thread t goes on, and main and the other threads are where they were.
GoesOn(t) ==
  /\ ended = "no" /\ prog # "larson" /\ pc[t] \notin {"none", "done"}
  /\ UNCHANGED <<prog, main, next>>
  /\ \A u \in Threads : u # t =>
       pc'[u] = pc[u] /\ j'[u] = j[u] /\ k'[u] = k[u] /\ size'[u] = size[u]
  /\ ThreadVarsOK' /\ written \subseteq written'
  /\ pc'[t] \in {"wait", "return", "wait_end", "return_end", "record"} => prog = "linux-scalability"
  /\ pc'[t] = "churn" => prog = "phong"
  /\ pc'[t] = "drain" => prog # "phong"
  /\ pc'[t] = "finish" => prog # "linux-scalability"

\* It uses blocks that it or main has, makes blocks of its own that it does
\* not have, and frees blocks that it has.
HeapOf(t, uses, makes, frees) ==
  /\ Heap(uses, makes, frees)
  /\ uses \subseteq MainHolds \cup Holds(t)
  /\ frees \subseteq Holds(t)
  /\ \A b \in makes : Owner(b) = t /\ b \notin Holds(t)
  /\ Holds(t)' = (Holds(t) \cup makes) \ frees

LEMMA ThreadGoesOn ==
  ASSUME ForkInv, NEW t \in Threads, GoesOn(t),
         NEW uses, NEW makes, NEW frees, HeapOf(t, uses, makes, frees),
         CounterInv(t)', WrittenInv(t)', SizeInv(t)'
  PROVE  ForkInv'
<1>1. RunInv /\ ForkTypes /\ SizesInv
  BY DEF ForkInv, GoesOn
<1>2. \A u \in Threads : u # t => Holds(u)' = Holds(u) /\ Held(u)' = Held(u)
  BY OtherHolds DEF GoesOn
<1>3. LiveInv' /\ ended' = "no"
  <2>1. MainHolds' = MainHolds
    BY DEF GoesOn, MainHolds, DeletedByMain, Shared
  <2> QED
    BY <1>1, <1>2, <2>1, HeapStep DEF RunInv, HeapOf, GoesOn
<1>4. ForkTypes'
  <2>1. (LiveInv => live \subseteq Blocks)'
    BY BlockTypes, PTL
  <2> QED
    BY <1>1, <1>3, <2>1 DEF ForkTypes, ThreadVarsOK, GoesOn
<1>5. SizesInv'
  <2>1. ASSUME NEW u \in Threads, NEW i \in 0 .. (OBJECTS - 1)
        PROVE  size'[u][i] <= 2 * Maxsize /\ (Maxsize = 2 => size'[u][i] # 3)
    <3>1. CASE u = t
      BY <3>1 DEF SizeInv, Maxsize, Minsize
    <3>2. CASE u # t
      BY <1>1, <3>2 DEF SizesInv, GoesOn
    <3> QED
      BY <3>1, <3>2
  <2> QED
    BY <1>3, <2>1 DEF SizesInv, Maxsize, Minsize
<1>6. ASSUME NEW u \in Threads PROVE PlaceInv(u)' /\ CounterInv(u)' /\ WrittenInv(u)'
  <2>1. Created(u)' = Created(u)
    BY DEF Created, GoesOn
  <2>2. CASE u = t
    <3>1. PlaceInv(u)'
      BY <1>1, <2>1, <2>2, AtStep DEF PlaceInv, GoesOn
    <3> QED
      BY <2>2, <3>1
  <2>3. CASE u # t
    <3>1. PlaceInv(u) /\ CounterInv(u) /\ WrittenInv(u)
      BY <1>1 DEF RunInv
    <3>2. PlaceInv(u)'
      BY <2>1, <2>3, <3>1 DEF PlaceInv, GoesOn
    <3>3. CounterInv(u)'
      BY <1>2, <2>3, <3>1 DEF CounterInv, Objects, Rounds, Cached, GoesOn
    <3>4. WrittenInv(u)'
      BY <2>3, <3>1 DEF WrittenInv, GoesOn
    <3> QED
      BY <3>2, <3>3, <3>4
  <2> QED
    BY <2>2, <2>3
<1>7. RunInv'
  BY <1>1, <1>3, <1>6 DEF RunInv, GoesOn
<1> QED
  BY <1>3, <1>4, <1>5, <1>7 DEF ForkInv, GoesOn

\* Only its place changes, between two at which it holds the same.
LEMMA ThreadMovesOn ==
  ASSUME ForkInv, ended = "no", prog # "larson",
         NEW t \in Threads, pc[t] \notin {"none", "done", "fill", "churn", "drain", "arrays"},
         UNCHANGED <<prog, main, next, j, k, size>>,
         NEW place, Goto(t, place),
         \/ place = "return" /\ pc[t] = "wait"
         \/ place = "arrays" /\ pc[t] = "return"
         \/ place = "return_end" /\ pc[t] = "wait_end"
         \/ place = "record" /\ pc[t] = "return_end"
         \/ place = "done" /\ pc[t] = "record" /\ t - 1 \in written',
         written \subseteq written', written' \subseteq 0 .. (N - 1),
         NEW uses, Heap(uses, {}, {}), uses \subseteq MainHolds
  PROVE  ForkInv'
<1>1. PlaceInv(t) /\ CounterInv(t) /\ ForkTypes /\ SizesInv /\ RunInv
  BY DEF ForkInv, RunInv
<1>2. pc' = [pc EXCEPT ![t] = place]
  BY DEF Goto
<1>3. prog = "linux-scalability"
  BY <1>1 DEF PlaceInv
<1>4. Held(t) = {} /\ Held(t)' = {}
  BY <1>1, <1>2, <1>3 DEF Held, ForkTypes
<1>5. Holds(t)' = Holds(t)
  <2>1. Told(t)' = Told(t)
    BY DEF Told, Created, WithThread
  <2>2. NotStarted(t) = NotStarted(t)'
    BY <1>3 DEF NotStarted, Handed
  <2>3. HasArrays(t)' = HasArrays(t)
    BY <1>1, <1>2, <1>3 DEF HasArrays, ForkTypes
  <2>4. ArraysHeld(t)' = ArraysHeld(t)
    BY <2>3 DEF ArraysHeld, Arrays
  <2> QED
    BY <1>4, <2>1, <2>2, <2>4 DEF Holds, ObjectsOf
<1>6. CounterInv(t)'
  BY <1>1, <1>2, <1>3 DEF CounterInv, ForkTypes, Objects, Cached, Rounds
<1>7. WrittenInv(t)'
  BY <1>1, <1>2 DEF WrittenInv, ForkTypes
<1>8. GoesOn(t)
  BY <1>1, <1>2, <1>3 DEF GoesOn, ForkTypes, ThreadVarsOK
<1>9. SizeInv(t)'
  BY <1>1 DEF SizesInv, SizeInv, Maxsize, Minsize
<1>10. HeapOf(t, uses, {}, {})
  BY <1>5 DEF HeapOf
<1> QED
  BY <1>6, <1>7, <1>8, <1>9, <1>10, ThreadGoesOn

LEMMA RecordSlot ==
  ASSUME NEW t \in Threads
  PROVE  (t - 1) % N = t - 1 /\ t - 1 \in 0 .. (N - 1)
<1>1. \A n \in Nat \ {0} : \A y \in 0 .. (n - 1) : y % n = y
  OBVIOUS
<1> QED
  BY <1>1, ThreadNumbers

LEMMA AtBarrierStep ==
  ASSUME ForkInv, prog # "larson", UNCHANGED prog, NEW t \in Threads,
         BarrierWait(t) \/ BarrierReturn(t) \/ Record(t)
  PROVE  ForkInv'
<1>1. written \subseteq 0 .. (N - 1)
  BY DEF ForkInv, ForkTypes
<1>2. CASE BarrierWait(t) \/ BarrierReturn(t)
  <2>1. /\ ended = "no" /\ UNCHANGED <<prog, main, next, j, k, size, written>>
        /\ live' = live /\ ended' = ended
    BY <1>2 DEF BarrierWait, BarrierReturn, Running
  <2>2. PICK place \in {"return", "arrays", "return_end", "record"} :
          /\ Goto(t, place)
          /\ \/ place = "return" /\ pc[t] = "wait"
             \/ place = "arrays" /\ pc[t] = "return"
             \/ place = "return_end" /\ pc[t] = "wait_end"
             \/ place = "record" /\ pc[t] = "return_end"
    BY <1>2 DEF BarrierWait, BarrierReturn
  <2>3. Heap({}, {}, {})
    BY <2>1 DEF Heap
  <2> QED
    BY <1>1, <2>1, <2>2, <2>3, ThreadMovesOn
<1>3. CASE Record(t)
  <2>1. /\ ended = "no" /\ pc[t] = "record" /\ Goto(t, "done") /\ Heap(Shared, {}, {})
        /\ UNCHANGED <<prog, main, next, j, k, size>>
        /\ written' = written \cup {t - 1}
    BY <1>3, RecordSlot DEF Record, Running
  <2>2. Shared \subseteq MainHolds
    <3>1. prog = "linux-scalability" /\ main \notin {"setup", "exit"}
      BY <2>1, AtStep DEF ForkInv, RunInv, PlaceInv
    <3> QED
      BY <3>1, SharedBlocks DEF MainHolds
  <2>3. t - 1 \in 0 .. (N - 1)
    BY RecordSlot
  <2> QED
    BY <1>1, <2>1, <2>2, <2>3, ThreadMovesOn
<1> QED
  BY <1>2, <1>3

LEMMA StartStep ==
  ASSUME ForkInv, prog # "larson", UNCHANGED prog, NEW t \in Threads, Start(t)
  PROVE  ForkInv'
<1>1. PICK place \in {"wait", "arrays"} :
        /\ pc' = [pc EXCEPT ![t] = place]
        /\ place = "wait" => prog = "linux-scalability"
  BY DEF Start, Goto
<1>2. /\ ended = "no" /\ pc[t] = "start" /\ Heap(Arguments(t), {}, Handed(t))
      /\ UNCHANGED <<prog, main, next, j, k, size, written>>
  BY DEF Start, Running
<1>3. PlaceInv(t) /\ CounterInv(t) /\ ForkTypes /\ SizesInv /\ RunInv
  BY <1>2 DEF ForkInv, RunInv
<1>4. pc'[t] = place /\ \A u \in Threads : u # t => pc'[u] = pc[u]
  BY <1>1, <1>3 DEF ForkTypes
<1>5. main \notin {"setup", "exit"} /\ Created(t)
  BY <1>2, <1>3, AtStep
<1>6. Held(t) = {} /\ Held(t)' = {}
  BY <1>2, <1>3, <1>4 DEF CounterInv, Held
<1>7. Told(t) = WithThread(t) /\ NotStarted(t) = Handed(t) /\ ArraysHeld(t) = {} /\ ObjectsOf(t) = {}
  BY <1>2, <1>5, <1>6 DEF Told, NotStarted, ArraysHeld, HasArrays, ObjectsOf
<1>8. Told(t)' = WithThread(t) /\ NotStarted(t)' = {} /\ ArraysHeld(t)' = {} /\ ObjectsOf(t)' = {}
  BY <1>2, <1>4, <1>5, <1>6 DEF Told, Created, WithThread, NotStarted, ArraysHeld, HasArrays, ObjectsOf
<1>9. HeapOf(t, Arguments(t), {}, Handed(t))
  <2>1. Holds(t) = WithThread(t) \cup Handed(t) /\ Holds(t)' = WithThread(t)
    BY <1>7, <1>8 DEF Holds
  <2>2. \A b \in WithThread(t) : b \notin Handed(t)
    BY ThreadBlocks
  <2>3. Arguments(t) \subseteq MainHolds \cup Holds(t)
    <3>1. CASE Cached
      <4>1. Arguments(t) = {<<0, "w", 0>>} /\ <<0, "w", 0>> \in Shared
        BY <3>1 DEF Arguments, Shared, Cached, Main
      <4> QED
        BY <1>5, <4>1 DEF MainHolds
    <3>2. CASE prog = "linux-scalability"
      <4>1. Arguments(t) = WithThread(t)
        BY <3>2 DEF Arguments, WithThread, Cached
      <4> QED
        BY <2>1, <4>1
    <3>3. CASE ~Cached /\ prog # "linux-scalability"
      BY <3>3 DEF Arguments
    <3> QED
      BY <3>1, <3>2, <3>3
  <2>4. Holds(t)' = (Holds(t) \cup {}) \ Handed(t)
    BY <2>1, <2>2
  <2> QED
    BY <1>2, <2>1, <2>3, <2>4 DEF HeapOf
<1>10. GoesOn(t)
  BY <1>1, <1>2, <1>3, <1>4 DEF GoesOn, ForkTypes, ThreadVarsOK, ForkInv
<1>11. CounterInv(t)'
  BY <1>2, <1>3, <1>4, <1>6 DEF CounterInv, Objects, Cached, Rounds
<1>12. WrittenInv(t)'
  BY <1>4 DEF WrittenInv
<1>13. SizeInv(t)'
  BY <1>2, <1>3 DEF SizesInv, SizeInv, Maxsize, Minsize
<1> QED
  BY <1>9, <1>10, <1>11, <1>12, <1>13, ThreadGoesOn

LEMMA MakeArraysStep ==
  ASSUME ForkInv, prog # "larson", UNCHANGED prog, NEW t \in Threads, MakeArrays(t)
  PROVE  ForkInv'
<1>1. /\ ended = "no" /\ pc[t] = "arrays" /\ Heap({}, Arrays(t), {})
      /\ pc' = [pc EXCEPT ![t] = "fill"]
      /\ UNCHANGED <<prog, main, next, j, k, size, written>>
  BY DEF MakeArrays, Running, Goto
<1>2. PlaceInv(t) /\ CounterInv(t) /\ ForkTypes /\ SizesInv /\ RunInv
  BY <1>1 DEF ForkInv, RunInv
<1>3. pc'[t] = "fill" /\ \A u \in Threads : u # t => pc'[u] = pc[u]
  BY <1>1, <1>2 DEF ForkTypes
<1>4. Held(t) = {} /\ Held(t)' = {}
  BY <1>1, <1>2, <1>3, ForkConstants DEF CounterInv, Held
<1>5. /\ NotStarted(t) = {} /\ ArraysHeld(t) = {} /\ ObjectsOf(t) = {}
      /\ Told(t)' = Told(t) /\ NotStarted(t)' = {} /\ ArraysHeld(t)' = Arrays(t) /\ ObjectsOf(t)' = {}
  BY <1>1, <1>3, <1>4 DEF Told, Created, WithThread, NotStarted, ArraysHeld, Arrays, HasArrays, ObjectsOf
<1>6. HeapOf(t, {}, Arrays(t), {})
  <2>1. Holds(t) = Told(t) /\ Holds(t)' = Told(t) \cup Arrays(t)
    BY <1>5 DEF Holds
  <2>2. \A b \in Arrays(t) : Owner(b) = t /\ b \notin Told(t)
    BY ThreadBlocks, ThreadNumbers DEF Owner, Told
  <2> QED
    BY <1>1, <2>1, <2>2 DEF HeapOf
<1>7. GoesOn(t)
  BY <1>1, <1>2, <1>3 DEF GoesOn, ForkTypes, ThreadVarsOK
<1>8. CounterInv(t)'
  BY <1>1, <1>2, <1>3, <1>4 DEF CounterInv, Objects, Cached, Rounds
<1>9. WrittenInv(t)'
  BY <1>3 DEF WrittenInv
<1>10. SizeInv(t)'
  BY <1>1, <1>2 DEF SizesInv, SizeInv, Maxsize, Minsize
<1> QED
  BY <1>6, <1>7, <1>8, <1>9, <1>10, ThreadGoesOn

LEMMA FinishStep ==
  ASSUME ForkInv, prog # "larson", UNCHANGED prog, NEW t \in Threads, Finish(t)
  PROVE  ForkInv'
<1>1. /\ ended = "no" /\ pc[t] = "finish" /\ Heap({}, {}, Arrays(t))
      /\ pc' = [pc EXCEPT ![t] = "done"]
      /\ UNCHANGED <<prog, main, next, j, k, size, written>>
  BY DEF Finish, Running, Goto
<1>2. PlaceInv(t) /\ CounterInv(t) /\ ForkTypes /\ SizesInv /\ RunInv
  BY <1>1 DEF ForkInv, RunInv
<1>3. pc'[t] = "done" /\ \A u \in Threads : u # t => pc'[u] = pc[u]
  BY <1>1, <1>2 DEF ForkTypes
<1>4. prog # "linux-scalability"
  BY <1>1, <1>2 DEF PlaceInv
<1>5. Held(t)' = Held(t)
  BY <1>1, <1>3 DEF Held
<1>6. /\ ArraysHeld(t) = Arrays(t)
      /\ Told(t)' = Told(t) /\ NotStarted(t)' = NotStarted(t) /\ ArraysHeld(t)' = {}
      /\ ObjectsOf(t)' = ObjectsOf(t)
  BY <1>1, <1>3, <1>4, <1>5 DEF Told, Created, WithThread, NotStarted, ArraysHeld, HasArrays, ObjectsOf
<1>7. HeapOf(t, {}, {}, Arrays(t))
  <2>1. \A b \in Told(t) \cup NotStarted(t) \cup ObjectsOf(t) : b \notin Arrays(t)
    <3>1. \A b \in Told(t) \cup NotStarted(t) : b \notin Arrays(t)
      BY ThreadBlocks DEF Told, NotStarted
    <3>2. \A b \in ObjectsOf(t) : b \notin Arrays(t)
      BY ThreadBlocks DEF ObjectsOf
    <3> QED
      BY <3>1, <3>2
  <2>2. Holds(t)' = (Holds(t) \cup {}) \ Arrays(t)
    BY <1>6, <2>1 DEF Holds
  <2>3. Arrays(t) \subseteq Holds(t)
    BY <1>6 DEF Holds
  <2> QED
    BY <1>1, <2>2, <2>3 DEF HeapOf
<1>8. GoesOn(t)
  BY <1>1, <1>2, <1>3 DEF GoesOn, ForkTypes, ThreadVarsOK
<1>9. CounterInv(t)'
  BY <1>1, <1>2, <1>3, <1>5 DEF CounterInv, Objects, Cached, Rounds
<1>10. WrittenInv(t)'
  BY <1>1, <1>4 DEF WrittenInv
<1>11. SizeInv(t)'
  BY <1>1, <1>2 DEF SizesInv, SizeInv, Maxsize, Minsize
<1> QED
  BY <1>7, <1>8, <1>9, <1>10, <1>11, ThreadGoesOn

\* The thread has its arrays and makes or frees objects.
Named(t, I) == {<<t, "object", i>> : i \in I}

LEMMA ObjectsStep ==
  ASSUME NEW t \in Threads,
         Told(t)' = Told(t), NotStarted(t)' = NotStarted(t),
         ArraysHeld(t) = Arrays(t), ArraysHeld(t)' = Arrays(t),
         NEW made, NEW freed, made \cap Held(t) = {}, freed \subseteq Held(t),
         made = {} \/ freed = {},
         Held(t)' = (Held(t) \cup made) \ freed,
         Heap(Arrays(t), Named(t, made), Named(t, freed))
  PROVE  HeapOf(t, Arrays(t), Named(t, made), Named(t, freed))
<1> DEFINE makes == Named(t, made)
           frees == Named(t, freed)
<1> USE DEF Named
<1>1. Arrays(t) \subseteq Holds(t)
  BY DEF Holds
<1>2. frees \subseteq Holds(t)
  BY DEF Holds, ObjectsOf
<1>3. \A b \in Told(t) \cup NotStarted(t) \cup Arrays(t) : b \notin makes /\ b \notin frees
  BY ThreadBlocks DEF Told, NotStarted
<1>4. ASSUME NEW b \in makes PROVE Owner(b) = t /\ b \notin Holds(t)
  <2>1. PICK i \in made : b = <<t, "object", i>>
    OBVIOUS
  <2>2. b \notin ObjectsOf(t)
    BY <2>1 DEF ObjectsOf
  <2>3. Owner(b) = t
    BY <2>1, ThreadNumbers DEF Owner
  <2> QED
    BY <1>3, <2>2, <2>3 DEF Holds
<1>5. ObjectsOf(t)' = (ObjectsOf(t) \cup makes) \ frees
  BY DEF ObjectsOf
<1>6. Holds(t)' = (Holds(t) \cup makes) \ frees
  BY <1>3, <1>5 DEF Holds
<1> QED
  BY <1>1, <1>2, <1>4, <1>6 DEF HeapOf

LEMMA FillStep ==
  ASSUME ForkInv, prog # "larson", UNCHANGED prog, NEW t \in Threads, Fill(t)
  PROVE  ForkInv'
<1>1. /\ ended = "no" /\ pc[t] = "fill" /\ prog # "phong"
      /\ Heap(Arrays(t), {Obj(t)}, {})
      /\ UNCHANGED <<prog, main, next, j, size, written>>
  BY DEF Fill, Running
<1>2. PlaceInv(t) /\ CounterInv(t) /\ ForkTypes /\ SizesInv /\ RunInv
  BY <1>1 DEF ForkInv, RunInv
<1>3. k[t] \in Nat /\ k[t] < Objects /\ j[t] < Rounds
  BY <1>1, <1>2, ForkConstants DEF CounterInv, ForkTypes
<1>4. PICK place \in {"fill", "drain"}, n \in 0 .. (OBJECTS - 1) :
        /\ pc' = [pc EXCEPT ![t] = place] /\ k' = [k EXCEPT ![t] = n]
        /\ \/ place = "fill" /\ n = k[t] + 1 /\ k[t] + 1 < Objects
           \/ place = "drain" /\ n = 0 /\ k[t] + 1 = Objects
  <2>1. CASE k[t] + 1 < Objects
    <3>1. k' = [k EXCEPT ![t] = k[t] + 1] /\ pc' = [pc EXCEPT ![t] = "fill"]
      BY <1>1, <1>2, <2>1 DEF Fill, ForkTypes
    <3>2. k[t] + 1 \in 0 .. (OBJECTS - 1)
      BY <1>3, <2>1, ForkConstants
    <3> QED
      BY <2>1, <3>1, <3>2
  <2>2. CASE ~(k[t] + 1 < Objects)
    <3>1. k' = [k EXCEPT ![t] = 0] /\ pc' = [pc EXCEPT ![t] = "drain"]
      BY <2>2 DEF Fill, Goto
    <3>2. 0 \in 0 .. (OBJECTS - 1) /\ k[t] + 1 = Objects
      BY <1>3, <2>2, ForkConstants
    <3> QED
      BY <3>1, <3>2
  <2> QED
    BY <2>1, <2>2
<1>5. /\ pc'[t] = place /\ \A u \in Threads : u # t => pc'[u] = pc[u]
      /\ k'[t] = n /\ \A u \in Threads : u # t => k'[u] = k[u]
  BY <1>2, <1>4 DEF ForkTypes
<1>6. Held(t)' = Held(t) \cup {k[t]} /\ k[t] \notin Held(t)
  <2>1. Held(t) = {i \in 0 .. (Objects - 1) : i < k[t]}
    BY <1>1 DEF Held
  <2>2. Held(t)' = {i \in 0 .. (Objects - 1) : i <= k[t]}
    <3>1. Objects' = Objects /\ prog' # "phong" /\ pc'[t] = place /\ k'[t] = n
      BY <1>1, <1>5 DEF Objects, Cached
    <3>2. CASE place = "fill" /\ n = k[t] + 1
      <4>1. Held(t)' = {i \in 0 .. (Objects - 1) : i < k[t] + 1}
        BY <3>1, <3>2 DEF Held
      <4> QED
        BY <1>3, <4>1, ForkConstants
    <3>3. CASE place = "drain" /\ n = 0 /\ k[t] + 1 = Objects
      <4>1. Held(t)' = {i \in 0 .. (Objects - 1) : 0 <= i}
        BY <3>1, <3>3 DEF Held
      <4> QED
        BY <1>3, <3>3, <4>1, ForkConstants
    <3> QED
      BY <1>4, <3>2, <3>3
  <2> QED
    BY <1>3, <2>1, <2>2, ForkConstants
<1>7. /\ ArraysHeld(t) = Arrays(t) /\ ArraysHeld(t)' = Arrays(t)
      /\ Told(t)' = Told(t) /\ NotStarted(t)' = NotStarted(t)
  BY <1>1, <1>4, <1>5 DEF Told, Created, WithThread, NotStarted, Handed, ArraysHeld, Arrays, HasArrays
<1>8. HeapOf(t, Arrays(t), {Obj(t)}, {})
  <2>1. Named(t, {k[t]}) = {Obj(t)} /\ Named(t, {}) = {}
    BY DEF Obj, Named
  <2>2. Held(t)' = (Held(t) \cup {k[t]}) \ {} /\ {k[t]} \cap Held(t) = {}
    BY <1>6
  <2> QED
    BY <1>1, <1>7, <2>1, <2>2, ObjectsStep
<1>9. GoesOn(t)
  BY <1>1, <1>2, <1>4, <1>5 DEF GoesOn, ForkTypes, ThreadVarsOK
<1>10. CounterInv(t)'
  BY <1>1, <1>3, <1>4, <1>5, ForkConstants DEF CounterInv, Objects, Cached, Rounds
<1>11. WrittenInv(t)'
  BY <1>4, <1>5 DEF WrittenInv
<1>12. SizeInv(t)'
  BY <1>1, <1>2 DEF SizesInv, SizeInv, Maxsize, Minsize
<1> QED
  BY <1>8, <1>9, <1>10, <1>11, <1>12, ThreadGoesOn

LEMMA DrainStep ==
  ASSUME ForkInv, prog # "larson", UNCHANGED prog, NEW t \in Threads, Drain(t)
  PROVE  ForkInv'
<1>1. /\ ended = "no" /\ pc[t] = "drain"
      /\ Heap(Arrays(t), {}, {Obj(t)})
      /\ UNCHANGED <<prog, main, next, size, written>>
  BY DEF Drain, Running
<1>2. PlaceInv(t) /\ CounterInv(t) /\ ForkTypes /\ SizesInv /\ RunInv
  BY <1>1 DEF ForkInv, RunInv
<1>3. k[t] \in Nat /\ k[t] < Objects /\ j[t] \in Nat /\ j[t] < Rounds /\ prog # "phong"
  BY <1>1, <1>2, ForkConstants DEF PlaceInv, CounterInv, ForkTypes
<1>4. PICK place \in {"drain", "fill", "wait_end", "finish"}, n \in 0 .. (OBJECTS - 1), m \in 0 .. ROUNDS :
        /\ pc' = [pc EXCEPT ![t] = place] /\ k' = [k EXCEPT ![t] = n] /\ j' = [j EXCEPT ![t] = m]
        /\ \/ place = "drain" /\ n = k[t] + 1 /\ k[t] + 1 < Objects /\ m = j[t]
           \/ place = "fill" /\ n = 0 /\ k[t] + 1 = Objects /\ m < Rounds
           \/ place = "wait_end" /\ n = 0 /\ k[t] + 1 = Objects /\ prog = "linux-scalability"
           \/ place = "finish" /\ n = 0 /\ k[t] + 1 = Objects /\ prog # "linux-scalability"
  <2>1. CASE k[t] + 1 < Objects
    <3>1. k' = [k EXCEPT ![t] = k[t] + 1] /\ UNCHANGED <<pc, j>>
      BY <2>1 DEF Drain, ObjectsDrained
    <3>2. pc' = [pc EXCEPT ![t] = "drain"] /\ j' = [j EXCEPT ![t] = j[t]]
      BY <1>1, <1>2, <3>1 DEF ForkTypes
    <3>3. k[t] + 1 \in 0 .. (OBJECTS - 1)
      BY <1>3, <2>1, ForkConstants
    <3>4. j[t] \in 0 .. ROUNDS
      BY <1>2 DEF ForkTypes
    <3> QED
      BY <2>1, <3>1, <3>2, <3>3, <3>4
  <2>2. CASE ~(k[t] + 1 < Objects)
    <3>1. PICK place : place = IF j[t] + 1 < Rounds THEN "fill"
                               ELSE IF prog = "linux-scalability" THEN "wait_end" ELSE "finish"
      OBVIOUS
    <3>2. /\ k' = [k EXCEPT ![t] = 0] /\ j' = [j EXCEPT ![t] = j[t] + 1]
          /\ pc' = [pc EXCEPT ![t] = place]
      BY <2>2, <3>1 DEF Drain, ObjectsDrained, Goto
    <3>3. 0 \in 0 .. (OBJECTS - 1) /\ j[t] + 1 \in 0 .. ROUNDS /\ k[t] + 1 = Objects
      BY <1>3, <2>2, ForkConstants
    <3>4. /\ place \in {"drain", "fill", "wait_end", "finish"}
          /\ \/ place = "fill" /\ j[t] + 1 < Rounds
             \/ place = "wait_end" /\ prog = "linux-scalability"
             \/ place = "finish" /\ prog # "linux-scalability"
      BY <3>1
    <3> QED
      BY <3>2, <3>3, <3>4
  <2> QED
    BY <2>1, <2>2
<1>5. /\ pc'[t] = place /\ \A u \in Threads : u # t => pc'[u] = pc[u]
      /\ k'[t] = n /\ \A u \in Threads : u # t => k'[u] = k[u]
      /\ j'[t] = m /\ \A u \in Threads : u # t => j'[u] = j[u]
  BY <1>2, <1>4 DEF ForkTypes
<1>6. Held(t)' = Held(t) \ {k[t]} /\ k[t] \in Held(t)
  <2>1. \A i : i \in Held(t) <=> i \in 0 .. (Objects - 1) /\ k[t] <= i
    BY <1>1, <1>3 DEF Held
  <2>2. \A i : i \in Held(t)' <=>
          i \in 0 .. (Objects - 1) /\ ((place = "fill" /\ i < n) \/ (place = "drain" /\ n <= i))
    BY <1>1, <1>3, <1>4, <1>5 DEF Held, Objects, Cached
  <2>3. \A i : i \in Held(t)' <=> i \in Held(t) /\ i # k[t]
    BY <1>3, <1>4, <2>1, <2>2, ForkConstants
  <2> QED
    BY <1>3, <2>1, <2>3, ForkConstants
<1>7. /\ ArraysHeld(t) = Arrays(t) /\ ArraysHeld(t)' = Arrays(t)
      /\ Told(t)' = Told(t) /\ NotStarted(t)' = NotStarted(t)
  BY <1>1, <1>4, <1>5 DEF Told, Created, WithThread, NotStarted, Handed, ArraysHeld, Arrays, HasArrays
<1>8. HeapOf(t, Arrays(t), {}, {Obj(t)})
  <2>1. Named(t, {k[t]}) = {Obj(t)} /\ Named(t, {}) = {}
    BY DEF Obj, Named
  <2>2. Held(t)' = (Held(t) \cup {}) \ {k[t]} /\ {} \cap Held(t) = {} /\ {k[t]} \subseteq Held(t)
    BY <1>6
  <2> QED
    BY <1>1, <1>7, <2>1, <2>2, ObjectsStep
<1>9. GoesOn(t)
  BY <1>1, <1>2, <1>3, <1>4, <1>5 DEF GoesOn, ForkTypes, ThreadVarsOK
<1>10. CounterInv(t)'
  BY <1>1, <1>3, <1>4, <1>5, ForkConstants DEF CounterInv, Objects, Cached, Rounds
<1>11. WrittenInv(t)'
  BY <1>4, <1>5 DEF WrittenInv
<1>12. SizeInv(t)'
  BY <1>1, <1>2 DEF SizesInv, SizeInv, Maxsize, Minsize
<1> QED
  BY <1>8, <1>9, <1>10, <1>11, <1>12, ThreadGoesOn

-----------------------------------------------------------------------------
(* phong.                                                                  *)

LEMMA ResizedSizes ==
  ASSUME NEW sz \in Nat, sz <= 2 * Maxsize, Maxsize = 2 => sz # 3
  PROVE  /\ Resized(sz) \in Nat
         /\ Resized(sz) <= 2 * Maxsize /\ (Maxsize = 2 => Resized(sz) # 3)
         /\ sz # 0 /\ Maxsize # 1 => Resized(sz) # 0
<1>1. PICK m \in Nat \ {0} : m = Maxsize
  BY ForkConstants
<1>2. CASE sz > m
  <2>1. Resized(sz) = sz \div 4
    BY <1>1, <1>2 DEF Resized
  <2>2. sz \div 4 \in Nat /\ sz \div 4 <= sz
    OBVIOUS
  <2>3. sz \div 4 = 0 => sz <= 3
    OBVIOUS
  <2>4. sz <= 4 => sz \div 4 # 3
    OBVIOUS
  <2> QED
    BY <1>1, <1>2, <2>1, <2>2, <2>3, <2>4
<1>3. CASE ~(sz > m)
  <2>1. Resized(sz) = 2 * sz
    BY <1>1, <1>3 DEF Resized
  <2> QED
    BY <1>1, <1>3, <2>1
<1> QED
  BY <1>2, <1>3

LEMMA PhongObjects ==
  prog = "phong" /\ LiveInv /\ size \in [Threads -> [0 .. (OBJECTS - 1) -> Nat]] =>
    \A t \in Threads : \A i \in DOMAIN size[t] : size[t][i] # 0 <=> <<t, "object", i>> \in live
<1> SUFFICES ASSUME prog = "phong", LiveInv, size \in [Threads -> [0 .. (OBJECTS - 1) -> Nat]],
                    NEW t \in Threads, NEW i \in 0 .. (OBJECTS - 1)
             PROVE  size[t][i] # 0 <=> <<t, "object", i>> \in live
  OBVIOUS
<1> DEFINE b == <<t, "object", i>>
<1>1. Owner(b) = t /\ t # 0
  BY ThreadNumbers DEF Owner
<1>2. b \in live <=> b \in Holds(t)
  <2>1. b \in Holds(t) => b \in live
    BY DEF LiveInv
  <2>2. b \in live => b \in Holds(t)
    BY <1>1, Owners DEF LiveInv
  <2> QED
    BY <2>1, <2>2
<1>3. b \in Holds(t) <=> b \in ObjectsOf(t)
  BY ThreadBlocks DEF Holds, Told, NotStarted, ArraysHeld
<1>4. b \in ObjectsOf(t) <=> i \in Held(t)
  BY DEF ObjectsOf
<1>5. i \in Held(t) <=> size[t][i] # 0
  BY DEF Held
<1> QED
  BY <1>2, <1>3, <1>4, <1>5

\* The program ends before its time, and the heap is as it was.
LEMMA EndStep ==
  ASSUME ForkInv, ended = "no", prog # "larson", UNCHANGED prog,
         NEW how \in {"error", "segv", "realloc_failed"}, End(how),
         how = "realloc_failed" => Maxsize = 1
  PROVE  ForkInv'
<1>1. ended' = how /\ UNCHANGED <<main, next, pc, j, k, size, live, written>>
  BY DEF End, forkVars
<1>2. ForkTypes' /\ SizesInv'
  BY <1>1 DEF ForkInv, ForkTypes, SizesInv, Blocks, Maxsize, Minsize
<1>3. \A t \in Threads : \A i \in DOMAIN size[t] :
        prog = "phong" => (size[t][i] # 0 <=> <<t, "object", i>> \in live)
  BY PhongObjects DEF ForkInv, RunInv, ForkTypes
<1>4. ForkHeapUsed'
  BY <1>1, <1>3 DEF ForkHeapUsed
<1> QED
  BY <1>1, <1>2, <1>4 DEF ForkInv

LEMMA PhongMallocsStep ==
  ASSUME ForkInv, UNCHANGED prog, NEW t \in Threads, PhongMallocs(t)
  PROVE  ForkInv'
<1>1. /\ ended = "no" /\ pc[t] = "fill" /\ prog = "phong"
      /\ Heap(Arrays(t), {Obj(t)}, {})
      /\ pc' = [pc EXCEPT ![t] = "churn"]
      /\ UNCHANGED <<prog, main, next, j, k, written>>
  BY DEF PhongMallocs, Running, Goto
<1>2. PlaceInv(t) /\ CounterInv(t) /\ ForkTypes /\ SizesInv /\ RunInv
  BY <1>1 DEF ForkInv, RunInv
<1>3. PICK sz \in Minsize .. Maxsize : size' = [size EXCEPT ![t][k[t]] = sz]
  BY DEF PhongMallocs
<1>4. /\ pc'[t] = "churn" /\ \A u \in Threads : u # t => pc'[u] = pc[u]
      /\ k[t] \in 0 .. (OBJECTS - 1) /\ sz \in Nat \ {0} /\ sz <= Maxsize
  BY <1>1, <1>2, <1>3, ForkConstants DEF ForkTypes
<1>5. /\ size' \in [Threads -> [0 .. (OBJECTS - 1) -> Nat]]
      /\ \A u \in Threads : u # t => size'[u] = size[u]
      /\ \A i \in 0 .. (OBJECTS - 1) : size'[t][i] = IF i = k[t] THEN sz ELSE size[t][i]
  BY <1>2, <1>3, <1>4 DEF ForkTypes
<1>6. Held(t)' = Held(t) \cup {k[t]} /\ k[t] \notin Held(t)
  <2>1. Held(t)' = {i \in 0 .. (OBJECTS - 1) : size'[t][i] # 0}
    BY <1>1 DEF Held
  <2>2. Held(t) = {i \in 0 .. (OBJECTS - 1) : size[t][i] # 0}
    BY <1>1 DEF Held
  <2>3. \A i \in Held(t) : i < k[t]
    BY <1>1, <1>2 DEF CounterInv
  <2>4. k[t] \notin Held(t)
    BY <1>4, <2>3
  <2> QED
    BY <1>4, <1>5, <2>1, <2>2, <2>4
<1>7. /\ ArraysHeld(t) = Arrays(t) /\ ArraysHeld(t)' = Arrays(t)
      /\ Told(t)' = Told(t) /\ NotStarted(t)' = NotStarted(t)
  BY <1>1, <1>4 DEF Told, Created, WithThread, NotStarted, Handed, ArraysHeld, Arrays, HasArrays
<1>8. HeapOf(t, Arrays(t), {Obj(t)}, {})
  <2>1. Named(t, {k[t]}) = {Obj(t)} /\ Named(t, {}) = {}
    BY DEF Obj, Named
  <2>2. Held(t)' = (Held(t) \cup {k[t]}) \ {} /\ {k[t]} \cap Held(t) = {}
    BY <1>6
  <2> QED
    BY <1>1, <1>7, <2>1, <2>2, ObjectsStep
<1>9. GoesOn(t)
  BY <1>1, <1>2, <1>4, <1>5 DEF GoesOn, ForkTypes, ThreadVarsOK
<1>10. CounterInv(t)'
  <2>1. \A i \in Held(t)' : i <= k[t]
    BY <1>1, <1>2, <1>4, <1>6, ForkConstants DEF CounterInv, Held
  <2> QED
    BY <1>1, <1>2, <1>4, <2>1 DEF CounterInv, Objects, Cached, Rounds
<1>11. WrittenInv(t)'
  BY <1>4 DEF WrittenInv
<1>12. SizeInv(t)'
  <2>1. ASSUME NEW i \in 0 .. (OBJECTS - 1)
        PROVE  size'[t][i] <= 2 * Maxsize /\ (Maxsize = 2 => size'[t][i] # 3)
    <3>1. CASE i = k[t]
      BY <1>4, <1>5, <3>1, ForkConstants
    <3>2. CASE i # k[t]
      BY <1>2, <1>5, <3>2 DEF SizesInv
    <3> QED
      BY <3>1, <3>2
  <2> QED
    BY <2>1 DEF SizeInv, Maxsize, Minsize
<1> QED
  BY <1>8, <1>9, <1>10, <1>11, <1>12, ThreadGoesOn

\* What a thread of phong does when it has chosen the objects.
Churn(t, freed, resized) ==
  IF \E i \in resized : Resized(size[t][i]) = 0
  THEN End("realloc_failed")
  ELSE /\ Heap(Arrays(t), {}, Named(t, freed))
       /\ size' = [size EXCEPT ![t] =
            [i \in DOMAIN @ |-> IF i \in freed THEN 0
                               ELSE IF i \in resized THEN Resized(@[i]) ELSE @[i]]]
       /\ k' = [k EXCEPT ![t] = IF k[t] + 1 = Objects THEN 0 ELSE @ + 1]
       /\ Goto(t, IF k[t] + 1 = Objects THEN "finish" ELSE "fill")
       /\ UNCHANGED <<j, main, next, written, barrierVars>>

LEMMA PhongChurnsStep ==
  ASSUME ForkInv, UNCHANGED prog, NEW t \in Threads, PhongChurns(t)
  PROVE  ForkInv'
<1> DEFINE last == k[t] + 1 = Objects
<1>1. ended = "no" /\ pc[t] = "churn" /\ UNCHANGED prog
  BY DEF PhongChurns, Running
<1>2. PlaceInv(t) /\ CounterInv(t) /\ ForkTypes /\ SizesInv /\ RunInv
  BY <1>1 DEF ForkInv, RunInv
<1>3. prog = "phong" /\ k[t] \in Nat /\ k[t] < OBJECTS /\ Objects = OBJECTS
  BY <1>1, <1>2, ForkConstants DEF PlaceInv, CounterInv, ForkTypes, Objects, Cached
<1>4. Held(t) = {i \in 0 .. (OBJECTS - 1) : size[t][i] # 0}
  BY <1>3 DEF Held
<1> DEFINE held == IF k[t] < WARMUP THEN {} ELSE {i \in 0 .. (k[t] - 1) : size[t][i] # 0}
<1>5. PICK freed \in SUBSET held : \E resized \in SUBSET (held \ freed) : Churn(t, freed, resized)
  BY Zenon DEF PhongChurns, Named, Churn
<1>6. PICK resized \in SUBSET (held \ freed) : Churn(t, freed, resized)
  BY <1>5
<1>7. freed \subseteq Held(t) /\ resized \subseteq Held(t) \ freed
  <2>1. held \subseteq Held(t)
    BY <1>3, <1>4, ForkConstants
  <2> QED
    BY <2>1
<1>8. \A i \in 0 .. (OBJECTS - 1) :
        /\ size[t][i] \in Nat
        /\ Resized(size[t][i]) \in Nat
        /\ Resized(size[t][i]) <= 2 * Maxsize /\ (Maxsize = 2 => Resized(size[t][i]) # 3)
        /\ size[t][i] # 0 /\ Maxsize # 1 => Resized(size[t][i]) # 0
  BY <1>2, ResizedSizes DEF ForkTypes, SizesInv
<1>9. CASE \E i \in resized : Resized(size[t][i]) = 0
  <2>1. End("realloc_failed")
    BY <1>6, <1>9 DEF Churn
  <2>2. Maxsize = 1
    BY <1>4, <1>7, <1>8, <1>9
  <2> QED
    BY <1>1, <1>3, <2>1, <2>2, EndStep
<1>10. CASE ~ \E i \in resized : Resized(size[t][i]) = 0
  <2>1. /\ Heap(Arrays(t), {}, Named(t, freed))
        /\ size' = [size EXCEPT ![t] =
             [i \in DOMAIN size[t] |-> IF i \in freed THEN 0
                                ELSE IF i \in resized THEN Resized(size[t][i]) ELSE size[t][i]]]
        /\ k' = [k EXCEPT ![t] = IF last THEN 0 ELSE k[t] + 1]
        /\ pc' = [pc EXCEPT ![t] = IF last THEN "finish" ELSE "fill"]
        /\ UNCHANGED <<prog, main, next, j, written>>
    BY <1>1, <1>2, <1>6, <1>10 DEF Churn, Goto, ForkTypes
  <2>2. PICK n \in 0 .. (OBJECTS - 1), place \in {"finish", "fill"} :
          /\ k' = [k EXCEPT ![t] = n] /\ pc' = [pc EXCEPT ![t] = place]
          /\ place = "finish" => n = 0
          /\ place = "fill" => n = k[t] + 1
    <3>1. CASE last
      <4>1. 0 \in 0 .. (OBJECTS - 1)
        BY ForkConstants
      <4>2. k' = [k EXCEPT ![t] = 0] /\ pc' = [pc EXCEPT ![t] = "finish"]
        BY <2>1, <3>1
      <4> QED
        BY <4>1, <4>2
    <3>2. CASE ~last
      <4>1. k[t] + 1 \in 0 .. (OBJECTS - 1)
        BY <1>3, <3>2, ForkConstants
      <4> QED
        BY <2>1, <3>2, <4>1
    <3> QED
      BY <3>1, <3>2
  <2>3. /\ pc'[t] = place /\ \A u \in Threads : u # t => pc'[u] = pc[u]
        /\ k'[t] = n /\ \A u \in Threads : u # t => k'[u] = k[u]
    BY <1>2, <2>2 DEF ForkTypes
  <2>4. /\ size' \in [Threads -> [0 .. (OBJECTS - 1) -> Nat]]
        /\ \A u \in Threads : u # t => size'[u] = size[u]
        /\ \A i \in 0 .. (OBJECTS - 1) :
             size'[t][i] = IF i \in freed THEN 0
                           ELSE IF i \in resized THEN Resized(size[t][i]) ELSE size[t][i]
    <3>1. PICK f : f = [i \in 0 .. (OBJECTS - 1) |->
                          IF i \in freed THEN 0
                          ELSE IF i \in resized THEN Resized(size[t][i]) ELSE size[t][i]]
      OBVIOUS
    <3>2. f \in [0 .. (OBJECTS - 1) -> Nat]
      BY <1>8, <3>1
    <3>3. size' = [size EXCEPT ![t] = f]
      BY <1>2, <2>1, <3>1 DEF ForkTypes
    <3>4. size \in [Threads -> [0 .. (OBJECTS - 1) -> Nat]]
      BY <1>2 DEF ForkTypes
    <3>5. size'[t] = f
      BY <3>3, <3>4
    <3>6. size' \in [Threads -> [0 .. (OBJECTS - 1) -> Nat]] /\ \A u \in Threads : u # t => size'[u] = size[u]
      BY <3>2, <3>3, <3>4
    <3> QED
      BY <3>1, <3>5, <3>6
  <2>5. Held(t)' = Held(t) \ freed
    <3>1. Held(t)' = {i \in 0 .. (OBJECTS - 1) : size'[t][i] # 0}
      BY <1>1, <1>3 DEF Held
    <3> QED
      BY <1>4, <1>7, <1>10, <2>4, <3>1
  <2>6. /\ ArraysHeld(t) = Arrays(t) /\ ArraysHeld(t)' = Arrays(t)
        /\ Told(t)' = Told(t) /\ NotStarted(t)' = NotStarted(t)
    BY <1>1, <2>1, <2>3 DEF Told, Created, WithThread, NotStarted, Handed, ArraysHeld, Arrays, HasArrays
  <2>7. HeapOf(t, Arrays(t), {}, Named(t, freed))
    <3>1. Named(t, {}) = {}
      BY DEF Named
    <3>2. Held(t)' = (Held(t) \cup {}) \ freed /\ {} \cap Held(t) = {} /\ freed \subseteq Held(t)
      BY <1>7, <2>5
    <3>3. Heap(Arrays(t), Named(t, {}), Named(t, freed))
      BY <2>1, <3>1
    <3>4. HeapOf(t, Arrays(t), Named(t, {}), Named(t, freed))
      BY <2>6, <3>2, <3>3, ObjectsStep
    <3> QED
      BY <3>1, <3>4
  <2>8. GoesOn(t)
    <3>1. ThreadVarsOK'
      BY <1>2, <2>1, <2>2, <2>4 DEF ForkTypes, ThreadVarsOK
    <3> QED
      BY <1>1, <1>2, <1>3, <2>1, <2>2, <2>3, <2>4, <3>1 DEF GoesOn
  <2>9. CounterInv(t)'
    <3>1. \A i \in Held(t)' : i <= k[t]
      BY <1>1, <1>2, <1>3, <2>5 DEF CounterInv
    <3>2. \A i \in Held(t)' : i < k[t] + 1
      BY <1>3, <1>4, <2>5, <3>1, ForkConstants
    <3> QED
      BY <1>1, <1>2, <1>3, <2>1, <2>2, <2>3, <3>2, ForkConstants DEF CounterInv, Objects, Cached, Rounds
  <2>10. WrittenInv(t)'
    BY <2>3 DEF WrittenInv
  <2>11. SizeInv(t)'
    <3>1. ASSUME NEW i \in 0 .. (OBJECTS - 1)
          PROVE  size'[t][i] <= 2 * Maxsize /\ (Maxsize = 2 => size'[t][i] # 3)
      <4>1. CASE i \in freed
        BY <2>4, <4>1, ForkConstants
      <4>2. CASE i \notin freed /\ i \in resized
        BY <1>8, <2>4, <4>2
      <4>3. CASE i \notin freed /\ i \notin resized
        BY <1>2, <2>4, <4>3 DEF SizesInv
      <4> QED
        BY <4>1, <4>2, <4>3
    <3> QED
      BY <3>1 DEF SizeInv, Maxsize, Minsize
  <2> QED
    BY <2>7, <2>8, <2>9, <2>10, <2>11, ThreadGoesOn
<1> QED
  BY <1>9, <1>10

-----------------------------------------------------------------------------
(* main.                                                                   *)

LEMMA MainSetsUpStep ==
  ASSUME ForkInv, prog # "larson", UNCHANGED prog, MainSetsUp
  PROVE  ForkInv'
<1>1. /\ ended = "no" /\ main = "setup" /\ main' = "create"
      /\ Heap({}, Shared, {})
      /\ UNCHANGED <<prog, next, pc, j, k, size, written>>
  BY DEF MainSetsUp, Running
<1>2. ForkTypes /\ SizesInv /\ RunInv /\ next = 1
  BY <1>1 DEF ForkInv, RunInv
<1>3. ASSUME NEW t \in Threads
      PROVE  /\ ~Created(t) /\ ~Created(t)' /\ pc[t] = "none" /\ Held(t) = {} /\ Held(t)' = {}
             /\ Holds(t) = {} /\ Holds(t)' = Handed(t)
  <2>1. ~Created(t) /\ ~Created(t)'
    BY <1>1, <1>2, ThreadNumbers DEF Created
  <2>2. pc[t] = "none"
    BY <1>2, <2>1 DEF RunInv, PlaceInv
  <2>3. Held(t) = {} /\ Held(t)' = {}
    BY <1>1, <1>2, <2>2 DEF RunInv, CounterInv, Held
  <2>4. Told(t) = {} /\ NotStarted(t) = {} /\ ArraysHeld(t) = {} /\ ObjectsOf(t) = {}
    BY <1>1, <2>1, <2>2, <2>3 DEF Told, NotStarted, ArraysHeld, HasArrays, ObjectsOf
  <2>5. Told(t)' = {} /\ NotStarted(t)' = Handed(t) /\ ArraysHeld(t)' = {} /\ ObjectsOf(t)' = {}
    BY <1>1, <2>1, <2>2, <2>3 DEF Told, NotStarted, Handed, ArraysHeld, HasArrays, ObjectsOf
  <2> QED
    BY <2>1, <2>2, <2>3, <2>4, <2>5 DEF Holds
<1>4. live = {}
  BY <1>1, <1>2, <1>3 DEF RunInv, LiveInv, MainHolds
<1>5. live' = Shared /\ ended' = ended
  BY <1>1, <1>4 DEF Heap
<1>6. LiveInv'
  <2>1. MainHolds' = Shared \ {<<0, "obj", t>> : t \in Threads}
    BY <1>1 DEF MainHolds, DeletedByMain, Shared
  <2>2. ASSUME NEW b
        PROVE  b \in Shared <=> b \in MainHolds' \/ \E t \in Threads : b \in Handed(t)
    <3>1. CASE b \in {<<0, "obj", t>> : t \in Threads}
      <4>1. PICK t \in Threads : b = <<0, "obj", t>>
        BY <3>1
      <4> QED
        BY <2>1, <3>1, <4>1, SharedBlocks DEF Handed
    <3>2. CASE b \notin {<<0, "obj", t>> : t \in Threads}
      BY <2>1, <3>2, ThreadBlocks
    <3> QED
      BY <3>1, <3>2
  <2> QED
    BY <1>3, <1>5, <2>2 DEF LiveInv
<1>7. ForkTypes'
  <2>1. (LiveInv => live \subseteq Blocks)'
    BY BlockTypes, PTL
  <2> QED
    BY <1>1, <1>2, <1>5, <1>6, <2>1 DEF ForkTypes
<1>8. SizesInv'
  BY <1>1, <1>2, <1>5 DEF SizesInv, Maxsize, Minsize
<1>9. ASSUME NEW t \in Threads PROVE PlaceInv(t)' /\ CounterInv(t)' /\ WrittenInv(t)'
  <2>1. PlaceInv(t)'
    BY <1>1, <1>3 DEF PlaceInv
  <2>2. CounterInv(t)'
    BY <1>1, <1>2, <1>3 DEF RunInv, CounterInv, Objects, Cached, Rounds
  <2>3. WrittenInv(t)'
    BY <1>1, <1>3 DEF WrittenInv
  <2> QED
    BY <2>1, <2>2, <2>3
<1> QED
  BY <1>1, <1>5, <1>6, <1>7, <1>8, <1>9 DEF ForkInv, RunInv

\* main has tried to create a thread, which has its identifier or object.
LEMMA CreateStep ==
  ASSUME ForkInv, prog # "larson", ended = "no", main = "create",
         Heap(DeletedByMain, WithThread(next), {}),
         next' = (next % N) + 1,
         main' = IF next = N THEN "join" ELSE "create",
         NEW place \in {"none", "start"}, pc' = [pc EXCEPT ![next] = place],
         UNCHANGED <<prog, j, k, size, written>>
  PROVE  ForkInv'
<1>1. ForkTypes /\ SizesInv /\ RunInv
  BY DEF ForkInv, RunInv
<1>2. next \in Threads /\ next \in Nat /\ next' = IF next = N THEN 1 ELSE next + 1
  BY <1>1, CountOn, ThreadNumbers DEF ForkTypes
<1>3. pc[next] = "none" /\ ~Created(next)
  BY <1>1, <1>2 DEF RunInv, PlaceInv, Created
<1>4. ASSUME NEW u \in Threads
      PROVE  Created(u)' <=> Created(u) \/ u = next
  BY <1>2, ThreadNumbers DEF Created
<1>5. pc'[next] = place /\ \A u \in Threads : u # next => pc'[u] = pc[u]
  BY <1>1, <1>2 DEF ForkTypes
<1>6. \A u \in Threads : Held(u)' = Held(u)
  BY <1>3, <1>5 DEF Held, Objects, Cached
<1>7. ASSUME NEW u \in Threads
      PROVE  /\ NotStarted(u)' = NotStarted(u) /\ ArraysHeld(u)' = ArraysHeld(u)
             /\ ObjectsOf(u)' = ObjectsOf(u)
             /\ Told(u)' = IF u = next THEN WithThread(u) ELSE Told(u)
  <2>1. NotStarted(u)' = NotStarted(u)
    BY <1>3, <1>5 DEF NotStarted, Handed
  <2>2. ArraysHeld(u)' = ArraysHeld(u)
    BY <1>3, <1>5 DEF ArraysHeld, HasArrays, Arrays
  <2>3. ObjectsOf(u)' = ObjectsOf(u)
    BY <1>6 DEF ObjectsOf
  <2>4. Told(u)' = IF u = next THEN WithThread(u) ELSE Told(u)
    BY <1>4 DEF Told, WithThread
  <2> QED
    BY <2>1, <2>2, <2>3, <2>4
<1>8. LiveInv' /\ ended' = "no"
  <2>1. PICK t \in Threads : t = next
    BY <1>2
  <2>2. MainHolds' = MainHolds
    BY DEF MainHolds, DeletedByMain, Shared
  <2>3. \A u \in Threads : u # t => Holds(u)' = Holds(u)
    BY <1>7, <2>1 DEF Holds
  <2>4. Told(t) = {}
    BY <1>3, <2>1 DEF Told
  <2>5. Holds(t)' = (Holds(t) \cup WithThread(t)) \ {}
    BY <1>7, <2>1, <2>4 DEF Holds
  <2>6. DeletedByMain \subseteq MainHolds \cup Holds(t)
    BY ThreadNumbers DEF DeletedByMain, MainHolds, Main
  <2>7. ASSUME NEW b \in WithThread(t) PROVE Owner(b) = t /\ b \notin Holds(t)
    <3>1. Owner(b) = t
      BY ThreadBlocks DEF Owner
    <3>2. b \notin NotStarted(t) /\ b \notin ArraysHeld(t)
      BY ThreadBlocks DEF NotStarted, ArraysHeld
    <3>3. b \notin ObjectsOf(t)
      BY ThreadBlocks, ThreadNumbers DEF ObjectsOf
    <3> QED
      BY <2>4, <3>1, <3>2, <3>3 DEF Holds
  <2>8. LiveInv /\ {} \subseteq Holds(t) /\ Heap(DeletedByMain, WithThread(t), {})
    BY <1>1, <2>1 DEF RunInv
  <2> QED
    BY <2>2, <2>3, <2>5, <2>6, <2>7, <2>8, HeapStep
<1>9. ForkTypes'
  <2>1. (LiveInv => live \subseteq Blocks)'
    BY BlockTypes, PTL
  <2>2. next' \in Threads
    BY <1>2, ThreadNumbers
  <2> QED
    BY <1>1, <1>2, <1>8, <2>1, <2>2 DEF ForkTypes
<1>10. SizesInv'
  BY <1>1, <1>8 DEF SizesInv, Maxsize, Minsize
<1>11. ASSUME NEW u \in Threads PROVE PlaceInv(u)' /\ CounterInv(u)' /\ WrittenInv(u)'
  <2>1. PlaceInv(u) /\ CounterInv(u) /\ WrittenInv(u)
    BY <1>1 DEF RunInv
  <2>2. ~(main' = "join" /\ u < next') /\ main' \notin {"report", "exit"}
    BY <1>2, ThreadNumbers
  <2>3. PlaceInv(u)'
    BY <1>4, <1>5, <2>1, <2>2 DEF PlaceInv
  <2>4. CounterInv(u)'
    BY <1>3, <1>5, <1>6, <2>1 DEF CounterInv, Objects, Cached, Rounds
  <2>5. WrittenInv(u)'
    BY <1>5, <2>1 DEF WrittenInv
  <2> QED
    BY <2>3, <2>4, <2>5
<1> QED
  BY <1>8, <1>9, <1>10, <1>11 DEF ForkInv, RunInv

LEMMA MainJoinsStep ==
  ASSUME ForkInv, prog # "larson", UNCHANGED prog, MainJoins
  PROVE  ForkInv'
<1>1. /\ ended = "no" /\ main = "join" /\ pc[next] \in {"done", "none"}
      /\ main' = IF next = N THEN "report" ELSE "join"
      /\ UNCHANGED <<prog, pc, j, k, size, live, written, ended>>
  BY DEF MainJoins, Running, Joined
<1>2. ForkTypes /\ SizesInv /\ RunInv
  BY <1>1 DEF ForkInv
<1>3. next \in Threads /\ next \in Nat /\ next' = IF next = N THEN 1 ELSE next + 1
  BY <1>2, CountOn, ThreadNumbers DEF ForkTypes, MainJoins
<1>4. \A u \in Threads : Created(u) /\ Created(u)'
  BY <1>1 DEF Created
<1>5. LiveInv'
  <2>1. MainHolds' = MainHolds
    BY <1>1 DEF MainHolds, DeletedByMain, Shared
  <2>2. ASSUME NEW u \in Threads PROVE Holds(u)' = Holds(u)
    <3>1. Told(u)' = Told(u)
      BY <1>1, <1>4 DEF Told, WithThread
    <3>2. NotStarted(u)' = NotStarted(u)
      BY <1>1 DEF NotStarted, Handed
    <3>3. ArraysHeld(u)' = ArraysHeld(u) /\ ObjectsOf(u)' = ObjectsOf(u)
      BY <1>1 DEF ArraysHeld, HasArrays, Arrays, ObjectsOf, Held, Objects, Cached
    <3> QED
      BY <3>1, <3>2, <3>3 DEF Holds
  <2> QED
    BY <1>1, <1>2, <2>1, <2>2 DEF RunInv, LiveInv
<1>6. ForkTypes'
  <2>1. next' \in Threads
    BY <1>3, ThreadNumbers
  <2> QED
    BY <1>1, <1>2, <2>1 DEF ForkTypes, Blocks
<1>7. SizesInv'
  BY <1>1, <1>2 DEF SizesInv, Maxsize, Minsize
<1>8. ASSUME NEW u \in Threads PROVE PlaceInv(u)' /\ CounterInv(u)' /\ WrittenInv(u)'
  <2>1. PlaceInv(u) /\ CounterInv(u) /\ WrittenInv(u)
    BY <1>2 DEF RunInv
  <2>2. u < next \/ u = next => pc[u] \in {"done", "none"}
    BY <1>1, <2>1 DEF PlaceInv
  <2>3. main' = "join" /\ u < next' => u < next \/ u = next
    BY <1>1, <1>3, ThreadNumbers
  <2>4. main' # "exit" /\ (main' = "report" => u < next \/ u = next)
    BY <1>1, <1>3, ThreadNumbers
  <2>5. PlaceInv(u)'
    BY <1>1, <1>4, <2>1, <2>2, <2>3, <2>4 DEF PlaceInv
  <2>6. CounterInv(u)' /\ WrittenInv(u)'
    BY <1>1, <2>1 DEF CounterInv, WrittenInv, Held, Objects, Cached, Rounds
  <2> QED
    BY <2>5, <2>6
<1> QED
  BY <1>1, <1>5, <1>6, <1>7, <1>8 DEF ForkInv, RunInv

\* When main has joined the threads and deleted what it deletes, what they and
\* main still hold leaks.
LEMMA LeftAtExit ==
  ASSUME ForkInv, ended = "no", prog # "larson", main = "exit"
  PROVE  live \subseteq Leaked
<1>1. ForkTypes /\ RunInv
  BY DEF ForkInv
<1>2. \A t \in Threads : pc[t] \in {"done", "none"}
  BY <1>1 DEF RunInv, PlaceInv
<1>3. PICK p : p = prog
  OBVIOUS
<1>4. p \in {"threadtest", "cache-scratch", "cache-thrash", "linux-scalability", "phong"}
  BY <1>1, <1>3, ForkJoinAssumption DEF ForkTypes, ForkJoinAssumption
<1>5. ASSUME NEW b \in MainHolds PROVE b \in Leaked
  <2>1. b \in Shared \ DeletedByMain /\ b \notin {<<0, "obj", t>> : t \in Threads}
    BY DEF MainHolds
  <2>2. CASE p = "linux-scalability"
    BY <1>3, <2>1, <2>2 DEF Leaked
  <2>3. CASE p \in {"threadtest", "cache-thrash"}
    BY <1>3, <1>5, <2>1, <2>3 DEF Shared, DeletedByMain
  <2>4. CASE p = "cache-scratch"
    BY <1>3, <1>5, <2>1, <2>4 DEF Shared, DeletedByMain
  <2>5. CASE p = "phong"
    BY <1>3, <2>1, <2>5 DEF Shared
  <2> QED
    BY <1>4, <2>2, <2>3, <2>4, <2>5
<1>6. ASSUME NEW t \in Threads, NEW b \in Holds(t) PROVE b \in Leaked
  <2>1. CASE b \in Told(t)
    <3>1. b \in WithThread(t)
      BY <2>1 DEF Told
    <3>2. p \in {"threadtest", "linux-scalability"}
      BY <1>3, <3>1 DEF WithThread
    <3> QED
      BY <1>3, <3>1, <3>2 DEF Leaked
  <2>2. CASE b \in NotStarted(t)
    <3>1. b \in Handed(t) /\ pc[t] = "none" /\ p = "cache-scratch"
      BY <1>2, <1>3, <2>2 DEF NotStarted, Handed
    <3>2. t \in Missing
      BY <3>1 DEF Missing
    <3>3. Leaked = UNION {Handed(u) : u \in Missing}
      BY <1>3, <3>1 DEF Leaked
    <3> QED
      BY <3>1, <3>2, <3>3
  <2>3. CASE b \in ArraysHeld(t)
    <3>1. b \in Arrays(t) /\ p = "linux-scalability"
      BY <1>2, <1>3, <2>3 DEF ArraysHeld, HasArrays
    <3> QED
      BY <1>3, <3>1 DEF Leaked
  <2>4. CASE b \in ObjectsOf(t)
    <3>1. PICK i \in Held(t) : b = <<t, "object", i>>
      BY <2>4 DEF ObjectsOf
    <3>2. p = "phong"
      BY <1>2, <1>3, <3>1 DEF Held
    <3>3. i \in 0 .. (OBJECTS - 1)
      BY <1>3, <3>1, <3>2 DEF Held
    <3>4. Leaked = {<<u, "object", n>> : u \in Threads, n \in 0 .. (OBJECTS - 1)}
      BY <1>3, <3>2 DEF Leaked
    <3> QED
      BY <3>1, <3>3, <3>4
  <2> QED
    BY <1>6, <2>1, <2>2, <2>3, <2>4 DEF Holds
<1> QED
  BY <1>1, <1>5, <1>6 DEF RunInv, LiveInv

LEMMA MainReportsStep ==
  ASSUME ForkInv, prog # "larson", UNCHANGED prog, MainReports
  PROVE  ForkInv'
<1>1. ended = "no" /\ main = "report" /\ UNCHANGED <<prog, next, pc, j, k, size, written>>
  BY DEF MainReports, Running, End, forkVars
<1>2. ForkTypes /\ SizesInv /\ RunInv
  BY <1>1 DEF ForkInv
<1>3. CASE prog = "linux-scalability" /\ written # 0 .. (N - 1)
  <2>1. ended' = "garbage" /\ main' = main /\ live' = live
    BY <1>3 DEF MainReports, End, forkVars
  <2>2. Missing # {}
    <3>1. SUFFICES ASSUME Missing = {} PROVE FALSE
      OBVIOUS
    <3>2. \A t \in Threads : pc[t] = "done"
      BY <1>1, <1>2, <3>1 DEF Missing, RunInv, PlaceInv
    <3>3. \A t \in Threads : t - 1 \in written
      BY <1>2, <1>3, <3>2 DEF RunInv, WrittenInv
    <3>4. ASSUME NEW x \in 0 .. (N - 1) PROVE x \in written
      <4>1. x + 1 \in Threads /\ (x + 1) - 1 = x
        BY ThreadNumbers
      <4> QED
        BY <3>3, <4>1
    <3>5. written \subseteq 0 .. (N - 1)
      BY <1>2 DEF ForkTypes
    <3> QED
      BY <1>3, <3>4, <3>5
  <2>3. ForkTypes' /\ SizesInv'
    BY <1>1, <1>2, <2>1 DEF ForkTypes, SizesInv, Blocks, Maxsize, Minsize
  <2>4. ForkHeapUsed'
    BY <1>1, <1>3, <2>1, <2>2 DEF ForkHeapUsed, Missing
  <2> QED
    BY <1>1, <2>1, <2>3, <2>4 DEF ForkInv
<1>4. CASE ~(prog = "linux-scalability" /\ written # 0 .. (N - 1))
  <2>1. Heap({}, {}, DeletedByMain) /\ main' = "exit"
    BY <1>4 DEF MainReports
  <2>2. DeletedByMain \subseteq MainHolds /\ MainHolds' = MainHolds \ DeletedByMain
    BY <1>1, <2>1, ThreadNumbers DEF MainHolds, DeletedByMain, Shared, Main
  <2>3. live' = live \ DeletedByMain /\ ended' = "no"
    BY <1>1, <1>2, <2>1, <2>2 DEF Heap, RunInv, LiveInv
  <2>4. ASSUME NEW u \in Threads
        PROVE  Holds(u)' = Holds(u) /\ Holds(u) \cap DeletedByMain = {}
    <3>1. Created(u)' = Created(u)
      BY <1>1, <2>1 DEF Created
    <3>2. Told(u)' = Told(u) /\ NotStarted(u)' = NotStarted(u)
      BY <1>1, <2>1, <3>1 DEF Told, WithThread, NotStarted, Handed
    <3>3. ArraysHeld(u)' = ArraysHeld(u) /\ ObjectsOf(u)' = ObjectsOf(u)
      BY <1>1 DEF ArraysHeld, HasArrays, Arrays, ObjectsOf, Held, Objects, Cached
    <3>4. ASSUME NEW b \in Holds(u), b \in DeletedByMain PROVE FALSE
      BY <2>2, <3>4, Owners, ThreadNumbers
    <3> QED
      BY <3>2, <3>3, <3>4 DEF Holds
  <2>5. LiveInv'
    BY <1>2, <2>2, <2>3, <2>4 DEF RunInv, LiveInv
  <2>6. ForkTypes' /\ SizesInv'
    BY <1>1, <1>2, <2>1, <2>3 DEF ForkTypes, SizesInv, Blocks, Maxsize, Minsize
  <2>7. ASSUME NEW u \in Threads PROVE PlaceInv(u)' /\ CounterInv(u)' /\ WrittenInv(u)'
    <3>1. PlaceInv(u) /\ CounterInv(u) /\ WrittenInv(u)
      BY <1>2 DEF RunInv
    <3>2. PlaceInv(u)'
      BY <1>1, <2>1, <3>1 DEF PlaceInv, Created
    <3>3. CounterInv(u)' /\ WrittenInv(u)'
      BY <1>1, <3>1 DEF CounterInv, WrittenInv, Held, Objects, Cached, Rounds
    <3> QED
      BY <3>2, <3>3
  <2> QED
    BY <1>1, <2>1, <2>3, <2>5, <2>6, <2>7 DEF ForkInv, RunInv
<1> QED
  BY <1>3, <1>4

LEMMA MainExitsStep ==
  ASSUME ForkInv, prog # "larson", UNCHANGED prog, MainExits
  PROVE  ForkInv'
<1>1. ended = "no" /\ main = "exit" /\ ended' = "exit" /\ UNCHANGED <<prog, forkVars>>
  BY DEF MainExits, Running, End
<1>2. live' \subseteq Leaked'
  <2>1. Leaked' = Leaked
    BY <1>1 DEF forkVars, Missing, Leaked, Shared, WithThread, Arrays, Handed
  <2> QED
    BY <1>1, <2>1, LeftAtExit DEF forkVars
<1>3. ForkHeapUsed'
  BY <1>1, <1>2, PhongObjects DEF ForkInv, RunInv, ForkTypes, ForkHeapUsed, forkVars
<1>4. ForkTypes' /\ SizesInv'
  BY <1>1 DEF ForkInv, ForkTypes, SizesInv, Blocks, Maxsize, Minsize, forkVars
<1> QED
  BY <1>1, <1>3, <1>4 DEF ForkInv, forkVars

LEMMA MainStepInv ==
  ASSUME ForkInv, prog # "larson", UNCHANGED prog, MainStep
  PROVE  ForkInv'
<1>1. CASE MainCreates
  BY <1>1, CreateStep DEF MainCreates, Running, Goto
<1>2. CASE CreateFails
  <2>1. CASE prog \in {"threadtest", "phong"}
    <3>1. End("error") /\ ended = "no"
      BY <1>2, <2>1 DEF CreateFails, Running
    <3> QED
      BY <3>1, EndStep
  <2>2. CASE prog \notin {"threadtest", "phong"}
    <3>1. /\ ended = "no" /\ main = "create"
          /\ Heap(DeletedByMain, WithThread(next), {})
          /\ next' = (next % N) + 1
          /\ main' = IF next = N THEN "join" ELSE "create"
          /\ UNCHANGED <<prog, pc, j, k, size, written>>
      BY <1>2, <2>2 DEF CreateFails, Running
    <3>2. pc' = [pc EXCEPT ![next] = "none"]
      <4>1. ForkTypes /\ RunInv
        BY <3>1 DEF ForkInv
      <4>2. next \in Threads /\ ~(next < next)
        BY <4>1, ThreadNumbers DEF ForkTypes
      <4>3. pc[next] = "none"
        BY <3>1, <4>1, <4>2 DEF RunInv, PlaceInv, Created
      <4> QED
        BY <3>1, <4>1, <4>3 DEF ForkTypes
    <3> QED
      BY <3>1, <3>2, CreateStep
  <2> QED
    BY <2>1, <2>2
<1>3. CASE JoinCrashes
  <2>1. End("segv") /\ ended = "no"
    BY <1>3 DEF JoinCrashes, Running
  <2> QED
    BY <2>1, EndStep
<1> QED
  BY <1>1, <1>2, <1>3, MainSetsUpStep, MainJoinsStep, MainReportsStep, MainExitsStep DEF MainStep

\* The threads of larson have no part in this, but may end the program.
LEMMA ForkUnchanged ==
  ASSUME ForkInv, UNCHANGED <<prog, forkVars>>,
         ended' = ended \/ (prog = "larson" /\ ended = "no" /\ ended' \in {"misuse", "exit"})
  PROVE  ForkInv'
<1>1. ForkTypes' /\ SizesInv'
  BY DEF ForkInv, ForkTypes, SizesInv, Blocks, Maxsize, Minsize, forkVars
<1>2. RunInv => RunInv'
  <2>1. LiveInv => LiveInv'
    BY DEF forkVars, LiveInv, MainHolds, DeletedByMain, Shared, Holds, Told, Created, WithThread, NotStarted,
           Handed, ArraysHeld, HasArrays, Arrays, ObjectsOf, Held, Objects, Cached
  <2>2. ASSUME NEW t \in Threads, PlaceInv(t), CounterInv(t), WrittenInv(t)
        PROVE  PlaceInv(t)' /\ CounterInv(t)' /\ WrittenInv(t)'
    BY <2>2 DEF forkVars, PlaceInv, Created, CounterInv, WrittenInv, Held, Objects, Cached, Rounds
  <2> QED
    BY <2>1, <2>2 DEF RunInv, forkVars
<1>3. ForkHeapUsed /\ ended' = ended => ForkHeapUsed'
  BY DEF forkVars, ForkHeapUsed, Missing, Leaked, Shared, WithThread, Arrays, Handed
<1> QED
  BY <1>1, <1>2, <1>3 DEF ForkInv, forkVars

LEMMA LarsonEnds ==
  ASSUME RunThreads \/ \E r \in Relays : Exercise(r)
  PROVE  prog = "larson" /\ ended = "no" /\ ended' \in {"no", "misuse", "exit"}
<1>1. CASE RunThreads
  BY <1>1 DEF RunThreads, Warmup, CreateThread, Stop, AwaitFinished, NextRound, MainReturns,
              LarsonRuns, Running
<1>2. ASSUME NEW r \in Relays, Exercise(r)
      PROVE  prog = "larson" /\ ended = "no" /\ ended' \in {"no", "misuse", "exit"}
  BY <1>2 DEF Exercise, Enter, Begin, FreeVictim, MallocVictim, SayFinished, Respawn, Misuse,
              LarsonRuns, Running
<1> QED
  BY <1>1, <1>2

LEMMA NextForkInv ==
  ASSUME ForkInv, [Next]_vars
  PROVE  ForkInv'
<1>1. CASE prog # "larson" /\ ForkNext /\ UNCHANGED <<prog, larsonVars>>
  <2>1. CASE MainStep
    BY <1>1, <2>1, MainStepInv
  <2>2. ASSUME NEW t \in Threads, ThreadStep(t) PROVE ForkInv'
    BY <1>1, <2>2, StartStep, MakeArraysStep, FillStep, DrainStep, FinishStep, AtBarrierStep,
       PhongMallocsStep, PhongChurnsStep DEF ThreadStep
  <2> QED
    BY <1>1, <2>1, <2>2 DEF ForkNext
<1>2. CASE (RunThreads \/ \E r \in Relays : Exercise(r)) /\ UNCHANGED <<prog, forkVars>>
  BY <1>2, LarsonEnds, ForkUnchanged
<1>3. CASE UNCHANGED vars
  BY <1>3, ForkUnchanged DEF vars
<1> QED
  BY <1>1, <1>2, <1>3 DEF Next

LEMMA ForkInvariance == Spec => []ForkInv
<1>1. Init => ForkInv
  BY InitForkInv
<1>2. ForkInv /\ [Next]_vars => ForkInv'
  BY NextForkInv
<1> QED
  BY <1>1, <1>2, PTL DEF Spec

\* All programs of the suite use the heap as its callers should, with any
\* number of threads, rounds and objects: no block is freed twice or by a
\* thread that does not have it, no entry of executionTime is read that no
\* thread has written, and at the exit what is left is what Leaked names or, of
\* larson, a block for each cell.
THEOREM BlocksUsedCorrectly == ASSUME GRACE_OUTLASTS_THREADS PROVE Spec => []HeapUsedCorrectly
<1>1. ASSUME ForkInv, LarsonInv PROVE HeapUsedCorrectly
  <2>1. CASE prog = "larson"
    BY <1>1, <2>1 DEF ForkInv, LarsonInv, HeapUsedCorrectly, ForkHeapUsed
  <2>2. CASE prog # "larson" /\ ended = "no"
    BY <1>1, <2>2, PhongObjects DEF ForkInv, RunInv, ForkTypes, HeapUsedCorrectly, ForkHeapUsed
  <2>3. CASE prog # "larson" /\ ended # "no"
    BY <1>1, <2>3 DEF ForkInv, HeapUsedCorrectly
  <2> QED
    BY <2>1, <2>2, <2>3
<1>2. ForkInv /\ LarsonInv => HeapUsedCorrectly
  BY <1>1
<1> QED
  BY <1>2, ForkInvariance, LarsonInvariance, PTL

\* phong, called with a largest size other than 1, never resizes an object to
\* nothing nor past twice that size.
THEOREM SizesStayInBounds == ASSUME Maxsize # 1 PROVE Spec => []ResizedWithinBounds
<1>1. ForkInv => ResizedWithinBounds
  BY DEF ForkInv, ForkTypes, SizesInv, ResizedWithinBounds
<1> QED
  BY <1>1, ForkInvariance, PTL

\* Types.  A thread that waits is counted, so the count is never complete
\* after a step.
LEMMA CalledStep ==
  ASSUME BarrierInv, called < needed, [BarrierNext]_barrierVars
  PROVE  called' < needed
<1>1. called \in Nat /\ needed \in Nat /\ needed > 0
  BY WaitingFinite, ThreadNumbers DEF BarrierInv, needed, N
<1>2. ASSUME NEW t \in Threads, Wait(t) PROVE called' < needed
  BY <1>1, <1>2 DEF Wait, CalledReset
<1>3. ASSUME NEW t \in Threads, Return(t) PROVE called' < needed
  BY <1>3 DEF Return
<1>4. CASE UNCHANGED barrierVars
  BY <1>4 DEF barrierVars
<1> QED
  BY <1>2, <1>3, <1>4 DEF BarrierNext

LEMMA CalledInRange == Spec => [](BarrierInv /\ called < needed)
<1>1. Init => BarrierInit
  BY DEF Init, ForkInit
<1>2. BarrierInit => BarrierInv /\ called < needed
  BY BarrierInvInit, ThreadNumbers DEF BarrierInit, needed, N
<1>3. [Next]_vars => [BarrierNext]_barrierVars
  BY SuiteStep
<1>4. BarrierInv /\ called < needed /\ [BarrierNext]_barrierVars => (BarrierInv /\ called < needed)'
  BY BarrierStep, CalledStep
<1> QED
  BY <1>1, <1>2, <1>3, <1>4, PTL DEF Spec

\* larson keeps its types however long its threads live.
LarsonTyped ==
  /\ LarsonTypes
  /\ mainAt \in {"create", "sleep", "await"} => cur <= num_threads
  /\ \A r \in Relays : relay[r] \in {"free", "malloc"} => cblks[r] < NumBlocks

LEMMA ExerciseTyped ==
  ASSUME LarsonTyped, NEW r \in Relays, Exercise(r), UNCHANGED prog
  PROVE  LarsonTyped'
<1> USE DEF LarsonTyped, LarsonTypes, Working, Put
<1>1. CASE Misuse
  BY <1>1 DEF Misuse, larsonVars
<1>2. CASE Enter(r)
  BY <1>2 DEF Enter
<1>3. CASE Begin(r) /\ ~Misuse
  <2>1. r[2] \in 1 .. MAX_THREADS
    BY RelayBounds
  <2>2. 0 < NumBlocks /\ 0 \in 0 .. NumBlocks
    BY LarsonConstants
  <2> QED
    BY <1>3, <2>1, <2>2 DEF Begin
<1>4. CASE FreeVictim(r) /\ ~Misuse
  <2>1. PICK c \in Array(r) :
          /\ relay[r] = "free"
          /\ blkp' = [blkp EXCEPT ![c] = "freed"]
          /\ victim' = [victim EXCEPT ![r] = c]
          /\ relay' = [relay EXCEPT ![r] = "malloc"]
          /\ UNCHANGED <<num_threads, mainAt, cur, cblks, stopflag, finished, deleted, ended>>
    BY <1>4 DEF FreeVictim
  <2>2. c \in Cells
    BY RelayBounds
  <2> QED
    BY <2>1, <2>2
<1>5. CASE MallocVictim(r) /\ ~Misuse
  <2>1. PICK place \in {"finish", "free"}, n \in 0 .. NumBlocks :
          /\ n = cblks[r] + 1 /\ (place = "free" => n < NumBlocks)
          /\ cblks' = [cblks EXCEPT ![r] = n] /\ relay' = [relay EXCEPT ![r] = place]
          /\ blkp' = [blkp EXCEPT ![victim[r]] = "allocated"]
          /\ UNCHANGED <<num_threads, mainAt, cur, victim, stopflag, finished, deleted, ended>>
    <3>1. relay[r] = "malloc" /\ cblks[r] \in Nat /\ cblks[r] < NumBlocks
      BY <1>5, LarsonConstants DEF MallocVictim
    <3>2. cblks[r] + 1 \in 0 .. NumBlocks
      BY <3>1, LarsonConstants
    <3>3. PICK place : place = IF cblks[r] + 1 = NumBlocks \/ stopflag THEN "finish" ELSE "free"
      OBVIOUS
    <3>4. place \in {"finish", "free"} /\ (place = "free" => cblks[r] + 1 < NumBlocks)
      BY <3>1, <3>2, <3>3, LarsonConstants
    <3>5. /\ cblks' = [cblks EXCEPT ![r] = cblks[r] + 1] /\ relay' = [relay EXCEPT ![r] = place]
          /\ blkp' = [blkp EXCEPT ![victim[r]] = "allocated"]
          /\ UNCHANGED <<num_threads, mainAt, cur, victim, stopflag, finished, deleted, ended>>
      BY <1>5, <3>3 DEF MallocVictim
    <3> QED
      BY <3>2, <3>4, <3>5
  <2> QED
    BY <2>1
<1>6. CASE SayFinished(r) /\ ~Misuse
  BY <1>6, RelayBounds DEF SayFinished, SaysFinished
<1>7. CASE Respawn(r)
  BY <1>7 DEF Respawn, BeginThread
<1> QED
  BY <1>1, <1>2, <1>3, <1>4, <1>5, <1>6, <1>7 DEF Exercise

LEMMA CountTo ==
  \A c, n, m \in Nat \ {0} : c <= n /\ n <= m =>
    /\ 1 \in 1 .. m /\ 1 <= n
    /\ c # n => c + 1 \in 1 .. m /\ c + 1 <= n
OBVIOUS

LEMMA RunThreadsTyped ==
  ASSUME LarsonTyped, RunThreads, UNCHANGED prog
  PROVE  LarsonTyped'
<1> USE DEF LarsonTyped, LarsonTypes, Working, Put
<1>1. /\ num_threads \in Nat \ {0} /\ num_threads <= MAX_THREADS
      /\ cur \in Nat \ {0} /\ MAX_THREADS \in Nat \ {0}
  BY LarsonConstants
<1>2. CASE Warmup
  <2>1. blkp' \in [Cells -> {"none", "allocated", "freed"}]
    BY <1>2 DEF Warmup
  <2>2. cur' \in 1 .. MAX_THREADS /\ cur' <= num_threads
    BY <1>1, <1>2 DEF Warmup
  <2> QED
    BY <1>2, <2>1, <2>2 DEF Warmup
<1>3. CASE CreateThread
  <2>1. mainAt = "create" /\ <<num_threads, cur>> \in Relays
    BY <1>1, <1>3, RelayBounds DEF CreateThread
  <2>2. /\ mainAt' \in {"create", "sleep"} /\ cur' \in 1 .. MAX_THREADS /\ cur' <= num_threads
    <3>1. \/ cur = num_threads /\ mainAt' = "sleep" /\ cur' = 1
          \/ cur # num_threads /\ mainAt' = "create" /\ cur' = cur + 1
      BY <1>3, <2>1 DEF CreateThread
    <3>2. cur <= num_threads
      BY <2>1
    <3> QED
      BY <1>1, <3>1, <3>2, CountTo
  <2> QED
    BY <1>3, <2>1, <2>2 DEF CreateThread, BeginThread
<1>4. CASE Stop
  BY <1>4 DEF Stop
<1>5. CASE AwaitFinished
  <2>1. /\ mainAt' \in {"await", "grace"} /\ cur' \in 1 .. MAX_THREADS
        /\ mainAt' = "await" => cur' <= num_threads
    <3>1. \/ cur = num_threads /\ mainAt' = "grace" /\ cur' = 1
          \/ cur # num_threads /\ mainAt' = "await" /\ cur' = cur + 1
      BY <1>5 DEF AwaitFinished
    <3>2. cur <= num_threads
      BY <1>5 DEF AwaitFinished
    <3> QED
      BY <1>1, <3>1, <3>2, CountTo
  <2> QED
    BY <1>5, <2>1 DEF AwaitFinished
<1>6. CASE NextRound
  <2>1. num_threads' \in MIN_THREADS .. MAX_THREADS /\ mainAt' \in {"warmup", "return"} /\ deleted' \in BOOLEAN
    <3>1. \/ num_threads < MAX_THREADS /\ num_threads' = num_threads + 1 /\ mainAt' = "warmup" /\ deleted' = deleted
          \/ num_threads' = num_threads /\ mainAt' = "return" /\ deleted' = TRUE
      BY <1>6 DEF NextRound
    <3>2. num_threads' \in MIN_THREADS .. MAX_THREADS
      <4>1. \A n \in MIN_THREADS .. MAX_THREADS : n < MAX_THREADS => n + 1 \in MIN_THREADS .. MAX_THREADS
        BY LarsonConstants
      <4> QED
        BY <3>1, <4>1
    <3> QED
      BY <3>1, <3>2
  <2> QED
    BY <1>6, <2>1 DEF NextRound
<1>7. CASE MainReturns
  BY <1>7 DEF MainReturns, larsonVars
<1> QED
  BY <1>2, <1>3, <1>4, <1>5, <1>6, <1>7 DEF RunThreads

LEMMA LarsonTypeInvariance == Spec => []LarsonTyped
<1>1. Init => LarsonTyped
  BY InitLarsonInv DEF Init, LarsonInv, LarsonTyped
<1>2. ASSUME LarsonTyped, [Next]_vars PROVE LarsonTyped'
  <2>1. CASE UNCHANGED <<prog, larsonVars>>
    BY <1>2, <2>1 DEF LarsonTyped, LarsonTypes, larsonVars
  <2>2. CASE (RunThreads \/ \E r \in Relays : Exercise(r)) /\ UNCHANGED <<prog, forkVars>>
    BY <1>2, <2>2, RunThreadsTyped, ExerciseTyped
  <2> QED
    BY <1>2, <2>1, <2>2 DEF Next, vars
<1>3. LarsonTyped /\ [Next]_vars => LarsonTyped'
  BY <1>2
<1> QED
  BY <1>1, <1>3, PTL DEF Spec

THEOREM SuiteTypeCorrect == Spec => []TypeOK
<1>1. ASSUME ForkInv, LarsonTypes, BarrierInv, called < needed PROVE TypeOK
  <2>1. called \in 0 .. (N - 1)
    BY <1>1, WaitingFinite, ThreadNumbers DEF BarrierInv, needed, N
  <2>2. ForkTypeOK
    BY <1>1, <2>1 DEF ForkInv, ForkTypes, Blocks, BarrierInv, ForkTypeOK
  <2> QED
    BY <1>1, <2>2 DEF LarsonTypes, TypeOK
<1>2. ForkInv /\ LarsonTyped /\ (BarrierInv /\ called < needed) => TypeOK
  BY <1>1 DEF LarsonTyped
<1> QED
  BY <1>2, ForkInvariance, LarsonTypeInvariance, CalledInRange, PTL
=============================================================================
