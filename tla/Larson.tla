-------------------------------- MODULE Larson --------------------------------
(***************************************************************************)
(* larson, the benchmark of CMA_benchmarks whose threads do not end: a     *)
(* thread works on its array of blocks for a while, starts a successor for *)
(* the array and exits, until main sets stopflag.  main then waits until   *)
(* each array is `finished`, sleeps to let old threads die, and goes on to *)
(* a round with one thread more, or deletes what the threads share.        *)
(*                                                                         *)
(* The threads of one array form a relay <<n, i>>: that of array i in the  *)
(* round of n threads.  A thread does nothing after it has started its     *)
(* successor, so a relay is at one place at a time.  A block is known by   *)
(* the cell of the array that points to it.                                *)
(*                                                                         *)
(* The module completes the suite: its specification is that of one run    *)
(* of any of the programs.                                                 *)
(***************************************************************************)
EXTENDS ForkJoin

CONSTANTS
  MIN_THREADS, MAX_THREADS,  \* threads of the first and of the last round
  CHPERTHREAD,               \* cells of an array
  NUM_ROUNDS,                \* blocks per cell that a thread replaces
  SLEEP_OUTLASTS_START,      \* do the threads begin while main sleeps at first?
  GRACE_OUTLASTS_THREADS     \* are they dead after "wait 5 sec"?

VARIABLES
  num_threads,  \* the round; also the arrays in use
  mainAt,       \* where main is
  cur,          \* main's loop counter: the array it looks at
  relay,        \* where each relay is
  victim,       \* the cell the thread of a relay works on
  cblks,        \* cells it has replaced
  blkp,         \* each cell points to no block yet, an allocated or a freed one
  stopflag,
  finished,     \* of each array's thread_data
  deleted       \* has main deleted the thread_data?

larsonVars == <<num_threads, mainAt, cur, relay, victim, cblks, blkp, stopflag, finished, deleted>>

vars == <<prog, ended, forkVars, larsonVars>>

ASSUME LarsonAssumption ==
  /\ {MIN_THREADS, MAX_THREADS, CHPERTHREAD, NUM_ROUNDS} \subseteq Nat \ {0}
  /\ MIN_THREADS <= MAX_THREADS
  /\ {SLEEP_OUTLASTS_START, GRACE_OUTLASTS_THREADS} \subseteq BOOLEAN

Relays == {r \in (MIN_THREADS .. MAX_THREADS) \X (1 .. MAX_THREADS) : r[2] <= r[1]}

Array(r) == {r[2]} \X (1 .. CHPERTHREAD)

Cells == (1 .. MAX_THREADS) \X (1 .. CHPERTHREAD)

NumBlocks == NUM_ROUNDS * CHPERTHREAD

\* Places at which the thread works with the data of its array.
Working == {"begin", "free", "malloc", "finish"}

LarsonRuns == Running /\ prog = "larson"

-----------------------------------------------------------------------------
(* exercise_heap                                                           *)

Put(r, place) == relay' = [relay EXCEPT ![r] = place]

\* _beginthread ignores the result of pthread_create.
BeginThread(r, otherwise) ==
  \/ Put(r, "created")
  \/ CREATE_MAY_FAIL /\ Put(r, otherwise)

Misuse == ended' = "misuse" /\ UNCHANGED larsonVars

\* if (stopflag) return 0, before the thread has looked at its data
Enter(r) ==
  /\ LarsonRuns /\ relay[r] = "created"
  /\ Put(r, IF stopflag THEN "dead" ELSE "begin")
  /\ UNCHANGED <<num_threads, mainAt, cur, victim, cblks, blkp, stopflag, finished, deleted, ended>>

Begin(r) ==
  /\ LarsonRuns /\ relay[r] = "begin"
  /\ IF deleted THEN Misuse
     ELSE /\ finished' = [finished EXCEPT ![r[2]] = FALSE]
          /\ cblks' = [cblks EXCEPT ![r] = 0]
          /\ Put(r, "free")
          /\ UNCHANGED <<num_threads, mainAt, cur, victim, blkp, stopflag, deleted, ended>>

\* free(pdea->array[victim]) of a cell that lran2 chooses
FreeVictim(r) ==
  /\ LarsonRuns /\ relay[r] = "free"
  /\ \E c \in Array(r) :
       IF deleted \/ blkp[c] # "allocated" THEN Misuse
       ELSE /\ blkp' = [blkp EXCEPT ![c] = "freed"]
            /\ victim' = [victim EXCEPT ![r] = c]
            /\ Put(r, "malloc")
            /\ UNCHANGED <<num_threads, mainAt, cur, cblks, stopflag, finished, deleted, ended>>

\* The cell gets a new block, which is written to; then stopflag is read.
MallocVictim(r) ==
  /\ LarsonRuns /\ relay[r] = "malloc"
  /\ IF deleted \/ blkp[victim[r]] = "allocated" THEN Misuse
     ELSE /\ blkp' = [blkp EXCEPT ![victim[r]] = "allocated"]
          /\ cblks' = [cblks EXCEPT ![r] = @ + 1]
          /\ Put(r, IF cblks[r] + 1 = NumBlocks \/ stopflag THEN "finish" ELSE "free")
          /\ UNCHANGED <<num_threads, mainAt, cur, victim, stopflag, finished, deleted, ended>>

\* Faulty: a thread that has been told to stop does not say that it has finished.
SaysFinishedIfNotStopped(r) == [finished EXCEPT ![r[2]] = ~stopflag]

SaysFinished(r) == [finished EXCEPT ![r[2]] = TRUE]

SayFinished(r) ==
  /\ LarsonRuns /\ relay[r] = "finish"
  /\ IF deleted THEN Misuse
     ELSE /\ finished' = SaysFinished(r)
          /\ Put(r, "respawn")
          /\ UNCHANGED <<num_threads, mainAt, cur, victim, cblks, blkp, stopflag, deleted, ended>>

\* The thread exits; a successor, if it can be created, gets the same data.
Respawn(r) ==
  /\ LarsonRuns /\ relay[r] = "respawn"
  /\ IF stopflag THEN Put(r, "dead") ELSE BeginThread(r, "dead")
  /\ UNCHANGED <<num_threads, mainAt, cur, victim, cblks, blkp, stopflag, finished, deleted, ended>>

Exercise(r) ==
  Enter(r) \/ Begin(r) \/ FreeVictim(r) \/ MallocVictim(r) \/ SayFinished(r) \/ Respawn(r)

-----------------------------------------------------------------------------
(* main and runthreads                                                     *)

\* warmup allocates a block for every cell that is new in this round, and
\* frees and allocates some again.
Warmup ==
  /\ LarsonRuns /\ mainAt = "warmup"
  /\ blkp' = [c \in Cells |-> IF c[1] <= num_threads /\ blkp[c] = "none"
                           THEN "allocated" ELSE blkp[c]]
  /\ stopflag' = FALSE
  /\ mainAt' = "create" /\ cur' = 1
  /\ UNCHANGED <<num_threads, relay, victim, cblks, finished, deleted, ended>>

\* The thread_data of array i is filled in and its first thread created, if it can be.
CreateThread ==
  /\ LarsonRuns /\ mainAt = "create"
  /\ finished' = [finished EXCEPT ![cur] = FALSE]
  /\ BeginThread(<<num_threads, cur>>, "none")
  /\ IF cur = num_threads THEN mainAt' = "sleep" /\ cur' = 1 ELSE cur' = cur + 1 /\ UNCHANGED mainAt
  /\ UNCHANGED <<num_threads, victim, cblks, blkp, stopflag, deleted, ended>>

\* Sleep(sleep_cnt * 1000L); stopflag = TRUE
Stop ==
  /\ LarsonRuns /\ mainAt = "sleep"
  /\ SLEEP_OUTLASTS_START =>
       \A r \in Relays : r[1] = num_threads /\ relay[r] = "created" => finished[r[2]]
  /\ stopflag' = TRUE
  /\ mainAt' = "await"
  /\ UNCHANGED <<num_threads, cur, relay, victim, cblks, blkp, finished, deleted, ended>>

\* while (!de_area[i].finished) sched_yield()
AwaitFinished ==
  /\ LarsonRuns /\ mainAt = "await"
  /\ finished[cur]
  /\ IF cur = num_threads THEN mainAt' = "grace" /\ cur' = 1 ELSE cur' = cur + 1 /\ UNCHANGED mainAt
  /\ UNCHANGED <<num_threads, relay, victim, cblks, blkp, stopflag, finished, deleted, ended>>

\* Sleep(5000L): "wait 5 sec for old threads to die"
Grace == GRACE_OUTLASTS_THREADS => \A r \in Relays : relay[r] \in {"none", "dead"}

NextRound ==
  /\ LarsonRuns /\ mainAt = "grace"
  /\ Grace
  /\ IF num_threads < MAX_THREADS
     THEN num_threads' = num_threads + 1 /\ mainAt' = "warmup" /\ UNCHANGED deleted
     ELSE mainAt' = "return" /\ deleted' = TRUE /\ UNCHANGED num_threads
  /\ UNCHANGED <<cur, relay, victim, cblks, blkp, stopflag, finished, ended>>

MainReturns ==
  /\ LarsonRuns /\ mainAt = "return"
  /\ ended' = "exit"
  /\ UNCHANGED larsonVars

RunThreads ==
  Warmup \/ CreateThread \/ Stop \/ AwaitFinished \/ NextRound \/ MainReturns

-----------------------------------------------------------------------------
Init ==
  /\ prog \in Programs /\ ended = "no"
  /\ ForkInit
  /\ num_threads = MIN_THREADS
  /\ mainAt = "warmup" /\ cur = 1
  /\ relay = [r \in Relays |-> "none"]
  /\ victim = [r \in Relays |-> <<r[2], 1>>]
  /\ cblks = [r \in Relays |-> 0]
  /\ blkp = [c \in Cells |-> "none"]
  /\ stopflag = FALSE /\ deleted = FALSE
  /\ finished = [a \in 1 .. MAX_THREADS |-> FALSE]

Next ==
  \/ prog # "larson" /\ ForkNext /\ UNCHANGED <<prog, larsonVars>>
  \/ (RunThreads \/ \E r \in Relays : Exercise(r)) /\ UNCHANGED <<prog, forkVars>>

Spec == Init /\ [][Next]_vars

\* Every thread of a program, and main, gets to run.
FairSpec ==
  /\ Spec
  /\ WF_vars(MainStep /\ prog # "larson" /\ UNCHANGED <<prog, larsonVars>>)
  /\ \A t \in Threads :
       WF_vars(ThreadStep(t) /\ prog # "larson" /\ UNCHANGED <<prog, larsonVars>>)
  /\ WF_vars(RunThreads /\ UNCHANGED <<prog, forkVars>>)
  /\ \A r \in Relays : WF_vars(Exercise(r) /\ UNCHANGED <<prog, forkVars>>)

-----------------------------------------------------------------------------
TypeOK ==
  /\ prog \in Programs
  /\ ForkTypeOK
  /\ num_threads \in MIN_THREADS .. MAX_THREADS
  /\ mainAt \in {"warmup", "create", "sleep", "await", "grace", "return"}
  /\ cur \in 1 .. MAX_THREADS
  /\ relay \in [Relays -> {"none", "created", "respawn", "dead"} \cup Working]
  /\ victim \in [Relays -> Cells]
  /\ cblks \in [Relays -> 0 .. NumBlocks]
  /\ blkp \in [Cells -> {"none", "allocated", "freed"}]
  /\ finished \in [1 .. MAX_THREADS -> BOOLEAN]
  /\ {stopflag, deleted} \subseteq BOOLEAN

\* The programs use the heap as SafeHeap asks its callers to: each block is
\* freed once, by whatever thread has it, and not used afterwards, no entry is
\* read before a thread has written it, no pointer is overwritten while its
\* block is allocated, and what is allocated at the exit is what Leaked names
\* and, of larson, one block for each cell.  That larson's threads do not use
\* what main has deleted is what its five seconds are taken to see to (Grace).
HeapUsedCorrectly ==
  /\ ForkHeapUsed
  /\ prog = "larson" /\ ended = "exit" => \A c \in Cells : blkp[c] = "allocated"

\* Every program ends: no thread waits for ever at the barrier or to be joined,
\* and larson's main sees each array finished.  The exceptions: a thread of
\* linux-scalability that could not be created never reaches the barrier, and
\* larson's main waits for an array whose first thread could not be created.
Completes ==
  <>(\/ ended # "no"
     \/ prog = "linux-scalability" /\ main = "join" /\ Missing # {}
     \/ prog = "larson" /\ mainAt = "await" /\ relay[<<num_threads, cur>>] = "none")
=============================================================================
