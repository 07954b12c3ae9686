------------------------------ MODULE ForkJoin ------------------------------
(***************************************************************************)
(* The programs of CMA_benchmarks whose main creates threads, joins them   *)
(* and ends: threadtest, cache-scratch, cache-thrash, linux-scalability    *)
(* and phong, as users of the heap.  A behaviour is a run of one of them,  *)
(* `prog`.                                                                 *)
(*                                                                         *)
(* A block of memory is named by who makes it (0 is main), by what the     *)
(* program calls it and by a number, so a block that is made again while   *)
(* it is allocated is one whose last pointer has been overwritten.         *)
(***************************************************************************)
EXTENDS PtBarrier

CONSTANTS
  Programs,         \* the programs that are run
  ROUNDS,           \* iterations of threadtest, cache-scratch and cache-thrash
  OBJECTS,          \* objects a thread of threadtest, linux-scalability or phong makes
  WARMUP,           \* objects phong makes before it begins to free some (1000)
  MIN_ARG, MAX_ARG, \* block sizes phong is called with
  CREATE_MAY_FAIL   \* may a thread not be created?

VARIABLES
  prog,
  main,     \* where main is
  next,     \* main's loop counter: the thread it creates or joins next
  pc,       \* where each thread is, "none" before it exists
  j, k,     \* loop counters of each thread: the round, the object
  size,     \* phong: the sizes of the objects a thread has, 0 where it has none
  live,     \* blocks that are allocated
  written,  \* linux-scalability: entries of executionTime that have a value
  ended     \* "no", or how the program has ended

forkVars == <<main, next, pc, j, k, size, live, written, called, at, arrived, left>>

N == Cardinality(Threads)

ASSUME ForkJoinAssumption ==
  /\ Threads = 1 .. N /\ N > 0
  /\ Programs \subseteq {"threadtest", "cache-scratch", "cache-thrash",
                         "linux-scalability", "phong", "larson"}
  /\ {ROUNDS, OBJECTS} \subseteq Nat \ {0}
  /\ {MIN_ARG, MAX_ARG} \subseteq Nat /\ WARMUP \in Nat \ {0}
  /\ CREATE_MAY_FAIL \in BOOLEAN

Cached == prog \in {"cache-scratch", "cache-thrash"}

-----------------------------------------------------------------------------
(* The blocks of the programs.                                             *)

Main(name) == <<0, name, 0>>

\* What main makes before it creates threads, and what with each of them.
Shared ==
  CASE prog = "threadtest"        -> {Main("threads")}
    [] prog = "cache-thrash"      -> {Main("threads"), Main("w")}
    [] prog = "cache-scratch"     -> {Main("threads"), Main("w"), Main("objs")}
                                       \cup {<<0, "obj", t>> : t \in Threads}
    [] prog = "linux-scalability" -> {Main("executionTime")}
    [] OTHER                      -> {}

WithThread(t) ==
  CASE prog = "threadtest"        -> {<<0, "thread", t>>}
    [] prog = "linux-scalability" -> {<<0, "tid", t>>}
    [] OTHER                      -> {}

\* What the thread reads first, and the block main has made for it to free.
Arguments(t) ==
  CASE Cached                     -> {Main("w")}
    [] prog = "linux-scalability" -> {<<0, "tid", t>>}
    [] OTHER                      -> {}

Handed(t) == IF prog = "cache-scratch" THEN {<<0, "obj", t>>} ELSE {}

\* The arrays of a thread.
Arrays(t) ==
  CASE prog = "threadtest"        -> {<<t, "a", 0>>}
    [] prog = "linux-scalability" -> {<<t, "buf", 0>>}
    [] prog = "phong"             -> {<<t, "list", 0>>, <<t, "size", 0>>}
    [] OTHER                      -> {}

Obj(t) == <<t, "object", k[t]>>

Rounds == IF prog \in {"linux-scalability", "phong"} THEN 1 ELSE ROUNDS

Objects == IF Cached THEN 1 ELSE OBJECTS

\* What main deletes when it has joined the threads.
DeletedByMain == Shared \cap {Main("threads"), Main("w"), Main("objs")}

-----------------------------------------------------------------------------
Running == ended = "no"

\* A step that uses some blocks, makes some and frees some.
Heap(uses, makes, frees) ==
  IF (uses \cup frees) \subseteq live \cup makes /\ makes \cap live = {}
  THEN live' = (live \cup makes) \ frees /\ UNCHANGED ended
  ELSE ended' = "misuse" /\ UNCHANGED live

End(how) == ended' = how /\ UNCHANGED forkVars

Goto(t, label) == pc' = [pc EXCEPT ![t] = label]

-----------------------------------------------------------------------------
(* main                                                                    *)

MainSetsUp ==
  /\ Running /\ main = "setup"
  /\ Heap({}, Shared, {})
  /\ main' = "create"
  /\ UNCHANGED <<next, pc, j, k, size, written, barrierVars>>

MainCreates ==
  /\ Running /\ main = "create"
  /\ Heap(DeletedByMain, WithThread(next), {})
  /\ Goto(next, "start")
  /\ next' = (next % N) + 1
  /\ main' = IF next = N THEN "join" ELSE "create"
  /\ UNCHANGED <<j, k, size, written, barrierVars>>

\* std::thread throws and error() of phong exits; the others go on.
CreateFails ==
  /\ Running /\ main = "create" /\ CREATE_MAY_FAIL
  /\ IF prog \in {"threadtest", "phong"}
     THEN End("error")
     ELSE /\ Heap(DeletedByMain, WithThread(next), {})
          /\ next' = (next % N) + 1
          /\ main' = IF next = N THEN "join" ELSE "create"
          /\ UNCHANGED <<pc, j, k, size, written, barrierVars>>

\* Faulty: a thread that has begun is taken for one that is done.
Joinable(t) == pc[t] # "start"

\* A thread that was not created has no identifier: the join fails or crashes.
Joined(t) == pc[t] \in {"done", "none"}

MainJoins ==
  /\ Running /\ main = "join"
  /\ Joined(next)
  /\ next' = (next % N) + 1
  /\ main' = IF next = N THEN "report" ELSE "join"
  /\ UNCHANGED <<pc, j, k, size, live, written, barrierVars, ended>>

JoinCrashes ==
  /\ Running /\ main = "join"
  /\ pc[next] = "none"
  /\ End("segv")

\* linux-scalability reads the time of every thread; the others delete.
MainReports ==
  /\ Running /\ main = "report"
  /\ IF prog = "linux-scalability" /\ written # 0 .. (N - 1)
     THEN End("garbage")
     ELSE /\ Heap({}, {}, DeletedByMain)
          /\ main' = "exit"
          /\ UNCHANGED <<next, pc, j, k, size, written, barrierVars>>

MainExits ==
  /\ Running /\ main = "exit"
  /\ End("exit")

-----------------------------------------------------------------------------
(* The threads.                                                            *)

\* The thread reads its argument; one of cache-scratch deletes its object.
Start(t) ==
  /\ Running /\ pc[t] = "start"
  /\ Heap(Arguments(t), {}, Handed(t))
  /\ Goto(t, IF prog = "linux-scalability" THEN "wait" ELSE "arrays")
  /\ UNCHANGED <<main, next, j, k, size, written, barrierVars>>

\* linux-scalability: pthread_barrier_wait before and after the test
BarrierWait(t) ==
  /\ Running /\ pc[t] \in {"wait", "wait_end"}
  /\ Wait(t)
  /\ Goto(t, IF pc[t] = "wait" THEN "return" ELSE "return_end")
  /\ UNCHANGED <<main, next, j, k, size, live, written, ended>>

BarrierReturn(t) ==
  /\ Running /\ pc[t] \in {"return", "return_end"}
  /\ Return(t)
  /\ Goto(t, IF pc[t] = "return" THEN "arrays" ELSE "record")
  /\ UNCHANGED <<main, next, j, k, size, live, written, ended>>

MakeArrays(t) ==
  /\ Running /\ pc[t] = "arrays"
  /\ Heap({}, Arrays(t), {})
  /\ Goto(t, "fill")
  /\ UNCHANGED <<main, next, j, k, size, written, barrierVars>>

\* Make the next object and write to it.
Fill(t) ==
  /\ Running /\ pc[t] = "fill" /\ prog # "phong"
  /\ Heap(Arrays(t), {Obj(t)}, {})
  /\ IF k[t] + 1 < Objects
     THEN k' = [k EXCEPT ![t] = @ + 1] /\ UNCHANGED pc
     ELSE k' = [k EXCEPT ![t] = 0] /\ Goto(t, "drain")
  /\ UNCHANGED <<main, next, j, size, written, barrierVars>>

\* Faulty: the last object is left to the next round.
ObjectsDrainedButOne == IF Cached THEN 1 ELSE Objects - 1

ObjectsDrained == Objects

\* Free the next object; after the last one begin the next round.
Drain(t) ==
  /\ Running /\ pc[t] = "drain"
  /\ Heap(Arrays(t), {}, {Obj(t)})
  /\ IF k[t] + 1 < ObjectsDrained
     THEN k' = [k EXCEPT ![t] = @ + 1] /\ UNCHANGED <<pc, j>>
     ELSE /\ k' = [k EXCEPT ![t] = 0]
          /\ j' = [j EXCEPT ![t] = @ + 1]
          /\ Goto(t, IF j[t] + 1 < Rounds THEN "fill"
                     ELSE IF prog = "linux-scalability" THEN "wait_end" ELSE "finish")
  /\ UNCHANGED <<main, next, size, written, barrierVars>>

\* linux-scalability: executionTime[pt % thread_count]
Record(t) ==
  /\ Running /\ pc[t] = "record"
  /\ Heap(Shared, {}, {})
  /\ written' = written \cup {(t - 1) % N}
  /\ Goto(t, "done")
  /\ UNCHANGED <<main, next, j, k, size, barrierVars>>

Finish(t) ==
  /\ Running /\ pc[t] = "finish"
  /\ Heap({}, {}, Arrays(t))
  /\ Goto(t, "done")
  /\ UNCHANGED <<main, next, j, k, size, written, barrierVars>>

-----------------------------------------------------------------------------
(* phong: the thread fills its list and, after WARMUP objects, frees or    *)
(* resizes objects of an interval of it.  RANDOM() may give any value.     *)

Minsize == IF MIN_ARG = 0 THEN 1 ELSE MIN_ARG

Maxsize == IF MAX_ARG < Minsize THEN Minsize ELSE MAX_ARG

\* Faulty: a size past the largest becomes one eighth.
ResizedToEighth(sz) == IF sz > Maxsize THEN sz \div 8 ELSE 2 * sz

Resized(sz) == IF sz > Maxsize THEN sz \div 4 ELSE 2 * sz

PhongMallocs(t) ==
  /\ Running /\ pc[t] = "fill" /\ prog = "phong"
  /\ Heap(Arrays(t), {Obj(t)}, {})
  /\ \E sz \in Minsize .. Maxsize : size' = [size EXCEPT ![t][k[t]] = sz]
  /\ Goto(t, "churn")
  /\ UNCHANGED <<main, next, j, k, written, barrierVars>>

\* Of the objects before the one just made some are freed and some resized,
\* none during the warmup.  realloc(p, 0) returns NULL: error() exits.
PhongChurns(t) ==
  LET held == IF k[t] < WARMUP THEN {} ELSE {i \in 0 .. (k[t] - 1) : size[t][i] # 0}
      last == k[t] + 1 = Objects
  IN  /\ Running /\ pc[t] = "churn"
      /\ \E freed \in SUBSET held : \E resized \in SUBSET (held \ freed) :
           IF \E i \in resized : Resized(size[t][i]) = 0
           THEN End("realloc_failed")
           ELSE /\ Heap(Arrays(t), {}, {<<t, "object", i>> : i \in freed})
                /\ size' = [size EXCEPT ![t] =
                     [i \in DOMAIN @ |-> IF i \in freed THEN 0
                                        ELSE IF i \in resized THEN Resized(@[i]) ELSE @[i]]]
                /\ k' = [k EXCEPT ![t] = IF last THEN 0 ELSE @ + 1]
                /\ Goto(t, IF last THEN "finish" ELSE "fill")
                /\ UNCHANGED <<main, next, j, written, barrierVars>>

-----------------------------------------------------------------------------
ForkInit ==
  /\ main = "setup" /\ next = 1
  /\ pc = [t \in Threads |-> "none"]
  /\ j = [t \in Threads |-> 0] /\ k = [t \in Threads |-> 0]
  /\ size = [t \in Threads |-> [i \in 0 .. (OBJECTS - 1) |-> 0]]
  /\ live = {} /\ written = {}
  /\ BarrierInit

MainStep ==
  \/ MainSetsUp \/ MainCreates \/ CreateFails \/ MainJoins \/ JoinCrashes
  \/ MainReports \/ MainExits

ThreadStep(t) ==
  \/ Start(t) \/ MakeArrays(t) \/ Fill(t) \/ Drain(t) \/ Finish(t)
  \/ BarrierWait(t) \/ BarrierReturn(t) \/ Record(t)
  \/ PhongMallocs(t) \/ PhongChurns(t)

ForkNext == MainStep \/ \E t \in Threads : ThreadStep(t)

-----------------------------------------------------------------------------
ForkTypeOK ==
  /\ main \in {"setup", "create", "join", "report", "exit"}
  /\ next \in Threads
  /\ pc \in [Threads -> {"none", "start", "wait", "return", "arrays", "fill", "churn",
                         "drain", "wait_end", "return_end", "record", "finish", "done"}]
  /\ j \in [Threads -> 0 .. ROUNDS] /\ k \in [Threads -> 0 .. (OBJECTS - 1)]
  /\ size \in [Threads -> [0 .. (OBJECTS - 1) -> Nat]]
  /\ live \subseteq (0 .. N) \X {"threads", "w", "objs", "obj", "executionTime", "thread", "tid",
                                "a", "buf", "list", "size", "object"} \X Nat
  /\ written \subseteq 0 .. (N - 1)
  /\ called \in 0 .. (N - 1)
  /\ at \in [Threads -> {"out", "waiting", "woken"}]
  /\ ended \in {"no", "exit", "error", "segv", "garbage", "misuse", "realloc_failed"}

Missing == {t \in Threads : pc[t] = "none"}

\* What is not freed when the program exits: the objects phong holds, the
\* arrays and arguments of linux-scalability, the thread objects of threadtest.
\* (What larson leaves is in cells of its own.)
Leaked ==
  CASE prog = "phong"             -> {<<t, "object", i>> : t \in Threads, i \in 0 .. (OBJECTS - 1)}
    [] prog = "linux-scalability" -> Shared \cup UNION {WithThread(t) \cup Arrays(t) : t \in Threads}
    [] prog = "threadtest"        -> UNION {WithThread(t) : t \in Threads}
    [] OTHER                      -> UNION {Handed(t) : t \in Missing}

\* How the programs use the heap, as far as this module models them: see
\* HeapUsedCorrectly of Larson.
ForkHeapUsed ==
  /\ ended # "misuse"
  /\ ended = "garbage" => Missing # {}
  /\ ended = "exit" => live \subseteq Leaked
  /\ prog = "phong" =>
       \A t \in Threads : \A i \in DOMAIN size[t] : size[t][i] # 0 <=> <<t, "object", i>> \in live

\* phong resizes an object again and again: it stays within twice the largest
\* size and never becomes empty, for realloc would free it and return NULL.
ResizedWithinBounds ==
  /\ ended # "realloc_failed"
  /\ \A t \in Threads : \A i \in DOMAIN size[t] : size[t][i] <= 2 * Maxsize
=============================================================================
