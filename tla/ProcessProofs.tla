---------------------------- MODULE ProcessProofs ----------------------------
(***************************************************************************)
(* Proofs about Process, for any number of threads and pages: in a process *)
(* that is started in the ordinary way no page is given out twice and no   *)
(* slot of the data file to two objects, also in its forked child.         *)
(***************************************************************************)
EXTENDS Process, TLAPS

\* Descriptor 0 is open, and until the constructor has run there is one
\* thread that calls, and it does not fork.
OrdinaryStart ==
  /\ STDIN_CLOSED = FALSE /\ EARLY_FORK = FALSE
  /\ EarlyThreads \subseteq {MainThread}

-----------------------------------------------------------------------------
(* The inductive invariant.                                                *)

InInit == {"check", "reset", "mkstemp", "freelist_init", "constructed"}

PastInit == {"lock", "body", "munmap", "constructed"}

\* Only the standard input has descriptor 0, so data_fd is 0 only before the
\* data file is made.
Descriptors ==
  /\ fds[0] = STDIN
  /\ \A fd \in Fds : fds[fd] = STDIN => fd = 0

\* How far init_mem has come, run once by the main thread.
StartSequence ==
  state = "starting" =>
    /\ pid = "parent"
    /\ \A t \in Threads \ {MainThread} : pc[t] = "idle"
    /\ \/ data_fd = 0 /\ par_ps = "none" /\ pc[MainThread] \in {"idle", "check", "reset"}
       \/ data_fd = 0 /\ par_ps = "parent" /\ pc[MainThread] = "mkstemp"
       \/ data_fd # 0 /\ slot = 0 /\ pc[MainThread] = "freelist_init"
            /\ par_ps = "parent"
       \/ data_fd # 0 /\ slot # 0 /\ par_ps = "parent"
            /\ pc[MainThread] \in {"idle", "check"} \cup PastInit

\* Once the constructor has run nobody enters init_mem again.
Initialisation ==
  state \in {"running", "exiting"} =>
    /\ data_fd # 0 /\ slot # 0
    /\ \A t \in Threads : pc[t] \notin InInit

\* Before freelist_init nothing has been given out.
NothingBefore ==
  /\ data_fd = 0 => slot = 0
  /\ slot = 0 => live = {} /\ free = {} /\ used = {} /\ \A t \in Threads : ~Frees(t)

\* Pages that have been given out are below the watermark; the pages of free
\* objects are too, and have not been given out since they were mapped.
Pages ==
  /\ slot <= next["small"] + 1
  /\ \A u \in used : u[2] < next[u[1]]
  /\ \A o \in live : <<o.area, o.page>> \in used
  /\ \A o \in free : o.area = "small" /\ o.page < next["small"] /\ <<"small", o.page>> \notin used
  /\ \A o1, o2 \in free : o1.page = o2.page => o1 = o2

Small(o) == o.area = "small"

\* A slot below the next one, of a data file.
GoodSlot(o) == o.file # STDIN /\ o.slot \in 1 .. (slot - 1)

\* Small objects, those being freed included, have slots of their own.
Slots ==
  /\ \A o \in live \cup free : Small(o) => GoodSlot(o)
  /\ \A o1, o2 \in live \cup free : Small(o1) /\ Small(o2) /\ o1.slot = o2.slot => o1 = o2
  /\ \A t \in Threads : Frees(t) /\ Small(call[t]) =>
       /\ GoodSlot(call[t])
       /\ \A o \in live \cup free : Small(o) => o.slot # call[t].slot
       /\ \A u \in Threads \ {t} : Frees(u) /\ Small(call[u]) => call[u].slot # call[t].slot

IInv ==
  /\ TypeOK
  /\ Descriptors /\ StartSequence /\ Initialisation /\ NothingBefore
  /\ Pages /\ Slots

-----------------------------------------------------------------------------
(* What many steps share.                                                  *)

\* A step that touches neither objects nor calls.
LEMMA ObjectsKept ==
  ASSUME Pages, Slots, UNCHANGED <<heapVars, live, used, call>>
  PROVE  Pages' /\ Slots'
BY DEF Pages, Slots, GoodSlot, Small, Frees, heapVars

\* The process ends.
LEMMA ExitStep ==
  ASSUME IInv, NEW status \in {"exit(0)", "exit(1)", "exit(2)"}, Exit(status)
  PROVE  IInv' /\ live' = live
<1> USE DEF IInv, Exit
<1>1. TypeOK'
  BY DEF TypeOK, Object, heapVars
<1>2. Pages' /\ Slots'
  BY ObjectsKept DEF heapVars
<1>3. Descriptors' /\ StartSequence' /\ Initialisation' /\ NothingBefore'
  BY DEF Descriptors, StartSequence, Initialisation, NothingBefore, Frees, heapVars
<1> QED
  BY <1>1, <1>2, <1>3

\* A thread that works on the heap does so when init_mem has been run.
LEMMA Ready ==
  ASSUME IInv, NEW t \in Threads, Runs, pc[t] \in PastInit
  PROVE  /\ slot # 0 /\ data_fd # 0
         /\ state = "starting" => t = MainThread /\ par_ps = "parent" /\ pid = "parent"
<1>1. CASE state = "starting"
  <2>1. t = MainThread
    BY <1>1 DEF IInv, StartSequence, PastInit
  <2> QED
    BY <1>1, <2>1 DEF IInv, StartSequence, PastInit
<1>2. CASE state # "starting"
  BY <1>2 DEF IInv, Initialisation, Runs
<1> QED
  BY <1>1, <1>2

\* A call that has begun goes on to its mutex, or to munmap.
LEMMA CallGoesOn ==
  ASSUME NEW c, c \in [area : Areas] \cup Object
  PROVE  AfterInit(c) \in {"lock", "munmap"}
BY DEF AfterInit, NoCall, Areas, Object

-----------------------------------------------------------------------------
(* init_mem                                                                *)

LEMMA InitIInv ==
  ASSUME OrdinaryStart, Init
  PROVE  IInv
<1> USE ProcessAssumption DEF ProcessAssumption, Init, BottomOfAreas
<1>1. TypeOK
  <2>1. fds \in [Fds -> {CLOSED} \cup 0 .. files]
    BY DEF OrdinaryStart, Fds, STDIN
  <2>2. next \in [Areas -> 0 .. MAX_PAGES] /\ slot \in 0 .. (MAX_PAGES + 1)
    OBVIOUS
  <2> QED
    BY <2>1, <2>2 DEF TypeOK, Fds
<1>2. Descriptors
  BY DEF Descriptors, OrdinaryStart, STDIN, Fds
<1>3. StartSequence /\ Initialisation
  BY DEF StartSequence, Initialisation
<1>4. NothingBefore
  BY DEF NothingBefore, Frees, NoCall
<1>5. Pages
  BY DEF Pages, Areas
<1>6. Slots
  BY DEF Slots, Frees, NoCall
<1> QED
  BY <1>1, <1>2, <1>3, <1>4, <1>5, <1>6 DEF IInv

LEMMA ConstructorStep ==
  ASSUME IInv, Constructor
  PROVE  IInv' /\ live' = live
<1> USE ProcessAssumption DEF ProcessAssumption, IInv, Constructor, Goto
<1>1. TypeOK'
  BY DEF TypeOK, Object, heapVars
<1>2. Pages' /\ Slots'
  BY ObjectsKept
<1>3. Descriptors' /\ Initialisation' /\ NothingBefore'
  BY DEF Descriptors, Initialisation, NothingBefore, Frees, heapVars
<1>4. StartSequence'
  BY DEF StartSequence, TypeOK, PastInit, heapVars
<1> QED
  BY <1>1, <1>2, <1>3, <1>4

LEMMA ConstructedStep ==
  ASSUME IInv, NEW t \in Threads, Constructed(t)
  PROVE  IInv' /\ live' = live
<1> USE ProcessAssumption DEF ProcessAssumption, IInv, Constructed, Goto, At
<1>1. TypeOK'
  BY DEF TypeOK, Object, heapVars
<1>2. Pages' /\ Slots'
  BY ObjectsKept
<1>3. Descriptors' /\ StartSequence' /\ NothingBefore'
  BY DEF Descriptors, StartSequence, NothingBefore, Frees, heapVars
<1>4. Initialisation'
  <2>1. slot # 0 /\ data_fd # 0
    BY Ready DEF PastInit
  <2>2. state = "starting" /\ t = MainThread
    BY DEF Runs, Initialisation, StartSequence, InInit
  <2>3. \A u \in Threads : pc'[u] = "idle"
    BY <2>2 DEF StartSequence, TypeOK
  <2> QED
    BY <2>1, <2>3 DEF Initialisation, InInit, heapVars
<1> QED
  BY <1>1, <1>2, <1>3, <1>4

\* Until the constructor is done only the main thread is in init_mem.
LEMMA InitIsMain ==
  ASSUME IInv, NEW t \in Threads, Runs, pc[t] \in InInit
  PROVE  state = "starting" /\ t = MainThread
BY DEF IInv, Runs, Initialisation, StartSequence, InInit

LEMMA CheckStep ==
  ASSUME IInv, NEW t \in Threads, CheckProcess(t)
  PROVE  IInv' /\ live' = live
<1> USE ProcessAssumption DEF ProcessAssumption, IInv, CheckProcess, Goto, At
<1>1. state = "starting" /\ t = MainThread
  BY InitIsMain DEF InInit
<1>2. AfterInit(call[t]) \in {"constructed", "lock", "munmap"}
  BY DEF AfterInit
<1>3. TypeOK'
  BY <1>2 DEF TypeOK, Object, heapVars
<1>4. Pages' /\ Slots'
  BY ObjectsKept
<1>5. Descriptors' /\ Initialisation' /\ NothingBefore'
  BY <1>1 DEF Descriptors, Initialisation, NothingBefore, Frees, heapVars
<1>6. StartSequence'
  BY <1>1, <1>2 DEF StartSequence, TypeOK, PastInit, heapVars, Initialised
<1> QED
  BY <1>3, <1>4, <1>5, <1>6

LEMMA ResetStep ==
  ASSUME IInv, NEW t \in Threads, Reset(t)
  PROVE  IInv' /\ live' = live
<1> USE ProcessAssumption DEF ProcessAssumption, IInv, Reset, Goto, At
<1>1. state = "starting" /\ t = MainThread
  BY InitIsMain DEF InInit
<1>2. data_fd = 0 /\ slot = 0 /\ pid = "parent"
  BY <1>1 DEF StartSequence, NothingBefore, PastInit
<1>3. TypeOK'
  BY <1>2 DEF TypeOK, Object, BottomOfAreas, Fds
<1>4. live = {} /\ free = {} /\ used = {} /\ \A u \in Threads : ~Frees(u)
  BY <1>2 DEF NothingBefore
<1>5. Pages' /\ Slots'
  BY <1>2, <1>4 DEF Pages, Slots, BottomOfAreas, Areas, Frees
<1>6. Descriptors' /\ Initialisation' /\ NothingBefore'
  BY <1>1, <1>2, <1>4 DEF Descriptors, Initialisation, NothingBefore, Frees
<1>7. StartSequence'
  BY <1>1, <1>2 DEF StartSequence, TypeOK
<1> QED
  BY <1>3, <1>5, <1>6, <1>7

\* mkstemp cannot return 0: the standard input has it.
LEMMA LowestDescriptor ==
  ASSUME NEW S, S \subseteq Fds, S # {}
  PROVE  Min(S) \in S
<1>1. \E x \in S : \A y \in S : x <= y
  <2>1. CASE 0 \in S
    BY <2>1 DEF Fds
  <2>2. CASE 0 \notin S /\ 1 \in S
    BY <2>2 DEF Fds
  <2>3. CASE 0 \notin S /\ 1 \notin S
    <3>1. \A y \in S : y = 2
      BY <2>3 DEF Fds
    <3> QED
      BY <3>1
  <2> QED
    BY <2>1, <2>2, <2>3
<1> QED
  BY <1>1 DEF Min

LEMMA MakeDataFileStep ==
  ASSUME IInv, NEW t \in Threads, MakeDataFile(t)
  PROVE  IInv' /\ live' = live
<1> USE ProcessAssumption DEF ProcessAssumption, IInv, Goto, At
<1>1. CASE \E status \in {"exit(2)", "exit(1)"} : Exit(status)
  BY <1>1, ExitStep
<1>2. CASE ~\E status \in {"exit(2)", "exit(1)"} : Exit(status)
  <2> DEFINE closed == {f \in Fds : fds[f] = CLOSED}
             fd == Min(closed)
  <2>1. /\ At(t, "mkstemp") /\ closed # {}
        /\ data_fd' = fd
        /\ fds' = [fds EXCEPT ![fd] = files + 1]
        /\ files' = files + 1
        /\ pc' = [pc EXCEPT ![t] = "freelist_init"]
        /\ UNCHANGED <<pid, state, par_ps, heapVars, owner, call, live, used>>
    BY <1>2 DEF MakeDataFile
  <2>2. fd \in Fds /\ fd # 0
    <3>1. fd \in closed
      BY <2>1, LowestDescriptor
    <3> QED
      BY <3>1 DEF Descriptors, STDIN
  <2> HIDE DEF fd, closed
  <2>3. state = "starting" /\ t = MainThread
    BY <2>1, InitIsMain DEF InInit
  <2>4. data_fd = 0 /\ slot = 0 /\ pid = "parent" /\ par_ps = "parent"
    BY <2>1, <2>3 DEF StartSequence, NothingBefore, PastInit
  <2>5. TypeOK'
    <3>1. fds' \in [Fds -> {CLOSED} \cup 0 .. files']
      BY <2>1, <2>2 DEF TypeOK
    <3>2. Object \subseteq Object'
      BY <2>1 DEF TypeOK, Object
    <3>3. /\ call' \in [Threads -> {NoCall} \cup [area : Areas] \cup Object']
          /\ free' \in SUBSET Object' /\ live' \in SUBSET Object'
      BY <2>1, <3>2 DEF TypeOK, heapVars
    <3> QED
      BY <2>1, <2>2, <3>1, <3>3 DEF TypeOK, heapVars
  <2>6. Pages' /\ Slots'
    BY <2>1, ObjectsKept
  <2>7. Descriptors'
    BY <2>1, <2>2 DEF Descriptors, TypeOK, STDIN, Fds
  <2>8. Initialisation' /\ NothingBefore'
    BY <2>1, <2>2, <2>3, <2>4 DEF Initialisation, NothingBefore, Frees, heapVars
  <2>9. StartSequence'
    BY <2>1, <2>2, <2>3, <2>4 DEF StartSequence, TypeOK, heapVars
  <2> QED
    BY <2>1, <2>5, <2>6, <2>7, <2>8, <2>9
<1> QED
  BY <1>1, <1>2

LEMMA FreelistInitStep ==
  ASSUME IInv, NEW t \in Threads, FreelistInit(t)
  PROVE  IInv' /\ live' = live
<1> USE ProcessAssumption DEF ProcessAssumption, IInv, FreelistInit, Goto, At, FirstSlot
<1>1. state = "starting" /\ t = MainThread
  BY InitIsMain DEF InInit
<1>2. data_fd # 0 /\ slot = 0 /\ pid = "parent" /\ par_ps = "parent"
  BY <1>1 DEF StartSequence, PastInit
<1>3. live = {} /\ used = {} /\ \A u \in Threads : ~Frees(u)
  BY <1>2 DEF NothingBefore
<1>4. AfterInit(call[t]) \in {"constructed", "lock", "munmap"}
  BY DEF AfterInit
<1>5. TypeOK'
  BY <1>4 DEF TypeOK, Object
<1>6. Pages' /\ Slots'
  BY <1>3 DEF Pages, Slots, Frees, TypeOK, Areas
<1>7. Descriptors' /\ Initialisation' /\ NothingBefore'
  BY <1>1, <1>2, <1>3 DEF Descriptors, Initialisation, NothingBefore, Frees
<1>8. StartSequence'
  BY <1>1, <1>2, <1>4 DEF StartSequence, TypeOK, PastInit
<1> QED
  BY <1>5, <1>6, <1>7, <1>8

-----------------------------------------------------------------------------
(* The program.                                                            *)

LEMMA EnterStep ==
  ASSUME OrdinaryStart, IInv, NEW t \in Threads, MayCall(t),
         NEW c, c \in [area : Areas] \cup Object, Enter(t, c), live' \subseteq live
  PROVE  TypeOK' /\ Descriptors' /\ StartSequence' /\ Initialisation'
<1> USE ProcessAssumption DEF ProcessAssumption, IInv, Enter, Goto, MayCall
<1>1. AfterInit(c) \in {"lock", "munmap"}
  BY CallGoesOn
<1>2. TypeOK'
  BY <1>1 DEF TypeOK, Object, heapVars
<1>3. Descriptors'
  BY DEF Descriptors
<1>4. Initialisation'
  BY <1>1 DEF Initialisation, InInit, heapVars, TypeOK
<1>5. StartSequence'
  <2>1. SUFFICES ASSUME state = "starting"
                 PROVE  StartSequence'
    BY DEF StartSequence
  <2>2. t = MainThread
    BY <2>1 DEF OrdinaryStart
  <2> QED
    BY <1>1, <2>1, <2>2 DEF StartSequence, TypeOK, PastInit, heapVars
<1> QED
  BY <1>2, <1>3, <1>4, <1>5

LEMMA MallocStep ==
  ASSUME OrdinaryStart, IInv, NEW t \in Threads, NEW area \in Areas, xxmalloc(t, area)
  PROVE  IInv' /\ live' = live
<1> DEFINE c == [area |-> area]
<1>1. TypeOK' /\ Descriptors' /\ StartSequence' /\ Initialisation'
  <2>1. MayCall(t) /\ Enter(t, c) /\ live' \subseteq live
    BY DEF xxmalloc
  <2>2. c \in [area : Areas] \cup Object
    OBVIOUS
  <2> QED
    BY <2>1, <2>2, EnterStep
<1>2. \A u \in Threads : Frees(u)' => Frees(u) /\ call'[u] = call[u]
  BY DEF xxmalloc, Enter, Frees, IInv, TypeOK
<1>3. NothingBefore'
  BY <1>2 DEF xxmalloc, Enter, NothingBefore, heapVars, IInv
<1>4. Pages'
  BY DEF xxmalloc, Enter, Pages, heapVars, IInv
<1>5. Slots'
  BY <1>2 DEF xxmalloc, Enter, Slots, GoodSlot, Small, heapVars, IInv
<1> QED
  BY <1>1, <1>3, <1>4, <1>5 DEF IInv, xxmalloc

\* The object goes from those the program holds to those being freed.
LEMMA FreeStep ==
  ASSUME OrdinaryStart, IInv, NEW t \in Threads, NEW obj \in live, xxfree(t, obj)
  PROVE  IInv' /\ live' \subseteq live
<1> USE DEF xxfree, IInv
<1>1. TypeOK' /\ Descriptors' /\ StartSequence' /\ Initialisation'
  <2>1. MayCall(t) /\ Enter(t, obj) /\ live' \subseteq live
    OBVIOUS
  <2>2. obj \in [area : Areas] \cup Object
    BY DEF TypeOK
  <2> QED
    BY <2>1, <2>2, EnterStep
<1>2. \A u \in Threads : call'[u] = IF u = t THEN obj ELSE call[u]
  BY DEF Enter, TypeOK
<1>3. NothingBefore'
  BY <1>2 DEF Enter, NothingBefore, heapVars
<1>4. Pages'
  BY DEF Enter, Pages, heapVars
<1>5. Slots'
  <2>1. live' = live \ {obj} /\ free' = free /\ slot' = slot
    BY DEF Enter, heapVars
  <2>2. \A u \in Threads \ {t} : (Frees(u)' <=> Frees(u)) /\ call'[u] = call[u]
    BY <1>2 DEF Frees
  <2>3. call'[t] = obj /\ obj \in live \cup free
    BY <1>2
  <2>4. \A o \in live' \cup free' : o \in live \cup free /\ (Small(o) /\ Small(obj) => o.slot # obj.slot)
    <3>1. obj \notin free
      BY DEF Pages, Slots
    <3> QED
      BY <2>1, <3>1 DEF Slots
  <2>5. \A o : GoodSlot(o)' = GoodSlot(o)
    BY <2>1 DEF GoodSlot
  <2> QED
    BY <2>1, <2>2, <2>3, <2>4, <2>5 DEF Slots
<1> QED
  BY <1>1, <1>3, <1>4, <1>5

LEMMA ForkStep ==
  ASSUME OrdinaryStart, IInv, NEW t \in Threads, Fork(t)
  PROVE  IInv' /\ live' = live
<1> USE DEF Fork, IInv
<1>1. state = "running"
  BY DEF OrdinaryStart
<1>2. TypeOK'
  BY DEF TypeOK, Object, heapVars
<1>3. Pages' /\ Slots'
  BY ObjectsKept
<1>4. Descriptors' /\ StartSequence' /\ NothingBefore'
  BY <1>1 DEF Descriptors, StartSequence, NothingBefore, Frees, heapVars
<1>5. Initialisation'
  BY DEF Initialisation, InInit, heapVars
<1> QED
  BY <1>2, <1>3, <1>4, <1>5

LEMMA DestroyStep ==
  ASSUME IInv, destroy_mem
  PROVE  IInv' /\ live' = live
<1> USE ProcessAssumption DEF ProcessAssumption, destroy_mem, IInv
<1>1. TypeOK'
  BY DEF TypeOK, Object, heapVars
<1>2. Pages' /\ Slots'
  BY ObjectsKept
<1>3. StartSequence' /\ NothingBefore' /\ Initialisation'
  BY DEF StartSequence, NothingBefore, Initialisation, Frees, heapVars
<1>4. Descriptors'
  BY DEF Descriptors, Initialisation, TypeOK, STDIN, Fds
<1> QED
  BY <1>1, <1>2, <1>3, <1>4

-----------------------------------------------------------------------------
(* The heap.                                                               *)

\* Pages and Slots, and what NoReuse says of the step.
NewOnFreshPage == \A obj \in live' \ live : <<obj.area, obj.page>> \notin used

LEMMA LockStep ==
  ASSUME IInv, NEW t \in Threads, Lock(t)
  PROVE  IInv' /\ live' = live
<1> USE DEF Lock, IInv, At, Goto
<1>1. TypeOK'
  BY DEF TypeOK, Object, heapVars
<1>2. Pages' /\ Slots'
  BY ObjectsKept
<1>3. Descriptors' /\ NothingBefore'
  BY DEF Descriptors, NothingBefore, Frees, heapVars
<1>4. Initialisation'
  BY DEF Initialisation, InInit, heapVars, TypeOK
<1>5. StartSequence'
  BY Ready DEF StartSequence, PastInit, heapVars, TypeOK
<1> QED
  BY <1>1, <1>2, <1>3, <1>4, <1>5

\* What a step that ends a call leaves as it is.
LEMMA ReturnStep ==
  ASSUME IInv, NEW t \in Threads, Runs, pc[t] \in PastInit, Return(t), slot' # 0,
         UNCHANGED <<pid, state, fds, files, data_fd, par_ps>>
  PROVE  /\ Descriptors' /\ StartSequence' /\ Initialisation' /\ NothingBefore'
         /\ \A u \in Threads : Frees(u)' => u # t /\ Frees(u) /\ call'[u] = call[u]
<1> USE DEF IInv, Return, Goto
<1>1. Descriptors'
  BY DEF Descriptors
<1>2. slot # 0 /\ data_fd # 0
  BY Ready
<1>3. StartSequence'
  BY <1>2, Ready DEF StartSequence, PastInit, TypeOK
<1>4. Initialisation'
  BY <1>2 DEF Initialisation, InInit, TypeOK
<1>5. NothingBefore'
  BY <1>2 DEF NothingBefore
<1>6. \A u \in Threads : Frees(u)' => u # t /\ Frees(u) /\ call'[u] = call[u]
  BY DEF Frees, NoCall, TypeOK
<1> QED
  BY <1>1, <1>3, <1>4, <1>5, <1>6

LEMMA MunmapStep ==
  ASSUME IInv, NEW t \in Threads, MunmapBig(t)
  PROVE  IInv' /\ live' = live
<1> USE DEF MunmapBig, IInv, At
<1>1. slot' # 0 /\ Runs /\ pc[t] \in PastInit
  BY Ready DEF PastInit, heapVars
<1>2. /\ Descriptors' /\ StartSequence' /\ Initialisation' /\ NothingBefore'
      /\ \A u \in Threads : Frees(u)' => u # t /\ Frees(u) /\ call'[u] = call[u]
  BY <1>1, ReturnStep
<1>3. TypeOK'
  BY DEF TypeOK, Object, heapVars, Return, Goto
<1>4. Pages'
  BY DEF Pages, heapVars
<1>5. Slots'
  BY <1>2 DEF Slots, GoodSlot, Small, heapVars
<1> QED
  BY <1>2, <1>3, <1>4, <1>5

\* The types after an object has been given out.
LEMMA GiveTypes ==
  ASSUME IInv, NEW t \in Threads, NEW obj \in Object, Give(t, obj),
         next' \in [Areas -> 0 .. MAX_PAGES], slot' \in 0 .. (MAX_PAGES + 1),
         free' \subseteq free
  PROVE  TypeOK'
<1> USE DEF IInv, Give, Return, Goto
<1>1. Object' = Object
  BY DEF Object
<1>2. obj.area \in Areas /\ obj.page \in 0 .. (MAX_PAGES - 1)
  BY DEF Object, Areas
<1>3. used' \in SUBSET (Areas \X (0 .. (MAX_PAGES - 1)))
  BY <1>2 DEF TypeOK
<1>4. live' \in SUBSET Object' /\ free' \in SUBSET Object'
  BY <1>1 DEF TypeOK
<1>5. owner' \in [Areas -> Threads \cup {NoThread}]
  BY DEF TypeOK, Unlocked
<1>6. call' \in [Threads -> {NoCall} \cup [area : Areas] \cup Object']
  BY <1>1 DEF TypeOK
<1>7. pc' \in [Threads -> {"absent", "idle", "check", "reset", "mkstemp", "freelist_init",
                           "constructed", "lock", "body", "munmap"}]
  BY DEF TypeOK
<1> QED
  BY <1>3, <1>4, <1>5, <1>6, <1>7 DEF TypeOK

LEMMA PopFreshStep ==
  ASSUME IInv, NEW t \in Threads, PopFresh(t)
  PROVE  IInv' /\ NewOnFreshPage
<1> USE ProcessAssumption DEF ProcessAssumption, IInv, At
<1> DEFINE file == fds[data_fd]
           obj == [area |-> "small", page |-> next.small, file |-> file, slot |-> slot]
<1>1. CASE file = CLOSED \/ Exhausted("small")
  BY <1>1, ExitStep DEF PopFresh, NewOnFreshPage
<1>2. CASE ~(file = CLOSED \/ Exhausted("small"))
  <2>1. /\ Runs /\ pc[t] = "body" /\ free = {} /\ free' = free
        /\ next' = [next EXCEPT !.small = @ + 1]
        /\ slot' = slot + 1
        /\ Give(t, obj)
    BY <1>2 DEF PopFresh
  <2>2. next["small"] \in 0 .. (MAX_PAGES - 1)
    BY <1>2 DEF Exhausted, TypeOK, Areas
  <2>3. slot # 0 /\ data_fd # 0 /\ slot \in 1 .. MAX_PAGES
    BY <2>1, <2>2, Ready DEF PastInit, Pages, TypeOK
  <2>4. file \in 1 .. files
    BY <1>2, <2>3 DEF TypeOK, Descriptors, STDIN
  <2>5. /\ obj \in Object /\ obj.file # STDIN /\ obj.slot \in 1 .. (slot' - 1) /\ obj.area = "small" /\ obj.slot = slot
        /\ obj.page = next["small"]
    <3>1. /\ "small" \in {"small"} /\ next["small"] \in 0 .. (MAX_PAGES - 1)
          /\ file \in 0 .. files /\ slot \in 0 .. MAX_PAGES
      BY <2>2, <2>3, <2>4 DEF TypeOK
    <3>2. obj \in Object
      BY <3>1 DEF Object
    <3>3. obj.file # STDIN /\ obj.slot \in 1 .. (slot' - 1)
      BY <2>1, <2>3, <2>4 DEF STDIN
    <3> QED
      BY <3>2, <3>3
  <2> HIDE DEF obj, file
  <2>6. TypeOK'
    <3>1. next' \in [Areas -> 0 .. MAX_PAGES]
      BY <2>1, <2>2 DEF TypeOK, Areas
    <3>2. slot' \in 0 .. (MAX_PAGES + 1)
      BY <2>1, <2>3
    <3> QED
      BY <2>1, <2>5, <3>1, <3>2, GiveTypes
  <2>7. /\ Descriptors' /\ StartSequence' /\ Initialisation' /\ NothingBefore'
        /\ \A u \in Threads : Frees(u)' => u # t /\ Frees(u) /\ call'[u] = call[u]
    <3>1. Return(t) /\ slot' # 0 /\ UNCHANGED <<pid, state, fds, files, data_fd, par_ps>>
      BY <2>1, <2>3 DEF Give
    <3> QED
      BY <2>1, <3>1, ReturnStep DEF PastInit
  <2>8. live' = live \cup {obj} /\ used' = used \cup {<<"small", next["small"]>>}
    BY <2>1, <2>5 DEF Give
  <2>9. next'["small"] = next["small"] + 1 /\ next'["large"] = next["large"]
    BY <2>1 DEF TypeOK, Areas
  <2>10. <<"small", next["small"]>> \notin used
    BY <2>2 DEF Pages
  <2>11. Pages'
    <3>1. \A u \in used : u[2] < next'[u[1]]
      BY <2>9, <2>2 DEF Pages, TypeOK, Areas
    <3>2. \A u \in used' : u[2] < next'[u[1]]
      BY <3>1, <2>2, <2>8, <2>9
    <3>3. slot' <= next'["small"] + 1
      BY <2>1, <2>2, <2>3, <2>9 DEF Pages
    <3>4. \A o \in live' : <<o.area, o.page>> \in used'
      BY <2>5, <2>8 DEF Pages
    <3> QED
      BY <2>1, <3>2, <3>3, <3>4 DEF Pages
  <2>12. Slots'
    <3> DEFINE StillGood(o) == o.file # STDIN /\ o.slot \in 1 .. (slot' - 1) /\ o.slot # slot
    <3>1. \A o : GoodSlot(o) => StillGood(o)
      BY <2>1, <2>3 DEF GoodSlot
    <3>2. \A o \in live \cup free : Small(o) => StillGood(o)
      BY <3>1 DEF Slots
    <3>3. \A u \in Threads : Frees(u) /\ Small(call[u]) => StillGood(call[u])
      BY <3>1 DEF Slots
    <3>4. /\ \A o \in live' \cup free' : Small(o) => GoodSlot(o)'
          /\ \A o1, o2 \in live' \cup free' : Small(o1) /\ Small(o2) /\ o1.slot = o2.slot => o1 = o2
      BY <2>1, <2>5, <2>8, <3>2 DEF Slots, GoodSlot
    <3>5. \A u \in Threads : Frees(u)' /\ Small(call[u])' =>
            /\ GoodSlot(call[u])'
            /\ \A o \in live' \cup free' : Small(o) => o.slot # call'[u].slot
            /\ \A v \in Threads \ {u} : Frees(v)' /\ Small(call[v])' => call'[v].slot # call'[u].slot
      <4>1. TAKE u \in Threads
      <4>2. HAVE Frees(u)' /\ Small(call[u])'
      <4>3. Frees(u) /\ call'[u] = call[u] /\ Small(call[u])
        BY <2>7, <4>2 DEF Small
      <4>4. GoodSlot(call[u])'
        BY <4>3, <3>3 DEF GoodSlot
      <4>5. \A o \in live' \cup free' : Small(o) => o.slot # call'[u].slot
        BY <4>3, <3>3, <2>1, <2>5, <2>8 DEF Slots
      <4>6. \A v \in Threads \ {u} : Frees(v)' /\ Small(call[v])' => call'[v].slot # call'[u].slot
        BY <4>3, <2>7 DEF Slots, Small
      <4> QED
        BY <4>4, <4>5, <4>6
    <3> QED
      BY <3>4, <3>5 DEF Slots
  <2>13. NewOnFreshPage
    BY <2>5, <2>8, <2>10 DEF NewOnFreshPage
  <2> QED
    BY <2>6, <2>7, <2>11, <2>12, <2>13
<1> QED
  BY <1>1, <1>2

LEMMA PopFreeStep ==
  ASSUME IInv, NEW t \in Threads, PopFree(t)
  PROVE  IInv' /\ NewOnFreshPage
<1> USE ProcessAssumption DEF ProcessAssumption, IInv, At
<1>1. PICK obj \in free : free' = free \ {obj} /\ Give(t, obj)
  BY DEF PopFree
<1>2. Runs /\ pc[t] = "body" /\ next' = next /\ slot' = slot
  BY DEF PopFree
<1>3. slot # 0
  BY <1>2, Ready DEF PastInit
<1>4. TypeOK'
  <2>1. obj \in Object
    BY DEF TypeOK
  <2>2. next' \in [Areas -> 0 .. MAX_PAGES] /\ slot' \in 0 .. (MAX_PAGES + 1)
    BY <1>2 DEF TypeOK
  <2> QED
    BY <1>1, <2>1, <2>2, GiveTypes
<1>5. /\ Descriptors' /\ StartSequence' /\ Initialisation' /\ NothingBefore'
      /\ \A u \in Threads : Frees(u)' => u # t /\ Frees(u) /\ call'[u] = call[u]
  <2>1. Return(t) /\ slot' # 0 /\ UNCHANGED <<pid, state, fds, files, data_fd, par_ps>>
    BY <1>1, <1>2, <1>3 DEF Give
  <2> QED
    BY <1>2, <2>1, ReturnStep DEF PastInit
<1>6. /\ obj.area = "small" /\ obj.page < next["small"] /\ <<"small", obj.page>> \notin used
      /\ \A o \in free' : o \in free /\ o.page # obj.page
  BY <1>1 DEF Pages
<1>7. live' = live \cup {obj} /\ used' = used \cup {<<"small", obj.page>>}
  BY <1>1, <1>6 DEF Give
<1>8. Pages'
  <2>1. \A o \in free' : <<"small", o.page>> \notin used'
    BY <1>6, <1>7 DEF Pages
  <2>2. \A u \in used' : u[2] < next[u[1]]
    BY <1>6, <1>7 DEF Pages
  <2>3. \A o \in live' : <<o.area, o.page>> \in used'
    BY <1>6, <1>7 DEF Pages
  <2> QED
    BY <1>2, <1>6, <2>1, <2>2, <2>3 DEF Pages
<1>9. Slots'
  <2>1. live' \cup free' = live \cup free
    BY <1>1, <1>7
  <2>2. \A o : GoodSlot(o)' = GoodSlot(o)
    BY <1>2 DEF GoodSlot
  <2> QED
    BY <1>2, <1>5, <2>1, <2>2 DEF Slots, Small, GoodSlot
<1>10. NewOnFreshPage
  BY <1>6, <1>7 DEF NewOnFreshPage
<1> QED
  BY <1>4, <1>5, <1>8, <1>9, <1>10

LEMMA MmapBigStep ==
  ASSUME IInv, NEW t \in Threads, MmapBig(t)
  PROVE  IInv' /\ NewOnFreshPage
<1> USE ProcessAssumption DEF ProcessAssumption, IInv, At
<1> DEFINE obj == [area |-> "large", page |-> next.large, file |-> STDIN, slot |-> 0]
<1>1. CASE Exhausted("large")
  BY <1>1, ExitStep DEF MmapBig, NewOnFreshPage
<1>2. CASE ~Exhausted("large")
  <2>1. /\ Runs /\ pc[t] = "body" /\ free' = free /\ slot' = slot
        /\ next' = [next EXCEPT !.large = @ + 1]
        /\ Give(t, obj)
    BY <1>2 DEF MmapBig
  <2>2. next["large"] \in 0 .. (MAX_PAGES - 1) /\ next["small"] \in Nat
    BY <1>2 DEF Exhausted, TypeOK, Areas
  <2>3. slot # 0
    BY <2>1, Ready DEF PastInit
  <2>4. obj \in Object /\ obj.area = "large" /\ obj.page = next["large"]
    BY <2>2 DEF Object
  <2> HIDE DEF obj
  <2>5. next'["large"] = next["large"] + 1 /\ next'["small"] = next["small"]
    BY <2>1 DEF TypeOK, Areas
  <2>6. TypeOK'
    <3>1. next' \in [Areas -> 0 .. MAX_PAGES]
      BY <2>1, <2>2 DEF TypeOK, Areas
    <3>2. slot' \in 0 .. (MAX_PAGES + 1)
      BY <2>1 DEF TypeOK
    <3> QED
      BY <2>1, <2>4, <3>1, <3>2, GiveTypes
  <2>7. /\ Descriptors' /\ StartSequence' /\ Initialisation' /\ NothingBefore'
        /\ \A u \in Threads : Frees(u)' => u # t /\ Frees(u) /\ call'[u] = call[u]
    <3>1. Return(t) /\ slot' # 0 /\ UNCHANGED <<pid, state, fds, files, data_fd, par_ps>>
      BY <2>1, <2>3 DEF Give
    <3> QED
      BY <2>1, <3>1, ReturnStep DEF PastInit
  <2>8. live' = live \cup {obj} /\ used' = used \cup {<<"large", next["large"]>>}
    BY <2>1, <2>4 DEF Give
  <2>9. <<"large", next["large"]>> \notin used
    BY <2>2 DEF Pages
  <2>10. Pages'
    <3>1. \A u \in used : u[2] < next'[u[1]]
      BY <2>5, <2>2 DEF Pages, TypeOK, Areas
    <3>2. \A u \in used' : u[2] < next'[u[1]]
      BY <3>1, <2>2, <2>5, <2>8
    <3>3. \A o \in live' : <<o.area, o.page>> \in used'
      BY <2>4, <2>8 DEF Pages
    <3>4. \A o \in free : <<"small", o.page>> \notin used'
      BY <2>8 DEF Pages
    <3> QED
      BY <2>1, <2>5, <3>2, <3>3, <3>4 DEF Pages
  <2>11. Slots'
    <3>1. \A o \in live' \cup free' : Small(o) => o \in live \cup free
      BY <2>1, <2>4, <2>8 DEF Small
    <3>2. \A o : GoodSlot(o)' = GoodSlot(o)
      BY <2>1 DEF GoodSlot
    <3> QED
      BY <2>1, <2>7, <3>1, <3>2 DEF Slots, Small, GoodSlot
  <2>12. NewOnFreshPage
    BY <2>4, <2>8, <2>9 DEF NewOnFreshPage
  <2> QED
    BY <2>6, <2>7, <2>10, <2>11, <2>12
<1> QED
  BY <1>1, <1>2

LEMMA PushStep ==
  ASSUME IInv, NEW t \in Threads, Push(t)
  PROVE  IInv' /\ live' = live
<1> USE ProcessAssumption DEF ProcessAssumption, IInv, At
<1> DEFINE obj == [call[t] EXCEPT !.page = next.small]
<1>1. CASE Exhausted("small")
  BY <1>1, ExitStep DEF Push
<1>2. CASE ~Exhausted("small")
  <2>1. /\ Runs /\ pc[t] = "body" /\ live' = live /\ used' = used /\ slot' = slot
        /\ next' = [next EXCEPT !.small = @ + 1]
        /\ free' = free \cup {obj}
        /\ owner' = Unlocked(t)
        /\ Return(t) /\ UNCHANGED <<pid, state, fds, files, data_fd, par_ps>>
    BY <1>2 DEF Push
  <2>2. Frees(t) /\ Small(call[t])
    BY DEF Push, Small
  <2>3. next["small"] \in 0 .. (MAX_PAGES - 1)
    BY <1>2 DEF Exhausted, TypeOK, Areas
  <2>4. slot # 0
    BY <2>1, Ready DEF PastInit
  <2>5. /\ obj \in Object /\ obj.area = "small" /\ obj.page = next["small"]
        /\ obj.slot = call[t].slot /\ obj.file = call[t].file
    <3>1. call[t] \in [area : {"small"}, page : 0 .. (MAX_PAGES - 1), file : 0 .. files, slot : 0 .. MAX_PAGES]
      BY <2>2 DEF TypeOK, Frees, Small, NoCall, Object
    <3> QED
      BY <3>1, <2>3 DEF Object
  <2> HIDE DEF obj
  <2>6. next'["small"] = next["small"] + 1 /\ next'["large"] = next["large"]
    BY <2>1 DEF TypeOK, Areas
  <2>7. /\ Descriptors' /\ StartSequence' /\ Initialisation' /\ NothingBefore'
        /\ \A u \in Threads : Frees(u)' => u # t /\ Frees(u) /\ call'[u] = call[u]
    BY <2>1, <2>4, ReturnStep DEF PastInit
  <2>8. TypeOK'
    <3>1. Object' = Object
      BY <2>1 DEF Object
    <3>2. next' \in [Areas -> 0 .. MAX_PAGES]
      BY <2>1, <2>3 DEF TypeOK, Areas
    <3>3. free' \in SUBSET Object' /\ live' \in SUBSET Object'
      BY <2>1, <2>5, <3>1 DEF TypeOK
    <3>4. owner' \in [Areas -> Threads \cup {NoThread}]
      BY <2>1 DEF TypeOK, Unlocked
    <3>5. call' \in [Threads -> {NoCall} \cup [area : Areas] \cup Object']
      BY <2>1, <3>1 DEF TypeOK, Return
    <3>6. pc' \in [Threads -> {"absent", "idle", "check", "reset", "mkstemp", "freelist_init",
                               "constructed", "lock", "body", "munmap"}]
      BY <2>1 DEF TypeOK, Return, Goto
    <3> QED
      BY <2>1, <3>2, <3>3, <3>4, <3>5, <3>6 DEF TypeOK
  <2>9. \A u \in used : u[2] < next[u[1]]
    BY DEF Pages
  <2>10. <<"small", next["small"]>> \notin used
    BY <2>3, <2>9
  <2>11. \A o \in free : o.page < next["small"] /\ o.page \in Nat
    <3>1. \A o \in Object : o.page \in Nat
      BY DEF Object
    <3>2. \A o \in free : o \in Object
      BY DEF TypeOK
    <3> QED
      BY <3>1, <3>2 DEF Pages
  <2>12. Pages'
    <3>1. \A u \in used : u[2] < next'[u[1]]
      BY <2>3, <2>6, <2>9 DEF TypeOK, Areas
    <3>2. \A o \in free' : o.area = "small" /\ o.page < next'["small"] /\ <<"small", o.page>> \notin used
      <4>1. \A o \in free : o.area = "small" /\ <<"small", o.page>> \notin used
        BY DEF Pages
      <4>2. \A o \in free : o.page < next'["small"]
        BY <2>3, <2>6, <2>11
      <4> QED
        <5>1. TAKE o \in free'
        <5>2. CASE o \in free
          BY <5>2, <4>1, <4>2
        <5>3. CASE o = obj
          BY <5>3, <2>3, <2>5, <2>6, <2>10
        <5> QED
          BY <2>1, <5>2, <5>3
    <3>3. \A o1, o2 \in free' : o1.page = o2.page => o1 = o2
      BY <2>1, <2>3, <2>5, <2>11 DEF Pages
    <3>4. slot' <= next'["small"] + 1
      BY <2>1, <2>3, <2>6 DEF Pages, TypeOK
    <3> QED
      BY <2>1, <3>1, <3>2, <3>3, <3>4 DEF Pages
  <2>13. Slots'
    <3>1. GoodSlot(call[t])
      BY <2>2 DEF Slots
    <3>2. \A o \in live \cup free : Small(o) => GoodSlot(o) /\ o.slot # obj.slot
      BY <2>2, <2>5 DEF Slots
    <3>3. obj.file # STDIN /\ obj.slot \in 1 .. (slot - 1)
      BY <2>5, <3>1 DEF GoodSlot
    <3>4. /\ \A o \in live' \cup free' : Small(o) => GoodSlot(o)'
          /\ \A o1, o2 \in live' \cup free' : Small(o1) /\ Small(o2) /\ o1.slot = o2.slot => o1 = o2
      BY <2>1, <3>2, <3>3 DEF Slots, GoodSlot
    <3>5. \A u \in Threads : Frees(u)' /\ Small(call[u])' =>
            /\ GoodSlot(call[u])'
            /\ \A o \in live' \cup free' : Small(o) => o.slot # call'[u].slot
            /\ \A v \in Threads \ {u} : Frees(v)' /\ Small(call[v])' => call'[v].slot # call'[u].slot
      <4>1. TAKE u \in Threads
      <4>2. HAVE Frees(u)' /\ Small(call[u])'
      <4>3. u # t /\ Frees(u) /\ call'[u] = call[u] /\ Small(call[u])
        BY <2>7, <4>2 DEF Small
      <4>4. GoodSlot(call[u])'
        BY <2>1, <4>3 DEF Slots, GoodSlot
      <4>5. call[u].slot # obj.slot
        BY <2>2, <2>5, <4>3 DEF Slots
      <4>6. \A o \in live' \cup free' : Small(o) => o.slot # call'[u].slot
        BY <2>1, <4>3, <4>5 DEF Slots
      <4>7. \A v \in Threads \ {u} : Frees(v)' /\ Small(call[v])' => call'[v].slot # call'[u].slot
        BY <2>7, <4>3 DEF Slots, Small
      <4> QED
        BY <4>4, <4>6, <4>7
    <3> QED
      BY <3>4, <3>5 DEF Slots
  <2> QED
    BY <2>1, <2>7, <2>8, <2>12, <2>13
<1> QED
  BY <1>1, <1>2

-----------------------------------------------------------------------------
(* All steps.                                                              *)

LEMMA EndsStep ==
  ASSUME IInv, Ends
  PROVE  IInv' /\ live' = live
BY ExitStep DEF Ends

LEMMA StutterStep ==
  ASSUME IInv, UNCHANGED vars
  PROVE  IInv' /\ live' = live
<1> USE DEF IInv, vars
<1>1. TypeOK'
  BY DEF TypeOK, Object, heapVars
<1>2. Pages' /\ Slots'
  BY ObjectsKept
<1>3. Descriptors' /\ StartSequence' /\ Initialisation' /\ NothingBefore'
  BY DEF Descriptors, StartSequence, Initialisation, NothingBefore, Frees, heapVars
<1> QED
  BY <1>1, <1>2, <1>3

LEMMA NextIInv ==
  ASSUME OrdinaryStart, IInv, [Next]_vars
  PROVE  IInv' /\ NewOnFreshPage
<1>1. CASE UNCHANGED vars
  BY <1>1, StutterStep DEF NewOnFreshPage
<1>2. CASE Constructor \/ destroy_mem \/ Ends
  BY <1>2, ConstructorStep, DestroyStep, EndsStep DEF NewOnFreshPage
<1>3. ASSUME NEW t \in Threads, NEW area \in Areas, xxmalloc(t, area)
      PROVE  IInv' /\ NewOnFreshPage
  BY <1>3, MallocStep DEF NewOnFreshPage
<1>4. ASSUME NEW t \in Threads, NEW obj \in live, xxfree(t, obj)
      PROVE  IInv' /\ NewOnFreshPage
  BY <1>4, FreeStep DEF NewOnFreshPage
<1>5. ASSUME NEW t \in Threads, Fork(t)
      PROVE  IInv' /\ NewOnFreshPage
  BY <1>5, ForkStep DEF NewOnFreshPage
<1>6. ASSUME NEW t \in Threads, Step(t)
      PROVE  IInv' /\ NewOnFreshPage
  <2>1. CASE Constructed(t) \/ CheckProcess(t) \/ Reset(t)
    BY <2>1, ConstructedStep, CheckStep, ResetStep DEF NewOnFreshPage
  <2>2. CASE MakeDataFile(t) \/ FreelistInit(t) \/ Lock(t)
    BY <2>2, MakeDataFileStep, FreelistInitStep, LockStep DEF NewOnFreshPage
  <2>3. CASE PopFresh(t) \/ PopFree(t) \/ MmapBig(t)
    BY <2>3, PopFreshStep, PopFreeStep, MmapBigStep
  <2>4. CASE Push(t) \/ MunmapBig(t)
    BY <2>4, PushStep, MunmapStep DEF NewOnFreshPage
  <2> QED
    BY <1>6, <2>1, <2>2, <2>3, <2>4 DEF Step
<1> QED
  BY <1>1, <1>2, <1>3, <1>4, <1>5, <1>6 DEF Next, Program

\* In a process that starts in the ordinary way (its standard input is open,
\* before the constructor only the main thread calls, and it does not fork)
\* everything IInv says holds at all times, in the forked child as well.
THEOREM ProcessInvariance ==
  ASSUME OrdinaryStart
  PROVE  Spec => []IInv
<1>1. Init => IInv
  BY InitIInv
<1>2. IInv /\ [Next]_vars => IInv'
  BY NextIInv
<1> QED
  BY <1>1, <1>2, PTL DEF Spec

\* The variables keep their types; in particular data_fd is a descriptor and
\* the slots and pages stay within the file and the areas.
THEOREM ProcessTypeCorrect ==
  ASSUME OrdinaryStart
  PROVE  Spec => []TypeOK
<1>1. IInv => TypeOK
  BY DEF IInv
<1> QED
  BY <1>1, ProcessInvariance, PTL

\* Small objects are mapped from the data file that init_mem made, each from
\* a slot of its own, on both sides of a fork and while the process exits.
THEOREM SlotsAreOwn ==
  ASSUME OrdinaryStart
  PROVE  Spec => []OwnSlots
<1>1. IInv => OwnSlots
  <2>1. SUFFICES ASSUME IInv
                 PROVE  OwnSlots
    OBVIOUS
  <2>2. slot \in Nat
    BY <2>1, ProcessAssumption DEF IInv, TypeOK, ProcessAssumption
  <2>3. \A o : GoodSlot(o) => o.file # STDIN /\ o.slot # 0
    BY <2>2 DEF GoodSlot
  <2> QED
    BY <2>1, <2>3 DEF IInv, Slots, Small, OwnSlots
<1> QED
  BY <1>1, ProcessInvariance, PTL

\* xxmalloc and xxmalloc_big never return a page that has been returned
\* before, whether its object was freed or not, by the parent or by the child.
THEOREM PagesGivenOnce ==
  ASSUME OrdinaryStart
  PROVE  Spec => NoReuse
<1>1. IInv /\ [Next]_vars => [NewOnFreshPage]_vars
  BY NextIInv
<1>2. [NewOnFreshPage]_vars <=> [\A obj \in live' \ live : <<obj.area, obj.page>> \notin used]_vars
  BY DEF NewOnFreshPage
<1> QED
  BY <1>1, <1>2, ProcessInvariance, PTL DEF Spec, NoReuse
=============================================================================
