------------------------------- MODULE Process -------------------------------
(***************************************************************************)
(* The life of a process that uses nuaf (allocator.c): init_mem run by the *)
(* library's constructor or, before that, by the first call; fork, which   *)
(* copies the heap with its mutexes and one of the threads; destroy_mem at *)
(* the exit.                                                               *)
(*                                                                         *)
(* Nuaf is the heap between these events; here an object is its page, the  *)
(* file and the slot it was mapped from, and the freelists are one set.    *)
(* All mappings are MAP_PRIVATE and each process has its own descriptors,  *)
(* so nothing a process does after a fork reaches the other one.  The      *)
(* module follows one of the two: the parent as if it had not forked, or   *)
(* from the fork on the child.                                             *)
(***************************************************************************)
EXTENDS Naturals, FiniteSetsExt

CONSTANTS
  Threads, MainThread,
  EarlyThreads,   \* those that call before the constructor has run
  MAX_PAGES,      \* pages each area has; mmap and mremap fail beyond
  STDIN_CLOSED,   \* may the process be started without a standard input?
  EARLY_FORK,     \* may it fork before the constructor has run?
  FORK_LOCKS,     \* is xxmalloc_lock called before fork? (nothing calls it)
  NoThread, CLOSED

VARIABLES
  pid,      \* getpid() of the process that is followed
  state,    \* "starting", "running", "exiting" or how it ended
  fds,      \* the open file of each descriptor
  files,    \* data files made so far
  data_fd, par_ps,
  next,     \* the watermark of each area
  slot,     \* next slot of the data file; 0 before freelist_init
  free,     \* objects on the freelists
  owner,    \* of the mutexes: g_m of small, g_big_obj_m of large objects
  pc,       \* where each thread is, "absent" if it is in the parent only
  call,     \* the area asked for, or the object being freed
  live,     \* objects the program holds
  used      \* pages that have been given to the program

heapVars == <<next, slot, free>>
vars == <<pid, state, fds, files, data_fd, par_ps, heapVars, owner, pc, call, live, used>>

Areas == {"small", "large"}
Fds == 0 .. 2

\* Files: 0 is the standard input, the others are data files.
STDIN == 0

ASSUME ProcessAssumption ==
  /\ NoThread \notin Threads /\ MainThread \in Threads /\ EarlyThreads \subseteq Threads
  /\ CLOSED \notin Nat /\ MAX_PAGES \in Nat
  /\ {STDIN_CLOSED, EARLY_FORK, FORK_LOCKS} \subseteq BOOLEAN

-----------------------------------------------------------------------------
Runs == state \in {"starting", "running", "exiting"}

At(t, label) == Runs /\ pc[t] = label

Goto(t, label) == pc' = [pc EXCEPT ![t] = label]

Exit(status) ==
  /\ state' = status
  /\ UNCHANGED <<pid, fds, files, data_fd, par_ps, heapVars, owner, pc, call, live, used>>

BottomOfAreas == [area \in Areas |-> 0]

NoCall == [area |-> "none"]

\* The process has been started; its constructors have not run.
Init ==
  /\ pid = "parent" /\ state = "starting"
  /\ \E stdin \in {STDIN} \cup (IF STDIN_CLOSED THEN {CLOSED} ELSE {}) :
       fds = [fd \in Fds |-> IF fd = 0 THEN stdin ELSE CLOSED]
  /\ files = 0
  /\ data_fd = 0 /\ par_ps = "none"
  /\ next = BottomOfAreas /\ slot = 0 /\ free = {}
  /\ owner = [area \in Areas |-> NoThread]
  /\ pc = [t \in Threads |-> "idle"]
  /\ call = [t \in Threads |-> NoCall]
  /\ live = {} /\ used = {}

-----------------------------------------------------------------------------
(* init_mem                                                                *)

\* The dynamic linker runs the constructor in the main thread.
Constructor ==
  /\ state = "starting" /\ pc[MainThread] = "idle"
  /\ Goto(MainThread, "check")
  /\ UNCHANGED <<pid, state, fds, files, data_fd, par_ps, heapVars, owner, call, live, used>>

Constructed(t) ==
  /\ At(t, "constructed")
  /\ state' = "running"
  /\ Goto(t, "idle")
  /\ UNCHANGED <<pid, fds, files, data_fd, par_ps, heapVars, owner, call, live, used>>

Frees(t) == "page" \in DOMAIN call[t]

\* Where init_mem returns to: the constructor's caller, xxmalloc or xxfree.
AfterInit(c) ==
  IF c = NoCall THEN "constructed"
  ELSE IF c.area = "large" /\ "page" \in DOMAIN c THEN "munmap" ELSE "lock"

\* Faulty: nothing tells that init_mem has been run.
NeverInitialised == FALSE

Initialised == par_ps = pid

CheckProcess(t) ==
  /\ At(t, "check")
  /\ Goto(t, IF Initialised THEN AfterInit(call[t]) ELSE "reset")
  /\ UNCHANGED <<pid, state, fds, files, data_fd, par_ps, heapVars, owner, call, live, used>>

Reset(t) ==
  /\ At(t, "reset")
  /\ data_fd' = 0
  /\ par_ps' = pid
  /\ next' = BottomOfAreas
  /\ Goto(t, "mkstemp")
  /\ UNCHANGED <<pid, state, fds, files, slot, free, owner, call, live, used>>

\* sigaction may fail (2), and so may mkstemp (1), which takes the lowest
\* descriptor that is not open.
MakeDataFile(t) ==
  LET fd == Min({f \in Fds : fds[f] = CLOSED})
  IN  /\ At(t, "mkstemp")
      /\ \/ \E status \in {"exit(2)", "exit(1)"} : Exit(status)
         \/ /\ \E f \in Fds : fds[f] = CLOSED
            /\ data_fd' = fd
            /\ fds' = [fds EXCEPT ![fd] = files + 1]
            /\ files' = files + 1
            /\ Goto(t, "freelist_init")
            /\ UNCHANGED <<pid, state, par_ps, heapVars, owner, call, live, used>>

\* Faulty: the slots are left as they are.
SlotUnset == slot

FirstSlot == 1

FreelistInit(t) ==
  /\ At(t, "freelist_init")
  /\ slot' = FirstSlot
  /\ free' = {}
  /\ Goto(t, AfterInit(call[t]))
  /\ UNCHANGED <<pid, state, fds, files, data_fd, par_ps, next, owner, call, live, used>>

-----------------------------------------------------------------------------
(* xxmalloc and xxfree                                                     *)

MayCall(t) ==
  /\ pc[t] = "idle"
  /\ state \in {"running", "exiting"} \/ (state = "starting" /\ t \in EarlyThreads)

\* if (!data_fd) init_mem()
Enter(t, c) ==
  /\ call' = [call EXCEPT ![t] = c]
  /\ Goto(t, IF data_fd = 0 THEN "check" ELSE AfterInit(c))
  /\ UNCHANGED <<pid, state, fds, files, data_fd, par_ps, heapVars, owner, used>>

xxmalloc(t, area) ==
  /\ MayCall(t)
  /\ Enter(t, [area |-> area])
  /\ UNCHANGED live

xxfree(t, obj) ==
  /\ MayCall(t)
  /\ live' = live \ {obj}
  /\ Enter(t, obj)

Lock(t) ==
  LET area == call[t].area
  IN  /\ At(t, "lock")
      /\ owner[area] = NoThread
      /\ owner' = [owner EXCEPT ![area] = t]
      /\ Goto(t, "body")
      /\ UNCHANGED <<pid, state, fds, files, data_fd, par_ps, heapVars, call, live, used>>

Return(t) ==
  /\ Goto(t, "idle")
  /\ call' = [call EXCEPT ![t] = NoCall]

\* Faulty: the mutex stays locked.
KeepLocked(t) == owner

Unlocked(t) == [owner EXCEPT ![call[t].area] = NoThread]

\* The mutex is unlocked and the object returned.
Give(t, obj) ==
  /\ live' = live \cup {obj}
  /\ used' = used \cup {<<obj.area, obj.page>>}
  /\ owner' = Unlocked(t)
  /\ Return(t)
  /\ UNCHANGED <<pid, state, fds, files, data_fd, par_ps>>

\* Faulty: a page too many.
ExhaustedLate(area) == next[area] > MAX_PAGES

\* mmap or mremap fails, and the process ends.
Exhausted(area) == next[area] = MAX_PAGES

\* freelist_pop, which finds no free object and maps the next slot
PopFresh(t) ==
  LET file == fds[data_fd]
  IN  /\ At(t, "body") /\ call[t].area = "small" /\ ~Frees(t)
      /\ free = {}
      /\ IF file = CLOSED \/ Exhausted("small")
         THEN Exit("exit(1)")
         ELSE /\ next' = [next EXCEPT !.small = @ + 1]
              /\ slot' = slot + 1
              /\ Give(t, [area |-> "small", page |-> next.small, file |-> file, slot |-> slot])
              /\ UNCHANGED free

PopFree(t) ==
  /\ At(t, "body") /\ call[t].area = "small" /\ ~Frees(t)
  /\ \E obj \in free :
       /\ free' = free \ {obj}
       /\ Give(t, obj)
  /\ UNCHANGED <<next, slot>>

MmapBig(t) ==
  /\ At(t, "body") /\ call[t].area = "large"
  /\ IF Exhausted("large")
     THEN Exit("exit(1)")
     ELSE /\ next' = [next EXCEPT !.large = @ + 1]
          /\ Give(t, [area |-> "large", page |-> next.large, file |-> STDIN, slot |-> 0])
          /\ UNCHANGED <<slot, free>>

\* mremap to the watermark, freelist_push
Push(t) ==
  /\ At(t, "body") /\ call[t].area = "small" /\ Frees(t)
  /\ IF Exhausted("small")
     THEN Exit("exit(1)")
     ELSE /\ next' = [next EXCEPT !.small = @ + 1]
          /\ free' = free \cup {[call[t] EXCEPT !.page = next.small]}
          /\ owner' = Unlocked(t)
          /\ Return(t)
          /\ UNCHANGED <<pid, state, fds, files, data_fd, par_ps, slot, live, used>>

MunmapBig(t) ==
  /\ At(t, "munmap")
  /\ Return(t)
  /\ UNCHANGED <<pid, state, fds, files, data_fd, par_ps, heapVars, owner, live, used>>

-----------------------------------------------------------------------------
(* fork and exit                                                           *)

\* The child has everything, of the threads only the one that forked.
\* xxmalloc_lock would have waited until nobody holds the mutexes.
Fork(t) ==
  /\ pid = "parent"
  /\ pc[t] = "idle"
  /\ state = "running" \/ (EARLY_FORK /\ state = "starting" /\ t = MainThread)
  /\ FORK_LOCKS => \A area \in Areas : owner[area] = NoThread
  /\ pid' = "child"
  /\ pc' = [u \in Threads |-> IF u = t THEN "idle" ELSE "absent"]
  /\ UNCHANGED <<state, fds, files, data_fd, par_ps, heapVars, owner, call, live, used>>

\* exit runs destroy_mem; other threads, and destructors that run later, may
\* still call.
destroy_mem ==
  /\ state = "running"
  /\ \E t \in Threads : pc[t] = "idle"
  /\ state' = "exiting"
  /\ fds' = [fds EXCEPT ![data_fd] = CLOSED]
  /\ UNCHANGED <<pid, files, data_fd, par_ps, heapVars, owner, pc, call, live, used>>

Ends == state = "exiting" /\ Exit("exit(0)")

-----------------------------------------------------------------------------
Step(t) ==
  \/ Constructed(t) \/ CheckProcess(t) \/ Reset(t) \/ MakeDataFile(t) \/ FreelistInit(t)
  \/ Lock(t) \/ PopFresh(t) \/ PopFree(t) \/ MmapBig(t) \/ Push(t) \/ MunmapBig(t)

Program ==
  \/ Constructor \/ destroy_mem \/ Ends
  \/ \E t \in Threads :
       \/ \E area \in Areas : xxmalloc(t, area)
       \/ \E obj \in live : xxfree(t, obj)
       \/ Fork(t)

Next == Program \/ \E t \in Threads : Step(t)

Spec == Init /\ [][Next]_vars

\* A thread that is in a call gets to run; two that wait for a mutex take turns.
FairSpec ==
  /\ Spec
  /\ \A t \in Threads : WF_vars(Step(t)) /\ SF_vars(Lock(t))

-----------------------------------------------------------------------------
Object ==
  [area : {"small"}, page : 0 .. (MAX_PAGES - 1), file : 0 .. files, slot : 0 .. MAX_PAGES]
    \cup [area : {"large"}, page : 0 .. (MAX_PAGES - 1), file : {STDIN}, slot : {0}]

TypeOK ==
  /\ pid \in {"parent", "child"}
  /\ state \in {"starting", "running", "exiting", "exit(0)", "exit(1)", "exit(2)"}
  /\ files \in Nat
  /\ fds \in [Fds -> {CLOSED} \cup 0 .. files]
  /\ data_fd \in Fds /\ par_ps \in {"none", "parent", "child"}
  /\ next \in [Areas -> 0 .. MAX_PAGES] /\ slot \in 0 .. (MAX_PAGES + 1)
  /\ owner \in [Areas -> Threads \cup {NoThread}]
  /\ pc \in [Threads -> {"absent", "idle", "check", "reset", "mkstemp", "freelist_init",
                         "constructed", "lock", "body", "munmap"}]
  /\ call \in [Threads -> {NoCall} \cup [area : Areas] \cup Object]
  /\ free \in SUBSET Object /\ live \in SUBSET Object
  /\ used \in SUBSET (Areas \X (0 .. (MAX_PAGES - 1)))

\* In the memory of a process no page is given out twice: not when the first
\* call has run init_mem before the constructor does, and not in the child,
\* which goes on with the heap it inherits, where objects of its parent live.
NoReuse ==
  [][\A obj \in live' \ live : <<obj.area, obj.page>> \notin used]_vars

\* Small objects are mapped from the data file the process or its parent has
\* made, never from a descriptor of the program's, each from a slot of its
\* own, and from none before freelist_init has set the first one.
OwnSlots ==
  LET small == {obj \in live \cup free : obj.area = "small"}
  IN  /\ \A obj \in small : obj.file # STDIN /\ obj.slot # 0
      /\ \A o1, o2 \in small : o1.slot = o2.slot => o1 = o2

InCall(t) == pc[t] \notin {"absent", "idle"}

Orphaned == \E area \in Areas : owner[area] # NoThread /\ pc[owner[area]] = "absent"

\* A call returns or the process ends, in the parent and in the child, but
\* for a child that has inherited a mutex from a thread it does not have.
CallsComplete ==
  \A t \in Threads : InCall(t) ~> (~InCall(t) \/ ~Runs \/ Orphaned)

\* "Locks the heap(s), used prior to any invocation of fork()" (wrapper.h):
\* the calls of the child complete, too.
ChildCallsComplete ==
  \A t \in Threads : pid = "child" /\ InCall(t) ~> (~InCall(t) \/ ~Runs)
=============================================================================
