-------------------------------- MODULE Nuaf --------------------------------
(***************************************************************************)
(* The nuaf allocator as the threads of one process run it (allocator.c,   *)
(* freelist.c), after init_mem: every small object lives on a virtual page *)
(* of its own, every large object on a range of pages of its own, virtual  *)
(* pages are handed out by two rising watermarks, and a free moves the     *)
(* page of a small object to the watermark (mremap) and removes the pages  *)
(* of a large one (munmap).                                                *)
(*                                                                         *)
(* The virtual memory of the process is `mem`; mmap, mremap and munmap are *)
(* modelled by what the code relies on.  The threads' steps are the        *)
(* stretches of code between two accesses to state another thread may      *)
(* change: taking a mutex, the body under it, an unlocked read of page     *)
(* metadata, an unlocked munmap.                                           *)
(***************************************************************************)
EXTENDS Layout

CONSTANTS
  Threads,                \* threads of the process
  Sizes,                  \* sizes the program asks for
  MMAP_MIN_ADDR,          \* page where the watermark of small objects starts
  LARGE_OBJ_VADDR_START,  \* page where the watermark of large objects starts
  VADDR_END,              \* first page mmap and mremap refuse (TASK_SIZE)
  LARGE_OBJ_START_MAGIC,  \* first word of a large object
  MAX_TRIES,              \* mremap is tried with 1 .. MAX_TRIES - 1 pages
  SMALL_CAP,              \* bound: no small page at or above this one is used
  UserWords,              \* words the program stores at the start of a page
  MMAP_MAY_FAIL,          \* does mmap fail at addresses below VADDR_END?
  MREMAP_MAY_FAIL,        \* does mremap fail although its source is mapped?
  MUNMAP_MAY_FAIL,        \* does munmap fail?
  PERROR_ALLOCATES,       \* does perror call malloc, if stderr has not been used?
  CLIENT_MAY_MISUSE,      \* does the program use or free freed objects?
  NoThread,               \* owner of a free mutex
  UNMAPPED                \* content of a page that is not mapped

VARIABLES
  mem,                  \* what the process reads at each virtual page
  high_vaddr,           \* watermark of small objects (a page)
  large_obj_next_page,  \* watermark of large objects (a page)
  g_flsts,              \* per block type: top_of_stack, high_canonical_addr
  g_m,                  \* owner of the mutex of small objects
  g_big_obj_m,          \* owner of the mutex of large objects
  pc,                   \* where each thread is
  loc,                  \* the locals of the call each thread is in
  live,                 \* objects the program holds
  freed,                \* objects whose free has completed
  exited                \* "no", or how the process ended

vars == <<mem, high_vaddr, large_obj_next_page, g_flsts, g_m, g_big_obj_m,
          pc, loc, live, freed, exited>>

heapVars == <<mem, high_vaddr, large_obj_next_page, g_flsts>>

Pages == 0 .. (VADDR_END - 1)

Ptr == [page : Pages, off : 0 .. (PAGE_SIZE - 1)]

NULL == [page |-> 0, off |-> 0]

\* A word the program stored, read back as a pointer.
WILD == [page |-> 0, off |-> 1]

\* An object: where the pointer returned to the program points, the pages
\* that hold the object, and the size asked for.
Object == [page : Pages, off : 0 .. (PAGE_SIZE - 1), np : Nat, size : Nat]

NoObject == [page |-> 0, off |-> 0, np |-> 0, size |-> 0]

ObjectPages(o) == o.page .. (o.page + o.np - 1)

\* Content of a page: its first word (block type of a page of small objects,
\* magic of a large object), its second word, the first word of the small
\* object on it, and the slot of the backing file the object was mapped from.
PageContent ==
  [head : Int, np : Nat, link : Ptr, slot : Addr]

NoSlot == [page |-> 0, off |-> 0]

AnonPage == [head |-> 0, np |-> 0, link |-> NULL, slot |-> NoSlot]

SmallPage(block_type, slot) ==
  [head |-> block_type, np |-> 0, link |-> NULL, slot |-> slot]

Mapped(p) == mem[p] # UNMAPPED

NoLocals == [size |-> 0, ptr |-> NULL, np |-> 0, i |-> 0, obj |-> NoObject]

\* What the constants satisfy, those of Layout besides.
ASSUME NuafAssumption ==
  /\ NoThread \notin Threads
  /\ UNMAPPED \notin PageContent
  /\ Sizes \subseteq Nat
  /\ MMAP_MIN_ADDR \in Nat \ {0}
  /\ LARGE_OBJ_VADDR_START \in Nat /\ LARGE_OBJ_VADDR_START > MMAP_MIN_ADDR
  /\ VADDR_END \in Nat /\ VADDR_END >= LARGE_OBJ_VADDR_START
  /\ SMALL_CAP \in Nat /\ MAX_TRIES \in Nat
  /\ LARGE_OBJ_START_MAGIC \in Int \ (BlockTypes \cup {AnonPage.head})
  /\ UserWords \subseteq Nat
  /\ {MMAP_MAY_FAIL, MREMAP_MAY_FAIL, MUNMAP_MAY_FAIL,
      PERROR_ALLOCATES, CLIENT_MAY_MISUSE} \subseteq BOOLEAN

-----------------------------------------------------------------------------
(* The memory after the kernel has changed the pages of a set.             *)

Unmapping(m, ps) == [p \in Pages |-> IF p \in ps THEN UNMAPPED ELSE m[p]]

MappingAnon(m, ps) == [p \in Pages |-> IF p \in ps THEN AnonPage ELSE m[p]]

-----------------------------------------------------------------------------
(* The watermarks rise by what has been mapped or moved there.             *)

\* Faulty: the watermark stays where it is.
NextSmallPageStays == high_vaddr

NextSmallPage == high_vaddr + 1

\* Faulty: the watermark rises by one page, whatever the size of the object.
NextLargePageOfOne(np) == large_obj_next_page + 1

NextLargePage(np) == large_obj_next_page + np

-----------------------------------------------------------------------------
(* The end of the process: exit(1), or the SIGSEGV handler.                *)

Running == exited = "no"

Exit(how) ==
  /\ exited' = how
  /\ UNCHANGED <<mem, high_vaddr, large_obj_next_page, g_flsts, g_m, g_big_obj_m,
                 pc, loc, live, freed>>

\* A thread reports an error of mmap or mremap with perror while it holds a
\* mutex.  To write to a stderr that nobody has used perror opens a stream,
\* whose object is small and whose buffer may be large: the thread waits for
\* the mutex, which it holds.  Of the stream only this wait is modelled.
Reenters(t, label) ==
  /\ PERROR_ALLOCATES
  /\ pc' = [pc EXCEPT ![t] = label]

Return(t) ==
  /\ pc' = [pc EXCEPT ![t] = "idle"]
  /\ loc' = [loc EXCEPT ![t] = NoLocals]

Goto(t, label) == pc' = [pc EXCEPT ![t] = label]

-----------------------------------------------------------------------------
(* xxmalloc                                                                *)

xxmalloc(t, size) ==
  /\ Running /\ pc[t] = "idle"
  /\ Goto(t, IF size > LARGEST_BLOCK_SIZE THEN "lock_big" ELSE "lock_pop")
  /\ loc' = [loc EXCEPT ![t].size = size]
  /\ UNCHANGED <<heapVars, g_m, g_big_obj_m, live, freed, exited>>

\* pthread_mutex_lock(&g_m), in xxmalloc and in xxfree
LockSmall(t) ==
  /\ Running /\ pc[t] \in {"lock_pop", "lock_push"}
  /\ g_m = NoThread
  /\ g_m' = t
  /\ Goto(t, IF pc[t] = "lock_pop" THEN "pop" ELSE "mremap")
  /\ UNCHANGED <<heapVars, g_big_obj_m, loc, live, freed, exited>>

\* Faulty: xxmalloc returns with g_m locked.
ReturnSmallLocked(t, ptr) ==
  /\ live' = live \cup {[page |-> ptr.page, off |-> ptr.off, np |-> 1, size |-> loc[t].size]}
  /\ Return(t)
  /\ UNCHANGED <<large_obj_next_page, g_m, g_big_obj_m, freed, exited>>

\* xxmalloc unlocks g_m and returns ptr to the program.
ReturnSmall(t, ptr) ==
  /\ live' = live \cup {[page |-> ptr.page, off |-> ptr.off, np |-> 1, size |-> loc[t].size]}
  /\ g_m' = NoThread
  /\ Return(t)
  /\ UNCHANGED <<large_obj_next_page, g_big_obj_m, freed, exited>>

\* freelist_pop with an empty freelist: map the next slot of the class at
\* the watermark.  MAP_FIXED replaces what is mapped there.
PopFresh(t) ==
  LET block_type == BlockType(loc[t].size)
      slot       == g_flsts[block_type].high_canonical_addr
  IN  /\ Running /\ pc[t] = "pop"
      /\ g_flsts[block_type].top_of_stack = NULL
      /\ high_vaddr < SMALL_CAP /\ high_vaddr < VADDR_END
      /\ mem' = [mem EXCEPT ![high_vaddr] = SmallPage(block_type, slot)]
      /\ high_vaddr' = NextSmallPage
      /\ g_flsts' = [g_flsts EXCEPT ![block_type].high_canonical_addr =
                                       NextCanonical(block_type, slot)]
      /\ ReturnSmall(t, [page |-> high_vaddr, off |-> slot.off])

\* freelist_pop when mmap fails: perror, then exit(1), with g_m held.
PopFails(t) ==
  /\ Running /\ pc[t] = "pop"
  /\ g_flsts[BlockType(loc[t].size)].top_of_stack = NULL
  /\ MMAP_MAY_FAIL \/ high_vaddr >= VADDR_END
  /\ \/ Reenters(t, "reenter") /\ UNCHANGED <<heapVars, g_m, g_big_obj_m, loc, live, freed, exited>>
     \/ Exit("exit")

\* freelist_pop with a free object: the next one is read from its first word.
PopTop(t) ==
  LET block_type == BlockType(loc[t].size)
      top        == g_flsts[block_type].top_of_stack
  IN  /\ Running /\ pc[t] = "pop"
      /\ top # NULL
      /\ IF Mapped(top.page)
         THEN /\ g_flsts' = [g_flsts EXCEPT ![block_type].top_of_stack = mem[top.page].link]
              /\ ReturnSmall(t, top)
              /\ UNCHANGED <<mem, high_vaddr>>
         ELSE Exit("segv")

-----------------------------------------------------------------------------
(* xxmalloc_big                                                            *)

LockBig(t) ==
  /\ Running /\ pc[t] = "lock_big"
  /\ g_big_obj_m = NoThread
  /\ g_big_obj_m' = t
  /\ Goto(t, "mmap_big")
  /\ UNCHANGED <<heapVars, g_m, loc, live, freed, exited>>

\* Map the pages at the watermark, raise it, unlock.
MmapBig(t) ==
  LET np == NumPages(loc[t].size)
  IN  /\ Running /\ pc[t] = "mmap_big"
      /\ large_obj_next_page + np <= VADDR_END
      /\ mem' = MappingAnon(mem, large_obj_next_page .. (large_obj_next_page + np - 1))
      /\ large_obj_next_page' = NextLargePage(np)
      /\ g_big_obj_m' = NoThread
      /\ loc' = [loc EXCEPT ![t].np = np,
                            ![t].ptr = [page |-> large_obj_next_page, off |-> 0]]
      /\ Goto(t, "header")
      /\ UNCHANGED <<high_vaddr, g_flsts, g_m, live, freed, exited>>

\* perror, then exit(1), with g_big_obj_m held.
MmapBigFails(t) ==
  /\ Running /\ pc[t] = "mmap_big"
  /\ MMAP_MAY_FAIL \/ large_obj_next_page + NumPages(loc[t].size) > VADDR_END
  /\ \/ Reenters(t, "reenter_big") /\ UNCHANGED <<heapVars, g_m, g_big_obj_m, loc, live, freed, exited>>
     \/ Exit("exit")

\* The header is written after g_big_obj_m has been released.
WriteHeader(t) ==
  LET p == loc[t].ptr.page
  IN  /\ Running /\ pc[t] = "header"
      /\ IF Mapped(p)
         THEN /\ mem' = [mem EXCEPT ![p].head = LARGE_OBJ_START_MAGIC, ![p].np = loc[t].np]
              /\ live' = live \cup {[page |-> p, off |-> LARGE_HEADER,
                                     np |-> loc[t].np, size |-> loc[t].size]}
              /\ Return(t)
              /\ UNCHANGED <<high_vaddr, large_obj_next_page, g_flsts, g_m, g_big_obj_m,
                             freed, exited>>
         ELSE Exit("segv")

-----------------------------------------------------------------------------
(* xxmalloc_usable_size and get_obj_start: what they read for a pointer.   *)

\* Faulty: the search begins on the page below.
HeaderPagesBelow(p) ==
  {q \in 0 .. (p - 1) : /\ \A r \in q .. p : Mapped(r)
                        /\ mem[q].head = LARGE_OBJ_START_MAGIC}

\* Pages below p that the downward search stops at: everything from there
\* up to p is mapped, and the page begins with the magic word.
HeaderPages(p) ==
  {q \in 0 .. p : /\ \A r \in q .. p : Mapped(r)
                  /\ mem[q].head = LARGE_OBJ_START_MAGIC}

IsLarge(ptr) == ptr.page >= LARGE_OBJ_VADDR_START

\* The search reads mapped pages only.
Readable(ptr) ==
  IF IsLarge(ptr) THEN HeaderPages(ptr.page) # {} ELSE Mapped(ptr.page)

LargeStart(ptr) == CHOOSE q \in HeaderPages(ptr.page) : \A r \in HeaderPages(ptr.page) : r <= q

UsableSize(ptr) ==
  IF IsLarge(ptr)
  THEN LargeUsable(mem[LargeStart(ptr)].np)
  ELSE BlockSize(mem[ptr.page].head)

ObjStart(ptr) ==
  IF IsLarge(ptr)
  THEN [page |-> LargeStart(ptr), off |-> 0]
  ELSE [page |-> ptr.page, off |-> SmallObjStart(ptr.off, UsableSize(ptr))]

-----------------------------------------------------------------------------
(* xxfree                                                                  *)

\* The pointers into an object that the program may pass to free.
Interior(o) ==
  LET bytes == o.off .. (o.off + (IF o.size = 0 THEN 0 ELSE o.size - 1))
  IN  {[page |-> o.page + b \div PAGE_SIZE, off |-> b % PAGE_SIZE] : b \in bytes}

\* Objects that a thread is freeing.
Dying == {loc[t].obj : t \in Threads} \ {NoObject}

\* The unlocked start of xxfree: read the size of the object from its page
\* (xxmalloc_usable_size).  get_obj_start reads the memory of a large object
\* once more; for a small one it is arithmetic.
ReadSize(t, o, ptr) ==
  IF Readable(ptr)
  THEN /\ Goto(t, IF IsLarge(ptr) THEN "obj_start" ELSE "lock_push")
       /\ loc' = [loc EXCEPT ![t] =
                    [size  |-> 0,
                     ptr   |-> IF IsLarge(ptr) THEN ptr ELSE ObjStart(ptr),
                     np    |-> IF IsLarge(ptr) THEN MunmapPages(UsableSize(ptr)) ELSE 0,
                     i     |-> 1,
                     obj   |-> o]]
       /\ live' = live \ {o}
       /\ UNCHANGED <<heapVars, g_m, g_big_obj_m, freed, exited>>
  ELSE Exit("segv")

xxfree(t) ==
  /\ Running /\ pc[t] = "idle"
  /\ \E o \in live : \E ptr \in Interior(o) : ReadSize(t, o, ptr)

\* The program frees an object that has been freed or is being freed.
FreeAgain(t) ==
  /\ CLIENT_MAY_MISUSE
  /\ Running /\ pc[t] = "idle"
  /\ \E o \in freed \cup Dying : \E ptr \in Interior(o) : ReadSize(t, o, ptr)

\* get_obj_start of a large object, still without a lock; then the branch on
\* the kind of the object that was found.
get_obj_start(t) ==
  LET ptr == loc[t].ptr
  IN  /\ Running /\ pc[t] = "obj_start"
      /\ IF Readable(ptr)
         THEN /\ Goto(t, IF IsLarge(ObjStart(ptr)) THEN "munmap" ELSE "lock_push")
              /\ loc' = [loc EXCEPT ![t].ptr = ObjStart(ptr)]
              /\ UNCHANGED <<heapVars, g_m, g_big_obj_m, live, freed, exited>>
         ELSE Exit("segv")

\* A large object: munmap, whose result is not looked at, and no lock.
Munmap(t) ==
  LET p == loc[t].ptr.page
  IN  /\ Running /\ pc[t] = "munmap"
      /\ \/ mem' = Unmapping(mem, p .. (p + loc[t].np - 1))
         \/ MUNMAP_MAY_FAIL /\ UNCHANGED mem
      /\ freed' = freed \cup {loc[t].obj}
      /\ Return(t)
      /\ UNCHANGED <<high_vaddr, large_obj_next_page, g_flsts, g_m, g_big_obj_m, live, exited>>

-----------------------------------------------------------------------------
(* mremap(page, i pages, 1 page, MREMAP_FIXED | MREMAP_MAYMOVE, high_vaddr) *)
(* refuses a target outside the address space or overlapping the old       *)
(* range.  Otherwise it first unmaps the target and the pages of the old   *)
(* range past the first one, and only then moves the first page.           *)

MremapRefused(p, i) ==
  \/ high_vaddr >= VADDR_END
  \/ p + i > high_vaddr /\ high_vaddr + 1 > p

MremapCleared(p, i) == Unmapping(mem, {high_vaddr} \cup ((p + 1) .. (p + i - 1)))

\* Faulty: mremap with an old size of 0 maps a shared page a second time.
MremappedTwice(p, i, page) == [MremapCleared(p, i) EXCEPT ![high_vaddr] = page]

Mremapped(p, i, page) ==
  [MremapCleared(p, i) EXCEPT ![p] = UNMAPPED, ![high_vaddr] = page]

\* Faulty: the old top of the freelist is not stored in the freed object.
WithoutLink(page, top) == page

\* freelist_push stores the old top in the first word of the freed object.
WithLink(page, top) == [page EXCEPT !.link = top]

\* A small object: its page moves to the watermark, and freelist_push makes
\* it the top of the freelist that the metadata of the page names.
MremapAndPush(t) ==
  LET p          == loc[t].ptr.page
      page       == mem[p]
      block_type == page.head
  IN  /\ Running /\ pc[t] = "mremap"
      /\ loc[t].i + 1 < MAX_TRIES
      /\ ~MremapRefused(p, loc[t].i) /\ Mapped(p)
      /\ high_vaddr < SMALL_CAP
      /\ mem' = Mremapped(p, loc[t].i, WithLink(page, g_flsts[block_type].top_of_stack))
      /\ g_flsts' = [g_flsts EXCEPT ![block_type].top_of_stack =
                                       [page |-> high_vaddr, off |-> loc[t].ptr.off]]
      /\ high_vaddr' = NextSmallPage
      /\ g_m' = NoThread
      /\ freed' = freed \cup {loc[t].obj}
      /\ Return(t)
      /\ UNCHANGED <<large_obj_next_page, g_big_obj_m, live, exited>>

\* mremap fails: the code reports it and tries again with one page more.
MremapFails(t) ==
  LET p == loc[t].ptr.page
      i == loc[t].i
  IN  /\ Running /\ pc[t] = "mremap"
      /\ i + 1 < MAX_TRIES
      /\ \/ MremapRefused(p, i) /\ UNCHANGED mem
         \/ ~MremapRefused(p, i) /\ ~Mapped(p) /\ mem' = MremapCleared(p, i)
         \/ /\ MREMAP_MAY_FAIL /\ ~MremapRefused(p, i) /\ Mapped(p)
            /\ mem' \in {mem, MremapCleared(p, i)}
      /\ loc' = [loc EXCEPT ![t].i = i + 1]
      /\ Reenters(t, "reenter") \/ UNCHANGED pc
      /\ UNCHANGED <<high_vaddr, large_obj_next_page, g_flsts, g_m, g_big_obj_m,
                     live, freed, exited>>

\* Faulty: xxfree gives up, unlocks and returns.
MremapGivesUpQuietly(t) ==
  /\ Running /\ pc[t] = "mremap"
  /\ loc[t].i + 1 = MAX_TRIES
  /\ g_m' = NoThread
  /\ Return(t)
  /\ UNCHANGED <<heapVars, g_big_obj_m, live, freed, exited>>

\* if (i == 100) exit(1), with g_m held.  The perror before it does not
\* allocate: fprintf has just written to stderr.
MremapGivesUp(t) ==
  /\ Running /\ pc[t] = "mremap"
  /\ loc[t].i + 1 = MAX_TRIES
  /\ Exit("exit")

-----------------------------------------------------------------------------
(* xxmalloc_lock and xxmalloc_unlock                                       *)

xxmalloc_lock(t) ==
  /\ Running /\ pc[t] = "idle"
  /\ Goto(t, "lock_all")
  /\ UNCHANGED <<heapVars, g_m, g_big_obj_m, loc, live, freed, exited>>

LockAllSmall(t) ==
  /\ Running /\ pc[t] = "lock_all"
  /\ g_m = NoThread
  /\ g_m' = t
  /\ Goto(t, "lock_all_big")
  /\ UNCHANGED <<heapVars, g_big_obj_m, loc, live, freed, exited>>

LockAllBig(t) ==
  /\ Running /\ pc[t] = "lock_all_big"
  /\ g_big_obj_m = NoThread
  /\ g_big_obj_m' = t
  /\ Goto(t, "locked")
  /\ UNCHANGED <<heapVars, g_m, loc, live, freed, exited>>

xxmalloc_unlock(t) ==
  /\ Running /\ pc[t] = "locked"
  /\ g_m' = NoThread /\ g_big_obj_m' = NoThread
  /\ Goto(t, "idle")
  /\ UNCHANGED <<heapVars, loc, live, freed, exited>>

-----------------------------------------------------------------------------
(* The program stores into an object: over the first word of a small one,  *)
(* over one of the first two words of a later page of a large one, where   *)
(* the allocator could take them for a header.  A page that is not mapped  *)
(* raises SIGSEGV, whose handler ends the process.                         *)

Store(t) ==
  /\ Running /\ pc[t] = "idle"
  /\ \E o \in live \cup (IF CLIENT_MAY_MISUSE THEN freed ELSE {}) :
       \E p \in ObjectPages(o) :
         IF Mapped(p)
         THEN /\ \/ ~IsLarge(o) /\ mem' = [mem EXCEPT ![p].link = WILD]
                 \/ /\ IsLarge(o) /\ p # o.page
                    /\ \E w \in UserWords : \/ mem' = [mem EXCEPT ![p].head = w]
                                            \/ mem' = [mem EXCEPT ![p].np = w]
              /\ UNCHANGED <<high_vaddr, large_obj_next_page, g_flsts, g_m, g_big_obj_m,
                             pc, loc, live, freed, exited>>
         ELSE Exit("segv")

-----------------------------------------------------------------------------
Init ==
  /\ mem = [p \in Pages |-> UNMAPPED]
  /\ high_vaddr = MMAP_MIN_ADDR
  /\ large_obj_next_page = LARGE_OBJ_VADDR_START
  /\ g_flsts = [b \in BlockTypes |-> [top_of_stack        |-> NULL,
                                      high_canonical_addr |-> FirstCanonical(b)]]
  /\ g_m = NoThread /\ g_big_obj_m = NoThread
  /\ pc = [t \in Threads |-> "idle"]
  /\ loc = [t \in Threads |-> NoLocals]
  /\ live = {} /\ freed = {}
  /\ exited = "no"

\* The steps of a call in progress.
Step(t) ==
  \/ LockSmall(t) \/ PopFresh(t) \/ PopFails(t) \/ PopTop(t)
  \/ LockBig(t) \/ MmapBig(t) \/ MmapBigFails(t) \/ WriteHeader(t)
  \/ get_obj_start(t) \/ Munmap(t) \/ MremapAndPush(t) \/ MremapFails(t) \/ MremapGivesUp(t)
  \/ LockAllSmall(t) \/ LockAllBig(t) \/ xxmalloc_unlock(t)

\* What the program does next.
Client(t) ==
  \/ \E size \in Sizes : xxmalloc(t, size)
  \/ xxfree(t) \/ FreeAgain(t) \/ xxmalloc_lock(t) \/ Store(t)

Next == \E t \in Threads : Step(t) \/ Client(t)

Spec == Init /\ [][Next]_vars

\* A thread that can go on with a call goes on: threads are scheduled, and
\* the mutexes are handed over.  The program need not make calls.
FairSpec == Spec /\ \A t \in Threads : WF_vars(Step(t))

-----------------------------------------------------------------------------
Labels == {"idle", "lock_pop", "pop", "lock_big", "mmap_big", "header",
           "obj_start", "munmap", "lock_push", "mremap", "reenter",
           "reenter_big", "lock_all", "lock_all_big", "locked"}

TypeOK ==
  /\ mem \in [Pages -> PageContent \cup {UNMAPPED}]
  /\ high_vaddr \in Nat /\ large_obj_next_page \in Nat
  /\ g_flsts \in [BlockTypes -> [top_of_stack : Ptr, high_canonical_addr : Addr]]
  /\ g_m \in Threads \cup {NoThread} /\ g_big_obj_m \in Threads \cup {NoThread}
  /\ pc \in [Threads -> Labels]
  /\ loc \in [Threads -> [size : Nat, ptr : Ptr, np : Nat, i : Nat, obj : Object]]
  /\ live \in SUBSET Object /\ freed \in SUBSET Object
  /\ exited \in {"no", "exit", "segv"}
-----------------------------------------------------------------------------
(* Properties.                                                             *)

\* mremap has failed once: unless it is the kernel that is short of memory
\* for a moment, the process is about to end.
Retrying == \E t \in Threads : pc[t] \in {"mremap", "reenter"} /\ loc[t].i > 1

PagesOf(objects) == UNION {ObjectPages(o) : o \in objects}

\* No use after free goes unnoticed: once a free has returned, every page the
\* object was on stays unmapped, so that a load or store through a stale
\* pointer raises SIGSEGV (the high watermark of xxfree and xxmalloc_big).
StaleUnmapped == \A p \in PagesOf(freed) : ~Mapped(p)

\* malloc returns memory no program variable can point to: the pages of a new
\* object have never been part of another one, alive, being freed or freed.
NoReuse ==
  [][\A o \in live' \ live :
       ObjectPages(o) \cap PagesOf(live \cup Dying \cup freed) = {}]_vars

\* xxmalloc_usable_size and get_obj_start find the object from every byte in
\* it (free may be called with an interior pointer): its start, and a size
\* that is at least what the program asked for.
InteriorResolves ==
  ~Retrying => \A o \in live : \A ptr \in Interior(o) :
    /\ Readable(ptr)
    /\ ObjStart(ptr) = [page |-> o.page, off |-> IF IsLarge(o) THEN 0 ELSE o.off]
    /\ UsableSize(ptr) >= o.size

\* The program dies of SIGSEGV only if it uses memory it has freed.
NoFalsePositive == ~CLIENT_MAY_MISUSE => exited # "segv"

\* The free objects of a class, from the top of its list: the n-th one.
NthFree(b) ==
  LET nth[n \in 0 .. VADDR_END] ==
        IF n = 0 THEN g_flsts[b].top_of_stack
        ELSE IF nth[n - 1] = NULL \/ ~Mapped(nth[n - 1].page) THEN NULL
        ELSE mem[nth[n - 1].page].link
  IN  nth

FreePtrs(b) == {NthFree(b)[n] : n \in 0 .. VADDR_END} \ {NULL}

SmallMapped == {p \in Pages : p < LARGE_OBJ_VADDR_START /\ Mapped(p)}

\* The linked lists embedded in freed objects stay lists: each ends, holds
\* mapped objects of its class at the offset they were made at, and together
\* with the objects the program holds or is freeing they hold every small
\* page exactly once, whatever the program stores and the threads interleave.
FreelistsSound ==
  LET used == SmallMapped \cap PagesOf(live \cup Dying)
      free == {ptr.page : ptr \in UNION {FreePtrs(b) : b \in BlockTypes}}
  IN  ~Retrying =>
        /\ \A b \in BlockTypes :
             /\ NthFree(b)[VADDR_END] = NULL
             /\ \A ptr \in FreePtrs(b) :
                  Mapped(ptr.page) /\ mem[ptr.page].head = b /\ mem[ptr.page].slot.off = ptr.off
        /\ used \cap free = {}
        /\ used \cup free = SmallMapped

\* Small objects could share physical pages: the slots of the backing file
\* under any two of them are disjoint, and none reaches into the metadata at
\* the start of its page or past its end.
SlotsDisjoint ==
  LET End(p) == mem[p].slot.off + BlockSize(mem[p].head)
  IN  \A p \in SmallMapped :
        /\ mem[p].slot.off >= BYTE_ALIGNMENT /\ End(p) <= PAGE_SIZE
        /\ \A q \in SmallMapped \ {p} :
             mem[p].slot.page = mem[q].slot.page =>
               /\ mem[p].head = mem[q].head
               /\ End(p) <= mem[q].slot.off \/ End(q) <= mem[p].slot.off

\* Of the calls that free an object only one returns to the program, the
\* others end the process.
DoubleFreeCaught ==
  [][\A t \in Threads : loc[t].obj \in freed => pc'[t] # "idle"]_vars

\* It is so for small objects, even when two calls have both read the
\* metadata of the page before one of them moves it.
SmallDoubleFreeCaught ==
  [][\A t \in Threads :
       loc[t].obj \in freed /\ ~IsLarge(loc[t].obj) => pc'[t] # "idle"]_vars

\* A second free of a small object ends the process, whatever the other
\* threads do: it does not return, and it does not wait for ever.
SecondFreeTerminates ==
  <>[][\A t \in Threads : ~xxmalloc_lock(t)]_vars =>
    \A t \in Threads :
      loc[t].obj \in freed /\ ~IsLarge(loc[t].obj)
        ~> (~Running \/ high_vaddr >= SMALL_CAP)

\* Every call returns, unless the process ends, the bound on small pages is
\* reached or the program takes the locks of the heap again and again: no mutex
\* is left locked, and none is waited for in a circle.
CallsComplete ==
  <>[][\A t \in Threads : ~xxmalloc_lock(t)]_vars =>
    \A t \in Threads :
      pc[t] # "idle" ~> (pc[t] = "idle" \/ ~Running \/ high_vaddr >= SMALL_CAP)
=============================================================================
