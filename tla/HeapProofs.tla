----------------------------- MODULE HeapProofs -----------------------------
(***************************************************************************)
(* What the invariant of NuafProofs gives the program that uses nuaf: the  *)
(* objects it holds are mapped, xxfree finds them from interior pointers,  *)
(* and only a program that misuses an object dies of SIGSEGV.              *)
(***************************************************************************)
EXTENDS NuafProofs, NuafRefinement

\* The program has had no occasion to use or free a freed object.
Innocent == ~CLIENT_MAY_MISUSE \/ Dying \cup freed = {}

Whole(o) == \A q \in ObjectPages(o) : Mapped(q)

\* An object the program holds is neither freed nor being freed.
HeldApart == live \cap (Dying \cup freed) = {}

\* Its pages are mapped, and so are those of an object xxmalloc_big is about
\* to return.  mremap unmaps pages of other objects once it has been retried,
\* which takes a second free.
HeldMapped ==
  Quiet \/ Innocent =>
    /\ \A o \in live : Whole(o)
    /\ \A t \in Threads : pc[t] = "header" => Whole(Pending(t))

\* A program that does not misuse objects frees each once, and until munmap
\* or mremap its pages are mapped.
FreedOnce ==
  ~CLIENT_MAY_MISUSE =>
    \A t \in Threads : loc[t].obj # NoObject =>
      /\ Whole(loc[t].obj)
      /\ \A u \in Threads \ {t} : loc[u].obj # loc[t].obj

Faultless == exited = "segv" => ~Innocent

\* The calls to malloc are for sizes the program asks for.
SizesAsked ==
  \A t \in Threads : pc[t] \in {"lock_pop", "pop", "lock_big", "mmap_big", "header"} =>
    loc[t].size \in Sizes

HeldInv == IInv /\ HeldApart /\ HeldMapped /\ FreedOnce /\ Faultless /\ SizesAsked

-----------------------------------------------------------------------------
(* What the invariant says of objects.                                     *)

LEMMA NoObjectUnknown ==
  ASSUME IInv
  PROVE  NoObject \notin Known
BY ObjectBounds DEF IInv, Heap, NoObject

\* The pages of two objects that are apart, and of an object that is mapped
\* but has no header yet.
LEMMA ApartPages ==
  ASSUME IInv, NEW a \in Known, NEW b \in Known, a # b
  PROVE  ObjectPages(a) \cap ObjectPages(b) = {}
<1>1. a.page \in Nat /\ a.np \in Nat /\ b.page \in Nat /\ b.np \in Nat
  BY KnownObjects DEF IInv
<1>2. Apart(a, b)
  BY DEF IInv, Heap, ObjectsApart
<1> QED
  BY <1>1, <1>2 DEF Apart, ObjectPages

LEMMA PendingPages ==
  ASSUME IInv, NEW t \in Threads, pc[t] = "header"
  PROVE  /\ Pending(t).page \in Nat /\ Pending(t).np \in Nat
         /\ \A q \in ObjectPages(Pending(t)) : q \in Pages /\ q >= LARGE_OBJ_VADDR_START
         /\ \A o \in Known : ObjectPages(Pending(t)) \cap ObjectPages(o) = {}
<1>1. /\ loc[t] \in [size : Nat, ptr : Ptr, np : Nat, i : Nat, obj : Object]
      /\ PendingSound(t) /\ large_obj_next_page <= VADDR_END
      /\ large_obj_next_page \in Nat /\ VADDR_END \in Nat /\ LARGE_OBJ_VADDR_START \in Nat
  BY NuafAssumption DEF IInv, TypeOK, LocalsSound, Heap, Watermarks, NuafAssumption
<1>2. /\ Pending(t).page = loc[t].ptr.page /\ Pending(t).np = loc[t].np
      /\ Pending(t).page \in Nat /\ Pending(t).np \in Nat
  BY <1>1 DEF Pending, Ptr, Pages
<1>3. \A q \in ObjectPages(Pending(t)) : q \in Pages /\ q >= LARGE_OBJ_VADDR_START
  BY <1>1, <1>2 DEF PendingSound, ObjectPages, Pages
<1>4. ASSUME NEW o \in Known
      PROVE  ObjectPages(Pending(t)) \cap ObjectPages(o) = {}
  <2>1. o.page \in Nat /\ o.np \in Nat
    BY KnownObjects DEF IInv
  <2>2. Apart(Pending(t), o)
    BY <1>1 DEF PendingSound
  <2> QED
    BY <1>2, <2>1, <2>2 DEF Apart, ObjectPages
<1> QED
  BY <1>2, <1>3, <1>4

\* xxmalloc_usable_size reads mapped memory only, from every byte of an
\* object that is mapped.
LEMMA WholeReadable ==
  ASSUME IInv, NEW o \in Known, Whole(o),
         NEW ptr, ptr \in Ptr, ptr.page \in ObjectPages(o), IsLarge(ptr) <=> IsLarge(o)
  PROVE  Readable(ptr)
<1>1. o.page \in Nat /\ o.np \in Nat \ {0} /\ ObjectsSound /\ TypeOK /\ Watermarks
  BY KnownObjects, ObjectBounds DEF IInv, Heap
<1>2. ptr.page \in Nat /\ o.page <= ptr.page /\ ptr.page < o.page + o.np
  BY <1>1 DEF ObjectPages
<1>3. CASE ~IsLarge(o)
  BY <1>3 DEF Readable, Whole
<1>4. CASE IsLarge(o)
  <2>1. \A r \in o.page .. ptr.page : r \in ObjectPages(o)
    BY <1>1, <1>2 DEF ObjectPages
  <2>2. o.page \in 0 .. ptr.page /\ o.page \in ObjectPages(o)
    BY <1>1, <1>2 DEF ObjectPages
  <2>3. mem[o.page].head = LARGE_OBJ_START_MAGIC
    BY <1>1, <1>4, <2>2 DEF ObjectsSound, LargeObject, Whole
  <2>4. o.page \in HeaderPages(ptr.page)
    BY <2>1, <2>2, <2>3 DEF HeaderPages, Whole
  <2> QED
    BY <1>4, <2>4 DEF Readable
<1> QED
  BY <1>3, <1>4

LEMMA InteriorPage ==
  ASSUME IInv, NEW o \in Known, NEW ptr \in Interior(o)
  PROVE  ptr \in Ptr /\ ptr.page \in ObjectPages(o) /\ (IsLarge(ptr) <=> IsLarge(o))
<1>1. /\ o.page \in Nat /\ o.np \in Nat \ {0}
      /\ TypeOK /\ Watermarks /\ SmallHeads /\ ObjectsSound
  BY KnownObjects, ObjectBounds DEF IInv, Heap
<1>2. CASE IsLarge(o)
  <2>1. ptr \in Ptr /\ IsLarge(ptr) /\ o.page <= ptr.page /\ ptr.page < o.page + o.np
    BY <1>1, <1>2, LargeInterior
  <2>2. ptr.page \in Nat
    BY <2>1 DEF Ptr, Pages
  <2> QED
    BY <1>1, <1>2, <2>1, <2>2 DEF ObjectPages
<1>3. CASE ~IsLarge(o)
  <2>1. ptr \in Ptr /\ ~IsLarge(ptr) /\ ptr.page = o.page
    BY <1>1, <1>3, SmallInterior
  <2> QED
    BY <1>1, <1>3, <2>1 DEF ObjectPages
<1> QED
  BY <1>2, <1>3

-----------------------------------------------------------------------------
(* Steps that unmap nothing and free nothing.                              *)

\* A step of thread t, unless it is a free that has been retried and ends.
LEMMA QuietStays ==
  ASSUME NEW t \in Threads,
         \A u \in Threads \ {t} : pc'[u] = pc[u] /\ loc'[u] = loc[u],
         pc[t] \notin {"mremap", "reenter"} \/ ~(loc[t].i > 1)
  PROVE  Quiet' => Quiet
BY DEF Quiet, Retrying

LEMMA NewUnknown ==
  ASSUME IInv, NewApart, NEW o \in live' \ live
  PROVE  o \notin Known
<1>1. SUFFICES ASSUME o \in Known
      PROVE  FALSE
  OBVIOUS
<1>2. o.page \in Nat /\ o.np \in Nat \ {0}
  BY <1>1, KnownObjects, ObjectBounds DEF IInv, Heap
<1>3. Apart(o, o)
  BY <1>1 DEF NewApart
<1> QED
  BY <1>2, <1>3 DEF Apart

\* Such a step keeps the invariant if an object it makes or maps is mapped,
\* and if it is not a fault of an innocent program.
LEMMA HeldKept ==
  ASSUME HeldInv, IInv', NewApart, Quiet' => Quiet,
         live \subseteq live', freed' = freed,
         \A u \in Threads : loc'[u].obj = loc[u].obj,
         \A q \in Pages : Mapped(q) => Mapped(q)',
         Quiet \/ Innocent => \A o \in live' \ live : Whole(o)',
         \A u \in Threads : pc'[u] = "header" =>
           \/ pc[u] = "header" /\ loc'[u] = loc[u]
           \/ Whole(Pending(u))',
         exited' = "segv" => exited = "segv" \/ ~Innocent,
         \A u \in Threads : pc'[u] \in {"lock_pop", "pop", "lock_big", "mmap_big", "header"} =>
           loc'[u].size \in Sizes
  PROVE  HeldInv'
<1>1. Dying' = Dying /\ (Innocent' = Innocent)
  BY DyingSame DEF Innocent
<1>2. \A o \in Known : Whole(o) => Whole(o)'
  BY KnownPages DEF HeldInv, IInv, Heap, Whole, ObjectPages
<1>3. HeldApart'
  BY <1>1, NewUnknown DEF HeldInv, HeldApart, Known
<1>4. HeldMapped'
  <2>1. SUFFICES ASSUME Quiet' \/ Innocent'
        PROVE  /\ \A o \in live' : Whole(o)'
               /\ \A u \in Threads : pc'[u] = "header" => Whole(Pending(u))'
    BY DEF HeldMapped
  <2>2. Quiet \/ Innocent
    BY <1>1, <2>1
  <2>3. \A o \in live' : Whole(o)'
    BY <1>2, <2>2 DEF HeldInv, HeldMapped, Known
  <2>4. ASSUME NEW u \in Threads, pc'[u] = "header", pc[u] = "header", loc'[u] = loc[u]
        PROVE  Whole(Pending(u))'
    <3>1. Whole(Pending(u)) /\ \A q \in ObjectPages(Pending(u)) : q \in Pages
      BY <2>2, <2>4, PendingPages DEF HeldInv, HeldMapped
    <3>2. ObjectPages(Pending(u))' = ObjectPages(Pending(u))
      BY <2>4 DEF Pending, ObjectPages
    <3> QED
      BY <3>1, <3>2 DEF Whole
  <2> QED
    BY <2>3, <2>4
<1>5. FreedOnce'
  <2>1. \A u \in Threads : loc[u].obj # NoObject => loc[u].obj \in Known
    BY DEF Known, Dying
  <2> QED
    BY <1>2, <2>1 DEF HeldInv, FreedOnce
<1>6. Faultless' /\ SizesAsked'
  BY <1>1 DEF HeldInv, Faultless, SizesAsked
<1> QED
  BY <1>3, <1>4, <1>5, <1>6 DEF HeldInv

LEMMA ExitHeld ==
  ASSUME HeldInv, NEW how \in {"exit", "segv"}, Exit(how), how = "segv" => ~Innocent
  PROVE  HeldInv'
<1>1. UNCHANGED <<heapVars, pc, loc, live, freed>> /\ exited' = how
  BY DEF Exit, heapVars
<1>2. IInv'
  BY ExitStep DEF HeldInv
<1>3. NewApart /\ (Quiet' => Quiet) /\ \A q \in Pages : Mapped(q) => Mapped(q)'
  BY <1>1 DEF NewApart, Quiet, Retrying, Mapped, heapVars
<1> QED
  BY <1>1, <1>2, <1>3, HeldKept DEF HeldInv, SizesAsked

\* Steps that leave the memory and the objects alone.
LEMMA MovesHeld ==
  ASSUME HeldInv, IInv', NEW t \in Threads,
         UNCHANGED <<mem, live, freed, exited>>,
         \A u \in Threads : loc'[u].obj = loc[u].obj,
         \A u \in Threads \ {t} : pc'[u] = pc[u] /\ loc'[u] = loc[u],
         pc[t] \notin {"mremap", "reenter"}, pc'[t] # "header",
         pc'[t] \in {"lock_pop", "pop", "lock_big", "mmap_big"} => loc'[t].size \in Sizes
  PROVE  HeldInv'
<1>1. NewApart /\ (Quiet' => Quiet)
  BY QuietStays DEF NewApart
<1>2. \A u \in Threads : pc'[u] = "header" => pc[u] = "header" /\ loc'[u] = loc[u]
  OBVIOUS
<1>3. \A u \in Threads : pc'[u] \in {"lock_pop", "pop", "lock_big", "mmap_big", "header"} =>
        loc'[u].size \in Sizes
  BY DEF HeldInv, SizesAsked
<1> QED
  BY <1>1, <1>2, <1>3, HeldKept DEF Mapped

LEMMA LocksHeld ==
  ASSUME Reliable, HeldInv, NEW t \in Threads,
         \/ LockSmall(t) \/ LockBig(t)
         \/ xxmalloc_lock(t) \/ LockAllSmall(t) \/ LockAllBig(t) \/ xxmalloc_unlock(t)
  PROVE  HeldInv'
<1>1. IInv'
  BY LockSmallStep, LockBigStep, HeapLocksStep DEF HeldInv
<1>2. UNCHANGED <<mem, live, freed, exited, loc>>
  BY DEF LockSmall, LockBig, xxmalloc_lock, LockAllSmall, LockAllBig, xxmalloc_unlock, heapVars
<1>3. pc \in [Threads -> Labels]
  BY DEF HeldInv, IInv, TypeOK
<1>4. PICK label \in {"pop", "mremap", "mmap_big", "lock_all", "lock_all_big", "locked", "idle"} :
        /\ pc' = [pc EXCEPT ![t] = label]
        /\ label = "pop" => pc[t] = "lock_pop"
        /\ label = "mmap_big" => pc[t] = "lock_big"
  BY DEF LockSmall, LockBig, xxmalloc_lock, LockAllSmall, LockAllBig, xxmalloc_unlock, Goto
<1>5. pc[t] \notin {"mremap", "reenter"}
  BY DEF LockSmall, LockBig, xxmalloc_lock, LockAllSmall, LockAllBig, xxmalloc_unlock
<1>6. pc'[t] \in {"lock_pop", "pop", "lock_big", "mmap_big"} => loc'[t].size \in Sizes
  BY <1>2, <1>3, <1>4 DEF HeldInv, SizesAsked
<1> QED
  BY <1>1, <1>2, <1>3, <1>4, <1>5, <1>6, MovesHeld

LEMMA xxmallocHeld ==
  ASSUME HeldInv, NEW t \in Threads, NEW size \in Sizes, xxmalloc(t, size)
  PROVE  HeldInv'
<1>1. IInv'
  BY xxmallocStep DEF HeldInv
<1>2. /\ pc \in [Threads -> Labels]
      /\ loc \in [Threads -> [size : Nat, ptr : Ptr, np : Nat, i : Nat, obj : Object]]
      /\ loc' = [loc EXCEPT ![t].size = size]
      /\ UNCHANGED <<mem, live, freed, exited>> /\ pc[t] = "idle"
  BY DEF HeldInv, IInv, TypeOK, xxmalloc, heapVars
<1>3. PICK label \in {"lock_big", "lock_pop"} : pc' = [pc EXCEPT ![t] = label]
  BY DEF xxmalloc, Goto
<1>4. \A u \in Threads : loc'[u].obj = loc[u].obj
  BY <1>2
<1>5. loc'[t].size \in Sizes
  BY <1>2
<1> QED
  BY <1>1, <1>2, <1>3, <1>4, <1>5, MovesHeld

LEMMA FailureHeld ==
  ASSUME HeldInv, NEW t \in Threads, PopFails(t) \/ MmapBigFails(t) \/ MremapGivesUp(t)
  PROVE  HeldInv'
<1>1. CASE Exit("exit")
  BY <1>1, ExitHeld
<1>2. ASSUME NEW label, UNCHANGED <<heapVars, g_m, g_big_obj_m, loc, live, freed, exited>>,
             \/ label = "reenter" /\ PopFails(t) /\ Reenters(t, "reenter")
             \/ label = "reenter_big" /\ MmapBigFails(t) /\ Reenters(t, "reenter_big")
      PROVE  HeldInv'
  <2>1. IInv'
    BY FailureStep DEF HeldInv
  <2>2. /\ pc \in [Threads -> Labels] /\ pc' = [pc EXCEPT ![t] = label]
        /\ pc[t] \in {"pop", "mmap_big"} /\ pc'[t] = label
    BY <1>2 DEF HeldInv, IInv, TypeOK, PopFails, MmapBigFails, Reenters
  <2> QED
    BY <1>2, <2>1, <2>2, MovesHeld DEF heapVars
<1> QED
  BY <1>1, <1>2 DEF PopFails, MmapBigFails, MremapGivesUp

\* get_obj_start: the object of a program that is innocent is whole.
LEMMA get_obj_startHeld ==
  ASSUME HeldInv, NEW t \in Threads, get_obj_start(t)
  PROVE  HeldInv'
<1> DEFINE o == loc[t].obj
           ptr == loc[t].ptr
<1>1. /\ pc \in [Threads -> Labels] /\ pc[t] = "obj_start" /\ IInv
      /\ loc \in [Threads -> [size : Nat, ptr : Ptr, np : Nat, i : Nat, obj : Object]]
  BY DEF HeldInv, IInv, TypeOK, get_obj_start
<1>2. /\ o # NoObject /\ IsLarge(o) /\ o \in Dying /\ o \in Known
      /\ o.page <= ptr.page /\ ptr.page < o.page + o.np
  BY <1>1 DEF IInv, LocalsSound, LargeFree, Dying, Known
<1>3. CASE ~Readable(ptr)
  <2>1. SUFFICES ASSUME Innocent
        PROVE  FALSE
    BY <1>3, ExitHeld DEF get_obj_start
  <2>2. Whole(o)
    BY <1>2, <2>1 DEF Innocent, HeldInv, FreedOnce
  <2>3. o.page \in Nat /\ o.np \in Nat /\ LARGE_OBJ_VADDR_START \in Nat
    BY <1>1, <1>2, KnownObjects, NuafAssumption DEF IInv, NuafAssumption
  <2>4. ptr \in Ptr /\ ptr.page \in Nat
    BY <1>1 DEF Ptr, Pages
  <2>5. ptr.page \in ObjectPages(o) /\ IsLarge(ptr)
    BY <1>2, <2>3, <2>4 DEF ObjectPages, IsLarge
  <2> QED
    BY <1>1, <1>2, <1>3, <2>2, <2>4, <2>5, WholeReadable
<1>4. CASE Readable(ptr)
  <2>1. IInv'
    BY <1>1, get_obj_startStep
  <2>2. /\ UNCHANGED <<mem, live, freed, exited>>
        /\ loc' = [loc EXCEPT ![t].ptr = ObjStart(ptr)]
    BY <1>4 DEF get_obj_start, heapVars
  <2>3. PICK label \in {"munmap", "lock_push"} : pc' = [pc EXCEPT ![t] = label]
    BY <1>4 DEF get_obj_start, Goto
  <2>4. \A u \in Threads : loc'[u].obj = loc[u].obj
    BY <1>1, <2>2
  <2> QED
    BY <1>1, <2>1, <2>2, <2>3, <2>4, MovesHeld
<1> QED
  BY <1>3, <1>4

\* A store to an object that is not whole is to one that has been freed.
LEMMA StoreHeld ==
  ASSUME Reliable, HeldInv, NEW t \in Threads, Store(t)
  PROVE  HeldInv'
<1> DEFINE Outcome(o, p) ==
             IF Mapped(p)
             THEN /\ \/ ~IsLarge(o) /\ mem' = [mem EXCEPT ![p].link = WILD]
                     \/ /\ IsLarge(o) /\ p # o.page
                        /\ \E w \in UserWords : \/ mem' = [mem EXCEPT ![p].head = w]
                                                \/ mem' = [mem EXCEPT ![p].np = w]
                  /\ UNCHANGED <<high_vaddr, large_obj_next_page, g_flsts, g_m, g_big_obj_m,
                                 pc, loc, live, freed, exited>>
             ELSE Exit("segv")
<1>0. PICK o \in live \cup (IF CLIENT_MAY_MISUSE THEN freed ELSE {}) :
        \E p \in ObjectPages(o) : Outcome(o, p)
  BY DEF Store
<1>1. PICK p \in ObjectPages(o) : Outcome(o, p)
  BY <1>0
<1>2. IInv'
  BY StoreStep DEF HeldInv
<1>3. CASE ~Mapped(p)
  <2>1. SUFFICES ASSUME Innocent
        PROVE  FALSE
    BY <1>1, <1>3, ExitHeld
  <2>2. o \in live
    BY <2>1 DEF Innocent
  <2> QED
    BY <1>3, <2>1, <2>2 DEF HeldInv, HeldMapped, Whole
<1>4. CASE Mapped(p)
  <2>1. /\ mem \in [Pages -> PageContent \cup {UNMAPPED}] /\ mem' \in [Pages -> PageContent \cup {UNMAPPED}]
        /\ pc \in [Threads -> Labels]
    BY <1>2 DEF HeldInv, IInv, TypeOK
  <2>2. p \in Pages
    BY KnownPages DEF HeldInv, IInv, Heap, Known
  <2>3. mem[p] \in PageContent
    BY <1>4, <2>1, <2>2 DEF Mapped
  <2>4. mem'[p] \in PageContent
    <3>1. WILD \in Ptr
      BY <2>2, PageBytes, NuafAssumption DEF WILD, Ptr, Pages, NuafAssumption
    <3>2. CASE mem' = [mem EXCEPT ![p].link = WILD]
      BY <2>1, <2>2, <2>3, <3>1, <3>2 DEF PageContent
    <3>3. ASSUME NEW w \in UserWords,
                 mem' = [mem EXCEPT ![p].head = w] \/ mem' = [mem EXCEPT ![p].np = w]
          PROVE  mem'[p] \in PageContent
      BY <2>1, <2>2, <2>3, <3>3, NuafAssumption DEF PageContent, NuafAssumption
    <3> QED
      BY <1>1, <1>4, <3>2, <3>3
  <2>5. \A q \in Pages : Mapped(q) => Mapped(q)'
    <3>1. \A q \in Pages \ {p} : mem'[q] = mem[q]
      BY <1>1, <1>4, <2>1, <2>2
    <3> QED
      BY <2>4, <3>1, NuafAssumption DEF Mapped, NuafAssumption
  <2>6. NewApart /\ (Quiet' => Quiet)
    BY <1>1, <1>4 DEF NewApart, Quiet, Retrying
  <2> QED
    BY <1>1, <1>2, <1>4, <2>5, <2>6, HeldKept DEF HeldInv, SizesAsked
<1> QED
  BY <1>3, <1>4

-----------------------------------------------------------------------------
(* xxmalloc and xxmalloc_big return a new object.                          *)

LEMMA ReturnHeld ==
  ASSUME HeldInv, IInv', NewApart, NEW t \in Threads, pc[t] \in {"pop", "header"}, Return(t),
         NEW new, live' = live \cup {new}, UNCHANGED <<freed, exited>>,
         \A q \in Pages : Mapped(q) => Mapped(q)',
         Quiet \/ Innocent => Whole(new)'
  PROVE  HeldInv'
<1>1. /\ \A u \in Threads \ {t} : pc'[u] = pc[u] /\ loc'[u] = loc[u]
      /\ pc'[t] = "idle"
  BY ReturnLocals DEF HeldInv, IInv
<1>2. \A u \in Threads : loc'[u].obj = loc[u].obj
  <2>1. loc[t].obj = NoObject /\ loc'[t].obj = NoObject
    BY DEF HeldInv, IInv, LocalsSound, TypeOK, Return, NoLocals
  <2> QED
    BY <1>1, <2>1
<1>3. Quiet' => Quiet
  BY <1>1, QuietStays
<1>4. \A u \in Threads : pc'[u] \in {"lock_pop", "pop", "lock_big", "mmap_big", "header"} =>
        loc'[u].size \in Sizes
  BY <1>1 DEF HeldInv, SizesAsked
<1>5. Quiet \/ Innocent => \A o \in live' \ live : Whole(o)'
  BY DEF Whole
<1>6. \A u \in Threads : pc'[u] = "header" => pc[u] = "header" /\ loc'[u] = loc[u]
  BY <1>1
<1> QED
  BY <1>1, <1>2, <1>3, <1>4, <1>5, <1>6, HeldKept

LEMMA PopFreshHeld ==
  ASSUME Reliable, HeldInv, NEW t \in Threads, PopFresh(t)
  PROVE  HeldInv'
<1>0. PICK b, slot, new :
        /\ b = BlockType(loc[t].size) /\ slot = g_flsts[b].high_canonical_addr
        /\ new = [page |-> high_vaddr, off |-> slot.off, np |-> 1, size |-> loc[t].size]
  OBVIOUS
<1>1. /\ pc[t] = "pop" /\ high_vaddr < SMALL_CAP
      /\ mem' = [mem EXCEPT ![high_vaddr] = SmallPage(b, slot)]
      /\ live' = live \cup {new} /\ Return(t)
      /\ UNCHANGED <<freed, exited>>
  BY <1>0 DEF PopFresh, ReturnSmall
<1>2. IInv' /\ NewApart
  BY PopFreshStep DEF HeldInv
<1>3. /\ mem \in [Pages -> PageContent \cup {UNMAPPED}]
      /\ g_flsts \in [BlockTypes -> [top_of_stack : Ptr, high_canonical_addr : Addr]]
      /\ high_vaddr \in Pages /\ high_vaddr \in Nat
      /\ loc[t].size \in Nat /\ loc[t].size <= LARGEST_BLOCK_SIZE
  <2>1. TypeOK /\ Watermarks /\ LocalsSound(t)
    BY DEF HeldInv, IInv, Heap
  <2> QED
    BY <1>1, <2>1, SmallRoom DEF TypeOK, LocalsSound
<1>4. mem'[high_vaddr] # UNMAPPED
  <2>1. b \in BlockTypes /\ slot \in Addr
    <3>1. b \in BlockTypes
      BY <1>0, <1>3, ClassHolds
    <3> QED
      BY <1>0, <1>3, <3>1
  <2>2. BlockTypes \subseteq Int
    BY PageBytes DEF BlockTypes
  <2>4. NULL \in Ptr
    BY <1>3, PageBytes, NuafAssumption DEF NULL, Ptr, Pages, NuafAssumption
  <2>3. SmallPage(b, slot) \in PageContent
    BY <2>1, <2>2, <2>4 DEF SmallPage, PageContent
  <2> QED
    BY <1>1, <1>3, <2>3, NuafAssumption DEF NuafAssumption
<1>5. \A q \in Pages : Mapped(q) => Mapped(q)'
  BY <1>1, <1>3, <1>4 DEF Mapped
<1>6. Whole(new)'
  <2>1. new.page = high_vaddr /\ new.np = 1
    BY <1>0
  <2>2. ObjectPages(new) = {high_vaddr}
    BY <1>3, <2>1 DEF ObjectPages
  <2> QED
    BY <1>4, <2>2 DEF Whole, ObjectPages, Mapped
<1> QED
  BY <1>1, <1>2, <1>5, <1>6, ReturnHeld

\* The top of a freelist is mapped: g_m is held.
LEMMA PopTopHeld ==
  ASSUME Reliable, HeldInv, NEW t \in Threads, PopTop(t)
  PROVE  HeldInv'
<1>0. PICK b, top, new :
        /\ b = BlockType(loc[t].size) /\ top = g_flsts[b].top_of_stack
        /\ new = [page |-> top.page, off |-> top.off, np |-> 1, size |-> loc[t].size]
  OBVIOUS
<1>1. pc[t] = "pop" /\ top # NULL /\ TypeOK /\ MutexHeld /\ IInv
  BY <1>0 DEF PopTop, HeldInv, IInv
<1>2. Quiet /\ FreelistsFalling
  BY <1>1, HolderQuiet DEF IInv
<1>3. loc[t].size \in Nat /\ loc[t].size <= LARGEST_BLOCK_SIZE
  BY <1>1 DEF IInv, LocalsSound, TypeOK
<1>4. top.page \in FreePages
  <2>1. b \in BlockTypes
    BY <1>0, <1>3, ClassHolds
  <2>2. HighestFree(b, top, high_vaddr)
    BY <1>0, <1>2, <2>1 DEF FreelistsFalling
  <2> QED
    BY <1>1, <2>2 DEF HighestFree
<1>5. top.page \in Pages /\ Mapped(top.page) /\ top.page \in Nat
  BY <1>4, NuafAssumption DEF FreePages, SmallMapped, Pages, NuafAssumption
<1>6. /\ live' = live \cup {new} /\ Return(t)
      /\ UNCHANGED <<mem, freed, exited>>
  BY <1>0, <1>5 DEF PopTop, ReturnSmall
<1>7. IInv' /\ NewApart
  BY <1>1, PopTopStep
<1>8. Whole(new)'
  <2>1. new.page = top.page /\ new.np = 1
    BY <1>0
  <2>2. ObjectPages(new) = {top.page}
    BY <1>5, <2>1 DEF ObjectPages
  <2> QED
    BY <1>5, <1>6, <2>2 DEF Whole, ObjectPages, Mapped
<1> QED
  BY <1>1, <1>6, <1>7, <1>8, ReturnHeld DEF Mapped

LEMMA WriteHeaderHeld ==
  ASSUME Reliable, HeldInv, NEW t \in Threads, WriteHeader(t)
  PROVE  HeldInv'
<1>0. PICK p, np, new : /\ p = loc[t].ptr.page /\ np = loc[t].np
                        /\ new = [page |-> p, off |-> LARGE_HEADER, np |-> np, size |-> loc[t].size]
  OBVIOUS
<1>1. /\ pc[t] = "header" /\ IInv /\ IInv' /\ NewApart /\ PendingSound(t)
      /\ Pending(t).page = p /\ Pending(t).np = np
      /\ p \in Nat /\ np \in Nat /\ loc[t].size \in Nat
      /\ \A q \in ObjectPages(Pending(t)) : q \in Pages
  BY <1>0, WriteHeaderStep, PendingPages DEF WriteHeader, HeldInv, IInv, LocalsSound, Pending, TypeOK
<1>2. np \in Nat \ {0} /\ p \in ObjectPages(Pending(t)) /\ p \in Pages
  BY <1>0, <1>1, NumPagesHold DEF PendingSound, ObjectPages
<1>3. Quiet \/ Innocent => Whole(Pending(t))
  BY <1>1 DEF HeldInv, HeldMapped
<1>4. CASE ~Mapped(p)
  <2>1. ~Innocent /\ Exit("segv")
    BY <1>0, <1>2, <1>3, <1>4 DEF Whole, WriteHeader
  <2> QED
    BY <2>1, ExitHeld
<1>5. CASE Mapped(p)
  <2>1. /\ mem' = [mem EXCEPT ![p].head = LARGE_OBJ_START_MAGIC, ![p].np = np]
        /\ live' = live \cup {new} /\ Return(t)
        /\ UNCHANGED <<freed, exited>>
    BY <1>0, <1>5 DEF WriteHeader
  <2>2. mem \in [Pages -> PageContent \cup {UNMAPPED}] /\ mem[p] \in PageContent
    BY <1>1, <1>2, <1>5 DEF IInv, TypeOK, Mapped
  <2>3. mem'[p] \in PageContent
    <3>1. mem' = [mem EXCEPT ![p] = [mem[p] EXCEPT !.head = LARGE_OBJ_START_MAGIC, !.np = np]]
      BY <1>2, <2>1, <2>2
    <3>2. [mem[p] EXCEPT !.head = LARGE_OBJ_START_MAGIC, !.np = np] \in PageContent
      BY <1>2, <2>2, NuafAssumption DEF PageContent, NuafAssumption
    <3> QED
      BY <1>2, <2>2, <3>1, <3>2
  <2>4. \A q \in Pages : Mapped(q) => Mapped(q)'
    <3>1. \A q \in Pages \ {p} : mem'[q] = mem[q]
      BY <1>2, <2>1, <2>2
    <3> QED
      BY <2>3, <3>1, NuafAssumption DEF Mapped, NuafAssumption
  <2>5. Quiet \/ Innocent => Whole(new)'
    <3>1. ObjectPages(new) = ObjectPages(Pending(t))
      BY <1>0, <1>1 DEF ObjectPages
    <3> QED
      BY <1>1, <1>3, <2>4, <3>1 DEF Whole, ObjectPages
  <2> QED
    BY <1>1, <2>1, <2>4, <2>5, ReturnHeld
<1> QED
  BY <1>4, <1>5

\* The pages of a large object are mapped before its header is written.
LEMMA MmapBigHeld ==
  ASSUME Reliable, HeldInv, NEW t \in Threads, MmapBig(t)
  PROVE  HeldInv'
<1>0. PICK np, first : np = NumPages(loc[t].size) /\ first = large_obj_next_page
  OBVIOUS
<1>1. /\ IInv /\ IInv' /\ pc[t] = "mmap_big" /\ pc \in [Threads -> Labels]
      /\ loc \in [Threads -> [size : Nat, ptr : Ptr, np : Nat, i : Nat, obj : Object]]
      /\ mem' = MappingAnon(mem, first .. (first + np - 1))
      /\ loc' = [loc EXCEPT ![t].np = np, ![t].ptr = [page |-> first, off |-> 0]]
      /\ pc' = [pc EXCEPT ![t] = "header"]
      /\ first + np <= VADDR_END /\ first \in Nat /\ VADDR_END \in Nat
      /\ UNCHANGED <<live, freed, exited>>
  BY <1>0, MmapBigStep, NuafAssumption DEF HeldInv, IInv, TypeOK, MmapBig, Goto, NuafAssumption
<1>2. np \in Nat
  BY <1>0, <1>1, NumPagesHold
<1>3. AnonPage \in PageContent
  BY NuafAssumption, PageBytes
  DEF NuafAssumption, AnonPage, PageContent, Ptr, Addr, Pages, NULL, NoSlot
<1>4. \A q \in Pages : (Mapped(q) => Mapped(q)') /\ (q \in first .. (first + np - 1) => Mapped(q)')
  BY <1>1, <1>3, NuafAssumption DEF MappingAnon, Mapped, NuafAssumption
<1>5. /\ \A u \in Threads : loc'[u].obj = loc[u].obj
      /\ \A u \in Threads \ {t} : pc'[u] = pc[u] /\ loc'[u] = loc[u]
      /\ loc'[t].np = np /\ loc'[t].ptr.page = first /\ loc'[t].size = loc[t].size
  BY <1>1
<1>6. Whole(Pending(t))'
  <2>1. Pending(t)' = [page |-> first, np |-> np]
    BY <1>5 DEF Pending
  <2>2. ObjectPages(Pending(t))' = first .. (first + np - 1)
    BY <2>1 DEF ObjectPages
  <2>3. \A q \in first .. (first + np - 1) : q \in Pages
    BY <1>1, <1>2 DEF Pages
  <2> QED
    BY <1>4, <2>2, <2>3 DEF Whole
<1>7. NewApart /\ (Quiet' => Quiet)
  BY <1>1, <1>5, QuietStays DEF NewApart
<1>8. \A u \in Threads : pc'[u] \in {"lock_pop", "pop", "lock_big", "mmap_big", "header"} =>
        loc'[u].size \in Sizes
  BY <1>1, <1>5 DEF HeldInv, SizesAsked
<1>9. \A u \in Threads : pc'[u] = "header" =>
        \/ pc[u] = "header" /\ loc'[u] = loc[u]
        \/ Whole(Pending(u))'
  BY <1>1, <1>5, <1>6
<1> QED
  BY <1>1, <1>4, <1>5, <1>7, <1>8, <1>9, HeldKept

-----------------------------------------------------------------------------
(* xxfree.                                                                 *)

\* The pages of an object the program holds are read without a fault.
LEMMA ReadSizeHeld ==
  ASSUME HeldInv, NEW t \in Threads, Running, pc[t] = "idle",
         NEW o \in Known, o \in live \/ (CLIENT_MAY_MISUSE /\ o \in freed \cup Dying),
         NEW ptr \in Interior(o), ReadSize(t, o, ptr)
  PROVE  HeldInv'
<1>1. /\ IInv /\ IInv' /\ pc \in [Threads -> Labels]
      /\ loc \in [Threads -> [size : Nat, ptr : Ptr, np : Nat, i : Nat, obj : Object]]
      /\ o # NoObject /\ loc[t].obj = NoObject
  BY ReadSizeStep, NoObjectUnknown DEF HeldInv, IInv, TypeOK, LocalsSound
<1>2. Innocent => o \in live /\ Whole(o)
  BY DEF Innocent, HeldInv, HeldMapped
<1>3. CASE ~Readable(ptr)
  <2>1. ~Innocent
    BY <1>1, <1>2, <1>3, InteriorPage, WholeReadable
  <2> QED
    BY <1>3, <2>1, ExitHeld DEF ReadSize
<1>4. CASE Readable(ptr)
  <2>1. /\ UNCHANGED <<mem, freed, exited>> /\ live' = live \ {o}
        /\ loc'[t].obj = o
        /\ pc'[t] \in {"obj_start", "lock_push"}
        /\ \A u \in Threads \ {t} : pc'[u] = pc[u] /\ loc'[u] = loc[u]
    BY <1>1, <1>4 DEF ReadSize, Goto, heapVars
  <2>2. Dying' = Dying \cup {o}
    BY <1>1, <2>1 DEF Dying
  <2>3. (Innocent' => Innocent) /\ (Quiet' => Quiet) /\ (~CLIENT_MAY_MISUSE => Innocent)
    BY <2>1, <2>2, QuietStays DEF Innocent
  <2>4. \A u \in Threads : pc'[u] = "header" => /\ pc[u] = "header"
                                                /\ Pending(u)' = Pending(u)
    BY <2>1 DEF Pending
  <2>5. HeldApart'
    BY <2>1, <2>2 DEF HeldInv, HeldApart
  <2>6. HeldMapped'
    BY <2>1, <2>3, <2>4 DEF HeldInv, HeldMapped, Whole, Mapped, ObjectPages
  <2>7. FreedOnce'
    <3>1. ASSUME ~CLIENT_MAY_MISUSE
          PROVE  Whole(o)' /\ \A u \in Threads \ {t} : loc[u].obj # o
      <4>1. o \in live /\ Whole(o)
        BY <1>2, <2>3, <3>1
      <4>2. o \notin Dying
        BY <4>1 DEF HeldInv, HeldApart
      <4> QED
        BY <1>1, <2>1, <4>1, <4>2 DEF Whole, Mapped, ObjectPages, Dying
    <3>2. ASSUME ~CLIENT_MAY_MISUSE, NEW u \in Threads \ {t}, loc'[u].obj # NoObject
          PROVE  /\ Whole(loc[u].obj)'
                 /\ \A v \in Threads \ {u} : loc'[v].obj # loc'[u].obj
      <4>1. /\ loc'[u] = loc[u] /\ Whole(loc[u].obj)
            /\ \A v \in Threads \ {u} : loc[v].obj # loc[u].obj
        BY <2>1, <3>2 DEF HeldInv, FreedOnce
      <4> QED
        BY <2>1, <3>1, <3>2, <4>1 DEF Whole, Mapped, ObjectPages
    <3> QED
      BY <2>1, <3>1, <3>2 DEF FreedOnce
  <2>8. Faultless' /\ SizesAsked'
    BY <2>1 DEF HeldInv, Faultless, Running, SizesAsked
  <2> QED
    BY <1>1, <2>5, <2>6, <2>7, <2>8 DEF HeldInv
<1> QED
  BY <1>3, <1>4

\* A free that returns unmaps the pages of its object and of no other.
LEMMA FreedHeld ==
  ASSUME HeldInv, IInv', NEW t \in Threads, Running, pc[t] \in {"munmap", "mremap"},
         pc[t] = "mremap" => ~(loc[t].i > 1),
         loc[t].obj # NoObject, Return(t),
         freed' = freed \cup {loc[t].obj}, UNCHANGED <<live, exited>>,
         \A q \in Pages \ ObjectPages(loc[t].obj) : Mapped(q) => Mapped(q)'
  PROVE  HeldInv'
<1>0. PICK o : o = loc[t].obj
  OBVIOUS
<1>1. /\ IInv /\ o # NoObject /\ o \in Dying /\ o \in Known
      /\ o \notin live
      /\ \A u \in Threads \ {t} : pc'[u] = pc[u] /\ loc'[u] = loc[u]
      /\ pc'[t] = "idle" /\ loc'[t].obj = NoObject
      /\ Dying' \subseteq Dying
  <2>1. o \in Dying
    BY <1>0 DEF Dying
  <2>2. loc'[t].obj = NoObject
    BY DEF HeldInv, IInv, TypeOK, Return, NoLocals
  <2>3. IInv /\ TypeOK
    BY DEF HeldInv, IInv
  <2> QED
    BY <1>0, <2>1, <2>2, <2>3, ReturnLocals DEF HeldInv, HeldApart, Known
<1>2. \A a \in Known \ {o} : Whole(a) => Whole(a)'
  <2>1. \A a \in Known \ {o} : \A q \in ObjectPages(a) : q \in Pages \ ObjectPages(o)
    BY <1>1, ApartPages, KnownPages DEF IInv, Heap
  <2> QED
    BY <1>0, <2>1 DEF Whole, ObjectPages
<1>3. \A u \in Threads : pc[u] = "header" /\ Whole(Pending(u)) /\ loc'[u] = loc[u] =>
        Whole(Pending(u))'
  <2>1. ASSUME NEW u \in Threads, pc[u] = "header", Whole(Pending(u)), loc'[u] = loc[u]
        PROVE  Whole(Pending(u))'
    <3>1. \A q \in ObjectPages(Pending(u)) : q \in Pages \ ObjectPages(o)
      BY <1>1, <2>1, PendingPages
    <3>2. Pending(u)' = Pending(u)
      BY <2>1 DEF Pending
    <3> QED
      BY <1>0, <2>1, <3>1, <3>2 DEF Whole, ObjectPages
  <2> QED
    BY <2>1
<1>4. (Innocent' => Innocent) /\ (Quiet' => Quiet)
  BY <1>0, <1>1, QuietStays DEF Innocent
<1>5. HeldApart'
  BY <1>0, <1>1 DEF HeldInv, HeldApart
<1>6. HeldMapped'
  <2>1. \A x \in live : x \in Known \ {o}
    BY <1>1 DEF Known
  <2> QED
    BY <1>1, <1>2, <1>3, <1>4, <2>1 DEF HeldInv, HeldMapped
<1>7. FreedOnce'
  <2>1. ASSUME ~CLIENT_MAY_MISUSE, NEW u \in Threads, loc'[u].obj # NoObject
        PROVE  /\ Whole(loc[u].obj)'
               /\ \A v \in Threads \ {u} : loc'[v].obj # loc'[u].obj
    <3>1. u # t /\ loc'[u] = loc[u]
      BY <1>1, <2>1
    <3>2. /\ Whole(loc[u].obj)
          /\ \A v \in Threads \ {u} : loc[v].obj # loc[u].obj
      BY <2>1, <3>1 DEF HeldInv, FreedOnce
    <3>3. loc[u].obj \in Known \ {o}
      BY <1>0, <2>1, <3>1, <3>2 DEF Known, Dying
    <3>4. Whole(loc[u].obj)'
      BY <1>2, <3>1, <3>2, <3>3 DEF Whole
    <3> QED
      BY <1>1, <2>1, <3>1, <3>2, <3>4
  <2> QED
    BY <2>1 DEF FreedOnce
<1>8. Faultless' /\ SizesAsked'
  BY <1>1 DEF HeldInv, Faultless, Running, SizesAsked
<1> QED
  BY <1>5, <1>6, <1>7, <1>8 DEF HeldInv

LEMMA MunmapHeld ==
  ASSUME Reliable, HeldInv, NEW t \in Threads, Munmap(t)
  PROVE  HeldInv'
<1>1. /\ IInv /\ IInv' /\ pc[t] = "munmap" /\ Running /\ LargeFree(t)
      /\ loc[t].ptr.page = loc[t].obj.page
  BY MunmapStep DEF HeldInv, IInv, LocalsSound, Munmap
<1>2. /\ mem' = Unmapping(mem, ObjectPages(loc[t].obj))
      /\ freed' = freed \cup {loc[t].obj} /\ UNCHANGED <<live, exited>> /\ Return(t)
      /\ loc[t].obj # NoObject
  BY <1>1 DEF Munmap, Reliable, LargeFree, ObjectPages
<1>3. \A q \in Pages \ ObjectPages(loc[t].obj) : Mapped(q) => Mapped(q)'
  BY <1>2 DEF Unmapping, Mapped
<1> QED
  BY <1>1, <1>2, <1>3, FreedHeld

LEMMA MremapAndPushHeld ==
  ASSUME Reliable, HeldInv, NEW t \in Threads, MremapAndPush(t)
  PROVE  HeldInv'
<1>0. PICK o, p, page :
        /\ o = loc[t].obj /\ p = loc[t].ptr.page
        /\ page = WithLink(mem[p], g_flsts[mem[p].head].top_of_stack)
  OBVIOUS
<1>1. /\ IInv /\ IInv' /\ pc[t] = "mremap" /\ Running /\ SmallFree(t) /\ TypeOK /\ Watermarks
      /\ ObjectsSound
  BY MremapAndPushStep DEF HeldInv, IInv, LocalsSound, MremapAndPush, Heap
<1>2. /\ mem' = [MremapCleared(p, loc[t].i) EXCEPT ![p] = UNMAPPED, ![high_vaddr] = page]
      /\ ~MremapRefused(p, loc[t].i) /\ Mapped(p) /\ high_vaddr < SMALL_CAP
      /\ freed' = freed \cup {o} /\ UNCHANGED <<live, exited>> /\ Return(t)
  BY Zenon, <1>0 DEF MremapAndPush, Mremapped
<1>3. /\ o # NoObject /\ ~IsLarge(o) /\ p = o.page /\ o \in Known
      /\ high_vaddr \in Nat /\ high_vaddr \in Pages /\ high_vaddr < VADDR_END /\ VADDR_END \in Nat
      /\ loc[t].i \in Nat
  <2>1. o # NoObject /\ ~IsLarge(o) /\ p = o.page /\ o \in Known
    BY Zenon, <1>0, <1>1 DEF SmallFree, Known, Dying
  <2>2. /\ high_vaddr \in Nat /\ high_vaddr \in Pages /\ high_vaddr < VADDR_END /\ VADDR_END \in Nat
    BY <1>1, <1>2, SmallRoom
  <2>3. loc[t].i \in Nat
    BY <1>1 DEF TypeOK
  <2> QED
    BY <2>1, <2>2, <2>3
<1>4. loc[t].i = 1
  <2>1. loc[t].i >= 1 /\ ~(loc[t].i > 1)
    <3>1. loc[t].obj = o /\ Mapped(o.page)
      BY Zenon, <1>0, <1>2, <1>3
    <3> QED
      BY <1>1, <1>3, <3>1 DEF SmallFree
  <2> QED
    BY <1>3, <2>1
<1>5. p \in Nat /\ p \in Pages /\ p \in ObjectPages(o)
  BY <1>1, <1>3, KnownObjects, ObjectBounds DEF Object, ObjectPages
<1>6. \A q \in Pages \ ObjectPages(o) : q # high_vaddr => mem'[q] = mem[q]
  <2>1. (p + 1) .. (p + loc[t].i - 1) = {}
    BY <1>4, <1>5
  <2>2. MremapCleared(p, loc[t].i) = [q \in Pages |-> IF q = high_vaddr THEN UNMAPPED ELSE mem[q]]
    BY <2>1 DEF MremapCleared, Unmapping
  <2> QED
    BY <1>2, <1>5, <2>2
<1>7. ~Mapped(high_vaddr)
  BY <1>1, <1>2, <1>3, SmallRoom, NuafAssumption DEF Watermarks, NuafAssumption
<1>8. \A q \in Pages \ ObjectPages(o) : Mapped(q) => Mapped(q)'
  BY <1>6, <1>7 DEF Mapped
<1>9. ~(loc[t].i > 1)
  BY <1>4
<1>10. /\ loc[t].obj # NoObject /\ freed' = freed \cup {loc[t].obj}
       /\ \A q \in Pages \ ObjectPages(loc[t].obj) : Mapped(q) => Mapped(q)'
  BY Zenon, <1>0, <1>2, <1>3, <1>8
<1> QED
  BY <1>1, <1>2, <1>9, <1>10, FreedHeld

\* mremap fails at an object that has been freed before, or at the end of the
\* address space, where it leaves the memory as it is.
LEMMA MremapFailsHeld ==
  ASSUME Reliable, HeldInv, NEW t \in Threads, MremapFails(t)
  PROVE  HeldInv'
<1>0. PICK o, p, i : o = loc[t].obj /\ p = loc[t].ptr.page /\ i = loc[t].i
  OBVIOUS
<1>1. /\ IInv /\ IInv' /\ pc[t] = "mremap" /\ Running /\ SmallFree(t)
      /\ pc \in [Threads -> Labels]
      /\ loc \in [Threads -> [size : Nat, ptr : Ptr, np : Nat, i : Nat, obj : Object]]
      /\ loc' = [loc EXCEPT ![t].i = i + 1]
      /\ UNCHANGED <<high_vaddr, live, freed, exited>>
  BY <1>0, MremapFailsStep DEF HeldInv, IInv, TypeOK, LocalsSound, MremapFails
<1>2. PICK label \in {"reenter", "mremap"} : pc' = [pc EXCEPT ![t] = label]
  <2>1. pc = [pc EXCEPT ![t] = "mremap"]
    BY <1>1
  <2> QED
    BY <2>1 DEF MremapFails, Reenters
<1>3. /\ o # NoObject /\ ~IsLarge(o) /\ p = o.page /\ i \in Nat /\ i >= 1
      /\ o \in Known /\ o \in Dying /\ p \in ObjectPages(o)
      /\ p \in Nat /\ p < high_vaddr /\ high_vaddr \in Nat
  <2>1. /\ o # NoObject /\ ~IsLarge(o) /\ p = o.page /\ i \in Nat /\ i >= 1
        /\ o \in Known /\ o \in Dying /\ TypeOK /\ Watermarks /\ ObjectsSound
    BY <1>0, <1>1 DEF SmallFree, Known, Dying, IInv, Heap
  <2>2. o.page \in Nat /\ o.np = 1 /\ o.page < high_vaddr
    BY <2>1, KnownObjects, ObjectBounds
  <2> QED
    BY <2>1, <2>2 DEF ObjectPages, TypeOK
<1>4. /\ \A u \in Threads \ {t} : pc'[u] = pc[u] /\ loc'[u] = loc[u]
      /\ \A u \in Threads : loc'[u].obj = loc[u].obj
      /\ pc'[t] \in {"reenter", "mremap"} /\ loc'[t].i = i + 1
  BY <1>1, <1>2
<1>5. ~Quiet'
  BY <1>3, <1>4 DEF Quiet, Retrying
<1>6. Dying' = Dying /\ Innocent' = Innocent
  BY <1>1, <1>4, DyingSame DEF Innocent
<1>7. CASE Innocent
  <2>1. Mapped(p)
    <3>1. Whole(o)
      BY <1>0, <1>3, <1>7 DEF Innocent, HeldInv, FreedOnce
    <3> QED
      BY <1>3, <3>1 DEF Whole
  <2>2. MremapRefused(p, i)
    BY <1>0, <2>1 DEF MremapFails, Reliable
  <2>3. mem' = mem
    BY <1>0, <2>2 DEF MremapFails
  <2>4. NewApart /\ \A q \in Pages : Mapped(q) => Mapped(q)'
    BY <1>1, <2>3 DEF NewApart, Mapped
  <2>5. \A u \in Threads : pc'[u] \in {"lock_pop", "pop", "lock_big", "mmap_big", "header"} =>
          pc[u] = pc'[u] /\ loc'[u] = loc[u]
    BY <1>4
  <2> QED
    BY <1>1, <1>4, <1>5, <2>4, <2>5, HeldKept DEF HeldInv, SizesAsked
<1>8. CASE ~Innocent
  <2>1. HeldApart' /\ HeldMapped' /\ FreedOnce'
    BY <1>1, <1>5, <1>6, <1>8 DEF HeldInv, HeldApart, HeldMapped, FreedOnce, Innocent
  <2>2. Faultless' /\ SizesAsked'
    BY <1>1, <1>4 DEF HeldInv, Faultless, Running, SizesAsked
  <2> QED
    BY <1>1, <2>1, <2>2 DEF HeldInv
<1> QED
  BY <1>7, <1>8

-----------------------------------------------------------------------------
(* The invariant holds initially and every step keeps it.                  *)

LEMMA InitHeldInv ==
  ASSUME Init
  PROVE  HeldInv
<1>1. /\ live = {} /\ freed = {} /\ exited = "no"
      /\ \A t \in Threads : pc[t] = "idle" /\ loc[t].obj = NoObject
  BY DEF Init, NoLocals
<1> QED
  BY <1>1, InitIInv
  DEF HeldInv, HeldApart, HeldMapped, FreedOnce, Faultless, SizesAsked

LEMMA StutterHeld ==
  ASSUME HeldInv, UNCHANGED vars
  PROVE  HeldInv'
<1>1. UNCHANGED <<mem, pc, loc, live, freed, exited>> /\ IInv'
  BY StutterStep DEF vars, HeldInv
<1>2. NewApart /\ (Quiet' => Quiet)
  BY <1>1 DEF NewApart, Quiet, Retrying
<1> QED
  BY <1>1, <1>2, HeldKept DEF HeldInv, SizesAsked, Mapped

LEMMA NextHeldInv ==
  ASSUME Reliable, HeldInv, [Next]_vars
  PROVE  HeldInv'
<1>1. ASSUME NEW t \in Threads, Step(t)
      PROVE  HeldInv'
  BY <1>1, LocksHeld, PopFreshHeld, FailureHeld, PopTopHeld, MmapBigHeld, WriteHeaderHeld,
     get_obj_startHeld, MunmapHeld, MremapAndPushHeld, MremapFailsHeld
  DEF Step
<1>2. ASSUME NEW t \in Threads, Client(t)
      PROVE  HeldInv'
  <2>1. CASE xxfree(t)
    BY <2>1, ReadSizeHeld DEF xxfree, Known
  <2>2. CASE FreeAgain(t)
    BY <2>2, ReadSizeHeld DEF FreeAgain, Known
  <2> QED
    BY <1>2, <2>1, <2>2, xxmallocHeld, LocksHeld, StoreHeld DEF Client
<1> QED
  BY <1>1, <1>2, StutterHeld DEF Next

THEOREM HeldInvariance ==
  ASSUME Reliable
  PROVE  Spec => []HeldInv
<1>1. Init => HeldInv
  BY InitHeldInv
<1>2. HeldInv /\ [Next]_vars => HeldInv'
  BY NextHeldInv
<1> QED
  BY <1>1, <1>2, PTL DEF Spec

-----------------------------------------------------------------------------
(* The theorems.                                                           *)

\* A program that does not misuse freed objects is never ended by the SIGSEGV
\* handler: freelist_pop, xxmalloc_big, xxfree and the program itself touch
\* mapped pages only, in whatever order the threads run.
THEOREM OnlyMisuseFaults ==
  ASSUME Reliable
  PROVE  Spec => []NoFalsePositive
<1>1. HeldInv => NoFalsePositive
  BY DEF HeldInv, Faultless, NoFalsePositive, Innocent
<1> QED
  BY <1>1, HeldInvariance, PTL

\* From every byte of an object the program holds, get_obj_start finds where
\* the object begins and xxmalloc_usable_size a size that is enough, while
\* other threads allocate, free and store.
THEOREM EveryInteriorPointerResolves ==
  ASSUME Reliable
  PROVE  Spec => []InteriorResolves
<1>1. ASSUME HeldInv, ~Retrying, NEW o \in live, NEW ptr \in Interior(o)
      PROVE  /\ Readable(ptr)
             /\ ObjStart(ptr) = [page |-> o.page, off |-> IF IsLarge(o) THEN 0 ELSE o.off]
             /\ UsableSize(ptr) >= o.size
  <2>1. /\ IInv /\ TypeOK /\ Watermarks /\ SmallHeads /\ ObjectsSound /\ o \in Known /\ Whole(o)
    BY <1>1 DEF HeldInv, HeldMapped, Quiet, Known, IInv, Heap
  <2>2. ptr \in Ptr /\ ptr.page \in ObjectPages(o) /\ (IsLarge(ptr) <=> IsLarge(o))
    BY <2>1, InteriorPage
  <2>3. Readable(ptr)
    BY <2>1, <2>2, WholeReadable
  <2>4. /\ o.page \in Nat /\ o.np \in Nat \ {0} /\ o.size \in Nat /\ o.page \in ObjectPages(o)
        /\ Mapped(o.page)
    BY <2>1, KnownObjects, ObjectBounds DEF ObjectPages, Whole
  <2>5. CASE IsLarge(o)
    <3>1. /\ ObjStart(ptr) = [page |-> o.page, off |-> 0]
          /\ UsableSize(ptr) = LargeUsable(o.np)
      BY <2>1, <2>3, <2>5, LargeInterior, LargeSearch
    <3>2. o.np = NumPages(o.size)
      BY <2>1, <2>5 DEF ObjectsSound, LargeObject
    <3> QED
      BY <2>3, <2>4, <2>5, <3>1, <3>2, LargeFits
  <2>6. CASE ~IsLarge(o)
    <3>1. ptr.page = o.page /\ ObjStart(ptr) = [page |-> o.page, off |-> o.off]
      BY <2>1, <2>4, <2>6, SmallInterior
    <3>2. UsableSize(ptr) = BlockSize(mem[o.page].head)
      BY <2>2, <2>6, <3>1 DEF UsableSize
    <3>3. o.size <= BlockSize(mem[o.page].head) /\ mem[o.page].head \in BlockTypes
      BY <2>1, <2>4, <2>6, NuafAssumption, KnownObjects
      DEF ObjectsSound, SmallObject, SmallHeads, IsLarge, Object, NuafAssumption
    <3>4. BlockSize(mem[o.page].head) \in Nat
      BY <3>3, BlockSizes
    <3> QED
      BY <2>3, <2>4, <2>6, <3>1, <3>2, <3>3, <3>4
  <2> QED
    BY <2>5, <2>6
<1>2. HeldInv => InteriorResolves
  BY <1>1 DEF InteriorResolves
<1> QED
  BY <1>2, HeldInvariance, PTL

\* A step moves one thread.
LEMMA OneMoves ==
  ASSUME TypeOK, NEW u \in Threads, Step(u) \/ Client(u), NEW t \in Threads \ {u}
  PROVE  pc'[t] = pc[t] /\ loc'[t] = loc[t]
<1>1. /\ pc \in [Threads -> Labels]
      /\ loc \in [Threads -> [size : Nat, ptr : Ptr, np : Nat, i : Nat, obj : Object]]
  BY DEF TypeOK
<1>2. pc' = pc \/ \E label : pc' = [pc EXCEPT ![u] = label]
  BY Zenon
  DEF Step, Client, LockSmall, PopFresh, PopFails, PopTop, LockBig, MmapBig, MmapBigFails,
      WriteHeader, get_obj_start, Munmap, MremapAndPush, MremapFails, MremapGivesUp, LockAllSmall,
      LockAllBig, xxmalloc_unlock, xxmalloc, xxfree, FreeAgain, ReadSize, xxmalloc_lock, Store,
      ReturnSmall, Reenters, Return, Goto, Exit
<1>3. \/ loc' = loc
      \/ Return(u) \/ MmapBig(u) \/ MremapFails(u) \/ get_obj_start(u)
      \/ \E x : loc' = [loc EXCEPT ![u] = x]
      \/ \E size \in Sizes : xxmalloc(u, size)
  BY Zenon
  DEF Step, Client, LockSmall, PopFresh, PopFails, PopTop, LockBig, MmapBigFails, WriteHeader,
      Munmap, MremapAndPush, MremapGivesUp, LockAllSmall, LockAllBig, xxmalloc_unlock, xxfree,
      FreeAgain, ReadSize, xxmalloc_lock, Store, ReturnSmall, Exit
<1>4. loc'[t] = loc[t]
  BY <1>1, <1>3 DEF Return, MmapBig, MremapFails, get_obj_start, xxmalloc, Exit
<1> QED
  BY <1>1, <1>2, <1>4

\* A free that has been retried does not succeed.
LEMMA QuietNext ==
  ASSUME IInv, [Next]_vars
  PROVE  Quiet' => Quiet
<1>1. SUFFICES ASSUME NEW t \in Threads, pc[t] \in {"mremap", "reenter"}, loc[t].i > 1,
                      NEW u \in Threads, Step(u) \/ Client(u)
               PROVE  pc'[t] \in {"mremap", "reenter"} /\ loc'[t].i > 1
  BY DEF Quiet, Retrying, Next, vars
<1>2. /\ TypeOK /\ (SmallFree(t) \/ pc[t] = "reenter")
      /\ pc \in [Threads -> Labels]
      /\ loc \in [Threads -> [size : Nat, ptr : Ptr, np : Nat, i : Nat, obj : Object]]
  BY <1>1 DEF IInv, LocalsSound, TypeOK
<1>3. CASE u # t
  BY <1>1, <1>2, <1>3, OneMoves
<1>4. CASE u = t
  <2>1. ~MremapAndPush(t)
    BY <1>1, <1>2 DEF MremapAndPush, MremapRefused, SmallFree
  <2>2. MremapFails(t) \/ MremapGivesUp(t)
    BY <1>1, <1>4, <2>1
    DEF Step, Client, LockSmall, PopFresh, PopFails, PopTop, LockBig, MmapBig, MmapBigFails,
        WriteHeader, get_obj_start, Munmap, LockAllSmall, LockAllBig, xxmalloc_unlock, xxmalloc,
        xxfree, FreeAgain, xxmalloc_lock, Store
  <2> QED
    BY <1>1, <1>2, <2>2 DEF MremapFails, MremapGivesUp, Reenters, Exit
<1> QED
  BY <1>3, <1>4

\* Of the calls that free one small object only one returns: mremap finds the
\* page of the object gone, also when several calls have read its metadata
\* before the first of them moved it.
THEOREM SecondSmallFreeNeverReturns ==
  ASSUME Reliable
  PROVE  Spec => SmallDoubleFreeCaught
<1>1. ASSUME IInv, NEW t \in Threads, [Next]_vars, loc[t].obj \in freed, ~IsLarge(loc[t].obj)
      PROVE  pc'[t] # "idle"
  <2>1. /\ TypeOK /\ pc \in [Threads -> Labels] /\ LocalsSound(t)
        /\ loc[t].obj \in Known /\ loc[t].obj # NoObject
    BY <1>1, NoObjectUnknown DEF IInv, TypeOK, Known
  <2>2. pc[t] \in {"lock_push", "mremap", "reenter"}
    BY <1>1, <2>1 DEF LocalsSound, LargeFree, Labels
  <2>3. CASE pc'[t] = pc[t]
    BY <2>2, <2>3
  <2>4. ASSUME NEW u \in Threads, Step(u) \/ Client(u), u # t
        PROVE  pc'[t] = pc[t]
    BY <2>1, <2>4, OneMoves
  <2>5. CASE Step(t) \/ Client(t)
    <3>1. ~MremapAndPush(t)
      <4>1. SUFFICES ASSUME MremapAndPush(t)
            PROVE  FALSE
        OBVIOUS
      <4>2. Mapped(loc[t].obj.page)
        BY <2>1, <4>1 DEF MremapAndPush, LocalsSound, SmallFree
      <4>3. loc[t].obj.page \in ObjectPages(loc[t].obj)
        BY <1>1, <2>1, KnownObjects, ObjectBounds DEF IInv, Heap, ObjectPages
      <4> QED
        BY <1>1, <4>2, <4>3 DEF IInv, Heap, StaleUnmapped, PagesOf
    <3>2. LockSmall(t) \/ MremapFails(t) \/ MremapGivesUp(t)
      BY <2>2, <2>5, <3>1
      DEF Step, Client, PopFresh, PopFails, PopTop, LockBig, MmapBig, MmapBigFails, WriteHeader,
          get_obj_start, Munmap, LockAllSmall, LockAllBig, xxmalloc_unlock, xxmalloc, xxfree,
          FreeAgain, xxmalloc_lock, Store
    <3> QED
      BY <2>1, <2>2, <3>2
      DEF LockSmall, MremapFails, MremapGivesUp, Goto, Reenters, Exit
  <2> QED
    BY <1>1, <2>3, <2>4, <2>5 DEF Next, vars
<1>2. IInv /\ [Next]_vars =>
        [\A t \in Threads :
           loc[t].obj \in freed /\ ~IsLarge(loc[t].obj) => pc'[t] # "idle"]_vars
  BY <1>1
<1> QED
  BY <1>2, Invariance, PTL DEF Spec, SmallDoubleFreeCaught

-----------------------------------------------------------------------------
(* Nuaf implements SafeHeap: every step is one of SafeHeap or changes none *)
(* of its variables.                                                       *)

Unseen == live' = live /\ Dying' \ freed' = Dying \ freed /\ freed' = freed /\ exited' = exited

LEMMA UnseenStutters ==
  ASSUME Unseen
  PROVE  UNCHANGED Safe!heap
BY DEF Unseen, Safe!heap

\* The process ends: it runs out of memory, or uses memory it has freed.
LEMMA ExitSafe ==
  ASSUME HeldInv', Running, NEW how \in {"exit", "segv"}, Exit(how)
  PROVE  Safe!Next
<1>1. live' = live /\ freed' = freed /\ exited' = how /\ exited = "no" /\ Dying' = Dying
  BY DEF Exit, Running, Dying
<1>2. CASE how = "exit"
  BY <1>1, <1>2 DEF Safe!Next, Safe!Abort
<1>3. CASE how = "segv"
  <2>1. ~Innocent'
    BY <1>1, <1>3 DEF HeldInv, Faultless
  <2>2. CLIENT_MAY_MISUSE /\ Dying \cup freed # {}
    BY <1>1, <2>1 DEF Innocent
  <2>3. (Dying \ freed) \cup freed # {}
    BY <2>2
  <2> QED
    BY <1>1, <1>3, <2>2, <2>3 DEF Safe!Next, Safe!Fault
<1> QED
  BY <1>2, <1>3

\* malloc returns an object no address of which was in another one.
LEMMA MallocSafe ==
  ASSUME IInv, IInv', NewApart, Running, NEW t \in Threads, pc[t] \in {"pop", "header"}, Return(t),
         NEW new, live' = live \cup {new}, UNCHANGED <<freed, exited>>,
         new.np \in {1} \cup {NumPages(size) : size \in Sizes}, new.size \in Sizes
  PROVE  Unseen \/ Safe!Next
<1>1. Dying' = Dying
  <2>1. loc[t].obj = NoObject
    BY DEF IInv, LocalsSound
  <2> QED
    BY <2>1, ReturnLocals DEF IInv
<1>2. CASE new \in live
  BY <1>1, <1>2 DEF Unseen
<1>3. CASE new \notin live
  <2>1. new \in Object
    BY DEF IInv, TypeOK
  <2>2. new \in [page : Pages, off : 0 .. (PAGE_SIZE - 1),
                 np : {1} \cup {NumPages(size) : size \in Sizes}, size : Sizes]
    BY <2>1 DEF Object
  <2>3. new.page \in Nat /\ new.np \in Nat
    BY <2>1, NuafAssumption DEF Object, Pages, NuafAssumption
  <2>4. ASSUME NEW k \in Known
        PROVE  Safe!Span(new) \cap Safe!Span(k) = {}
    <3>1. k.page \in Nat /\ k.np \in Nat
      BY KnownObjects DEF IInv
    <3>2. Apart(new, k)
      BY <1>3 DEF NewApart
    <3> QED
      BY <2>3, <3>1, <3>2 DEF Apart, Safe!Span
  <2>5. Safe!Known = Known
    BY DEF Safe!Known, Known
  <2>6. Safe!Malloc(new)
    BY <1>1, <2>4, <2>5 DEF Safe!Malloc, Running
  <2> QED
    BY <2>2, <2>6 DEF Safe!Next
<1> QED
  BY <1>2, <1>3

\* xxfree is called: for an object the program holds, or once more.
LEMMA FreeCalledSafe ==
  ASSUME HeldInv, HeldInv', NEW t \in Threads, Running, pc[t] = "idle",
         NEW o \in Known, NEW ptr \in Interior(o), ReadSize(t, o, ptr)
  PROVE  Unseen \/ Safe!Next
<1>1. CASE ~Readable(ptr)
  BY <1>1, ExitSafe DEF ReadSize
<1>2. CASE Readable(ptr)
  <2>1. /\ loc[t].obj = NoObject /\ o # NoObject
        /\ loc \in [Threads -> [size : Nat, ptr : Ptr, np : Nat, i : Nat, obj : Object]]
    BY NoObjectUnknown DEF HeldInv, IInv, TypeOK, LocalsSound
  <2>2. /\ live' = live \ {o} /\ freed' = freed /\ exited' = exited
        /\ loc'[t].obj = o /\ \A u \in Threads \ {t} : loc'[u] = loc[u]
    BY <1>2, <2>1 DEF ReadSize
  <2>3. Dying' = Dying \cup {o}
    BY <2>1, <2>2 DEF Dying
  <2>4. CASE o \in live
    <3>1. o \notin freed
      BY <2>4 DEF HeldInv, HeldApart
    <3>2. Dying' \ freed' = (Dying \ freed) \cup {o}
      BY <2>2, <2>3, <3>1
    <3>3. Safe!FreeCalled(o)
      BY <2>2, <2>4, <3>2 DEF Safe!FreeCalled, Running
    <3> QED
      BY <2>4, <3>3 DEF Safe!Next
  <2>5. CASE o \notin live
    BY <2>2, <2>3, <2>5 DEF Unseen, Known
  <2> QED
    BY <2>4, <2>5
<1> QED
  BY <1>1, <1>2

\* A call that frees an object returns: the first one, or one after it.
LEMMA FreeReturnsSafe ==
  ASSUME TypeOK, NEW t \in Threads, Running, loc[t].obj # NoObject, Return(t),
         freed' = freed \cup {loc[t].obj}, UNCHANGED <<live, exited>>
  PROVE  Unseen \/ Safe!Next
<1>1. PICK o : o = loc[t].obj
  OBVIOUS
<1>2. Dying' \subseteq Dying /\ Dying \subseteq Dying' \cup {o}
  BY <1>1, ReturnLocals
<1>3. o \in Dying /\ freed' = freed \cup {o}
  BY <1>1 DEF Dying
<1>4. Dying' \ freed' = (Dying \ freed) \ {o}
  BY <1>2, <1>3
<1>5. CASE o \in freed
  BY <1>3, <1>4, <1>5 DEF Unseen
<1>6. CASE o \notin freed
  <2>1. o \in Dying \ freed /\ Safe!FreeReturns(o)
    BY <1>3, <1>4, <1>6 DEF Safe!FreeReturns, Running
  <2> QED
    BY <2>1 DEF Safe!Next
<1> QED
  BY <1>5, <1>6

\* The steps that neither hand out, take back nor free an object.
LEMMA OtherStepsSafe ==
  ASSUME HeldInv, HeldInv', NEW t \in Threads,
         \/ LockSmall(t) \/ PopFails(t) \/ LockBig(t) \/ MmapBig(t) \/ MmapBigFails(t)
         \/ get_obj_start(t) \/ MremapFails(t) \/ MremapGivesUp(t) \/ LockAllSmall(t)
         \/ LockAllBig(t) \/ xxmalloc_unlock(t) \/ xxmalloc_lock(t) \/ Store(t)
         \/ \E size \in Sizes : xxmalloc(t, size)
  PROVE  Unseen \/ Safe!Next
<1>1. loc \in [Threads -> [size : Nat, ptr : Ptr, np : Nat, i : Nat, obj : Object]]
  BY DEF HeldInv, IInv, TypeOK
<1>2. CASE (\E how \in {"exit", "segv"} : Exit(how)) /\ Running
  BY <1>2, ExitSafe
<1>3. CASE ~((\E how \in {"exit", "segv"} : Exit(how)) /\ Running)
  <2>1. UNCHANGED <<live, freed, exited>>
    BY Zenon, <1>3
    DEF LockSmall, PopFails, LockBig, MmapBig, MmapBigFails, get_obj_start, MremapFails,
        MremapGivesUp, LockAllSmall, LockAllBig, xxmalloc_unlock, xxmalloc_lock, Store, xxmalloc
  <2>2. \/ loc' = loc
        \/ MmapBig(t) \/ (get_obj_start(t) /\ loc' = [loc EXCEPT ![t].ptr = ObjStart(loc[t].ptr)])
        \/ MremapFails(t)
        \/ \E size \in Sizes : xxmalloc(t, size)
    BY Zenon, <1>3
    DEF LockSmall, PopFails, LockBig, MmapBigFails, get_obj_start,
        MremapGivesUp, LockAllSmall, LockAllBig, xxmalloc_unlock, xxmalloc_lock, Store
  <2>3. \A u \in Threads : loc'[u].obj = loc[u].obj
    <3>1. CASE MmapBig(t)
      BY <1>1, <3>1 DEF MmapBig
    <3>2. CASE MremapFails(t)
      BY <1>1, <3>2 DEF MremapFails
    <3>3. CASE \E size \in Sizes : xxmalloc(t, size)
      BY <1>1, <3>3 DEF xxmalloc
    <3>4. CASE get_obj_start(t) /\ loc' = [loc EXCEPT ![t].ptr = ObjStart(loc[t].ptr)]
      BY <1>1, <3>4
    <3> QED
      BY <2>2, <3>1, <3>2, <3>3, <3>4
  <2> QED
    BY <2>1, <2>3, DyingSame DEF Unseen
<1> QED
  BY <1>2, <1>3

LEMMA NextSafe ==
  ASSUME Reliable, HeldInv, HeldInv', [Next]_vars
  PROVE  [Safe!Next]_(Safe!heap)
<1>1. IInv /\ IInv' /\ NewApart /\ TypeOK
  BY NextNewApart DEF HeldInv, IInv
<1>2. CASE UNCHANGED vars
  <2>1. Unseen
    BY <1>2 DEF vars, Unseen, Dying
  <2> QED
    BY <2>1, UnseenStutters
<1>3. ASSUME NEW t \in Threads, PopFresh(t) \/ PopTop(t) \/ WriteHeader(t)
      PROVE  Unseen \/ Safe!Next
  <2>1. CASE Exit("segv")
    BY <1>3, <2>1, ExitSafe DEF PopFresh, PopTop, WriteHeader
  <2>2. /\ Running /\ pc[t] \in {"pop", "header"} /\ loc[t].size \in Sizes
    BY <1>3 DEF PopFresh, PopTop, WriteHeader, HeldInv, SizesAsked
  <2>3. CASE ~Exit("segv") /\ (PopFresh(t) \/ PopTop(t))
    <3>1. PICK ptr : ReturnSmall(t, ptr)
      BY Zenon, <2>3 DEF PopFresh, PopTop
    <3> DEFINE new == [page |-> ptr.page, off |-> ptr.off, np |-> 1, size |-> loc[t].size]
    <3>2. /\ live' = live \cup {new} /\ Return(t) /\ UNCHANGED <<freed, exited>>
          /\ new.np = 1 /\ new.size \in Sizes
      BY <2>2, <3>1 DEF ReturnSmall
    <3> HIDE DEF new
    <3> QED
      BY <1>1, <2>2, <3>2, MallocSafe
  <2>4. CASE ~Exit("segv") /\ WriteHeader(t)
    <3> DEFINE new == [page |-> loc[t].ptr.page, off |-> LARGE_HEADER,
                       np |-> loc[t].np, size |-> loc[t].size]
    <3>1. /\ live' = live \cup {new} /\ Return(t) /\ UNCHANGED <<freed, exited>>
      BY <2>4 DEF WriteHeader
    <3>2. loc[t].np = NumPages(loc[t].size)
      BY <1>1, <2>4 DEF IInv, LocalsSound, PendingSound, WriteHeader
    <3>3. new.np \in {NumPages(size) : size \in Sizes} /\ new.size \in Sizes
      BY <2>2, <3>2
    <3> HIDE DEF new
    <3> QED
      BY <1>1, <2>2, <3>1, <3>3, MallocSafe
  <2> QED
    BY <1>3, <2>1, <2>3, <2>4
<1>4. ASSUME NEW t \in Threads, Munmap(t) \/ MremapAndPush(t)
      PROVE  Unseen \/ Safe!Next
  <2>1. loc[t].obj # NoObject
    BY <1>1, <1>4 DEF Munmap, MremapAndPush, IInv, LocalsSound, LargeFree, SmallFree
  <2>2. Running /\ Return(t) /\ freed' = freed \cup {loc[t].obj} /\ UNCHANGED <<live, exited>>
    BY <1>4 DEF Munmap, MremapAndPush
  <2> QED
    BY <1>1, <2>1, <2>2, FreeReturnsSafe
<1>5. ASSUME NEW t \in Threads, xxfree(t) \/ FreeAgain(t)
      PROVE  Unseen \/ Safe!Next
  <2>1. /\ Running /\ pc[t] = "idle"
        /\ \E o \in Known : \E ptr \in Interior(o) : ReadSize(t, o, ptr)
    BY <1>5 DEF xxfree, FreeAgain, Known
  <2> QED
    BY <2>1, FreeCalledSafe
<1>6. ASSUME NEW t \in Threads, Step(t) \/ Client(t)
      PROVE  Unseen \/ Safe!Next
  BY <1>3, <1>4, <1>5, <1>6, OtherStepsSafe DEF Step, Client
<1> QED
  BY <1>2, <1>6, UnseenStutters DEF Next

\* The allocator implements SafeHeap, for every number of threads, objects and
\* pages: no address is ever in two objects, an object is freed by one call
\* however many are made, and only a program that misuses objects faults.
THEOREM KeepsSafeHeapPromise ==
  ASSUME Reliable
  PROVE  Spec => ImplementsSafeHeap
<1>1. Init => Safe!Init
  BY DEF Init, Safe!Init, Dying, NoLocals
<1>2. HeldInv /\ HeldInv' /\ [Next]_vars => [Safe!Next]_(Safe!heap)
  BY NextSafe
<1> QED
  BY <1>1, <1>2, HeldInvariance, PTL DEF Spec, ImplementsSafeHeap, Safe!Spec
=============================================================================
