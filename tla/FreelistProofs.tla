--------------------------- MODULE FreelistProofs ---------------------------
(***************************************************************************)
(* Freelists and the slots of the backing file.  First, what holds also    *)
(* when mmap, mremap and munmap fail: FaultInv, and with it TypeOK,        *)
(* NoReuse, ObjectsApart and SlotsDisjoint.  Then, when they do not: the   *)
(* freelists embedded in freed objects stay lists that hold every free     *)
(* page once.                                                              *)
(***************************************************************************)
EXTENDS HeapProofs

\* Slot s of class b ends before slot c of the class begins.
Before(b, s, c) == s.page < c.page \/ (s.page = c.page /\ s.off + BlockSize(b) <= c.off)

\* The pages of the file go round the classes; the slots in use come before
\* the next one of their class, and one before another.
Slots ==
  /\ \A b \in BlockTypes : g_flsts[b].high_canonical_addr.page % NUM_BLOCK_TYPES = b
  /\ \A p \in SmallMapped :
       /\ SlotOf(mem[p].head, mem[p].slot.off)
       /\ mem[p].slot.page % NUM_BLOCK_TYPES = mem[p].head
       /\ Before(mem[p].head, mem[p].slot, g_flsts[mem[p].head].high_canonical_addr)
  /\ \A p, q \in SmallMapped : p # q /\ mem[p].head = mem[q].head =>
       \/ Before(mem[p].head, mem[p].slot, mem[q].slot)
       \/ Before(mem[p].head, mem[q].slot, mem[p].slot)

\* Small pages are left alone or unmapped, but for their links.
SmallKept ==
  \A p \in Pages : p < LARGE_OBJ_VADDR_START /\ Mapped(p)' =>
    Mapped(p) /\ mem'[p].head = mem[p].head /\ mem'[p].slot = mem[p].slot

\* The next slot of a class comes after those before it.
LEMMA BeforeNext ==
  ASSUME NEW b \in BlockTypes, NEW c \in Addr, SlotOf(b, c.off), c.page % NUM_BLOCK_TYPES = b
  PROVE  /\ NextCanonical(b, c).page % NUM_BLOCK_TYPES = b
         /\ Before(b, c, NextCanonical(b, c))
         /\ \A s \in Addr : Before(b, s, c) => Before(b, s, NextCanonical(b, c))
<1>1. BlockSize(b) \in Nat \ {0} /\ NextCanonical(b, c) \in Addr
  BY BlockSizes, NextCanonicalSlot
<1> QED
  BY <1>1, NextCanonicalAdvances DEF Before, Addr

-----------------------------------------------------------------------------
(* The inductive invariant when system calls fail.  A failed mremap may     *)
(* leave a hole in a freelist and a failed munmap an object where it was,  *)
(* so that IInv is lost; the areas, the objects' places, the slots and     *)
(* where the freelists lead are not.                                       *)

\* A small object that has been freed is not where it was.
SmallStale == \A o \in freed : ~IsLarge(o) => ~Mapped(o.page)

\* What a pointer in a freelist of class b leads to: a free page of the class,
\* or a page that is not mapped and never will be.
LeadsTo(b, ptr) ==
  /\ ptr.page < high_vaddr
  /\ Mapped(ptr.page) =>
       ptr.page \in FreePages /\ mem[ptr.page].head = b /\ SlotOf(b, ptr.off)

\* No two pointers of the freelists lead to the same page, so that none leads
\* to a page after it has been popped.  (Tops of different classes lead to
\* pages of different classes.)
FreelistsApart ==
  /\ \A b \in BlockTypes : LeadsTo(b, g_flsts[b].top_of_stack)
  /\ \A p \in FreePages : LeadsTo(mem[p].head, mem[p].link)
  /\ \A b \in BlockTypes : \A p \in FreePages :
       Mapped(mem[p].link.page) => g_flsts[b].top_of_stack.page # mem[p].link.page
  /\ \A p, q \in FreePages :
       p # q /\ Mapped(mem[p].link.page) => mem[p].link.page # mem[q].link.page

\* The pages a thread has mapped and not yet made an object of.
PendingPlaced(t) ==
  /\ LARGE_OBJ_VADDR_START <= loc[t].ptr.page
  /\ loc[t].np = NumPages(loc[t].size)
  /\ loc[t].ptr.page + loc[t].np <= large_obj_next_page
  /\ \A o \in Known : Apart(Pending(t), o)
  /\ \A u \in Threads \ {t} : pc[u] = "header" => Apart(Pending(t), Pending(u))

\* A thread that frees a small object knows where it is; one that frees a
\* large object may have found the header of another.
FreePlaced(t) ==
  /\ loc[t].obj # NoObject
  /\ pc[t] \in {"obj_start", "munmap"} => IsLarge(loc[t].obj) /\ IsLarge(loc[t].ptr)
  /\ pc[t] \in {"lock_push", "mremap"} =>
       /\ ~IsLarge(loc[t].obj) /\ loc[t].ptr.page = loc[t].obj.page
       /\ Mapped(loc[t].obj.page) => loc[t].ptr.off = loc[t].obj.off

LocalsPlaced(t) ==
  /\ pc[t] \in {"lock_pop", "pop"} => loc[t].size <= LARGEST_BLOCK_SIZE
  /\ pc[t] = "header" => PendingPlaced(t)
  /\ pc[t] \in {"obj_start", "munmap", "lock_push", "mremap"} => FreePlaced(t)
  /\ pc[t] \notin {"obj_start", "munmap", "lock_push", "mremap", "reenter"} =>
       loc[t].obj = NoObject

HeapPlaced ==
  /\ Watermarks /\ SmallHeads /\ CanonicalSlots /\ Slots
  /\ ObjectsPlaced /\ SmallStale /\ FreelistsApart

FaultInv ==
  /\ TypeOK
  /\ HeapPlaced
  /\ \A t \in Threads : LocalsPlaced(t)

-----------------------------------------------------------------------------
(* Steps that leave the small pages, or only unmap some.                   *)

\* The small objects in use, and with them the free pages, are the same.
SmallInUseSame ==
  \A o : ~IsLarge(o) => (o \in (live \cup Dying)' <=> o \in live \cup Dying)

LEMMA FewerFreePages ==
  ASSUME SmallKept, SmallInUseSame
  PROVE  FreePages' = {p \in FreePages : Mapped(p)'}
<1>1. \A p \in SmallMapped' : p \in SmallMapped /\ p \in Pages /\ p < LARGE_OBJ_VADDR_START
  BY DEF SmallKept, SmallMapped
<1>2. \A p \in Pages : \A o : p < LARGE_OBJ_VADDR_START /\ o.page = p => ~IsLarge(o)
  BY NuafAssumption DEF Pages, IsLarge, NuafAssumption
<1>3. \A p \in SmallMapped : Mapped(p)' => p \in SmallMapped'
  BY DEF SmallMapped, Mapped
<1>4. \A p \in FreePages' : p \in FreePages /\ Mapped(p)'
  BY <1>1, <1>2 DEF FreePages, SmallInUseSame, SmallMapped
<1>5. \A p \in FreePages : Mapped(p)' => p \in FreePages'
  BY <1>2, <1>3 DEF FreePages, SmallInUseSame, SmallMapped
<1> QED
  BY <1>4, <1>5

\* Pointers of the freelists lead where they led, or to a page that is gone.
LEMMA ListsStayApart ==
  ASSUME FreelistsApart, SmallKept, SmallInUseSame, high_vaddr' = high_vaddr, g_flsts' = g_flsts,
         TypeOK, \A p \in FreePages : Mapped(p)' => mem'[p].link = mem[p].link,
         \A p \in Pages : p < high_vaddr /\ Mapped(p)' => Mapped(p)
  PROVE  FreelistsApart'
<1>1. FreePages' = {p \in FreePages : Mapped(p)'}
  BY FewerFreePages
<1>2. \A p \in FreePages' : /\ p \in FreePages /\ mem'[p].link = mem[p].link
                            /\ mem'[p].head = mem[p].head /\ mem[p].link \in Ptr
  BY <1>1 DEF SmallKept, FreePages, SmallMapped, TypeOK, Mapped, PageContent
<1>3. ASSUME NEW b, NEW ptr \in Ptr, LeadsTo(b, ptr)
      PROVE  LeadsTo(b, ptr)' /\ (Mapped(ptr.page)' => Mapped(ptr.page))
  <2>1. ptr.page \in Pages /\ ptr.page < high_vaddr /\ (Mapped(ptr.page)' => Mapped(ptr.page))
    BY <1>3 DEF LeadsTo, Ptr
  <2>2. Mapped(ptr.page)' => ptr.page \in FreePages' /\ mem'[ptr.page].head = b /\ SlotOf(b, ptr.off)
    BY <1>1, <1>2, <1>3, <2>1 DEF LeadsTo
  <2> QED
    BY <2>1, <2>2 DEF LeadsTo
<1>4. \A b \in BlockTypes : g_flsts[b].top_of_stack \in Ptr
  BY DEF TypeOK
<1>5. \A b \in BlockTypes : LeadsTo(b, g_flsts[b].top_of_stack)'
  <2>1. \A b \in BlockTypes : LeadsTo(b, g_flsts[b].top_of_stack)
    BY DEF FreelistsApart
  <2> QED
    BY <1>3, <1>4, <2>1 DEF LeadsTo
<1>6. ASSUME NEW p \in FreePages'
      PROVE  LeadsTo(mem[p].head, mem[p].link)' /\ (Mapped(mem[p].link.page)' => Mapped(mem[p].link.page))
  <2>0. mem[p].link \in Ptr
    BY <1>2
  <2>1. PICK b, ptr : ptr \in Ptr /\ b = mem[p].head /\ ptr = mem[p].link
    BY <2>0
  <2>2. LeadsTo(b, ptr)
    BY <1>2, <2>1 DEF FreelistsApart
  <2>3. LeadsTo(b, ptr)' /\ (Mapped(ptr.page)' => Mapped(ptr.page))
    BY <1>3, <2>1, <2>2
  <2>4. mem'[p].head = b /\ mem'[p].link = ptr
    BY <1>2, <2>1
  <2> QED
    BY <2>1, <2>3, <2>4 DEF LeadsTo, Mapped
<1>7. \A b \in BlockTypes : \A p \in FreePages' :
        Mapped(mem[p].link.page)' => g_flsts'[b].top_of_stack.page # mem'[p].link.page
  BY <1>2, <1>6 DEF FreelistsApart
<1>8. \A p, q \in FreePages' :
        p # q /\ Mapped(mem[p].link.page)' => mem'[p].link.page # mem'[q].link.page
  BY <1>2, <1>6 DEF FreelistsApart
<1> QED
  BY <1>5, <1>6, <1>7, <1>8 DEF FreelistsApart, Mapped

LEMMA HeapStaysPlaced ==
  ASSUME TypeOK, HeapPlaced, SmallKept, SmallInUseSame,
         high_vaddr' = high_vaddr, g_flsts' = g_flsts,
         large_obj_next_page' \in Nat, large_obj_next_page <= large_obj_next_page',
         large_obj_next_page' <= VADDR_END,
         \A p \in Pages : Mapped(p)' =>
           Mapped(p) \/ (LARGE_OBJ_VADDR_START <= p /\ p < large_obj_next_page'),
         \A p \in FreePages : Mapped(p)' => mem'[p].link = mem[p].link,
         \A o \in Known' : o \in Known \/ (IsLarge(o) /\ LargePlaced(o)'),
         \A o \in freed' : o \in freed \/ IsLarge(o)
  PROVE  HeapPlaced'
<1>1. /\ LARGE_OBJ_VADDR_START \in Nat /\ VADDR_END \in Nat /\ high_vaddr \in Nat
      /\ high_vaddr <= LARGE_OBJ_VADDR_START /\ large_obj_next_page \in Nat
  BY NuafAssumption DEF NuafAssumption, TypeOK, HeapPlaced, Watermarks
<1>2. Watermarks'
  BY <1>1 DEF HeapPlaced, Watermarks, Pages
<1>3. SmallHeads' /\ CanonicalSlots'
  BY DEF HeapPlaced, SmallHeads, CanonicalSlots, SmallKept
<1>4. Slots'
  <2>1. \A p \in SmallMapped' :
          /\ p \in SmallMapped /\ mem'[p].head = mem[p].head /\ mem'[p].slot = mem[p].slot
          /\ mem[p].head \in BlockTypes
    BY DEF SmallKept, SmallMapped, HeapPlaced, SmallHeads
  <2> QED
    BY <2>1 DEF HeapPlaced, Slots, Before
<1>5. ObjectsPlaced'
  <2>1. ASSUME NEW o \in Known, IsLarge(o)
        PROVE  LargePlaced(o)'
    BY <1>1, <2>1, KnownObjects DEF HeapPlaced, ObjectsPlaced, LargePlaced
  <2>2. ASSUME NEW o \in Known, ~IsLarge(o)
        PROVE  SmallObject(o)'
    <3>1. SmallObject(o) /\ o.page \in Pages /\ o.page < LARGE_OBJ_VADDR_START
      BY <1>1, <2>2, KnownObjects DEF HeapPlaced, ObjectsPlaced, IsLarge, Object, Pages
    <3>2. Mapped(o.page)' => Mapped(o.page) /\ mem'[o.page].head = mem[o.page].head
      BY <3>1 DEF SmallKept
    <3> QED
      BY <3>1, <3>2 DEF SmallObject
  <2> QED
    BY <2>1, <2>2 DEF ObjectsPlaced, IsLarge
<1>6. SmallStale'
  <2>1. ASSUME NEW o \in freed', ~IsLarge(o)
        PROVE  ~Mapped(o.page)'
    <3>1. o \in freed /\ o \in Known
      BY <2>1 DEF Known
    <3>2. o.page \in Pages /\ o.page < LARGE_OBJ_VADDR_START /\ ~Mapped(o.page)
      BY <1>1, <2>1, <3>1, KnownObjects DEF HeapPlaced, SmallStale, IsLarge, Object, Pages
    <3> QED
      BY <3>2 DEF SmallKept
  <2> QED
    BY <2>1 DEF SmallStale, IsLarge
<1>7. FreelistsApart'
  <2>1. \A p \in Pages : p < high_vaddr /\ Mapped(p)' => Mapped(p)
    BY <1>1 DEF Pages
  <2> QED
    BY <2>1, ListsStayApart DEF HeapPlaced
<1> QED
  BY <1>2, <1>3, <1>4, <1>5, <1>6, <1>7 DEF HeapPlaced

\* The locals of the other threads.
LEMMA OthersStayPlaced ==
  ASSUME TypeOK, HeapPlaced, NEW u \in Threads, LocalsPlaced(u),
         pc'[u] = pc[u], loc'[u] = loc[u],
         large_obj_next_page' \in Nat, large_obj_next_page <= large_obj_next_page',
         \A p \in Pages : p < high_vaddr /\ Mapped(p)' => Mapped(p),
         pc[u] = "header" =>
           /\ \A o \in Known' : Apart(Pending(u), o)
           /\ \A v \in Threads \ {u} : pc'[v] = "header" => Apart(Pending(u), Pending(v)')
  PROVE  LocalsPlaced(u)'
<1>1. /\ large_obj_next_page \in Nat
      /\ loc[u] \in [size : Nat, ptr : Ptr, np : Nat, i : Nat, obj : Object]
  BY DEF TypeOK
<1>2. ASSUME pc[u] = "header"
      PROVE  PendingPlaced(u)'
  <2>1. PendingPlaced(u)
    BY <1>2 DEF LocalsPlaced
  <2>2. loc[u].ptr.page + loc[u].np <= large_obj_next_page'
    <3>1. loc[u].ptr.page \in Nat /\ loc[u].np \in Nat
      BY <1>1, NuafAssumption DEF Ptr, Pages, NuafAssumption
    <3> QED
      BY <1>1, <2>1, <3>1 DEF PendingPlaced
  <2>3. \A v \in Threads \ {u} : pc'[v] = "header" => Apart(Pending(u)', Pending(v)')
    BY <1>2 DEF Pending
  <2> QED
    BY <1>2, <2>1, <2>2, <2>3 DEF PendingPlaced, Pending
<1>3. ASSUME FreePlaced(u)
      PROVE  FreePlaced(u)'
  <2>1. ASSUME pc[u] \in {"lock_push", "mremap"}
        PROVE  Mapped(loc[u].obj.page)' => Mapped(loc[u].obj.page)
    <3>1. loc[u].obj \in Known /\ ~IsLarge(loc[u].obj)
      BY <1>3, <2>1 DEF FreePlaced, Known, Dying
    <3>2. loc[u].obj.page \in Pages /\ loc[u].obj.page < high_vaddr
      BY <1>1, <3>1, PlacedBounds DEF HeapPlaced, Object
    <3> QED
      BY <3>2
  <2> QED
    BY <1>3, <2>1 DEF FreePlaced, IsLarge
<1> QED
  BY <1>2, <1>3 DEF LocalsPlaced

\* Steps that only move a thread and change its locals.
LEMMA OnlyLocals ==
  ASSUME FaultInv, NEW t \in Threads, UNCHANGED <<heapVars, freed>>, TypeOK',
         SmallInUseSame, Known' = Known,
         \A u \in Threads \ {t} : pc'[u] = pc[u] /\ loc'[u] = loc[u],
         pc'[t] = "header" => pc[t] = "header" /\ loc'[t] = loc[t],
         LocalsPlaced(t)'
  PROVE  FaultInv'
<1>1. /\ TypeOK /\ HeapPlaced /\ large_obj_next_page \in Nat /\ large_obj_next_page <= VADDR_END
      /\ UNCHANGED <<mem, high_vaddr, large_obj_next_page, g_flsts, freed>>
  BY DEF FaultInv, heapVars, TypeOK, HeapPlaced, Watermarks
<1>2. HeapPlaced'
  <2>1. SmallKept
    BY <1>1 DEF SmallKept, Mapped
  <2>2. \A p \in Pages : Mapped(p)' => Mapped(p)
    BY <1>1 DEF Mapped
  <2>3. large_obj_next_page' \in Nat /\ large_obj_next_page <= large_obj_next_page'
    BY <1>1
  <2> QED
    BY <1>1, <2>1, <2>2, <2>3, HeapStaysPlaced
<1>3. ASSUME NEW u \in Threads \ {t}
      PROVE  LocalsPlaced(u)'
  <2>1. LocalsPlaced(u)
    BY DEF FaultInv
  <2>2. pc[u] = "header" =>
          /\ \A o \in Known' : Apart(Pending(u), o)
          /\ \A v \in Threads \ {u} : pc'[v] = "header" => Apart(Pending(u), Pending(v)')
    BY <2>1 DEF LocalsPlaced, PendingPlaced, Pending
  <2>3. \A p \in Pages : p < high_vaddr /\ Mapped(p)' => Mapped(p)
    BY <1>1 DEF Mapped
  <2> QED
    BY <1>1, <2>1, <2>2, <2>3, OthersStayPlaced
<1> QED
  BY <1>2, <1>3 DEF FaultInv

\* The end of the process.
LEMMA ExitPlaced ==
  ASSUME FaultInv, NEW t \in Threads, NEW how \in {"exit", "segv"}, Exit(how)
  PROVE  FaultInv'
<1>1. UNCHANGED <<heapVars, g_m, g_big_obj_m, pc, loc, live, freed>> /\ exited' = how
  BY DEF Exit, heapVars
<1>2. Dying' = Dying
  BY <1>1, DyingSame
<1>3. TypeOK'
  BY <1>1 DEF FaultInv, TypeOK, heapVars
<1>4. LocalsPlaced(t)'
  <2>1. LocalsPlaced(t)
    BY DEF FaultInv
  <2>2. UNCHANGED <<mem, large_obj_next_page>> /\ Known' = Known
    BY <1>1, <1>2 DEF heapVars, Known
  <2> QED
    BY <1>1, <2>1, <2>2
    DEF LocalsPlaced, PendingPlaced, Pending, Apart, FreePlaced, Mapped, IsLarge
<1> QED
  BY <1>1, <1>2, <1>3, <1>4, OnlyLocals DEF SmallInUseSame, Known

\* The mutexes, the start of xxmalloc, and a failure that is reported with a
\* mutex held.
LEMMA CallsPlaced ==
  ASSUME FaultInv, NEW t \in Threads,
         \/ LockSmall(t) \/ LockBig(t)
         \/ xxmalloc_lock(t) \/ LockAllSmall(t) \/ LockAllBig(t) \/ xxmalloc_unlock(t)
         \/ (PopFails(t) \/ MmapBigFails(t)) /\ ~Exit("exit")
  PROVE  FaultInv'
<1>1. /\ pc \in [Threads -> Labels]
      /\ loc \in [Threads -> [size : Nat, ptr : Ptr, np : Nat, i : Nat, obj : Object]]
      /\ TypeOK /\ LocalsPlaced(t)
  BY DEF FaultInv, TypeOK
<1>2. PICK label \in Labels :
        /\ pc' = [pc EXCEPT ![t] = label]
        /\ \/ label \in {"lock_all", "lock_all_big", "locked", "idle", "mmap_big"}
              /\ pc[t] \in {"idle", "lock_all", "lock_all_big", "locked", "lock_big"}
           \/ label = "pop" /\ pc[t] = "lock_pop"
           \/ label = "mremap" /\ pc[t] = "lock_push"
           \/ label \in {"reenter", "reenter_big"} /\ pc[t] \in {"pop", "mmap_big"}
  BY DEF LockSmall, LockBig, xxmalloc_lock, LockAllSmall, LockAllBig, xxmalloc_unlock, PopFails,
         MmapBigFails, Reenters, Goto, Labels
<1>3. /\ UNCHANGED <<heapVars, live, freed, loc, exited>>
      /\ g_m' \in {g_m, t, NoThread} /\ g_big_obj_m' \in {g_big_obj_m, t, NoThread}
  BY DEF LockSmall, LockBig, xxmalloc_lock, LockAllSmall, LockAllBig, xxmalloc_unlock, PopFails,
         MmapBigFails
<1>4. TypeOK'
  BY <1>1, <1>2, <1>3 DEF TypeOK, heapVars
<1>5. Dying' = Dying
  BY <1>3, DyingSame
<1>6. pc'[t] = label /\ \A u \in Threads \ {t} : pc'[u] = pc[u] /\ loc'[u] = loc[u]
  BY <1>1, <1>2, <1>3
<1>7. LocalsPlaced(t)'
  BY <1>1, <1>2, <1>3, <1>6 DEF LocalsPlaced, FreePlaced, heapVars, Mapped, IsLarge
<1> QED
  BY <1>2, <1>3, <1>4, <1>5, <1>6, <1>7, OnlyLocals DEF SmallInUseSame, Known

LEMMA xxmallocPlaced ==
  ASSUME FaultInv, NEW t \in Threads, NEW size \in Sizes, xxmalloc(t, size)
  PROVE  FaultInv'
<1>1. /\ pc \in [Threads -> Labels] /\ size \in Nat /\ TypeOK /\ pc[t] = "idle"
      /\ loc \in [Threads -> [size : Nat, ptr : Ptr, np : Nat, i : Nat, obj : Object]]
      /\ loc[t].obj = NoObject
  BY NuafAssumption DEF FaultInv, TypeOK, NuafAssumption, xxmalloc, LocalsPlaced
<1>2. PICK label \in {"lock_big", "lock_pop"} :
        /\ pc' = [pc EXCEPT ![t] = label]
        /\ label = "lock_pop" => size <= LARGEST_BLOCK_SIZE
  <2>1. LARGEST_BLOCK_SIZE \in Int
    BY PageBytes DEF LARGEST_BLOCK_SIZE
  <2>2. CASE size > LARGEST_BLOCK_SIZE
    BY <2>2 DEF xxmalloc, Goto
  <2>3. CASE ~(size > LARGEST_BLOCK_SIZE)
    <3>1. size <= LARGEST_BLOCK_SIZE
      BY <1>1, <2>1, <2>3
    <3> QED
      BY <2>3, <3>1 DEF xxmalloc, Goto
  <2> QED
    BY <2>2, <2>3
<1>3. /\ loc' = [loc EXCEPT ![t].size = size]
      /\ UNCHANGED <<heapVars, live, freed, g_m, g_big_obj_m, exited>>
  BY DEF xxmalloc
<1>4. /\ \A u \in Threads : loc'[u].obj = loc[u].obj
      /\ \A u \in Threads \ {t} : pc'[u] = pc[u] /\ loc'[u] = loc[u]
      /\ pc'[t] = label /\ loc'[t].size = size
  BY <1>1, <1>2, <1>3
<1>5. TypeOK'
  BY <1>1, <1>2, <1>3 DEF TypeOK, heapVars, Labels
<1>6. Dying' = Dying
  BY <1>4, DyingSame
<1>7. LocalsPlaced(t)'
  BY <1>1, <1>2, <1>4 DEF LocalsPlaced
<1> QED
  BY <1>2, <1>3, <1>4, <1>5, <1>6, <1>7, OnlyLocals DEF SmallInUseSame, Known

-----------------------------------------------------------------------------
(* xxfree up to the mutex or the munmap.                                   *)

\* The downward search finds the nearest header, whosever it is.
LEMMA NearestHeader ==
  ASSUME NEW ptr \in Ptr, HeaderPages(ptr.page) # {}
  PROVE  LargeStart(ptr) \in HeaderPages(ptr.page)
<1>1. ptr.page \in Nat /\ HeaderPages(ptr.page) \subseteq 0 .. ptr.page
  BY NuafAssumption DEF Ptr, Pages, HeaderPages, NuafAssumption
<1> DEFINE T == {ptr.page - q : q \in HeaderPages(ptr.page)}
<1>2. T \in SUBSET Nat /\ T # {}
  BY <1>1
<1>3. PICK m \in T : \A n \in T : m <= n
  <2> HIDE DEF T
  <2> QED
    BY <1>2, NatMin
<1>4. PICK q \in HeaderPages(ptr.page) : m = ptr.page - q
  BY <1>3
<1>5. \A r \in HeaderPages(ptr.page) : r <= q
  <2>1. ASSUME NEW r \in HeaderPages(ptr.page)
        PROVE  r <= q
    <3>1. ptr.page - r \in T
      OBVIOUS
    <3>2. ptr.page - q <= ptr.page - r
      BY <1>3, <1>4, <3>1
    <3>3. q \in Nat /\ r \in Nat
      BY <1>1
    <3> QED
      BY <1>1, <3>2, <3>3
  <2> QED
    BY <2>1
<1> QED
  BY <1>5 DEF LargeStart

\* It is the header of a large object: the pages of small ones begin with
\* their class.
LEMMA SearchFinds ==
  ASSUME TypeOK, Watermarks, SmallHeads, NEW ptr \in Ptr, IsLarge(ptr), Readable(ptr)
  PROVE  /\ ObjStart(ptr) \in Ptr /\ IsLarge(ObjStart(ptr))
         /\ MunmapPages(UsableSize(ptr)) \in Nat
<1> DEFINE q == LargeStart(ptr)
<1>1. ptr.page \in Nat /\ ptr.page < VADDR_END /\ VADDR_END \in Nat /\ LARGE_OBJ_VADDR_START \in Nat
  BY NuafAssumption DEF Ptr, Pages, NuafAssumption
<1>2. q \in HeaderPages(ptr.page)
  BY NearestHeader DEF Readable
<1>3. q \in 0 .. ptr.page /\ Mapped(q) /\ mem[q].head = LARGE_OBJ_START_MAGIC
  BY <1>1, <1>2 DEF HeaderPages
<1> HIDE DEF q
<1>4. q \in Pages /\ q \in Nat
  BY <1>1, <1>3 DEF Pages
<1>5. mem[q] \in PageContent
  BY <1>3, <1>4 DEF TypeOK, Mapped
<1>6. q >= LARGE_OBJ_VADDR_START
  BY <1>1, <1>3, <1>4, NuafAssumption DEF SmallHeads, NuafAssumption
<1>7. ObjStart(ptr) = [page |-> q, off |-> 0] /\ UsableSize(ptr) = LargeUsable(mem[q].np)
  BY DEF ObjStart, UsableSize, q
<1>8. MunmapPages(UsableSize(ptr)) = mem[q].np /\ mem[q].np \in Nat
  BY <1>5, <1>7, MunmapExact DEF PageContent
<1> QED
  BY <1>4, <1>6, <1>7, <1>8, PageBytes DEF Ptr, IsLarge

LEMMA ReadSizePlaced ==
  ASSUME FaultInv, NEW t \in Threads, pc[t] = "idle",
         NEW o \in Known, NEW ptr \in Interior(o), ReadSize(t, o, ptr)
  PROVE  FaultInv'
<1>1. /\ TypeOK /\ Watermarks /\ SmallHeads /\ ObjectsPlaced /\ SmallStale
      /\ pc \in [Threads -> Labels] /\ loc[t].obj = NoObject
      /\ loc \in [Threads -> [size : Nat, ptr : Ptr, np : Nat, i : Nat, obj : Object]]
  BY DEF FaultInv, HeapPlaced, TypeOK, LocalsPlaced
<1>2. o \in Object /\ o.page \in Nat /\ o.off \in Nat /\ o # NoObject
  BY <1>1, KnownObjects, PlacedBounds DEF NoObject
<1>3. CASE ~Readable(ptr)
  BY <1>3, ExitPlaced DEF ReadSize
<1>4. CASE Readable(ptr)
  <2>1. ptr \in Ptr /\ (IsLarge(ptr) <=> IsLarge(o))
    BY <1>1, PlacedLargeInterior, PlacedSmallInterior
  <2>2. PICK start \in Ptr, np \in Nat, label \in {"obj_start", "lock_push"} :
          /\ UNCHANGED <<heapVars, g_m, g_big_obj_m, freed, exited>>
          /\ live' = live \ {o}
          /\ pc' = [pc EXCEPT ![t] = label]
          /\ loc' = [loc EXCEPT ![t] = [size |-> 0, ptr |-> start, np |-> np, i |-> 1, obj |-> o]]
          /\ label = "obj_start" => IsLarge(o) /\ IsLarge(start)
          /\ label = "lock_push" =>
               ~IsLarge(o) /\ start = [page |-> o.page, off |-> o.off] /\ Mapped(o.page)
    <3>1. CASE IsLarge(ptr)
      BY <1>1, <1>4, <2>1, <3>1, SearchFinds DEF ReadSize, Goto
    <3>2. CASE ~IsLarge(ptr)
      <4>1. ptr.page = o.page /\ Mapped(o.page) /\ ObjStart(ptr) = [page |-> o.page, off |-> o.off]
        BY <1>1, <1>4, <2>1, <3>2, PlacedSmallInterior DEF Readable
      <4>2. [page |-> o.page, off |-> o.off] \in Ptr
        BY <1>2 DEF Object, Ptr
      <4> QED
        BY <1>4, <2>1, <3>2, <4>1, <4>2 DEF ReadSize, Goto
    <3> QED
      BY <3>1, <3>2
  <2>3. /\ \A u \in Threads \ {t} : pc'[u] = pc[u] /\ loc'[u] = loc[u]
        /\ pc'[t] = label
        /\ loc'[t] = [size |-> 0, ptr |-> start, np |-> np, i |-> 1, obj |-> o]
    BY <1>1, <2>2
  <2>4. Dying' = Dying \cup {o}
    BY <1>1, <1>2, <2>3 DEF Dying
  <2>5. Known' = Known
    BY <2>2, <2>4 DEF Known
  <2>6. SmallInUseSame
    <3>1. ASSUME ~IsLarge(o)
          PROVE  o \notin freed
      BY <1>1, <2>2, <3>1 DEF SmallStale
    <3> QED
      BY <2>2, <2>4, <3>1 DEF SmallInUseSame, Known
  <2>7. TypeOK'
    BY <1>1, <1>2, <2>2 DEF TypeOK, heapVars, Labels
  <2>8. LocalsPlaced(t)'
    BY <1>2, <2>2, <2>3 DEF LocalsPlaced, FreePlaced, IsLarge
  <2> QED
    BY <2>2, <2>3, <2>5, <2>6, <2>7, <2>8, OnlyLocals
<1> QED
  BY <1>3, <1>4

LEMMA FreePlacedStep ==
  ASSUME FaultInv, NEW t \in Threads, xxfree(t) \/ FreeAgain(t)
  PROVE  FaultInv'
BY ReadSizePlaced DEF xxfree, FreeAgain, Known

LEMMA get_obj_startPlaced ==
  ASSUME FaultInv, NEW t \in Threads, get_obj_start(t)
  PROVE  FaultInv'
<1>1. /\ TypeOK /\ Watermarks /\ SmallHeads
      /\ pc \in [Threads -> Labels] /\ pc[t] = "obj_start"
      /\ loc \in [Threads -> [size : Nat, ptr : Ptr, np : Nat, i : Nat, obj : Object]]
      /\ FreePlaced(t)
  BY DEF FaultInv, HeapPlaced, TypeOK, get_obj_start, LocalsPlaced
<1>2. loc[t].obj # NoObject /\ IsLarge(loc[t].obj) /\ loc[t].ptr \in Ptr /\ IsLarge(loc[t].ptr)
  BY <1>1 DEF FreePlaced
<1>3. CASE ~Readable(loc[t].ptr)
  BY <1>3, ExitPlaced DEF get_obj_start
<1>4. CASE Readable(loc[t].ptr)
  <2>1. PICK start \in Ptr : /\ IsLarge(start) /\ pc' = [pc EXCEPT ![t] = "munmap"]
                             /\ loc' = [loc EXCEPT ![t].ptr = start]
                             /\ UNCHANGED <<heapVars, g_m, g_big_obj_m, live, freed, exited>>
    BY <1>1, <1>2, <1>4, SearchFinds DEF get_obj_start, Goto
  <2>2. /\ \A u \in Threads : loc'[u].obj = loc[u].obj
        /\ \A u \in Threads \ {t} : pc'[u] = pc[u] /\ loc'[u] = loc[u]
        /\ pc'[t] = "munmap" /\ loc'[t].ptr = start
    BY <1>1, <2>1
  <2>3. Dying' = Dying
    BY <2>2, DyingSame
  <2>4. TypeOK'
    BY <1>1, <2>1 DEF TypeOK, heapVars, Labels
  <2>5. LocalsPlaced(t)'
    BY <1>2, <2>1, <2>2 DEF LocalsPlaced, FreePlaced, IsLarge
  <2> QED
    BY <2>1, <2>2, <2>3, <2>4, <2>5, OnlyLocals DEF SmallInUseSame, Known
<1> QED
  BY <1>3, <1>4

-----------------------------------------------------------------------------
(* Steps that unmap pages, and those of large objects.                     *)

\* A step that unmaps pages, and no page of small objects but those.
LEMMA ShrinkPlaced ==
  ASSUME FaultInv, NEW t \in Threads, TypeOK', SmallInUseSame,
         UNCHANGED <<high_vaddr, large_obj_next_page, g_flsts>>,
         \A p \in Pages : Mapped(p)' => mem'[p] = mem[p] /\ Mapped(p),
         Known' \subseteq Known, \A o \in freed' : o \in freed \/ IsLarge(o),
         \A u \in Threads \ {t} : pc'[u] = pc[u] /\ loc'[u] = loc[u],
         pc'[t] # "header", LocalsPlaced(t)'
  PROVE  FaultInv'
<1>1. /\ TypeOK /\ HeapPlaced
      /\ large_obj_next_page \in Nat /\ large_obj_next_page <= VADDR_END
  BY DEF FaultInv, TypeOK, HeapPlaced, Watermarks
<1>2. large_obj_next_page' \in Nat /\ large_obj_next_page <= large_obj_next_page'
  BY <1>1
<1>3. SmallKept /\ \A p \in FreePages : Mapped(p)' => mem'[p].link = mem[p].link
  BY DEF SmallKept, FreePages, SmallMapped
<1>4. HeapPlaced'
  BY <1>1, <1>2, <1>3, HeapStaysPlaced
<1>5. ASSUME NEW u \in Threads \ {t}
      PROVE  LocalsPlaced(u)'
  <2>1. LocalsPlaced(u)
    BY DEF FaultInv
  <2>2. pc[u] = "header" =>
          /\ \A o \in Known' : Apart(Pending(u), o)
          /\ \A v \in Threads \ {u} : pc'[v] = "header" => Apart(Pending(u), Pending(v)')
    BY <2>1 DEF LocalsPlaced, PendingPlaced, Pending
  <2> QED
    BY <1>1, <1>2, <2>1, <2>2, OthersStayPlaced
<1> QED
  BY <1>4, <1>5 DEF FaultInv

\* A thread that returns frees nothing, whatever its call did.
LEMMA ReturnPlaced ==
  ASSUME TypeOK, NEW t \in Threads, Return(t)
  PROVE  LocalsPlaced(t)'
<1>1. pc'[t] = "idle" /\ loc'[t].obj = NoObject
  BY DEF TypeOK, Return, NoLocals
<1> QED
  BY <1>1 DEF LocalsPlaced

LEMMA MunmapPlaced ==
  ASSUME FaultInv, NEW t \in Threads, Munmap(t)
  PROVE  FaultInv'
<1>1. /\ TypeOK /\ pc[t] = "munmap" /\ FreePlaced(t) /\ Return(t)
      /\ \/ mem' = Unmapping(mem, loc[t].ptr.page .. (loc[t].ptr.page + loc[t].np - 1))
         \/ mem' = mem
      /\ freed' = freed \cup {loc[t].obj}
      /\ UNCHANGED <<high_vaddr, large_obj_next_page, g_flsts, g_m, g_big_obj_m, live, exited>>
  BY DEF Munmap, FaultInv, LocalsPlaced
<1>2. /\ loc[t].obj \in Dying /\ loc[t].obj \in Object /\ IsLarge(loc[t].obj)
      /\ mem \in [Pages -> PageContent \cup {UNMAPPED}]
  BY <1>1 DEF FreePlaced, Dying, TypeOK
<1>3. /\ Dying' \subseteq Dying /\ Dying \subseteq Dying' \cup {loc[t].obj}
      /\ \A u \in Threads \ {t} : pc'[u] = pc[u] /\ loc'[u] = loc[u]
      /\ pc'[t] = "idle" /\ LocalsPlaced(t)'
  BY <1>1, ReturnLocals, ReturnPlaced
<1>4. /\ \A p \in Pages : Mapped(p)' => mem'[p] = mem[p] /\ Mapped(p)
      /\ mem' \in [Pages -> PageContent \cup {UNMAPPED}]
  BY <1>1, <1>2 DEF Unmapping, Mapped
<1>5. TypeOK'
  BY <1>1, <1>2, <1>4, ReturnLocals DEF TypeOK
<1>6. SmallInUseSame /\ Known' \subseteq Known
  BY <1>1, <1>2, <1>3 DEF SmallInUseSame, Known
<1> QED
  BY <1>1, <1>2, <1>3, <1>4, <1>5, <1>6, ShrinkPlaced

LEMMA MremapFailsPlaced ==
  ASSUME FaultInv, NEW t \in Threads, MremapFails(t)
  PROVE  FaultInv'
<1>1. /\ TypeOK /\ pc[t] = "mremap" /\ LocalsPlaced(t) /\ FreePlaced(t)
      /\ pc \in [Threads -> Labels]
      /\ loc \in [Threads -> [size : Nat, ptr : Ptr, np : Nat, i : Nat, obj : Object]]
      /\ mem \in [Pages -> PageContent \cup {UNMAPPED}]
      /\ mem' = mem \/ mem' = MremapCleared(loc[t].ptr.page, loc[t].i)
      /\ loc' = [loc EXCEPT ![t].i = loc[t].i + 1]
      /\ pc' = [pc EXCEPT ![t] = "reenter"] \/ pc' = pc
      /\ UNCHANGED <<high_vaddr, large_obj_next_page, g_flsts, g_m, g_big_obj_m, live, freed, exited>>
  BY DEF MremapFails, Reenters, FaultInv, LocalsPlaced, TypeOK
<1>2. /\ \A u \in Threads : loc'[u].obj = loc[u].obj /\ loc'[u].ptr = loc[u].ptr
      /\ \A u \in Threads \ {t} : pc'[u] = pc[u] /\ loc'[u] = loc[u]
      /\ pc'[t] \in {"mremap", "reenter"}
  BY <1>1
<1>3. /\ \A p \in Pages : Mapped(p)' => mem'[p] = mem[p] /\ Mapped(p)
      /\ mem' \in [Pages -> PageContent \cup {UNMAPPED}]
  BY <1>1 DEF MremapCleared, Unmapping, Mapped
<1>4. Dying' = Dying
  BY <1>2, DyingSame
<1>5. TypeOK'
  BY <1>1, <1>3 DEF TypeOK, Labels
<1>6. LocalsPlaced(t)'
  <2>1. loc[t].obj.page \in Pages
    BY <1>1 DEF Object
  <2> QED
    BY <1>1, <1>2, <1>3, <2>1 DEF LocalsPlaced, FreePlaced, IsLarge
<1>7. SmallInUseSame /\ Known' \subseteq Known
  BY <1>1, <1>4 DEF SmallInUseSame, Known
<1> QED
  BY <1>1, <1>2, <1>3, <1>5, <1>6, <1>7, ShrinkPlaced

LEMMA MmapBigPlaced ==
  ASSUME FaultInv, NEW t \in Threads, MmapBig(t)
  PROVE  FaultInv'
<1>0. PICK np, first : np = NumPages(loc[t].size) /\ first = large_obj_next_page
  OBVIOUS
<1>1. /\ TypeOK /\ HeapPlaced /\ LocalsPlaced(t)
      /\ pc[t] = "mmap_big" /\ first + np <= VADDR_END
      /\ mem' = MappingAnon(mem, first .. (first + np - 1))
      /\ large_obj_next_page' = first + np
      /\ g_big_obj_m' = NoThread
      /\ loc' = [loc EXCEPT ![t].np = np, ![t].ptr = [page |-> first, off |-> 0]]
      /\ pc' = [pc EXCEPT ![t] = "header"]
      /\ UNCHANGED <<high_vaddr, g_flsts, g_m, live, freed, exited>>
  BY <1>0 DEF MmapBig, FaultInv, Goto, NextLargePage
<1>2. /\ pc \in [Threads -> Labels] /\ mem \in [Pages -> PageContent \cup {UNMAPPED}]
      /\ loc \in [Threads -> [size : Nat, ptr : Ptr, np : Nat, i : Nat, obj : Object]]
      /\ first \in Nat /\ VADDR_END \in Nat
      /\ LARGE_OBJ_VADDR_START \in Nat /\ LARGE_OBJ_VADDR_START <= first
      /\ high_vaddr \in Nat /\ high_vaddr <= LARGE_OBJ_VADDR_START
  BY <1>0, <1>1, NuafAssumption DEF TypeOK, HeapPlaced, Watermarks, NuafAssumption
<1>3. np \in Nat \ {0}
  BY <1>0, <1>2, NumPagesHold
<1>4. [page |-> first, off |-> 0] \in Ptr /\ AnonPage \in PageContent
  <2>1. first \in Pages
    BY <1>1, <1>2, <1>3 DEF Pages
  <2>2. 0 \in 0 .. (PAGE_SIZE - 1)
    BY PageBytes
  <2> QED
    BY <2>1, <2>2, NuafAssumption, PageBytes
    DEF NuafAssumption, AnonPage, PageContent, Ptr, Addr, Pages, NULL, NoSlot
<1>5. /\ \A u \in Threads : loc'[u].obj = loc[u].obj
      /\ \A u \in Threads \ {t} : pc'[u] = pc[u] /\ loc'[u] = loc[u]
      /\ pc'[t] = "header" /\ loc'[t].np = np /\ loc'[t].ptr.page = first
      /\ loc'[t].size = loc[t].size /\ loc[t].obj = NoObject
  BY <1>1, <1>2 DEF LocalsPlaced
<1>6. Dying' = Dying /\ Known' = Known
  BY <1>1, <1>5, DyingSame DEF Known
<1>7. /\ mem' \in [Pages -> PageContent \cup {UNMAPPED}]
      /\ \A q \in Pages : q < LARGE_OBJ_VADDR_START => mem'[q] = mem[q]
      /\ \A q \in Pages : Mapped(q)' => Mapped(q) \/ (first <= q /\ q < first + np)
  BY <1>1, <1>2, <1>3, <1>4 DEF MappingAnon, Pages, Mapped
<1>8. TypeOK'
  <2>1. loc' \in [Threads -> [size : Nat, ptr : Ptr, np : Nat, i : Nat, obj : Object]]
    BY <1>1, <1>2, <1>3, <1>4
  <2>2. pc' \in [Threads -> Labels]
    BY <1>1, <1>2 DEF Labels
  <2>3. large_obj_next_page' \in Nat
    BY <1>1, <1>2, <1>3
  <2> QED
    BY <1>1, <1>7, <2>1, <2>2, <2>3 DEF TypeOK
<1>9. large_obj_next_page' \in Nat /\ large_obj_next_page <= large_obj_next_page'
  BY <1>0, <1>1, <1>2, <1>3
<1>10. HeapPlaced'
  <2>1. SmallKept /\ \A q \in FreePages : mem'[q].link = mem[q].link
    BY <1>7 DEF SmallKept, Mapped, FreePages, SmallMapped
  <2>2. \A q \in Pages : Mapped(q)' =>
          Mapped(q) \/ (LARGE_OBJ_VADDR_START <= q /\ q < large_obj_next_page')
    BY <1>1, <1>2, <1>7 DEF Pages
  <2>3. SmallInUseSame
    BY <1>1, <1>6 DEF SmallInUseSame
  <2> QED
    BY <1>1, <1>6, <1>9, <2>1, <2>2, <2>3, HeapStaysPlaced
<1>11. \A o \in Known : o.page \in Nat /\ o.np \in Nat /\ o.page + o.np <= first
  <2>1. \A o \in Known : /\ o.page \in Nat /\ o.np \in Nat
                         /\ IsLarge(o) => o.page + o.np <= first
                         /\ ~IsLarge(o) => o.np = 1 /\ o.page < LARGE_OBJ_VADDR_START
    BY <1>0, <1>1, KnownObjects, PlacedBounds DEF HeapPlaced
  <2> QED
    BY <1>2, <2>1
<1>12. ASSUME NEW u \in Threads \ {t}, pc[u] = "header"
       PROVE  loc[u].ptr.page \in Nat /\ loc[u].np \in Nat /\ loc[u].ptr.page + loc[u].np <= first
  BY <1>0, <1>2, <1>12, NuafAssumption
  DEF FaultInv, LocalsPlaced, PendingPlaced, Ptr, Pages, NuafAssumption
<1>13. LocalsPlaced(t)'
  <2>1. \A o \in Known' : Apart(Pending(t)', o)
    BY <1>5, <1>6, <1>11 DEF Apart, Pending
  <2>2. \A u \in Threads \ {t} : pc'[u] = "header" => Apart(Pending(t)', Pending(u)')
    BY <1>5, <1>12 DEF Apart, Pending
  <2>3. /\ LARGE_OBJ_VADDR_START <= loc'[t].ptr.page /\ loc'[t].np = NumPages(loc'[t].size)
        /\ loc'[t].ptr.page + loc'[t].np <= large_obj_next_page'
    BY <1>0, <1>1, <1>2, <1>3, <1>5
  <2>4. PendingPlaced(t)'
    BY <2>1, <2>2, <2>3 DEF PendingPlaced
  <2> QED
    BY <1>5, <2>4 DEF LocalsPlaced
<1>14. ASSUME NEW u \in Threads \ {t}
       PROVE  LocalsPlaced(u)'
  <2>1. LocalsPlaced(u) /\ pc'[u] = pc[u] /\ loc'[u] = loc[u]
    BY <1>5 DEF FaultInv
  <2>2. ASSUME pc[u] = "header"
        PROVE  /\ \A o \in Known' : Apart(Pending(u), o)
               /\ \A v \in Threads \ {u} : pc'[v] = "header" => Apart(Pending(u), Pending(v)')
    <3>1. PendingPlaced(u)
      BY <2>1, <2>2 DEF LocalsPlaced
    <3>2. Apart(Pending(u), Pending(t)')
      BY <1>2, <1>5, <1>12, <2>2 DEF Apart, Pending
    <3> QED
      BY <1>5, <1>6, <3>1, <3>2 DEF PendingPlaced, Pending
  <2>3. \A q \in Pages : q < high_vaddr /\ Mapped(q)' => Mapped(q)
    BY <1>2, <1>7 DEF Pages, Mapped
  <2> QED
    BY <1>1, <1>9, <2>1, <2>2, <2>3, OthersStayPlaced
<1> QED
  BY <1>8, <1>10, <1>13, <1>14 DEF FaultInv

LEMMA WriteHeaderPlaced ==
  ASSUME FaultInv, NEW t \in Threads, WriteHeader(t)
  PROVE  FaultInv' /\ NewApart
<1>0. PICK p, new : /\ p = loc[t].ptr.page
                    /\ new = [page |-> p, off |-> LARGE_HEADER,
                              np |-> loc[t].np, size |-> loc[t].size]
  OBVIOUS
<1>1. /\ TypeOK /\ HeapPlaced /\ PendingPlaced(t) /\ loc[t].obj = NoObject /\ pc[t] = "header"
      /\ mem \in [Pages -> PageContent \cup {UNMAPPED}]
      /\ p \in Pages /\ p \in Nat /\ loc[t].np \in Nat /\ loc[t].size \in Nat
      /\ LARGE_OBJ_VADDR_START \in Nat /\ LARGE_OBJ_VADDR_START <= p
      /\ large_obj_next_page \in Nat /\ large_obj_next_page <= VADDR_END
      /\ high_vaddr \in Nat /\ high_vaddr <= LARGE_OBJ_VADDR_START
  <2>1. /\ TypeOK /\ HeapPlaced /\ PendingPlaced(t) /\ loc[t].obj = NoObject /\ pc[t] = "header"
        /\ loc[t] \in [size : Nat, ptr : Ptr, np : Nat, i : Nat, obj : Object]
    BY DEF WriteHeader, FaultInv, LocalsPlaced, TypeOK
  <2>2. /\ mem \in [Pages -> PageContent \cup {UNMAPPED}]
        /\ large_obj_next_page \in Nat /\ large_obj_next_page <= VADDR_END
        /\ high_vaddr \in Nat /\ high_vaddr <= LARGE_OBJ_VADDR_START
    BY <2>1 DEF TypeOK, HeapPlaced, Watermarks
  <2>3. loc[t].ptr \in Ptr /\ loc[t].np \in Nat /\ loc[t].size \in Nat
    BY <2>1
  <2>4. p \in Pages /\ p \in Nat
    BY <1>0, <2>3, NuafAssumption DEF Ptr, Pages, NuafAssumption
  <2>5. LARGE_OBJ_VADDR_START \in Nat /\ LARGE_OBJ_VADDR_START <= p
    BY <1>0, <2>1, NuafAssumption DEF PendingPlaced, NuafAssumption
  <2> QED
    BY <2>1, <2>2, <2>3, <2>4, <2>5
<1>2. CASE ~Mapped(p)
  <2>1. Exit("segv")
    BY <1>0, <1>2 DEF WriteHeader
  <2> QED
    BY <2>1, ExitPlaced DEF Exit, NewApart
<1>3. CASE Mapped(p)
  <2>1. /\ mem' = [mem EXCEPT ![p].head = LARGE_OBJ_START_MAGIC, ![p].np = loc[t].np]
        /\ live' = live \cup {new} /\ Return(t)
        /\ UNCHANGED <<high_vaddr, large_obj_next_page, g_flsts, g_m, g_big_obj_m, freed, exited>>
    BY <1>0, <1>3 DEF WriteHeader
  <2>2. /\ Dying' = Dying /\ pc'[t] = "idle" /\ LocalsPlaced(t)'
        /\ \A u \in Threads \ {t} : pc'[u] = pc[u] /\ loc'[u] = loc[u]
    BY <1>1, <2>1, ReturnLocals, ReturnPlaced
  <2>3. new \in Object /\ IsLarge(new)
    BY <1>0, <1>1, PageBytes DEF Object, IsLarge
  <2>4. Known' = Known \cup {new}
    BY <2>1, <2>2 DEF Known
  <2>5. /\ mem' \in [Pages -> PageContent \cup {UNMAPPED}]
        /\ \A q \in Pages : q < LARGE_OBJ_VADDR_START => mem'[q] = mem[q]
        /\ \A q \in Pages : Mapped(q)' => Mapped(q)
    <3>1. mem[p] \in PageContent
      BY <1>1, <1>3 DEF Mapped
    <3>2. [mem[p] EXCEPT !.head = LARGE_OBJ_START_MAGIC, !.np = loc[t].np] \in PageContent
      BY <1>1, <3>1, NuafAssumption DEF PageContent, NuafAssumption
    <3>3. mem' = [mem EXCEPT ![p] = [mem[p] EXCEPT !.head = LARGE_OBJ_START_MAGIC, !.np = loc[t].np]]
      BY <1>1, <2>1, <3>1 DEF PageContent
    <3> QED
      BY <1>1, <1>3, <3>2, <3>3 DEF Pages, Mapped
  <2>6. TypeOK'
    BY <1>1, <2>1, <2>3, <2>5, ReturnLocals DEF TypeOK
  <2>7. HeapPlaced'
    <3>1. SmallKept /\ \A q \in FreePages : mem'[q].link = mem[q].link
      BY <2>5 DEF SmallKept, Mapped, FreePages, SmallMapped
    <3>2. SmallInUseSame
      BY <2>1, <2>2, <2>3 DEF SmallInUseSame
    <3>3. LargePlaced(new)'
      BY <1>0, <1>1, <2>1 DEF LargePlaced, PendingPlaced
    <3>4. large_obj_next_page' \in Nat /\ large_obj_next_page <= large_obj_next_page'
      BY <1>1, <2>1
    <3> QED
      BY <1>1, <2>1, <2>3, <2>4, <2>5, <3>1, <3>2, <3>3, <3>4, HeapStaysPlaced
  <2>8. ASSUME NEW u \in Threads \ {t}
        PROVE  LocalsPlaced(u)'
    <3>1. LocalsPlaced(u) /\ pc'[u] = pc[u] /\ loc'[u] = loc[u]
      BY <2>2 DEF FaultInv
    <3>2. ASSUME pc[u] = "header"
          PROVE  /\ \A o \in Known' : Apart(Pending(u), o)
                 /\ \A v \in Threads \ {u} : pc'[v] = "header" => Apart(Pending(u), Pending(v)')
      <4>1. PendingPlaced(u) /\ Apart(Pending(u), Pending(t))
        BY <1>1, <3>1, <3>2 DEF LocalsPlaced, PendingPlaced
      <4>2. Apart(Pending(u), new)
        BY <1>0, <4>1 DEF Apart, Pending
      <4> QED
        BY <2>2, <2>4, <4>1, <4>2 DEF PendingPlaced, Pending
    <3>3. large_obj_next_page' \in Nat /\ large_obj_next_page <= large_obj_next_page'
      BY <1>1, <2>1
    <3> QED
      BY <1>1, <2>5, <3>1, <3>2, <3>3, OthersStayPlaced
  <2>9. NewApart
    BY <1>0, <1>1, <2>1 DEF NewApart, PendingPlaced, Apart, Pending
  <2> QED
    BY <2>2, <2>6, <2>7, <2>8, <2>9 DEF FaultInv
<1> QED
  BY <1>2, <1>3

\* The program overwrites one of the first two words of a page.
Stored(p, w) == mem' = [mem EXCEPT ![p].head = w] \/ mem' = [mem EXCEPT ![p].np = w]

LEMMA StorePlaced ==
  ASSUME FaultInv, NEW t \in Threads, Store(t)
  PROVE  FaultInv'
<1>0. PICK o \in live \cup freed :
        \E p \in ObjectPages(o) :
          \/ Mapped(p) /\ ~IsLarge(o) /\ mem' = [mem EXCEPT ![p].link = WILD]
          \/ Mapped(p) /\ IsLarge(o) /\ \E w \in UserWords : Stored(p, w)
          \/ Exit("segv")
  BY DEF Store, Stored
<1>1. PICK p \in ObjectPages(o) :
        \/ Mapped(p) /\ ~IsLarge(o) /\ mem' = [mem EXCEPT ![p].link = WILD]
        \/ Mapped(p) /\ IsLarge(o) /\ \E w \in UserWords : Stored(p, w)
        \/ Exit("segv")
  BY <1>0
<1>2. CASE Exit("segv")
  BY <1>2, ExitPlaced
<1>3. CASE ~Exit("segv")
  <2>1. /\ UNCHANGED <<high_vaddr, large_obj_next_page, g_flsts, g_m, g_big_obj_m,
                       pc, loc, live, freed, exited>>
        /\ TypeOK /\ HeapPlaced /\ Mapped(p) /\ o \in Known
        /\ mem \in [Pages -> PageContent \cup {UNMAPPED}]
    BY <1>1, <1>3 DEF Store, FaultInv, Known, TypeOK
  <2>2. /\ p \in Pages /\ p \in Nat /\ LARGE_OBJ_VADDR_START \in Nat
        /\ IsLarge(o) => LARGE_OBJ_VADDR_START <= p
        /\ ~IsLarge(o) => p = o.page
    BY <2>1, PlacedPages, NuafAssumption DEF HeapPlaced, NuafAssumption
  <2>3. mem[p] \in PageContent
    BY <2>1, <2>2 DEF Mapped
  <2>4. PICK page \in PageContent :
          /\ mem' = [mem EXCEPT ![p] = page]
          /\ ~IsLarge(o) => page.head = mem[p].head /\ page.slot = mem[p].slot
    <3>1. CASE ~IsLarge(o) /\ mem' = [mem EXCEPT ![p].link = WILD]
      <4>1. WILD \in Ptr
        BY NuafAssumption, PageBytes DEF WILD, Ptr, Pages, NuafAssumption
      <4>2. [mem[p] EXCEPT !.link = WILD] \in PageContent
        BY <2>3, <4>1 DEF PageContent
      <4> QED
        BY <2>3, <3>1, <4>2 DEF PageContent
    <3>2. CASE IsLarge(o) /\ \E w \in UserWords : Stored(p, w)
      <4>1. PICK w \in UserWords : Stored(p, w)
        BY <3>2
      <4>2. [mem[p] EXCEPT !.head = w] \in PageContent /\ [mem[p] EXCEPT !.np = w] \in PageContent
        BY <2>3, NuafAssumption DEF PageContent, NuafAssumption
      <4>3. \/ mem' = [mem EXCEPT ![p] = [mem[p] EXCEPT !.head = w]]
            \/ mem' = [mem EXCEPT ![p] = [mem[p] EXCEPT !.np = w]]
        BY <2>1, <2>2, <4>1 DEF Stored
      <4> QED
        BY <3>2, <4>2, <4>3
    <3> QED
      BY <1>1, <1>3, <3>1, <3>2
  <2>5. /\ mem' \in [Pages -> PageContent \cup {UNMAPPED}]
        /\ \A q \in Pages \ {p} : mem'[q] = mem[q]
        /\ mem'[p] = page
    BY <2>1, <2>2, <2>4
  <2>6. Dying' = Dying /\ Known' = Known /\ SmallInUseSame
    BY <2>1 DEF Dying, Known, SmallInUseSame
  <2>7. SmallKept /\ \A q \in Pages : Mapped(q)' => Mapped(q)
    BY <2>1, <2>2, <2>4, <2>5 DEF SmallKept, Mapped
  <2>8. p \notin FreePages
    <3>1. CASE IsLarge(o)
      BY <2>2, <3>1 DEF FreePages, SmallMapped
    <3>2. CASE ~IsLarge(o)
      BY <2>1, <2>2, <3>2 DEF FreePages, HeapPlaced, SmallStale
    <3> QED
      BY <3>1, <3>2
  <2>9. \A q \in FreePages : mem'[q].link = mem[q].link
    BY <2>5, <2>8 DEF FreePages, SmallMapped
  <2>10. TypeOK'
    BY <2>1, <2>5 DEF TypeOK
  <2>11. /\ large_obj_next_page' \in Nat /\ large_obj_next_page <= large_obj_next_page'
         /\ large_obj_next_page' <= VADDR_END
    BY <2>1 DEF TypeOK, HeapPlaced, Watermarks
  <2>12. HeapPlaced'
    BY <2>1, <2>6, <2>7, <2>9, <2>11, HeapStaysPlaced
  <2>13. ASSUME NEW u \in Threads
         PROVE  LocalsPlaced(u)'
    <3>1. LocalsPlaced(u)
      BY DEF FaultInv
    <3>2. pc[u] = "header" =>
            /\ \A x \in Known' : Apart(Pending(u), x)
            /\ \A v \in Threads \ {u} : pc'[v] = "header" => Apart(Pending(u), Pending(v)')
      BY <2>1, <2>6, <3>1 DEF LocalsPlaced, PendingPlaced, Pending
    <3> QED
      BY <2>1, <2>7, <2>11, <3>1, <3>2, OthersStayPlaced
  <2> QED
    BY <2>10, <2>12, <2>13 DEF FaultInv
<1> QED
  BY <1>2, <1>3

-----------------------------------------------------------------------------
(* freelist_pop: a fresh slot, or the top of a freelist.                   *)

\* A pop hands out an object on a page no known object is on.
LEMMA NewSmallPlaced ==
  ASSUME FaultInv, NEW t \in Threads, pc[t] = "pop",
         NEW new \in Object, new.np = 1, new.page < LARGE_OBJ_VADDR_START, SmallObject(new)',
         live' = live \cup {new}, Return(t), UNCHANGED <<freed, large_obj_next_page>>,
         high_vaddr' \in Nat, high_vaddr <= high_vaddr',
         \A p \in Pages : p # new.page => mem'[p] = mem[p],
         \A p \in Pages : p < high_vaddr /\ Mapped(p)' => Mapped(p),
         \A o \in Known : ~IsLarge(o) => o.page # new.page
  PROVE  /\ Known' = Known \cup {new} /\ Dying' = Dying
         /\ ObjectsPlaced' /\ SmallStale' /\ NewApart
         /\ \A u \in Threads : LocalsPlaced(u)'
<1>1. TypeOK /\ HeapPlaced /\ loc[t].obj = NoObject
  BY DEF FaultInv, LocalsPlaced
<1>2. /\ Dying' = Dying /\ pc'[t] = "idle" /\ LocalsPlaced(t)'
      /\ \A u \in Threads \ {t} : pc'[u] = pc[u] /\ loc'[u] = loc[u]
  BY <1>1, ReturnLocals, ReturnPlaced
<1>3. Known' = Known \cup {new}
  BY <1>2 DEF Known
<1>4. /\ new.page \in Nat /\ LARGE_OBJ_VADDR_START \in Nat
      /\ high_vaddr \in Nat /\ large_obj_next_page \in Nat
  BY <1>1, NuafAssumption DEF Object, Pages, NuafAssumption, TypeOK
<1>5. ASSUME NEW o \in Known
      PROVE  /\ o.page \in Pages /\ o.page \in Nat /\ o.np \in Nat
             /\ o.page + o.np <= new.page \/ new.page + 1 <= o.page
  <2>1. /\ o.page \in Pages /\ o.page \in Nat /\ o.np \in Nat \ {0}
        /\ IsLarge(o) => LARGE_OBJ_VADDR_START <= o.page
        /\ ~IsLarge(o) => o.np = 1
    BY <1>1, KnownObjects, PlacedBounds DEF HeapPlaced, Object
  <2> QED
    BY <1>4, <2>1
<1>6. ASSUME NEW o \in Known, ~IsLarge(o)
      PROVE  SmallObject(o)' /\ (Mapped(o.page)' => Mapped(o.page))
  <2>1. o.page \in Pages /\ o.page \in Nat /\ mem'[o.page] = mem[o.page] /\ SmallObject(o)
    BY <1>1, <1>5, <1>6 DEF HeapPlaced, ObjectsPlaced
  <2> QED
    BY <1>4, <2>1 DEF SmallObject, Mapped
<1>7. ObjectsPlaced'
  <2>1. ~IsLarge(new)
    BY <1>4 DEF IsLarge
  <2>2. \A o \in Known : IsLarge(o) => LargePlaced(o)'
    BY <1>1 DEF HeapPlaced, ObjectsPlaced, LargePlaced
  <2> QED
    BY <1>3, <1>6, <2>1, <2>2 DEF ObjectsPlaced, IsLarge
<1>8. SmallStale'
  BY <1>1, <1>6 DEF HeapPlaced, SmallStale, Known, IsLarge
<1>9. NewApart
  BY <1>5 DEF NewApart, Apart
<1>10. ASSUME NEW u \in Threads \ {t}
       PROVE  LocalsPlaced(u)'
  <2>1. LocalsPlaced(u)
    BY DEF FaultInv
  <2>2. ASSUME pc[u] = "header"
        PROVE  /\ \A o \in Known' : Apart(Pending(u), o)
               /\ \A v \in Threads \ {u} : pc'[v] = "header" => Apart(Pending(u), Pending(v)')
    <3>1. PendingPlaced(u) /\ loc[u].ptr.page \in Nat
      BY <1>1, <2>1, <2>2, NuafAssumption
      DEF LocalsPlaced, TypeOK, Ptr, Pages, NuafAssumption
    <3>2. Apart(Pending(u), new)
      BY <1>4, <3>1 DEF PendingPlaced, Apart, Pending
    <3> QED
      BY <1>2, <1>3, <3>1, <3>2 DEF PendingPlaced, Pending
  <2>3. large_obj_next_page' \in Nat /\ large_obj_next_page <= large_obj_next_page'
    BY <1>4
  <2> QED
    BY <1>1, <1>2, <2>1, <2>2, <2>3, OthersStayPlaced
<1> QED
  BY <1>2, <1>3, <1>7, <1>8, <1>9, <1>10

\* The slot of a fresh page comes after those of its class.
LEMMA FreshSlots ==
  ASSUME TypeOK, Slots, SmallHeads, CanonicalSlots,
         NEW b \in BlockTypes, NEW hv \in Pages, NEW slot \in Addr,
         slot = g_flsts[b].high_canonical_addr,
         hv \notin SmallMapped, SmallMapped' = SmallMapped \cup {hv},
         \A q \in Pages \ {hv} : mem'[q] = mem[q], mem'[hv].head = b, mem'[hv].slot = slot,
         g_flsts' = [g_flsts EXCEPT ![b].high_canonical_addr = NextCanonical(b, slot)]
  PROVE  Slots'
<1>1. /\ slot.page % NUM_BLOCK_TYPES = b /\ SlotOf(b, slot.off)
      /\ NextCanonical(b, slot).page % NUM_BLOCK_TYPES = b
      /\ Before(b, slot, NextCanonical(b, slot))
      /\ \A s \in Addr : Before(b, s, slot) => Before(b, s, NextCanonical(b, slot))
  BY BeforeNext DEF Slots, CanonicalSlots
<1>2. /\ g_flsts'[b].high_canonical_addr = NextCanonical(b, slot)
      /\ \A c \in BlockTypes \ {b} : g_flsts'[c].high_canonical_addr = g_flsts[c].high_canonical_addr
  BY DEF TypeOK
<1>3. \A p \in SmallMapped : /\ p \in Pages /\ mem[p].head \in BlockTypes /\ mem[p].slot \in Addr
                             /\ p # hv /\ mem'[p] = mem[p]
  BY DEF SmallMapped, Mapped, PageContent, TypeOK, SmallHeads
<1>4. \A c \in BlockTypes : g_flsts'[c].high_canonical_addr.page % NUM_BLOCK_TYPES = c
  BY <1>1, <1>2 DEF Slots
<1>5. ASSUME NEW p \in SmallMapped
      PROVE  /\ SlotOf(mem'[p].head, mem'[p].slot.off)
             /\ mem'[p].slot.page % NUM_BLOCK_TYPES = mem'[p].head
             /\ Before(mem'[p].head, mem'[p].slot, g_flsts'[mem'[p].head].high_canonical_addr)
  <2>1. CASE mem[p].head = b
    BY <1>1, <1>2, <1>3, <2>1 DEF Slots
  <2>2. CASE mem[p].head # b
    BY <1>2, <1>3, <2>2 DEF Slots
  <2> QED
    BY <2>1, <2>2
<1>6. \A p \in SmallMapped : mem[p].head = b => Before(b, mem[p].slot, slot)
  BY DEF Slots
<1>7. \A p, q \in SmallMapped \cup {hv} : p # q /\ mem'[p].head = mem'[q].head =>
        \/ Before(mem'[p].head, mem'[p].slot, mem'[q].slot)
        \/ Before(mem'[p].head, mem'[q].slot, mem'[p].slot)
  BY <1>3, <1>6 DEF Slots
<1>8. Slots' <=>
        /\ \A c \in BlockTypes : g_flsts'[c].high_canonical_addr.page % NUM_BLOCK_TYPES = c
        /\ \A p \in SmallMapped' :
             /\ SlotOf(mem'[p].head, mem'[p].slot.off)
             /\ mem'[p].slot.page % NUM_BLOCK_TYPES = mem'[p].head
             /\ Before(mem'[p].head, mem'[p].slot, g_flsts'[mem'[p].head].high_canonical_addr)
        /\ \A p, q \in SmallMapped' : p # q /\ mem'[p].head = mem'[q].head =>
             \/ Before(mem'[p].head, mem'[p].slot, mem'[q].slot)
             \/ Before(mem'[p].head, mem'[q].slot, mem'[p].slot)
  BY DEF Slots, SlotOf, Before
<1> QED
  BY <1>1, <1>2, <1>4, <1>5, <1>7, <1>8

\* The freelists stay apart when they, the free pages and what the pointers
\* lead to are the same.
LEMMA SameListsApart ==
  ASSUME FreelistsApart, FreePages' = FreePages, \A p \in FreePages : mem'[p] = mem[p],
         \A c \in BlockTypes : /\ g_flsts'[c].top_of_stack = g_flsts[c].top_of_stack
                               /\ g_flsts[c].top_of_stack \in Ptr,
         \A p \in FreePages : mem[p].link \in Ptr,
         \A c : \A ptr \in Ptr : LeadsTo(c, ptr) =>
           LeadsTo(c, ptr)' /\ (Mapped(ptr.page)' <=> Mapped(ptr.page))
  PROVE  FreelistsApart'
<1>1. \A b \in BlockTypes : LeadsTo(b, g_flsts[b].top_of_stack)'
  <2>1. \A b \in BlockTypes : LeadsTo(b, g_flsts[b].top_of_stack)
    BY DEF FreelistsApart
  <2> QED
    BY <2>1 DEF LeadsTo
<1>2. ASSUME NEW p \in FreePages
      PROVE  LeadsTo(mem[p].head, mem[p].link)' /\ (Mapped(mem[p].link.page)' => Mapped(mem[p].link.page))
  <2>1. PICK c, ptr : ptr \in Ptr /\ c = mem[p].head /\ ptr = mem[p].link
    OBVIOUS
  <2>2. LeadsTo(c, ptr)
    BY <2>1 DEF FreelistsApart
  <2>3. LeadsTo(c, ptr)' /\ (Mapped(ptr.page)' <=> Mapped(ptr.page))
    BY <2>1, <2>2
  <2>4. mem'[p].head = c /\ mem'[p].link = ptr
    BY <2>1
  <2> QED
    BY <2>1, <2>3, <2>4 DEF LeadsTo, Mapped
<1>3. \A b \in BlockTypes : \A p \in FreePages' :
        Mapped(mem[p].link.page)' => g_flsts'[b].top_of_stack.page # mem'[p].link.page
  BY <1>2 DEF FreelistsApart
<1>4. \A p, q \in FreePages' :
        p # q /\ Mapped(mem[p].link.page)' => mem'[p].link.page # mem'[q].link.page
  BY <1>2 DEF FreelistsApart
<1> QED
  BY <1>1, <1>2, <1>3, <1>4 DEF FreelistsApart, Mapped

LEMMA PopFreshPlaced ==
  ASSUME AreasApart, FaultInv, NEW t \in Threads, PopFresh(t)
  PROVE  FaultInv' /\ NewApart
<1>0. PICK b, slot, hv, new :
        /\ b = BlockType(loc[t].size) /\ slot = g_flsts[b].high_canonical_addr
        /\ hv = high_vaddr
        /\ new = [page |-> hv, off |-> slot.off, np |-> 1, size |-> loc[t].size]
  OBVIOUS
<1>1. /\ TypeOK /\ HeapPlaced /\ pc[t] = "pop" /\ LocalsPlaced(t)
      /\ high_vaddr < SMALL_CAP
      /\ mem' = [mem EXCEPT ![hv] = SmallPage(b, slot)]
      /\ high_vaddr' = hv + 1
      /\ g_flsts' = [g_flsts EXCEPT ![b].high_canonical_addr = NextCanonical(b, slot)]
      /\ live' = live \cup {new}
      /\ g_m' = NoThread /\ Return(t)
      /\ UNCHANGED <<large_obj_next_page, g_big_obj_m, freed, exited>>
  BY <1>0 DEF PopFresh, ReturnSmall, FaultInv, NextSmallPage
<1>2. /\ hv \in Nat /\ hv \in Pages /\ hv < LARGE_OBJ_VADDR_START
      /\ LARGE_OBJ_VADDR_START \in Nat /\ MMAP_MIN_ADDR \in Nat
      /\ MMAP_MIN_ADDR <= hv
      /\ mem \in [Pages -> PageContent \cup {UNMAPPED}]
      /\ g_flsts \in [BlockTypes -> [top_of_stack : Ptr, high_canonical_addr : Addr]]
  BY <1>0, <1>1, RoomBelow DEF HeapPlaced, TypeOK
<1>3. /\ loc[t].size \in Nat /\ loc[t].size <= LARGEST_BLOCK_SIZE
  BY <1>1 DEF LocalsPlaced, TypeOK
<1>4. b \in BlockTypes /\ loc[t].size <= BlockSize(b) /\ BlockSize(b) \in Nat
  BY <1>0, <1>3, ClassHolds, BlockSizes
<1>5. slot \in Addr /\ SlotOf(b, slot.off)
  BY <1>0, <1>1, <1>2, <1>4 DEF HeapPlaced, CanonicalSlots
<1>6. NextCanonical(b, slot) \in Addr /\ SlotOf(b, NextCanonical(b, slot).off)
  BY <1>4, <1>5, NextCanonicalSlot
<1>7. slot.off \in 0 .. (PAGE_SIZE - 1) /\ slot.off + loc[t].size <= PAGE_SIZE
  BY <1>3, <1>4, <1>5, PageBytes, BlockSizes DEF SlotOf, Addr
<1>8. new \in Object /\ new.page = hv /\ new.np = 1 /\ new.off = slot.off
      /\ new.size = loc[t].size /\ ~IsLarge(new)
  BY <1>0, <1>2, <1>3, <1>7 DEF Object, IsLarge
<1>9. SmallPage(b, slot) \in PageContent
  <2>1. BlockTypes \subseteq Int
    BY PageBytes DEF BlockTypes
  <2>2. NULL \in Ptr
    BY <1>2, PageBytes, NuafAssumption DEF NULL, Ptr, Pages, NuafAssumption
  <2> QED
    BY <1>4, <1>5, <2>1, <2>2 DEF SmallPage, PageContent
<1>10. /\ \A q \in Pages \ {hv} : mem'[q] = mem[q]
       /\ mem'[hv].head = b /\ mem'[hv].slot = slot
       /\ mem' \in [Pages -> PageContent \cup {UNMAPPED}]
       /\ Mapped(hv)' /\ ~Mapped(hv)
  <2>1. /\ \A q \in Pages \ {hv} : mem'[q] = mem[q]
        /\ mem'[hv] = SmallPage(b, slot)
    BY <1>1, <1>2
  <2>2. ~Mapped(hv)
    BY <1>0, <1>1, <1>2 DEF HeapPlaced, Watermarks
  <2> QED
    BY <1>1, <1>2, <1>9, <2>1, <2>2, NuafAssumption DEF SmallPage, Mapped, NuafAssumption
<1>11. /\ high_vaddr' \in Nat /\ high_vaddr <= high_vaddr' /\ hv < high_vaddr'
       /\ high_vaddr' <= LARGE_OBJ_VADDR_START
  BY <1>0, <1>1, <1>2
<1>12. SmallObject(new)'
  BY <1>2, <1>4, <1>5, <1>7, <1>8, <1>10, <1>11 DEF SmallObject
<1>13. \A o \in Known : ~IsLarge(o) => o.page # hv
  BY <1>0, <1>1, <1>2, KnownObjects, PlacedBounds DEF HeapPlaced
<1>14. /\ Known' = Known \cup {new} /\ Dying' = Dying
       /\ ObjectsPlaced' /\ SmallStale' /\ NewApart
       /\ \A u \in Threads : LocalsPlaced(u)'
  <2>1. /\ \A p \in Pages : p # new.page => mem'[p] = mem[p]
        /\ \A p \in Pages : p < high_vaddr /\ Mapped(p)' => Mapped(p)
    BY <1>0, <1>2, <1>8, <1>10 DEF Mapped, Pages
  <2> QED
    BY <1>1, <1>2, <1>8, <1>11, <1>12, <1>13, <2>1, NewSmallPlaced
<1>15. TypeOK'
  <2>1. g_flsts' \in [BlockTypes -> [top_of_stack : Ptr, high_canonical_addr : Addr]]
    BY <1>1, <1>2, <1>6
  <2> QED
    BY <1>1, <1>8, <1>10, <1>11, <2>1, ReturnLocals DEF TypeOK
<1>16. Watermarks' /\ SmallHeads'
  <2>1. ASSUME NEW q \in Pages, Mapped(q)', q # hv
        PROVE  Mapped(q)
    BY <1>10, <2>1 DEF Mapped
  <2> QED
    BY <1>0, <1>1, <1>2, <1>4, <1>10, <1>11, <2>1 DEF HeapPlaced, Watermarks, SmallHeads, Pages
<1>17. CanonicalSlots'
  BY <1>1, <1>2, <1>6 DEF HeapPlaced, CanonicalSlots
<1>18. SmallMapped' = SmallMapped \cup {hv} /\ hv \notin SmallMapped
  BY <1>2, <1>10 DEF SmallMapped, Mapped
<1>19. Slots'
  BY <1>0, <1>1, <1>2, <1>4, <1>5, <1>10, <1>18, FreshSlots DEF HeapPlaced
<1>20. FreelistsApart'
  <2>1. FreePages' = FreePages /\ \A p \in FreePages : p \in Pages /\ mem'[p] = mem[p]
    <3>1. hv \notin FreePages'
      BY <1>1, <1>8 DEF FreePages
    <3>2. \A p \in FreePages : p \in Pages /\ p # hv /\ p # new.page
      BY <1>8, <1>18 DEF FreePages, SmallMapped
    <3>3. FreePages' = FreePages
      BY <1>1, <1>14, <1>18, <3>1, <3>2 DEF FreePages
    <3> QED
      BY <1>10, <3>2, <3>3
  <2>2. ASSUME NEW c, NEW ptr \in Ptr, LeadsTo(c, ptr)
        PROVE  LeadsTo(c, ptr)' /\ (Mapped(ptr.page)' <=> Mapped(ptr.page))
    <3>1. ptr.page \in Pages /\ ptr.page \in Nat /\ ptr.page < hv
      BY <1>0, <2>2, NuafAssumption DEF LeadsTo, Ptr, Pages, NuafAssumption
    <3>2. mem'[ptr.page] = mem[ptr.page] /\ ptr.page < high_vaddr'
      BY <1>1, <1>2, <1>10, <3>1
    <3> QED
      BY <2>1, <2>2, <3>2 DEF LeadsTo, Mapped
  <2>3. /\ \A c \in BlockTypes : g_flsts'[c].top_of_stack = g_flsts[c].top_of_stack
        /\ \A c \in BlockTypes : g_flsts[c].top_of_stack \in Ptr
    BY <1>1, <1>2
  <2>4. \A p \in FreePages : mem[p].link \in Ptr
    BY <1>2 DEF FreePages, SmallMapped, Mapped, PageContent
  <2> QED
    BY <1>1, <2>1, <2>2, <2>3, <2>4, SameListsApart DEF HeapPlaced
<1> QED
  BY <1>14, <1>15, <1>16, <1>17, <1>19, <1>20 DEF FaultInv, HeapPlaced

\* What popping a mapped top leaves in the freelists.
LEMMA PopKeepsApart ==
  ASSUME TypeOK, FreelistsApart, NEW b \in BlockTypes, NEW p, p = g_flsts[b].top_of_stack.page,
         Mapped(p), UNCHANGED <<mem, high_vaddr>>, FreePages' = FreePages \ {p},
         g_flsts' = [g_flsts EXCEPT ![b].top_of_stack = mem[p].link]
  PROVE  FreelistsApart'
<1>1. /\ g_flsts'[b].top_of_stack = mem[p].link
      /\ \A c \in BlockTypes \ {b} : g_flsts'[c].top_of_stack = g_flsts[c].top_of_stack
  BY DEF TypeOK
<1>2. /\ \A c \in BlockTypes : LeadsTo(c, g_flsts[c].top_of_stack)
      /\ \A q \in FreePages : LeadsTo(mem[q].head, mem[q].link)
      /\ \A q \in FreePages : Mapped(mem[q].link.page) => p # mem[q].link.page
  BY DEF FreelistsApart
<1>3. p \in FreePages /\ mem[p].head = b
  BY <1>2 DEF LeadsTo
<1>4. \A c, ptr : LeadsTo(c, ptr) /\ (Mapped(ptr.page) => ptr.page # p) => LeadsTo(c, ptr)'
  BY DEF LeadsTo, Mapped, SlotOf
<1>5. ASSUME NEW c \in BlockTypes
      PROVE  LeadsTo(c, g_flsts[c].top_of_stack)'
  <2>1. PICK ptr : /\ ptr = g_flsts'[c].top_of_stack /\ LeadsTo(c, ptr)
                   /\ Mapped(ptr.page) => ptr.page # p
    <3>1. CASE c = b
      BY <1>1, <1>2, <1>3, <3>1
    <3>2. CASE c # b
      BY <1>1, <1>2, <1>3, <3>2 DEF LeadsTo
    <3> QED
      BY <3>1, <3>2
  <2>2. LeadsTo(c, ptr)'
    BY <1>4, <2>1
  <2> QED
    BY <2>1, <2>2 DEF LeadsTo, Mapped
<1>6. ASSUME NEW q \in FreePages'
      PROVE  LeadsTo(mem[q].head, mem[q].link)'
  <2>1. PICK c, ptr : /\ c = mem[q].head /\ ptr = mem[q].link /\ LeadsTo(c, ptr)
                      /\ Mapped(ptr.page) => ptr.page # p
    BY <1>2
  <2>2. LeadsTo(c, ptr)'
    BY <1>4, <2>1
  <2> QED
    BY <2>1, <2>2 DEF LeadsTo, Mapped
<1>7. ASSUME NEW c \in BlockTypes, NEW q \in FreePages \ {p}, Mapped(mem[q].link.page)
      PROVE  g_flsts'[c].top_of_stack.page # mem[q].link.page
  <2>1. CASE c = b
    BY <1>1, <1>3, <1>7, <2>1 DEF FreelistsApart
  <2>2. CASE c # b
    BY <1>1, <1>7, <2>2 DEF FreelistsApart
  <2> QED
    BY <2>1, <2>2
<1>8. \A q, r \in FreePages' :
        q # r /\ Mapped(mem[q].link.page)' => mem'[q].link.page # mem'[r].link.page
  BY DEF FreelistsApart, Mapped
<1> QED
  BY <1>5, <1>6, <1>7, <1>8 DEF FreelistsApart, Mapped

LEMMA PopTopPlaced ==
  ASSUME FaultInv, NEW t \in Threads, PopTop(t)
  PROVE  FaultInv' /\ NewApart
<1>0. PICK b, top, new :
        /\ b = BlockType(loc[t].size) /\ top = g_flsts[b].top_of_stack
        /\ new = [page |-> top.page, off |-> top.off, np |-> 1, size |-> loc[t].size]
  OBVIOUS
<1>1. /\ TypeOK /\ HeapPlaced /\ pc[t] = "pop" /\ LocalsPlaced(t)
      /\ loc[t].size \in Nat /\ loc[t].size <= LARGEST_BLOCK_SIZE
      /\ g_flsts \in [BlockTypes -> [top_of_stack : Ptr, high_canonical_addr : Addr]]
      /\ high_vaddr \in Nat
  BY DEF FaultInv, TypeOK, LocalsPlaced, PopTop
<1>2. b \in BlockTypes /\ loc[t].size <= BlockSize(b) /\ BlockSize(b) \in Nat
  BY <1>0, <1>1, ClassHolds, BlockSizes
<1>3. top \in Ptr /\ top.page \in Pages /\ LeadsTo(b, top)
  BY <1>0, <1>1, <1>2 DEF Ptr, HeapPlaced, FreelistsApart
<1>4. CASE ~Mapped(top.page)
  <2>1. Exit("segv")
    BY <1>0, <1>4 DEF PopTop
  <2>2. live' = live
    BY <2>1 DEF Exit
  <2> QED
    BY <2>1, <2>2, ExitPlaced DEF NewApart
<1>5. CASE Mapped(top.page)
  <2>1. /\ g_flsts' = [g_flsts EXCEPT ![b].top_of_stack = mem[top.page].link]
        /\ live' = live \cup {new} /\ g_m' = NoThread /\ Return(t)
        /\ UNCHANGED <<mem, high_vaddr, large_obj_next_page, g_big_obj_m, freed, exited>>
    BY <1>0, <1>5 DEF PopTop, ReturnSmall
  <2>2. /\ top.page \in FreePages /\ mem[top.page].head = b /\ SlotOf(b, top.off)
        /\ top.page < high_vaddr
    BY <1>3, <1>5 DEF LeadsTo
  <2>3. /\ top.page \in Nat /\ top.page < LARGE_OBJ_VADDR_START /\ LARGE_OBJ_VADDR_START \in Nat
        /\ MMAP_MIN_ADDR <= top.page
        /\ top.off \in 0 .. (PAGE_SIZE - 1) /\ top.off + loc[t].size <= PAGE_SIZE
    <3>1. top.page \in Nat /\ top.page < LARGE_OBJ_VADDR_START /\ LARGE_OBJ_VADDR_START \in Nat
      BY <1>3, <2>2, NuafAssumption DEF FreePages, SmallMapped, Pages, NuafAssumption
    <3>2. MMAP_MIN_ADDR <= top.page
      BY <1>1, <1>3, <1>5, <3>1 DEF HeapPlaced, Watermarks
    <3>3. top.off \in 0 .. (PAGE_SIZE - 1) /\ top.off + loc[t].size <= PAGE_SIZE
      BY <1>1, <1>2, <1>3, <2>2, PageBytes DEF SlotOf, Ptr
    <3> QED
      BY <3>1, <3>2, <3>3
  <2>4. new \in Object /\ new.np = 1 /\ new.page = top.page /\ new.page < LARGE_OBJ_VADDR_START
    BY <1>0, <1>1, <1>3, <2>3 DEF Object
  <2>5. SmallObject(new)'
    BY <1>0, <1>2, <2>1, <2>2, <2>3 DEF SmallObject, Mapped
  <2>6. \A o \in Known : ~IsLarge(o) => o.page # new.page
    BY <1>1, <1>5, <2>2, <2>4 DEF HeapPlaced, SmallStale, FreePages, Known
  <2>7. /\ Known' = Known \cup {new} /\ Dying' = Dying
        /\ ObjectsPlaced' /\ SmallStale' /\ NewApart
        /\ \A u \in Threads : LocalsPlaced(u)'
    <3>1. /\ \A p \in Pages : p # new.page => mem'[p] = mem[p]
          /\ \A p \in Pages : p < high_vaddr /\ Mapped(p)' => Mapped(p)
      BY <2>1 DEF Mapped
    <3>2. high_vaddr' \in Nat /\ high_vaddr <= high_vaddr'
      BY <1>1, <2>1
    <3> QED
      BY <1>1, <2>1, <2>4, <2>5, <2>6, <3>1, <3>2, NewSmallPlaced
  <2>8. TypeOK'
    <3>1. mem[top.page].link \in Ptr
      BY <1>1, <1>3, <1>5 DEF TypeOK, Mapped, PageContent
    <3>2. g_flsts' \in [BlockTypes -> [top_of_stack : Ptr, high_canonical_addr : Addr]]
      BY <1>1, <2>1, <3>1
    <3> QED
      BY <1>1, <2>1, <2>4, <3>2, ReturnLocals DEF TypeOK
  <2>9. SmallMapped' = SmallMapped
    BY <2>1 DEF SmallMapped, Mapped
  <2>10. \A c \in BlockTypes : g_flsts'[c].high_canonical_addr = g_flsts[c].high_canonical_addr
    BY <1>1, <2>1
  <2>11. Watermarks' /\ SmallHeads' /\ CanonicalSlots'
    BY <1>1, <2>1, <2>10
    DEF HeapPlaced, Watermarks, SmallHeads, CanonicalSlots, Mapped
  <2>12. Slots'
    <3>1. \A p \in SmallMapped : mem[p].head \in BlockTypes
      BY <1>1 DEF HeapPlaced, SmallHeads, SmallMapped
    <3> QED
      BY <1>1, <2>1, <2>9, <2>10, <3>1 DEF HeapPlaced, Slots, Before
  <2>13. FreePages' = FreePages \ {top.page}
    BY <2>1, <2>4, <2>7, <2>9 DEF FreePages
  <2>14. FreelistsApart'
    BY <1>0, <1>1, <1>2, <1>5, <2>1, <2>13, PopKeepsApart DEF HeapPlaced
  <2> QED
    BY <2>7, <2>8, <2>11, <2>12, <2>14 DEF FaultInv, HeapPlaced
<1> QED
  BY <1>4, <1>5

-----------------------------------------------------------------------------
(* xxfree of a small object: its page moves to the watermark.              *)

\* A page that moves takes its slot along.
LEMMA MovedSlots ==
  ASSUME Slots, SmallHeads, NEW p \in SmallMapped, NEW hv \in Pages, hv \notin SmallMapped,
         ~Mapped(p)', mem'[hv].head = mem[p].head, mem'[hv].slot = mem[p].slot,
         \A q \in Pages \ {p, hv} : Mapped(q)' => mem'[q] = mem[q],
         \A c \in BlockTypes : g_flsts'[c].high_canonical_addr = g_flsts[c].high_canonical_addr
  PROVE  Slots'
<1> DEFINE From(q) == IF q = hv THEN p ELSE q
<1>1. \A q \in SmallMapped' \ {hv} : q \in SmallMapped \ {p} /\ mem'[q] = mem[q]
  BY DEF SmallMapped, Mapped
<1>2. \A q \in SmallMapped' : /\ From(q) \in SmallMapped
                              /\ mem'[q].head = mem[From(q)].head
                              /\ mem'[q].slot = mem[From(q)].slot
                              /\ mem[From(q)].head \in BlockTypes
  BY <1>1 DEF SmallHeads, SmallMapped
<1>3. \A q, r \in SmallMapped' : q # r => From(q) # From(r)
  BY <1>1
<1> HIDE DEF From
<1> QED
  BY <1>2, <1>3 DEF Slots, Before

\* The moved page is the top of its freelist, the old top follows it.
LEMMA PushKeepsApart ==
  ASSUME TypeOK, FreelistsApart, NEW b \in BlockTypes, NEW hv, hv = high_vaddr,
         high_vaddr' = hv + 1, \A q \in FreePages : q < hv,
         FreePages' = {q \in FreePages : Mapped(q)'} \cup {hv},
         \A q \in Pages : q < hv /\ Mapped(q)' => mem'[q] = mem[q],
         mem'[hv].head = b, mem'[hv].link = g_flsts[b].top_of_stack,
         NEW off, SlotOf(b, off),
         g_flsts' = [g_flsts EXCEPT ![b].top_of_stack = [page |-> hv, off |-> off]]
  PROVE  FreelistsApart'
<1>1. /\ g_flsts'[b].top_of_stack = [page |-> hv, off |-> off]
      /\ \A c \in BlockTypes \ {b} : g_flsts'[c].top_of_stack = g_flsts[c].top_of_stack
      /\ \A c \in BlockTypes : g_flsts[c].top_of_stack \in Ptr
      /\ hv \in Nat
  BY DEF TypeOK
<1>2. /\ \A c \in BlockTypes : LeadsTo(c, g_flsts[c].top_of_stack)
      /\ \A q \in FreePages : LeadsTo(mem[q].head, mem[q].link)
  BY DEF FreelistsApart
<1>3. ASSUME NEW q \in FreePages', q # hv
      PROVE  /\ q \in FreePages /\ q \in Pages /\ mem[q].link \in Ptr
             /\ mem'[q].link = mem[q].link /\ mem'[q].head = mem[q].head
  <2>1. q \in FreePages /\ q \in Pages /\ Mapped(q) /\ mem'[q] = mem[q]
    BY <1>3 DEF FreePages, SmallMapped
  <2> QED
    BY <2>1 DEF TypeOK, Mapped, PageContent
\* where the old pointers lead
<1>4. ASSUME NEW c, NEW ptr \in Ptr, LeadsTo(c, ptr)
      PROVE  /\ LeadsTo(c, ptr)' /\ ptr.page # hv
             /\ mem'[ptr.page] # UNMAPPED => Mapped(ptr.page)
  <2>1. ptr.page \in Pages /\ ptr.page \in Nat /\ ptr.page < hv
    BY <1>4, NuafAssumption DEF LeadsTo, Ptr, Pages, NuafAssumption
  <2>2. Mapped(ptr.page)' => mem'[ptr.page] = mem[ptr.page] /\ Mapped(ptr.page)
    BY <2>1 DEF Mapped
  <2>3. Mapped(ptr.page)' => ptr.page \in FreePages' /\ mem'[ptr.page].head = c /\ SlotOf(c, ptr.off)
    BY <1>4, <2>2 DEF LeadsTo
  <2>4. ptr.page < high_vaddr'
    BY <1>1, <2>1
  <2> QED
    BY <1>1, <2>1, <2>2, <2>3, <2>4 DEF LeadsTo, Mapped
<1>5. ASSUME NEW c \in BlockTypes \ {b}
      PROVE  LeadsTo(c, g_flsts[c].top_of_stack)'
  <2>1. PICK ptr \in Ptr : ptr = g_flsts[c].top_of_stack /\ LeadsTo(c, ptr)
    BY <1>1, <1>2
  <2>2. LeadsTo(c, ptr)' /\ ptr = g_flsts'[c].top_of_stack
    BY <1>1, <1>4, <2>1
  <2> QED
    BY <2>2 DEF LeadsTo, Mapped
<1>6. LeadsTo(b, g_flsts[b].top_of_stack)'
  <2>1. hv < high_vaddr' /\ hv \in FreePages'
    BY <1>1
  <2> QED
    BY <1>1, <2>1 DEF LeadsTo, SlotOf
<1>7. ASSUME NEW q \in FreePages'
      PROVE  /\ LeadsTo(mem[q].head, mem[q].link)' /\ mem'[q].link.page # hv
             /\ mem'[mem'[q].link.page] # UNMAPPED => Mapped(mem'[q].link.page)
  <2>1. PICK c, ptr : /\ c = mem'[q].head /\ ptr = mem'[q].link
                     /\ ptr \in Ptr /\ LeadsTo(c, ptr)
    BY <1>1, <1>2, <1>3
  <2>2. /\ LeadsTo(c, ptr)' /\ ptr.page # hv
        /\ mem'[ptr.page] # UNMAPPED => Mapped(ptr.page)
    BY <1>4, <2>1
  <2> QED
    BY <2>1, <2>2 DEF LeadsTo, Mapped
<1>8. ASSUME NEW c \in BlockTypes, NEW q \in FreePages', mem'[mem'[q].link.page] # UNMAPPED
      PROVE  g_flsts'[c].top_of_stack.page # mem'[q].link.page
  <2>1. CASE c = b
    BY <1>1, <1>7, <2>1
  <2>2. CASE c # b /\ q = hv
    <3>1. Mapped(g_flsts[b].top_of_stack.page)
      BY <1>7, <1>8, <2>2
    <3> QED
      BY <1>1, <1>2, <2>2, <3>1 DEF LeadsTo
  <2>3. CASE c # b /\ q # hv
    BY <1>1, <1>3, <1>7, <1>8, <2>3 DEF FreelistsApart
  <2> QED
    BY <2>1, <2>2, <2>3
<1>9. ASSUME NEW q \in FreePages', NEW r \in FreePages', q # r, mem'[mem'[q].link.page] # UNMAPPED
      PROVE  mem'[q].link.page # mem'[r].link.page
  <2>1. Mapped(mem'[q].link.page)
    BY <1>7, <1>9
  <2>2. CASE q = hv
    BY <1>3, <1>9, <2>1, <2>2 DEF FreelistsApart
  <2>3. CASE r = hv
    BY <1>3, <1>9, <2>1, <2>3 DEF FreelistsApart
  <2>4. CASE q # hv /\ r # hv
    BY <1>3, <1>9, <2>1, <2>4 DEF FreelistsApart
  <2> QED
    BY <2>2, <2>3, <2>4
<1> QED
  BY <1>5, <1>6, <1>7, <1>8, <1>9 DEF FreelistsApart, Mapped

LEMMA MremapAndPushPlaced ==
  ASSUME AreasApart, FaultInv, NEW t \in Threads, MremapAndPush(t)
  PROVE  FaultInv'
<1>0. PICK o, p, hv, b, page, i :
        /\ o = loc[t].obj /\ p = loc[t].ptr.page /\ hv = high_vaddr /\ b = mem[p].head
        /\ page = [mem[p] EXCEPT !.link = g_flsts[b].top_of_stack] /\ i = loc[t].i
  BY Zenon
<1>00. hv = high_vaddr /\ HeapPlaced /\ TypeOK
  BY Zenon, <1>0 DEF FaultInv
<1>1. /\ TypeOK /\ HeapPlaced /\ pc[t] = "mremap" /\ LocalsPlaced(t) /\ FreePlaced(t)
      /\ Mapped(p) /\ high_vaddr < SMALL_CAP
      /\ mem' = [MremapCleared(p, i) EXCEPT ![p] = UNMAPPED, ![hv] = page]
      /\ g_flsts' = [g_flsts EXCEPT ![b].top_of_stack = [page |-> hv, off |-> loc[t].ptr.off]]
      /\ high_vaddr' = hv + 1
      /\ g_m' = NoThread /\ freed' = freed \cup {o} /\ Return(t)
      /\ UNCHANGED <<large_obj_next_page, g_big_obj_m, live, exited>>
  BY Zenon, <1>0
  DEF MremapAndPush, FaultInv, LocalsPlaced, Mremapped, WithLink, NextSmallPage
<1>2. /\ hv \in Nat /\ hv \in Pages /\ hv < LARGE_OBJ_VADDR_START /\ MMAP_MIN_ADDR <= hv
      /\ LARGE_OBJ_VADDR_START \in Nat /\ MMAP_MIN_ADDR \in Nat
      /\ mem \in [Pages -> PageContent \cup {UNMAPPED}]
      /\ g_flsts \in [BlockTypes -> [top_of_stack : Ptr, high_canonical_addr : Addr]]
      /\ large_obj_next_page \in Nat
  BY <1>0, <1>1, RoomBelow DEF HeapPlaced, TypeOK
<1>3. /\ o \in Dying /\ o \in Known /\ ~IsLarge(o) /\ p = o.page /\ o \in Object
      /\ loc[t].ptr.off = o.off
  <2>1. o \in Dying /\ ~IsLarge(o) /\ p = o.page
    BY <1>0, <1>1 DEF FreePlaced, Dying
  <2> QED
    BY <1>0, <1>1, <2>1, KnownObjects DEF FreePlaced, Known
<1>4. /\ p \in Pages /\ p \in Nat /\ p < hv /\ p < LARGE_OBJ_VADDR_START /\ o.off \in Nat
      /\ o.off \in 0 .. (PAGE_SIZE - 1) /\ SmallObject(o)
  <2>1. SmallObject(o) /\ p < hv
    BY <1>0, <1>1, <1>3, PlacedBounds DEF HeapPlaced, ObjectsPlaced
  <2> QED
    BY <1>2, <1>3, <2>1 DEF Object, Pages
<1>5. mem[p] \in PageContent /\ b \in BlockTypes /\ SlotOf(b, o.off)
  BY <1>0, <1>1, <1>2, <1>3, <1>4 DEF Mapped, HeapPlaced, SmallHeads, SmallObject
<1>6. /\ page \in PageContent /\ page.head = b /\ page.slot = mem[p].slot
      /\ page.link = g_flsts[b].top_of_stack
  BY <1>0, <1>2, <1>5 DEF PageContent
<1>7. /\ mem'[hv] = page /\ ~Mapped(p)' /\ Mapped(hv)' /\ ~Mapped(hv)
      /\ mem' \in [Pages -> PageContent \cup {UNMAPPED}]
      /\ \A q \in Pages \ {p, hv} : Mapped(q)' => mem'[q] = mem[q] /\ Mapped(q)
  <2>1. /\ MremapCleared(p, i) \in [Pages -> PageContent \cup {UNMAPPED}]
        /\ \A q \in Pages : MremapCleared(p, i)[q] \in {mem[q], UNMAPPED}
    BY <1>2 DEF MremapCleared, Unmapping
  <2>2. /\ mem' \in [Pages -> PageContent \cup {UNMAPPED}]
        /\ mem'[hv] = page /\ mem'[p] = UNMAPPED
        /\ \A q \in Pages \ {p, hv} : mem'[q] \in {mem[q], UNMAPPED}
    BY <1>1, <1>2, <1>4, <1>6, <2>1
  <2>3. ~Mapped(hv)
    BY <1>00, <1>2 DEF HeapPlaced, Watermarks
  <2> QED
    BY <1>6, <2>2, <2>3, NuafAssumption DEF Mapped, NuafAssumption
<1>8. /\ Dying' \subseteq Dying /\ Dying \subseteq Dying' \cup {o}
      /\ pc'[t] = "idle" /\ LocalsPlaced(t)'
      /\ pc' \in [Threads -> Labels]
      /\ loc' \in [Threads -> [size : Nat, ptr : Ptr, np : Nat, i : Nat, obj : Object]]
      /\ \A u \in Threads \ {t} : pc'[u] = pc[u] /\ loc'[u] = loc[u]
  BY <1>0, <1>1, ReturnLocals, ReturnPlaced
<1>9. Known' \subseteq Known
  BY <1>1, <1>3, <1>8 DEF Known
<1>10. \A x \in Known : ~IsLarge(x) =>
         /\ x.page \in Pages /\ x.page # hv
         /\ Mapped(x.page)' => mem'[x.page] = mem[x.page] /\ Mapped(x.page)
  <2>1. SUFFICES ASSUME NEW x \in Known, ~IsLarge(x)
                 PROVE  /\ x.page \in Pages /\ x.page # hv
                        /\ Mapped(x.page)' => mem'[x.page] = mem[x.page] /\ Mapped(x.page)
    OBVIOUS
  <2>2. x.page \in Pages /\ x.page \in Nat /\ x.page < hv
    BY <1>0, <1>1, <2>1, KnownObjects, PlacedBounds DEF HeapPlaced, Object
  <2> QED
    BY <1>2, <1>7, <2>2
<1>11. TypeOK'
  <2>1. [page |-> hv, off |-> loc[t].ptr.off] \in Ptr
    BY <1>2, <1>3, <1>4 DEF Ptr
  <2>2. g_flsts' \in [BlockTypes -> [top_of_stack : Ptr, high_canonical_addr : Addr]]
    BY <1>1, <1>2, <2>1
  <2>3. freed' \in SUBSET Object
    BY <1>1, <1>3 DEF TypeOK
  <2> QED
    BY <1>1, <1>2, <1>7, <1>8, <2>2, <2>3 DEF TypeOK
<1>12. Watermarks' /\ SmallHeads'
  <2>1. \A q \in Pages : Mapped(q)' => q = hv \/ (mem'[q] = mem[q] /\ Mapped(q))
    BY <1>7
  <2>2. high_vaddr' \in Nat /\ hv < high_vaddr' /\ high_vaddr' <= LARGE_OBJ_VADDR_START
    BY <1>1, <1>2
  <2>3. Watermarks'
    <3>1. large_obj_next_page' = large_obj_next_page /\ high_vaddr' = hv + 1
      BY <1>1
    <3> QED
      BY <1>00, <1>2, <2>1, <2>2, <3>1 DEF HeapPlaced, Watermarks, Pages
  <2>4. SmallHeads'
    BY <1>1, <1>5, <1>6, <1>7, <2>1 DEF HeapPlaced, SmallHeads
  <2> QED
    BY <2>3, <2>4
<1>13. \A c \in BlockTypes : g_flsts'[c].high_canonical_addr = g_flsts[c].high_canonical_addr
  BY <1>1, <1>2
<1>14. CanonicalSlots'
  BY <1>1, <1>13 DEF HeapPlaced, CanonicalSlots
<1>15. p \in SmallMapped /\ hv \notin SmallMapped
  BY <1>1, <1>4, <1>7 DEF SmallMapped
<1>16. Slots'
  BY <1>0, <1>1, <1>2, <1>6, <1>7, <1>13, <1>15, MovedSlots DEF HeapPlaced
<1>17. ObjectsPlaced'
  <2>1. ASSUME NEW x \in Known, ~IsLarge(x)
        PROVE  SmallObject(x)'
    <3>1. SmallObject(x) /\ x.page \in Nat
      BY <1>1, <2>1, KnownObjects DEF HeapPlaced, ObjectsPlaced
    <3>2. x.page < high_vaddr => x.page < high_vaddr'
      <4>1. high_vaddr' = hv + 1
        BY <1>1
      <4> QED
        BY <1>00, <1>2, <3>1, <4>1
    <3> QED
      BY <1>10, <2>1, <3>1, <3>2 DEF SmallObject
  <2>2. \A x \in Known : IsLarge(x) => LargePlaced(x)'
    BY <1>1 DEF HeapPlaced, ObjectsPlaced, LargePlaced
  <2> QED
    BY <1>9, <2>1, <2>2 DEF ObjectsPlaced, IsLarge
<1>18. SmallStale'
  BY <1>1, <1>3, <1>7, <1>10 DEF HeapPlaced, SmallStale, Known, IsLarge
<1>19. FreePages' = {q \in FreePages : Mapped(q)'} \cup {hv}
  <2>1. SmallMapped' = {q \in SmallMapped : Mapped(q)'} \cup {hv}
    BY <1>2, <1>7 DEF SmallMapped, Mapped
  <2>2. \A x \in (live \cup Dying)' : x \in live \cup Dying
    BY <1>1, <1>8
  <2>3. \A x \in live \cup Dying : x.page # hv
    BY <1>2, <1>10 DEF IsLarge, Known
  <2>4. \A q \in SmallMapped : Mapped(q)' /\ (\A x \in (live \cup Dying)' : x.page # q) =>
          \A x \in live \cup Dying : x.page # q
    BY <1>1, <1>3, <1>7, <1>8
  <2> QED
    BY <2>1, <2>2, <2>3, <2>4 DEF FreePages
<1>20. FreelistsApart'
  <2>1. \A q \in FreePages : q < hv
    BY <1>00, <1>2, NuafAssumption
    DEF FreePages, SmallMapped, HeapPlaced, Watermarks, Pages, NuafAssumption
  <2>2. \A q \in Pages : q < hv /\ Mapped(q)' => mem'[q] = mem[q]
    BY <1>2, <1>7
  <2>3. mem'[hv].head = b /\ mem'[hv].link = g_flsts[b].top_of_stack
    BY <1>6, <1>7
  <2> QED
    BY <1>0, <1>1, <1>3, <1>5, <1>19, <2>1, <2>2, <2>3, PushKeepsApart DEF HeapPlaced
<1>21. ASSUME NEW u \in Threads \ {t}
       PROVE  LocalsPlaced(u)'
  <2>1. LocalsPlaced(u)
    BY DEF FaultInv
  <2>2. pc[u] = "header" =>
          /\ \A x \in Known' : Apart(Pending(u), x)
          /\ \A v \in Threads \ {u} : pc'[v] = "header" => Apart(Pending(u), Pending(v)')
    BY <1>8, <1>9, <2>1 DEF LocalsPlaced, PendingPlaced, Pending
  <2>3. \A q \in Pages : q < high_vaddr /\ Mapped(q)' => Mapped(q)
    BY <1>0, <1>2, <1>7
  <2>4. large_obj_next_page' \in Nat /\ large_obj_next_page <= large_obj_next_page'
    BY <1>1, <1>2
  <2> QED
    BY <1>1, <1>8, <2>1, <2>2, <2>3, <2>4, OthersStayPlaced
<1> QED
  BY <1>8, <1>11, <1>12, <1>14, <1>16, <1>17, <1>18, <1>20, <1>21 DEF FaultInv, HeapPlaced

-----------------------------------------------------------------------------
(* The invariant holds initially and every step keeps it.                  *)

LEMMA InitFaultInv ==
  ASSUME Init
  PROVE  FaultInv
<1>1. IInv
  BY InitIInv
<1>2. /\ freed = {} /\ \A p \in Pages : ~Mapped(p)
      /\ \A b \in BlockTypes : g_flsts[b].top_of_stack = NULL
      /\ \A t \in Threads : pc[t] = "idle" /\ loc[t].obj = NoObject
      /\ high_vaddr = MMAP_MIN_ADDR
  BY DEF Init, Mapped, NoLocals
<1>3. FreelistsApart
  <2>1. FreePages = {}
    BY <1>2 DEF FreePages, SmallMapped
  <2>2. NULL.page = 0 /\ 0 < high_vaddr /\ 0 \in Pages
    BY <1>2, NuafAssumption DEF NULL, NuafAssumption, Pages
  <2> QED
    BY <1>2, <2>1, <2>2 DEF FreelistsApart, LeadsTo
<1>4. Slots
  <2>1. \A b \in BlockTypes : FirstCanonical(b).page % NUM_BLOCK_TYPES = b
    <3>1. NUM_BLOCK_TYPES \in Nat
      BY PageBytes
    <3> QED
      BY <3>1, BelowDivisor DEF FirstCanonical, BlockTypes
  <2>2. SmallMapped = {}
    BY <1>2 DEF SmallMapped
  <2> QED
    BY <2>1, <2>2 DEF Init, Slots
<1>5. HeapPlaced
  BY <1>1, <1>2, <1>3, <1>4, SoundPlaced DEF HeapPlaced, IInv, Heap, SmallStale
<1>6. \A t \in Threads : LocalsPlaced(t)
  BY <1>2 DEF LocalsPlaced
<1> QED
  BY <1>1, <1>5, <1>6 DEF FaultInv, IInv

LEMMA StutterPlaced ==
  ASSUME FaultInv, UNCHANGED vars
  PROVE  FaultInv'
<1>1. /\ UNCHANGED <<mem, high_vaddr, large_obj_next_page, g_flsts, g_m, g_big_obj_m,
                     pc, loc, live, freed, exited>>
  BY DEF vars
<1>2. Dying' = Dying /\ Known' = Known /\ SmallMapped' = SmallMapped /\ FreePages' = FreePages
  BY <1>1 DEF Dying, Known, SmallMapped, FreePages, Mapped
<1>3. TypeOK' /\ Watermarks' /\ SmallHeads' /\ CanonicalSlots' /\ SmallStale'
  BY <1>1 DEF FaultInv, HeapPlaced, TypeOK, Watermarks, SmallHeads, CanonicalSlots, SmallStale,
              Mapped, IsLarge
<1>4. Slots'
  BY <1>1, <1>2 DEF FaultInv, HeapPlaced, Slots, Before
<1>5. ObjectsPlaced'
  BY <1>1, <1>2 DEF FaultInv, HeapPlaced, ObjectsPlaced, LargePlaced, SmallObject, IsLarge, Mapped
<1>6. FreelistsApart'
  BY <1>1, <1>2 DEF FaultInv, HeapPlaced, FreelistsApart, LeadsTo, Mapped
<1>7. \A t \in Threads : LocalsPlaced(t)'
  BY <1>1, <1>2
  DEF FaultInv, LocalsPlaced, PendingPlaced, Pending, Apart, FreePlaced, IsLarge, Mapped
<1> QED
  BY <1>3, <1>4, <1>5, <1>6, <1>7 DEF FaultInv, HeapPlaced

LEMMA NextFaultInv ==
  ASSUME AreasApart, FaultInv, [Next]_vars
  PROVE  FaultInv'
<1>1. ASSUME NEW t \in Threads, PopFails(t) \/ MmapBigFails(t) \/ MremapGivesUp(t)
      PROVE  FaultInv'
  BY <1>1, ExitPlaced, CallsPlaced DEF PopFails, MmapBigFails, MremapGivesUp
<1>2. ASSUME NEW t \in Threads, Step(t)
      PROVE  FaultInv'
  BY <1>1, <1>2, PopFreshPlaced, PopTopPlaced, CallsPlaced, MmapBigPlaced, WriteHeaderPlaced,
     get_obj_startPlaced, MunmapPlaced, MremapAndPushPlaced, MremapFailsPlaced
  DEF Step
<1>3. ASSUME NEW t \in Threads, Client(t)
      PROVE  FaultInv'
  BY <1>3, xxmallocPlaced, FreePlacedStep, CallsPlaced, StorePlaced DEF Client
<1> QED
  BY <1>2, <1>3, StutterPlaced DEF Next

\* New objects get pages of their own whatever fails.
LEMMA FaultyNewApart ==
  ASSUME AreasApart, FaultInv, [Next]_vars
  PROVE  NewApart
<1>1. ASSUME NEW t \in Threads, PopFresh(t) \/ PopTop(t) \/ WriteHeader(t)
      PROVE  NewApart
  BY <1>1, PopFreshPlaced, PopTopPlaced, WriteHeaderPlaced
<1> QED
  BY <1>1, OnlyMakers

\* Every object a step adds to those known is one it hands to the program,
\* and a step hands out one at most.
LEMMA KnownGrows ==
  ASSUME FaultInv, [Next]_vars
  PROVE  /\ Known' \subseteq Known \cup (live' \ live)
         /\ \E x : live' \subseteq live \cup {x}
<1> DEFINE Same(u) == loc'[u].obj \in Known \cup {NoObject}
           Made(x) == live' \subseteq live \cup {x}
           Grows   == freed' \subseteq Known /\ (\A u \in Threads : Same(u)) /\ \E x : Made(x)
<1>1. TypeOK /\ freed \subseteq Known /\ live \subseteq Known /\ Dying \subseteq Known
  BY DEF FaultInv, Known
<1>2. \A u \in Threads : loc[u].obj \in Known \cup {NoObject}
  BY <1>1 DEF Dying
<1>3. ASSUME NEW t \in Threads, Return(t)
      PROVE  \A u \in Threads : Same(u)
  <2>1. \A u \in Threads : loc'[u] = IF u = t THEN NoLocals ELSE loc[u]
    BY <1>1, <1>3 DEF Return, TypeOK
  <2> QED
    BY <1>2, <2>1 DEF NoLocals
<1>4. ASSUME NEW how, Exit(how)
      PROVE  Grows
  BY <1>1, <1>2, <1>4 DEF Exit
<1>5. ASSUME NEW t \in Threads, NEW o \in Known, NEW ptr, ReadSize(t, o, ptr)
      PROVE  Grows
  <2>1. CASE Readable(ptr)
    <3>1. \A u \in Threads \ {t} : loc'[u] = loc[u]
      BY <1>1, <1>5, <2>1 DEF ReadSize, TypeOK
    <3>2. loc'[t].obj = o /\ live' = live \ {o} /\ freed' = freed
      BY <1>1, <1>5, <2>1 DEF ReadSize, TypeOK
    <3> QED
      BY <1>1, <1>2, <3>1, <3>2
  <2> QED
    BY <1>4, <1>5, <2>1 DEF ReadSize
<1>6. ASSUME NEW t \in Threads, pc[t] \in {"munmap", "mremap"}
      PROVE  loc[t].obj \in Known
  BY <1>2, <1>6 DEF FaultInv, LocalsPlaced, FreePlaced
<1>7. ASSUME UNCHANGED <<live, freed>>, \A u \in Threads : loc'[u].obj = loc[u].obj
      PROVE  Grows
  BY <1>1, <1>2, <1>7
<1>8. ASSUME NEW t \in Threads, Step(t)
      PROVE  Grows
  <2>1. CASE PopFresh(t) \/ PopTop(t) \/ WriteHeader(t)
    <3> DEFINE Makes == \E x : live' = live \cup {x} /\ Return(t) /\ freed' = freed
    <3>1. CASE Makes
      BY <1>1, <1>3, <3>1
    <3>2. ASSUME NEW ptr, ReturnSmall(t, ptr)
          PROVE  Makes
      BY <3>2 DEF ReturnSmall
    <3>3. PopFresh(t) => Makes
      BY <3>2 DEF PopFresh
    <3>4. PopTop(t) => Makes \/ Exit("segv")
      BY <3>2 DEF PopTop
    <3>5. WriteHeader(t) => Makes \/ Exit("segv")
      BY DEF WriteHeader
    <3> QED
      BY <1>4, <2>1, <3>1, <3>3, <3>4, <3>5
  <2>2. CASE Munmap(t) \/ MremapAndPush(t)
    <3>1. freed' = freed \cup {loc[t].obj} /\ live' = live /\ Return(t)
      BY <2>2 DEF Munmap, MremapAndPush
    <3>2. loc[t].obj \in Known
      BY <1>6, <2>2 DEF Munmap, MremapAndPush
    <3> QED
      BY <1>1, <1>3, <3>1, <3>2
  <2>3. CASE MmapBig(t) \/ get_obj_start(t) \/ MremapFails(t)
    <3> DEFINE Kept == UNCHANGED <<live, freed>> /\ \A u \in Threads : loc'[u].obj = loc[u].obj
    <3>1. MmapBig(t) => Kept
      BY <1>1 DEF MmapBig, TypeOK
    <3>2. MremapFails(t) => Kept
      BY <1>1 DEF MremapFails, TypeOK
    <3>3. get_obj_start(t) => Kept \/ Exit("segv")
      BY <1>1 DEF get_obj_start, TypeOK
    <3> QED
      BY <1>4, <1>7, <2>3, <3>1, <3>2, <3>3
  <2>4. CASE \/ PopFails(t) \/ MmapBigFails(t) \/ MremapGivesUp(t)
             \/ LockSmall(t) \/ LockBig(t) \/ LockAllSmall(t) \/ LockAllBig(t) \/ xxmalloc_unlock(t)
    BY <1>1, <1>4, <1>7, <2>4
    DEF PopFails, MmapBigFails, MremapGivesUp, LockSmall, LockBig, LockAllSmall, LockAllBig,
        xxmalloc_unlock
  <2> QED
    BY <1>8, <2>1, <2>2, <2>3, <2>4 DEF Step
<1>9. ASSUME NEW t \in Threads, Client(t)
      PROVE  Grows
  <2>1. CASE xxfree(t) \/ FreeAgain(t)
    BY <1>1, <1>5, <2>1 DEF xxfree, FreeAgain
  <2>2. CASE \E size \in Sizes : xxmalloc(t, size)
    <3>1. UNCHANGED <<live, freed>> /\ \A u \in Threads \ {t} : loc'[u] = loc[u]
      BY <1>1, <2>2 DEF xxmalloc, TypeOK
    <3>2. loc'[t].obj \in {NoObject, loc[t].obj}
      BY <1>1, <2>2 DEF xxmalloc, NoLocals, TypeOK
    <3> QED
      BY <1>1, <1>2, <3>1, <3>2
  <2>3. CASE xxmalloc_lock(t) \/ Store(t)
    BY <1>4, <1>7, <2>3 DEF xxmalloc_lock, Store
  <2> QED
    BY <1>9, <2>1, <2>2, <2>3 DEF Client
<1>10. Grows
  BY <1>7, <1>8, <1>9 DEF Next, vars
<1> QED
  BY <1>10 DEF Known, Dying

-----------------------------------------------------------------------------
(* The theorems, whether or not mmap, mremap and munmap fail.              *)

\* Objects and freelists stay where the watermarks put them, whatever calls of
\* the operating system fail, whatever the program stores and frees.
THEOREM FaultInvariance ==
  ASSUME AreasApart
  PROVE  Spec => []FaultInv
<1>1. Init => FaultInv
  BY InitFaultInv
<1>2. FaultInv /\ [Next]_vars => FaultInv'
  BY NextFaultInv
<1> QED
  BY <1>1, <1>2, PTL DEF Spec

\* The variables of the allocator keep their types: no pointer leaves the
\* address space, and every freelist head and slot is one.
THEOREM TypeCorrect ==
  ASSUME AreasApart
  PROVE  Spec => []TypeOK
<1>1. FaultInv => TypeOK
  BY DEF FaultInv
<1> QED
  BY <1>1, FaultInvariance, PTL

\* xxmalloc never returns memory on a page that an object the program holds,
\* an object being freed or a freed object is or was on: a stale pointer never
\* points into a later object.
THEOREM PagesNeverReused ==
  ASSUME AreasApart
  PROVE  Spec => NoReuse
<1>1. ASSUME FaultInv, FaultInv', [Next]_vars, NEW o \in live' \ live
      PROVE  ObjectPages(o) \cap PagesOf(live \cup Dying \cup freed) = {}
  <2>1. o.page \in Nat /\ o.np \in Nat
    <3>1. TypeOK'
      BY <1>1 DEF FaultInv
    <3>2. o \in Object
      BY <1>1, <3>1 DEF TypeOK
    <3> QED
      BY <3>2, NuafAssumption DEF Object, Pages, NuafAssumption
  <2>2. ASSUME NEW a \in Known
        PROVE  ObjectPages(o) \cap ObjectPages(a) = {}
    <3>1. a.page \in Nat /\ a.np \in Nat
      BY <1>1, KnownObjects DEF FaultInv
    <3>2. Apart(o, a)
      BY <1>1, FaultyNewApart DEF NewApart
    <3> QED
      BY <2>1, <3>1, <3>2 DEF Apart, ObjectPages
  <2> QED
    BY <2>2 DEF PagesOf, Known
<1>2. FaultInv /\ FaultInv' /\ [Next]_vars =>
        [\A o \in live' \ live :
           ObjectPages(o) \cap PagesOf(live \cup Dying \cup freed) = {}]_vars
  BY <1>1
<1> QED
  BY <1>2, FaultInvariance, PTL DEF Spec, NoReuse

\* Two objects never share a page, whatever calls are in progress and whatever
\* fails: objects the program holds, objects being freed, objects freed, also
\* those whose pages a failed munmap has left mapped.
THEOREM ObjectsStayApart ==
  ASSUME AreasApart
  PROVE  Spec => []ObjectsApart
<1>1. Init => FaultInv /\ ObjectsApart
  <2>1. Init => FaultInv
    BY InitFaultInv
  <2>2. Init => Known = {}
    BY DEF Init, Known, Dying, NoLocals
  <2> QED
    BY <2>1, <2>2 DEF ObjectsApart
<1>2. FaultInv /\ ObjectsApart /\ [Next]_vars => FaultInv' /\ ObjectsApart'
  <2> SUFFICES ASSUME FaultInv, ObjectsApart, [Next]_vars
               PROVE  FaultInv' /\ ObjectsApart'
    OBVIOUS
  <2>1. FaultInv' /\ NewApart
    BY NextFaultInv, FaultyNewApart
  <2>2. PICK x : live' \subseteq live \cup {x}
    BY KnownGrows
  <2>3. ASSUME NEW a \in Known', NEW b \in Known', a # b
        PROVE  Apart(a, b)
    <3>1. /\ a \in Known \/ a \in live' \ live
          /\ b \in Known \/ b \in live' \ live
      BY <2>3, KnownGrows
    <3>2. CASE a \in Known /\ b \in Known
      BY <2>3, <3>2 DEF ObjectsApart
    <3>3. CASE a \in live' \ live /\ b \in Known
      BY <2>1, <3>3 DEF NewApart
    <3>4. CASE b \in live' \ live /\ a \in Known
      BY <2>1, <3>4 DEF NewApart, Apart
    <3> QED
      BY <2>2, <2>3, <3>1, <3>2, <3>3, <3>4
  <2>4. ObjectsApart'
    BY <2>3 DEF ObjectsApart, Apart
  <2> QED
    BY <2>1, <2>4
<1> QED
  BY <1>1, <1>2, PTL DEF Spec

\* freelist_pop never gives two small objects the same bytes of the backing
\* file, and none reaches into the metadata of its page or past its end, as
\* pages move from address to address and back into the freelists.
THEOREM SlotsStayDisjoint ==
  ASSUME AreasApart
  PROVE  Spec => []SlotsDisjoint
<1> DEFINE End(p) == mem[p].slot.off + BlockSize(mem[p].head)
<1>1. ASSUME FaultInv, NEW p \in SmallMapped
      PROVE  /\ mem[p].slot.off >= BYTE_ALIGNMENT /\ End(p) <= PAGE_SIZE
             /\ \A q \in SmallMapped \ {p} :
                  mem[p].slot.page = mem[q].slot.page =>
                    /\ mem[p].head = mem[q].head
                    /\ End(p) <= mem[q].slot.off \/ End(q) <= mem[p].slot.off
  <2>0. Slots /\ TypeOK
    BY <1>1 DEF FaultInv, HeapPlaced
  <2>1. SlotOf(mem[p].head, mem[p].slot.off)
    BY <1>1, <2>0 DEF Slots
  <2>2. ASSUME NEW q \in SmallMapped \ {p}, mem[p].slot.page = mem[q].slot.page
        PROVE  /\ mem[p].head = mem[q].head
               /\ End(p) <= mem[q].slot.off \/ End(q) <= mem[p].slot.off
    <3>1. mem[p].head = mem[q].head
      BY <1>1, <2>0, <2>2 DEF Slots
    <3>2. \/ Before(mem[p].head, mem[p].slot, mem[q].slot)
          \/ Before(mem[p].head, mem[q].slot, mem[p].slot)
      BY <1>1, <2>0, <2>2, <3>1 DEF Slots
    <3>3. mem[p].slot.page \in Nat
      BY <1>1, <2>0 DEF TypeOK, SmallMapped, Mapped, PageContent, Addr
    <3> QED
      BY <2>2, <3>1, <3>2, <3>3 DEF Before
  <2> QED
    BY <2>1, <2>2 DEF SlotOf
<1>2. FaultInv => SlotsDisjoint
  BY <1>1 DEF SlotsDisjoint
<1> QED
  BY <1>2, FaultInvariance, PTL

-----------------------------------------------------------------------------
(* When system calls do not fail: what the pointers of the freelists mean. *)

\* A small object starts in its page where its slot does, and so does what a
\* pointer of a freelist points to.
AtSlot(ptr) == ptr # NULL => mem[ptr.page].slot.off = ptr.off

ObjectSlots == \A o \in Known : ~IsLarge(o) /\ Mapped(o.page) => mem[o.page].slot.off = o.off

FreeSlots ==
  Quiet => /\ \A b \in BlockTypes : AtSlot(g_flsts[b].top_of_stack)
           /\ \A p \in FreePages : AtSlot(mem[p].link)

SlotInv == IInv /\ ObjectSlots /\ FreeSlots

-----------------------------------------------------------------------------
(* Steps that move no page of a small object and map none.                 *)

\* The pages that are free were free before, and their links are the same.
FreeKept == \A p \in FreePages' : p \in FreePages /\ mem'[p].link = mem[p].link

Keeps ==
  /\ SmallKept /\ FreeKept /\ g_flsts' = g_flsts
  /\ \A o \in Known' : o \in Known \/ IsLarge(o)

LEMMA FreePointers ==
  ASSUME FreelistsFalling
  PROVE  /\ \A b \in BlockTypes : g_flsts[b].top_of_stack # NULL =>
              g_flsts[b].top_of_stack.page \in FreePages
         /\ \A p \in FreePages : mem[p].link # NULL => mem[p].link.page \in FreePages
BY DEF FreelistsFalling, HighestFree

\* Such steps keep the invariant.
LEMMA KeptSlots ==
  ASSUME SlotInv, IInv', Quiet' => Quiet, Keeps
  PROVE  SlotInv'
<1>1. ObjectSlots'
  <2>1. SUFFICES ASSUME NEW o \in Known', ~IsLarge(o), Mapped(o.page)'
                 PROVE  mem'[o.page].slot.off = o.off
    BY DEF ObjectSlots, IsLarge
  <2>2. o \in Known /\ o.page \in Pages /\ o.page < LARGE_OBJ_VADDR_START
    BY <2>1, KnownObjects, NuafAssumption
    DEF Keeps, IsLarge, SlotInv, IInv, Object, NuafAssumption
  <2> QED
    BY <2>1, <2>2 DEF Keeps, SmallKept, SlotInv, ObjectSlots
<1>2. FreeSlots'
  <2>1. SUFFICES ASSUME Quiet'
                 PROVE  /\ \A b \in BlockTypes : AtSlot(g_flsts[b].top_of_stack)'
                        /\ \A p \in FreePages' : AtSlot(mem[p].link)'
    BY DEF FreeSlots
  <2>2. FreelistsFalling' /\ FreeSlots /\ Quiet
    BY <2>1 DEF IInv, SlotInv
  <2>3. \A p \in FreePages' : mem'[p].slot = mem[p].slot
    BY DEF Keeps, SmallKept, FreePages, SmallMapped
  <2>4. ASSUME NEW b \in BlockTypes
        PROVE  AtSlot(g_flsts[b].top_of_stack)'
    BY <2>2, <2>3 DEF Keeps, AtSlot, FreeSlots, FreelistsFalling, HighestFree
  <2>5. ASSUME NEW p \in FreePages'
        PROVE  AtSlot(mem[p].link)'
    <3>1. p \in FreePages /\ mem'[p].link = mem[p].link
      BY DEF Keeps, FreeKept
    <3> QED
      BY <2>2, <2>3, <3>1 DEF AtSlot, FreeSlots, FreelistsFalling, HighestFree
  <2> QED
    BY <2>4, <2>5
<1> QED
  BY <1>1, <1>2 DEF SlotInv

LEMMA KeepsThem ==
  ASSUME SmallKept, g_flsts' = g_flsts,
         \A o \in Known' : o \in Known \/ IsLarge(o),
         \A o \in live \cup Dying : o \in (live \cup Dying)' \/ IsLarge(o),
         \A p \in FreePages : Mapped(p)' => mem'[p].link = mem[p].link
  PROVE  Keeps
<1>1. ASSUME NEW p \in FreePages'
      PROVE  p \in FreePages /\ mem'[p].link = mem[p].link
  <2>1. p \in Pages /\ p < LARGE_OBJ_VADDR_START /\ Mapped(p)' /\ p \in SmallMapped
    BY DEF FreePages, SmallMapped, SmallKept
  <2>2. p \in Nat /\ LARGE_OBJ_VADDR_START \in Nat
    BY <2>1, NuafAssumption DEF Pages, NuafAssumption
  <2>3. \A o \in live \cup Dying : o.page # p
    BY <2>1, <2>2 DEF FreePages, IsLarge
  <2> QED
    BY <2>1, <2>3 DEF FreePages
<1> QED
  BY <1>1 DEF Keeps, FreeKept

\* Steps that leave the heap alone.
LEMMA HeapLeft ==
  ASSUME UNCHANGED <<mem, g_flsts>>, Known' \subseteq Known,
         live \cup Dying \subseteq (live \cup Dying)'
  PROVE  Keeps
<1>1. SmallKept
  BY DEF SmallKept, Mapped
<1> QED
  BY <1>1, KeepsThem

LEMMA CallsKeep ==
  ASSUME IInv, NEW t \in Threads,
         \/ LockSmall(t) \/ LockBig(t) \/ PopFails(t) \/ MmapBigFails(t) \/ MremapGivesUp(t)
         \/ xxmalloc_lock(t) \/ LockAllSmall(t) \/ LockAllBig(t) \/ xxmalloc_unlock(t)
         \/ get_obj_start(t) \/ \E size \in Sizes : xxmalloc(t, size)
  PROVE  Keeps
<1>1. UNCHANGED <<mem, g_flsts, live, freed>>
  BY DEF LockSmall, LockBig, PopFails, MmapBigFails, MremapGivesUp, xxmalloc_lock, LockAllSmall,
         LockAllBig, xxmalloc_unlock, get_obj_start, xxmalloc, Exit, Reenters, heapVars
<1>2. loc \in [Threads -> [size : Nat, ptr : Ptr, np : Nat, i : Nat, obj : Object]]
  BY DEF IInv, TypeOK
<1>3. \A u \in Threads : loc'[u].obj = loc[u].obj
  BY <1>2
  DEF LockSmall, LockBig, PopFails, MmapBigFails, MremapGivesUp, xxmalloc_lock, LockAllSmall,
      LockAllBig, xxmalloc_unlock, get_obj_start, xxmalloc, Exit, Reenters
<1>4. Dying' = Dying
  BY <1>3, DyingSame
<1> QED
  BY <1>1, <1>4, HeapLeft DEF Known

LEMMA FreeKeeps ==
  ASSUME IInv, NEW t \in Threads, xxfree(t) \/ FreeAgain(t)
  PROVE  Keeps
<1>1. PICK o \in Known : \E ptr \in Interior(o) : ReadSize(t, o, ptr)
  BY DEF xxfree, FreeAgain, Known
<1>2. /\ pc[t] = "idle" /\ loc[t].obj = NoObject
      /\ loc \in [Threads -> [size : Nat, ptr : Ptr, np : Nat, i : Nat, obj : Object]]
  BY DEF xxfree, FreeAgain, IInv, TypeOK, LocalsSound
<1>3. UNCHANGED <<mem, g_flsts, freed>>
  BY <1>1 DEF ReadSize, Exit, heapVars
<1>4. CASE UNCHANGED <<live, loc>>
  BY <1>3, <1>4, HeapLeft DEF Known, Dying
<1>5. CASE live' = live \ {o} /\ loc'[t].obj = o /\ \A u \in Threads \ {t} : loc'[u] = loc[u]
  <2>1. Dying' = Dying \cup {o}
    BY <1>1, <1>2, <1>5, NoObjectUnknown DEF Dying
  <2> QED
    BY <1>3, <1>5, <2>1, HeapLeft DEF Known
<1> QED
  BY <1>1, <1>2, <1>4, <1>5 DEF ReadSize, Exit

LEMMA StoreKeeps ==
  ASSUME IInv, NEW t \in Threads, Store(t)
  PROVE  Keeps
<1>0. PICK o \in live \cup freed :
        \E p \in ObjectPages(o) :
          \/ Mapped(p) /\ ~IsLarge(o) /\ mem' = [mem EXCEPT ![p].link = WILD]
          \/ /\ Mapped(p) /\ IsLarge(o) /\ p # o.page
             /\ \E w \in UserWords : Stored(p, w)
          \/ Exit("segv")
  BY DEF Store, Stored
<1>1. PICK p \in ObjectPages(o) :
        \/ Mapped(p) /\ ~IsLarge(o) /\ mem' = [mem EXCEPT ![p].link = WILD]
        \/ /\ Mapped(p) /\ IsLarge(o) /\ p # o.page
           /\ \E w \in UserWords : Stored(p, w)
        \/ Exit("segv")
  BY <1>0
<1>2. /\ UNCHANGED <<g_flsts, live, freed, loc>>
      /\ TypeOK /\ Watermarks /\ ObjectsSound /\ o \in Known
      /\ mem \in [Pages -> PageContent \cup {UNMAPPED}]
  BY DEF Store, Exit, IInv, Heap, Known, TypeOK
<1>3. Dying' = Dying /\ Known' = Known
  BY <1>2 DEF Dying, Known
<1>4. /\ p \in Pages /\ p \in Nat /\ LARGE_OBJ_VADDR_START \in Nat
      /\ IsLarge(o) => LARGE_OBJ_VADDR_START <= p
      /\ ~IsLarge(o) => p = o.page
  BY <1>2, KnownPages, NuafAssumption DEF NuafAssumption
<1>5. CASE mem' = mem
  BY <1>2, <1>3, <1>5, HeapLeft
<1>6. CASE Mapped(p) /\ ~IsLarge(o) /\ mem' = [mem EXCEPT ![p].link = WILD]
  <2>1. mem[p] \in PageContent
    BY <1>2, <1>4, <1>6 DEF Mapped
  <2>2. \A q \in Pages \ {p} : mem'[q] = mem[q]
    BY <1>2, <1>4, <1>6
  <2>3. mem'[p].head = mem[p].head /\ mem'[p].slot = mem[p].slot
    BY <1>2, <1>4, <1>6, <2>1 DEF PageContent
  <2>4. SmallKept
    BY <1>6, <2>2, <2>3 DEF SmallKept, Mapped
  <2>5. p \notin FreePages
    <3>1. o \in live
      <4>1. o \notin freed
        BY <1>1, <1>6 DEF IInv, Heap, StaleUnmapped, PagesOf
      <4> QED
        BY <4>1
    <3> QED
      BY <1>4, <1>6, <3>1 DEF FreePages
  <2>6. \A q \in FreePages : mem'[q].link = mem[q].link
    BY <2>2, <2>5 DEF FreePages, SmallMapped
  <2> QED
    BY <1>2, <1>3, <2>4, <2>6, KeepsThem
<1>7. CASE IsLarge(o) /\ \E w \in UserWords : Stored(p, w)
  <2>1. \A q \in Pages : q < LARGE_OBJ_VADDR_START => mem'[q] = mem[q]
    <3>1. \A q \in Pages \ {p} : mem'[q] = mem[q]
      BY <1>2, <1>4, <1>7 DEF Stored
    <3> QED
      BY <1>4, <1>7, <3>1 DEF Pages
  <2>2. SmallKept /\ \A q \in FreePages : mem'[q].link = mem[q].link
    BY <2>1 DEF SmallKept, Mapped, FreePages, SmallMapped
  <2> QED
    BY <1>2, <1>3, <2>2, KeepsThem
<1> QED
  BY <1>1, <1>5, <1>6, <1>7 DEF Exit

LEMMA MmapBigKeeps ==
  ASSUME IInv, NEW t \in Threads, MmapBig(t)
  PROVE  Keeps
<1>0. PICK np, first : np = NumPages(loc[t].size) /\ first = large_obj_next_page
  OBVIOUS
<1>1. /\ loc \in [Threads -> [size : Nat, ptr : Ptr, np : Nat, i : Nat, obj : Object]]
      /\ mem' = MappingAnon(mem, first .. (first + np - 1))
      /\ loc' = [loc EXCEPT ![t].np = np, ![t].ptr = [page |-> first, off |-> 0]]
      /\ UNCHANGED <<g_flsts, live, freed>>
      /\ first \in Nat /\ LARGE_OBJ_VADDR_START <= first /\ LARGE_OBJ_VADDR_START \in Nat
  BY <1>0, NuafAssumption DEF IInv, TypeOK, Heap, Watermarks, MmapBig, NuafAssumption
<1>2. np \in Nat
  BY <1>0, <1>1, NumPagesHold
<1>3. Dying' = Dying
  BY <1>1, DyingSame
<1>4. \A q \in Pages : q < LARGE_OBJ_VADDR_START => mem'[q] = mem[q]
  BY <1>1, <1>2 DEF MappingAnon, Pages
<1>5. SmallKept /\ \A q \in FreePages : mem'[q].link = mem[q].link
  BY <1>4 DEF SmallKept, Mapped, FreePages, SmallMapped
<1> QED
  BY <1>1, <1>3, <1>5, KeepsThem DEF Known

LEMMA WriteHeaderKeeps ==
  ASSUME IInv, NEW t \in Threads, WriteHeader(t)
  PROVE  Keeps
<1>0. PICK p, new : /\ p = loc[t].ptr.page
                    /\ new = [page |-> p, off |-> LARGE_HEADER,
                              np |-> loc[t].np, size |-> loc[t].size]
  OBVIOUS
<1>1. /\ TypeOK /\ PendingSound(t) /\ loc[t].obj = NoObject
      /\ mem \in [Pages -> PageContent \cup {UNMAPPED}]
      /\ LARGE_OBJ_VADDR_START \in Nat /\ p \in Nat /\ LARGE_OBJ_VADDR_START <= p
  <2>1. TypeOK /\ PendingSound(t) /\ loc[t].obj = NoObject
    BY DEF WriteHeader, IInv, LocalsSound
  <2>2. /\ mem \in [Pages -> PageContent \cup {UNMAPPED}]
        /\ loc[t].ptr \in Ptr
    BY <2>1 DEF TypeOK
  <2> QED
    BY <1>0, <2>1, <2>2, NuafAssumption DEF PendingSound, Ptr, Pages, NuafAssumption
<1>2. CASE Mapped(p)
  <2>1. /\ mem' = [mem EXCEPT ![p].head = LARGE_OBJ_START_MAGIC, ![p].np = loc[t].np]
        /\ live' = live \cup {new} /\ Return(t)
        /\ UNCHANGED <<freed, g_flsts>>
    BY <1>0, <1>2 DEF WriteHeader
  <2>2. Dying' = Dying
    BY <1>1, <2>1, ReturnLocals
  <2>3. \A q \in Pages : q < LARGE_OBJ_VADDR_START => mem'[q] = mem[q]
    BY <1>1, <2>1 DEF Pages
  <2>4. SmallKept /\ \A q \in FreePages : mem'[q].link = mem[q].link
    BY <2>3 DEF SmallKept, Mapped, FreePages, SmallMapped
  <2>5. IsLarge(new)
    BY <1>0, <1>1 DEF IsLarge
  <2> QED
    BY <2>1, <2>2, <2>4, <2>5, KeepsThem DEF Known
<1>3. CASE ~Mapped(p)
  <2>1. UNCHANGED <<mem, g_flsts, live, freed, loc>>
    BY <1>0, <1>3 DEF WriteHeader, Exit
  <2> QED
    BY <2>1, HeapLeft DEF Known, Dying
<1> QED
  BY <1>2, <1>3

LEMMA MunmapKeeps ==
  ASSUME Reliable, IInv, NEW t \in Threads, Munmap(t)
  PROVE  Keeps
<1>1. /\ TypeOK /\ LargeFree(t) /\ Return(t)
      /\ mem' = Unmapping(mem, loc[t].ptr.page .. (loc[t].ptr.page + loc[t].np - 1))
      /\ freed' = freed \cup {loc[t].obj} /\ UNCHANGED <<g_flsts, live>>
  BY DEF Munmap, IInv, LocalsSound, Reliable
<1>2. /\ Dying' \subseteq Dying /\ Dying \subseteq Dying' \cup {loc[t].obj}
      /\ IsLarge(loc[t].obj) /\ loc[t].obj \in Dying
  BY <1>1, ReturnLocals DEF LargeFree, Dying
<1>3. \A q \in Pages : Mapped(q)' => mem'[q] = mem[q] /\ Mapped(q)
  BY <1>1 DEF Unmapping, Mapped
<1>4. SmallKept /\ \A q \in FreePages : Mapped(q)' => mem'[q].link = mem[q].link
  BY <1>3 DEF SmallKept, FreePages, SmallMapped
<1> QED
  BY <1>1, <1>2, <1>4, KeepsThem DEF Known

LEMMA MremapFailsKeeps ==
  ASSUME IInv, NEW t \in Threads, MremapFails(t)
  PROVE  Keeps
<1>1. /\ loc \in [Threads -> [size : Nat, ptr : Ptr, np : Nat, i : Nat, obj : Object]]
      /\ loc' = [loc EXCEPT ![t].i = loc[t].i + 1]
      /\ mem' = mem \/ mem' = MremapCleared(loc[t].ptr.page, loc[t].i)
      /\ UNCHANGED <<g_flsts, live, freed>>
  BY DEF MremapFails, IInv, TypeOK
<1>2. Dying' = Dying
  BY <1>1, DyingSame
<1>3. \A q \in Pages : Mapped(q)' => mem'[q] = mem[q] /\ Mapped(q)
  BY <1>1 DEF MremapCleared, Unmapping, Mapped
<1>4. SmallKept /\ \A q \in FreePages : Mapped(q)' => mem'[q].link = mem[q].link
  BY <1>3 DEF SmallKept, FreePages, SmallMapped
<1> QED
  BY <1>1, <1>2, <1>4, KeepsThem DEF Known

-----------------------------------------------------------------------------
(* freelist_pop: a fresh slot, or the top of a freelist.                   *)

LEMMA PopFreshSlots ==
  ASSUME Reliable, SlotInv, NEW t \in Threads, PopFresh(t)
  PROVE  SlotInv'
<1>0. PICK b, slot, hv, new :
        /\ b = BlockType(loc[t].size) /\ slot = g_flsts[b].high_canonical_addr
        /\ hv = high_vaddr
        /\ new = [page |-> hv, off |-> slot.off, np |-> 1, size |-> loc[t].size]
  OBVIOUS
<1>1. /\ IInv /\ IInv' /\ TypeOK /\ pc[t] = "pop" /\ LocalsSound(t)
      /\ mem' = [mem EXCEPT ![hv] = SmallPage(b, slot)]
      /\ g_flsts' = [g_flsts EXCEPT ![b].high_canonical_addr = NextCanonical(b, slot)]
      /\ live' = live \cup {new} /\ Return(t) /\ UNCHANGED freed
      /\ high_vaddr < SMALL_CAP
  BY <1>0, PopFreshStep DEF SlotInv, IInv, PopFresh, ReturnSmall
<1>2. /\ loc[t].size \in Nat /\ loc[t].size <= LARGEST_BLOCK_SIZE /\ loc[t].obj = NoObject
      /\ mem \in [Pages -> PageContent \cup {UNMAPPED}]
      /\ g_flsts \in [BlockTypes -> [top_of_stack : Ptr, high_canonical_addr : Addr]]
  BY <1>1 DEF LocalsSound, TypeOK
<1>3. /\ hv \in Pages /\ hv \in Nat /\ hv < LARGE_OBJ_VADDR_START /\ LARGE_OBJ_VADDR_START \in Nat
      /\ ~Mapped(hv)
  <2>1. Watermarks /\ TypeOK
    BY <1>1 DEF IInv, Heap
  <2> QED
    BY <1>0, <1>1, <2>1, SmallRoom, NuafAssumption DEF Watermarks, NuafAssumption
<1>4. b \in BlockTypes /\ slot \in Addr /\ SlotOf(b, slot.off)
  BY <1>0, <1>1, <1>2, ClassHolds DEF IInv, Heap, CanonicalSlots
<1>6. /\ \A q \in Pages \ {hv} : mem'[q] = mem[q]
      /\ mem'[hv].head = b /\ mem'[hv].slot = slot
  BY <1>1, <1>2, <1>3 DEF SmallPage
<1>7. SmallMapped' \subseteq SmallMapped \cup {hv} /\ hv \notin SmallMapped
  BY <1>3, <1>6 DEF SmallMapped, Mapped
<1>8. /\ g_flsts'[b].high_canonical_addr = NextCanonical(b, slot)
      /\ \A c \in BlockTypes \ {b} : g_flsts'[c].high_canonical_addr = g_flsts[c].high_canonical_addr
      /\ \A c \in BlockTypes : g_flsts'[c].top_of_stack = g_flsts[c].top_of_stack
  BY <1>1, <1>2, <1>4
<1>9. \A p \in SmallMapped : /\ p \in Pages /\ mem[p].head \in BlockTypes /\ mem[p].slot \in Addr
                             /\ p # hv /\ mem'[p] = mem[p]
  BY <1>1, <1>2, <1>6, <1>7 DEF SmallMapped, Mapped, PageContent, IInv, Heap, SmallHeads
<1>11. Dying' = Dying /\ Known' = Known \cup {new}
  BY <1>1, <1>2, ReturnLocals DEF Known
<1>12. ObjectSlots'
  <2>1. ASSUME NEW o \in Known, ~IsLarge(o), mem'[o.page] # UNMAPPED
        PROVE  mem'[o.page].slot.off = o.off
    <3>1. o.page \in ObjectPages(o)
      BY <1>1, KnownObjects, ObjectBounds DEF IInv, Heap, ObjectPages
    <3>2. o.page \in Pages /\ o.page # hv
      BY <1>0, <1>1, <1>3, <2>1, <3>1, KnownPages DEF IInv, Heap
    <3>3. mem'[o.page] = mem[o.page]
      BY <1>6, <3>2
    <3> QED
      BY <2>1, <3>3 DEF SlotInv, ObjectSlots, Mapped
  <2> QED
    BY <1>0, <1>6, <1>11, <2>1 DEF ObjectSlots, IsLarge, Mapped
<1>13. FreePages' \subseteq FreePages
  <2>1. hv \notin FreePages'
    BY <1>0, <1>1 DEF FreePages
  <2> QED
    BY <1>1, <1>7, <1>11, <2>1 DEF FreePages
<1>14. FreeSlots'
  <2>1. SUFFICES ASSUME Quiet'
                 PROVE  /\ \A c \in BlockTypes : AtSlot(g_flsts[c].top_of_stack)'
                        /\ \A p \in FreePages' : AtSlot(mem[p].link)'
    BY DEF FreeSlots
  <2>2. FreelistsFalling' /\ FreeSlots /\ Quiet
    BY <1>1, <2>1, HolderQuiet DEF IInv, SlotInv
  <2>3. \A p \in FreePages' : mem'[p] = mem[p]
    BY <1>9, <1>13 DEF FreePages
  <2>4. ASSUME NEW c \in BlockTypes
        PROVE  AtSlot(g_flsts[c].top_of_stack)'
    BY <1>8, <2>2, <2>3 DEF AtSlot, FreeSlots, FreelistsFalling, HighestFree
  <2>5. ASSUME NEW p \in FreePages'
        PROVE  AtSlot(mem[p].link)'
    BY <1>13, <2>2, <2>3 DEF AtSlot, FreeSlots, FreelistsFalling, HighestFree
  <2> QED
    BY <2>4, <2>5
<1> QED
  BY <1>1, <1>12, <1>14 DEF SlotInv

LEMMA PopTopSlots ==
  ASSUME Reliable, SlotInv, NEW t \in Threads, PopTop(t)
  PROVE  SlotInv'
<1>0. PICK b, top, new :
        /\ b = BlockType(loc[t].size) /\ top = g_flsts[b].top_of_stack
        /\ new = [page |-> top.page, off |-> top.off, np |-> 1, size |-> loc[t].size]
  OBVIOUS
<1>1. /\ IInv /\ IInv' /\ TypeOK /\ MutexHeld /\ pc[t] = "pop" /\ LocalsSound(t) /\ top # NULL
      /\ g_flsts \in [BlockTypes -> [top_of_stack : Ptr, high_canonical_addr : Addr]]
  BY <1>0, PopTopStep DEF SlotInv, IInv, PopTop, TypeOK
<1>2. Quiet /\ FreelistsFalling /\ FreeSlots
  BY <1>1, HolderQuiet DEF IInv, SlotInv
<1>3. b \in BlockTypes /\ loc[t].obj = NoObject
  BY <1>0, <1>1, ClassHolds DEF LocalsSound, TypeOK
<1>4. top.page \in FreePages /\ Mapped(top.page) /\ AtSlot(top)
  BY <1>0, <1>1, <1>2, <1>3, FreePointers DEF FreeSlots, FreePages, SmallMapped
<1>5. /\ g_flsts' = [g_flsts EXCEPT ![b].top_of_stack = mem[top.page].link]
      /\ live' = live \cup {new} /\ Return(t)
      /\ UNCHANGED <<mem, freed>>
  BY <1>0, <1>4 DEF PopTop, ReturnSmall
<1>6. Dying' = Dying /\ Known' = Known \cup {new}
  BY <1>1, <1>3, <1>5, ReturnLocals DEF Known
<1>8. ObjectSlots'
  <2>1. mem[new.page].slot.off = new.off
    BY <1>0, <1>1, <1>4 DEF AtSlot
  <2>2. \A o \in Known : ~IsLarge(o) /\ Mapped(o.page) => mem[o.page].slot.off = o.off
    BY DEF SlotInv, ObjectSlots
  <2>3. \A o \in Known' : ~IsLarge(o) /\ mem'[o.page] # UNMAPPED => mem'[o.page].slot.off = o.off
    BY <1>5, <1>6, <2>1, <2>2 DEF Mapped
  <2> QED
    BY <2>3 DEF ObjectSlots, IsLarge, Mapped
<1>9. FreePages' \subseteq FreePages
  BY <1>5, <1>6 DEF FreePages, SmallMapped, Mapped
<1>10. FreeSlots'
  BY <1>1, <1>2, <1>3, <1>4, <1>5, <1>9 DEF FreeSlots, AtSlot
<1> QED
  BY <1>1, <1>8, <1>10 DEF SlotInv

-----------------------------------------------------------------------------
(* xxfree of a small object: the page moves and takes its slot along.      *)

\* The page p of object o moves to the watermark hv and becomes the top of
\* the freelist of class b.
Moved(o, p, hv, b) ==
  /\ ~IsLarge(o) /\ p = o.page /\ hv = high_vaddr /\ b = mem[p].head
  /\ p \in SmallMapped /\ hv \notin SmallMapped
  /\ \A x \in Known : ~IsLarge(x) => x.page # hv
  /\ mem'[p] = UNMAPPED
  /\ mem'[hv].head = b /\ mem'[hv].slot = mem[p].slot
  /\ mem'[hv].link = g_flsts[b].top_of_stack
  /\ \A q \in Pages \ {p, hv} : mem'[q] = mem[q]
  /\ g_flsts' = [g_flsts EXCEPT ![b].top_of_stack = [page |-> hv, off |-> o.off]]
  /\ live' = live /\ Dying \subseteq Dying' \cup {o} /\ Known' \subseteq Known

LEMMA MremapMoves ==
  ASSUME Reliable, IInv, NEW t \in Threads, MremapAndPush(t)
  PROVE  \E o \in Dying : \E p, hv \in Pages : \E b \in BlockTypes : Moved(o, p, hv, b)
<1>0. PICK o, p, hv, b, page :
        /\ o = loc[t].obj /\ p = loc[t].ptr.page /\ hv = high_vaddr /\ b = mem[p].head
        /\ page = [mem[p] EXCEPT !.link = g_flsts[b].top_of_stack]
  BY Zenon
<1>1. /\ TypeOK /\ Heap /\ MutexHeld /\ pc[t] = "mremap" /\ SmallFree(t)
      /\ ~MremapRefused(p, loc[t].i) /\ Mapped(p) /\ high_vaddr < SMALL_CAP
      /\ mem' = [MremapCleared(p, loc[t].i) EXCEPT ![p] = UNMAPPED, ![hv] = page]
      /\ g_flsts' = [g_flsts EXCEPT ![b].top_of_stack = [page |-> hv, off |-> loc[t].ptr.off]]
      /\ freed' = freed \cup {o} /\ live' = live /\ Return(t)
  BY Zenon, <1>0 DEF MremapAndPush, IInv, LocalsSound, Mremapped, WithLink
<1>2. /\ TypeOK /\ Watermarks /\ ObjectsSound
      /\ mem \in [Pages -> PageContent \cup {UNMAPPED}]
      /\ hv \in Nat /\ hv \in Pages /\ hv < LARGE_OBJ_VADDR_START /\ hv < VADDR_END
      /\ LARGE_OBJ_VADDR_START \in Nat /\ VADDR_END \in Nat /\ loc[t].i \in Nat
  <2>1. TypeOK /\ Watermarks /\ ObjectsSound /\ high_vaddr < SMALL_CAP
    BY <1>1 DEF Heap
  <2> QED
    BY <1>0, <2>1, SmallRoom DEF TypeOK
<1>3. o \in Dying /\ o \in Known /\ ~IsLarge(o) /\ p = o.page
  BY Zenon, <1>0, <1>1 DEF SmallFree, Known, Dying
<1>4. p \in Pages /\ p \in Nat /\ p < hv /\ p < LARGE_OBJ_VADDR_START
  BY <1>0, <1>2, <1>3, KnownObjects, ObjectBounds DEF Object, IsLarge
<1>5. loc[t].i = 1 /\ loc[t].ptr.off = o.off
  <2>1. Mapped(loc[t].obj.page) /\ o = loc[t].obj
    BY Zenon, <1>0, <1>1, <1>3
  <2>2. loc[t].i >= 1 /\ ~(loc[t].i > 1) /\ loc[t].ptr.off = o.off
    <3>1. high_vaddr < VADDR_END /\ high_vaddr \in Nat
      BY <1>0, <1>2
    <3> QED
      BY <1>1, <1>2, <2>1, <3>1 DEF SmallFree
  <2> QED
    BY <1>2, <2>2
<1>6. mem[p] \in PageContent /\ b \in BlockTypes
  BY <1>0, <1>1, <1>2, <1>4 DEF Mapped, Heap, SmallHeads
<1>7. /\ page.head = b /\ page.slot = mem[p].slot /\ page.link = g_flsts[b].top_of_stack
  BY <1>0, <1>6 DEF PageContent
<1>8. /\ mem'[hv] = page /\ mem'[p] = UNMAPPED
      /\ \A q \in Pages \ {p, hv} : mem'[q] = mem[q]
  <2>1. (p + 1) .. (p + loc[t].i - 1) = {}
    BY <1>4, <1>5
  <2>2. MremapCleared(p, loc[t].i) = [q \in Pages |-> IF q = hv THEN UNMAPPED ELSE mem[q]]
    BY <1>0, <2>1 DEF MremapCleared, Unmapping
  <2> QED
    BY <1>1, <1>2, <1>4, <2>2
<1>9. p \in SmallMapped /\ hv \notin SmallMapped
  <2>1. ~Mapped(hv)
    BY <1>0, <1>2 DEF Watermarks
  <2> QED
    BY <1>1, <1>4, <2>1 DEF SmallMapped
<1>10. \A x \in Known : ~IsLarge(x) => x.page # hv
  <2>1. ASSUME NEW x \in Known, ~IsLarge(x)
        PROVE  x.page \in Nat /\ x.page < hv
    BY <1>0, <1>2, <2>1, KnownObjects, ObjectBounds
  <2> QED
    BY <1>2, <2>1
<1>11. Dying \subseteq Dying' \cup {o} /\ Known' \subseteq Known
  BY <1>0, <1>1, <1>3, ReturnLocals DEF Known
<1> QED
  <2>1. Moved(o, p, hv, b)
    BY <1>0, <1>1, <1>3, <1>5, <1>7, <1>8, <1>9, <1>10, <1>11 DEF Moved
  <2> QED
    BY Zenon, <1>2, <1>3, <1>4, <1>6, <2>1

LEMMA MremapAndPushSlots ==
  ASSUME Reliable, SlotInv, NEW t \in Threads, MremapAndPush(t)
  PROVE  SlotInv'
<1>1. IInv /\ IInv' /\ TypeOK /\ MutexHeld /\ (Quiet' => Quiet)
  BY MremapAndPushStep, QuietNext DEF SlotInv, IInv, Next, Step
<1>2. PICK o \in Dying, p \in Pages, hv \in Pages, b \in BlockTypes : Moved(o, p, hv, b)
  BY <1>1, MremapMoves
<1>3. /\ ~IsLarge(o) /\ p = o.page /\ hv = high_vaddr /\ b = mem[p].head
      /\ p \in SmallMapped /\ hv \notin SmallMapped
      /\ \A x \in Known : ~IsLarge(x) => x.page # hv
      /\ mem'[p] = UNMAPPED
      /\ mem'[hv].head = b /\ mem'[hv].slot = mem[p].slot
      /\ mem'[hv].link = g_flsts[b].top_of_stack
      /\ \A q \in Pages \ {p, hv} : mem'[q] = mem[q]
      /\ g_flsts' = [g_flsts EXCEPT ![b].top_of_stack = [page |-> hv, off |-> o.off]]
      /\ live' = live /\ Dying \subseteq Dying' \cup {o} /\ Known' \subseteq Known
  BY <1>2 DEF Moved
<1>4. /\ SmallMapped' \subseteq (SmallMapped \ {p}) \cup {hv}
      /\ \A q \in SmallMapped \ {p} : q \in Pages /\ q # hv /\ mem'[q] = mem[q]
  BY <1>3 DEF SmallMapped, Mapped
<1>5. /\ \A c \in BlockTypes : g_flsts'[c].high_canonical_addr = g_flsts[c].high_canonical_addr
      /\ g_flsts'[b].top_of_stack = [page |-> hv, off |-> o.off]
      /\ \A c \in BlockTypes \ {b} : g_flsts'[c].top_of_stack = g_flsts[c].top_of_stack
  BY <1>1, <1>3 DEF TypeOK
<1>7. ObjectSlots'
  <2>1. SUFFICES ASSUME NEW x \in Known', ~IsLarge(x), Mapped(x.page)'
                 PROVE  mem'[x.page].slot.off = x.off
    BY DEF ObjectSlots, IsLarge
  <2>2. x \in Known /\ x.page \in Pages /\ x.page # hv
    BY <1>1, <1>3, <2>1, KnownObjects DEF Object
  <2>3. x.page # p /\ mem'[x.page] = mem[x.page]
    BY <1>3, <2>1, <2>2 DEF Mapped
  <2> QED
    BY <2>1, <2>2, <2>3 DEF SlotInv, ObjectSlots, Mapped
<1>8. FreePages' \subseteq FreePages \cup {hv} /\ p \notin FreePages
  BY <1>3, <1>4 DEF FreePages
<1>9. FreeSlots'
  <2>1. SUFFICES ASSUME Quiet'
                 PROVE  /\ \A c \in BlockTypes : AtSlot(g_flsts[c].top_of_stack)'
                        /\ \A q \in FreePages' : AtSlot(mem[q].link)'
    BY DEF FreeSlots
  <2>2. FreelistsFalling /\ FreeSlots /\ Quiet
    BY <1>1, <2>1 DEF IInv, SlotInv
  <2>3. \A q \in FreePages : q \in Pages /\ q # hv /\ mem'[q] = mem[q]
    BY <1>4, <1>8 DEF FreePages
  <2>4. o.off = mem[p].slot.off
    BY <1>3 DEF SlotInv, ObjectSlots, Known, SmallMapped
  <2>5. ASSUME NEW c \in BlockTypes, g_flsts[c].top_of_stack # NULL
        PROVE  mem'[g_flsts[c].top_of_stack.page].slot.off = g_flsts[c].top_of_stack.off
    BY <2>2, <2>3, <2>5, FreePointers DEF FreeSlots, AtSlot
  <2>6. ASSUME NEW c \in BlockTypes
        PROVE  AtSlot(g_flsts[c].top_of_stack)'
    <3>1. CASE c = b
      BY <1>3, <1>5, <2>4, <3>1 DEF AtSlot
    <3>2. CASE c # b
      BY <1>5, <2>5, <3>2 DEF AtSlot
    <3> QED
      BY <3>1, <3>2
  <2>7. ASSUME NEW q \in FreePages'
        PROVE  AtSlot(mem[q].link)'
    <3>1. CASE q = hv
      BY <1>3, <2>5, <3>1 DEF AtSlot
    <3>2. CASE q # hv
      <4>1. q \in FreePages /\ mem'[q] = mem[q]
        BY <1>8, <2>3, <3>2
      <4> QED
        BY <2>2, <2>3, <4>1, FreePointers DEF FreeSlots, AtSlot
    <3> QED
      BY <3>1, <3>2
  <2> QED
    BY <2>6, <2>7
<1> QED
  BY <1>1, <1>7, <1>9 DEF SlotInv

-----------------------------------------------------------------------------
(* The invariant holds initially and every step keeps it.                  *)

LEMMA InitSlotInv ==
  ASSUME Init
  PROVE  SlotInv
<1>1. /\ \A p \in Pages : ~Mapped(p)
      /\ g_flsts = [b \in BlockTypes |-> [top_of_stack        |-> NULL,
                                          high_canonical_addr |-> FirstCanonical(b)]]
      /\ live = {} /\ freed = {} /\ \A t \in Threads : loc[t].obj = NoObject
  BY DEF Init, Mapped, NoLocals
<1>2. SmallMapped = {} /\ FreePages = {} /\ Known = {}
  BY <1>1 DEF SmallMapped, FreePages, Known, Dying
<1> QED
  BY <1>1, <1>2, InitIInv DEF SlotInv, ObjectSlots, FreeSlots, AtSlot

LEMMA NextSlotInv ==
  ASSUME Reliable, SlotInv, [Next]_vars
  PROVE  SlotInv'
<1>1. IInv /\ IInv' /\ (Quiet' => Quiet)
  BY NextIInv, QuietNext DEF SlotInv
<1>2. CASE UNCHANGED vars
  <2>1. UNCHANGED <<mem, g_flsts, live, freed, loc>>
    BY <1>2 DEF vars
  <2> QED
    BY <1>1, <2>1, HeapLeft, KeptSlots DEF Known, Dying
<1>3. ASSUME NEW t \in Threads, Step(t)
      PROVE  SlotInv'
  <2>1. CASE PopFresh(t) \/ PopTop(t) \/ MremapAndPush(t)
    BY <2>1, PopFreshSlots, PopTopSlots, MremapAndPushSlots
  <2>2. CASE ~(PopFresh(t) \/ PopTop(t) \/ MremapAndPush(t))
    <3>1. Keeps
      BY <1>1, <1>3, <2>2, CallsKeep, MmapBigKeeps, WriteHeaderKeeps, MunmapKeeps,
         MremapFailsKeeps
      DEF Step
    <3> QED
      BY <1>1, <3>1, KeptSlots
  <2> QED
    BY <2>1, <2>2
<1>4. ASSUME NEW t \in Threads, Client(t)
      PROVE  SlotInv'
  <2>1. Keeps
    BY <1>1, <1>4, CallsKeep, FreeKeeps, StoreKeeps DEF Client
  <2> QED
    BY <1>1, <2>1, KeptSlots
<1> QED
  BY <1>2, <1>3, <1>4 DEF Next

THEOREM SlotInvariance ==
  ASSUME Reliable
  PROVE  Spec => []SlotInv
<1>1. Init => SlotInv
  BY InitSlotInv
<1>2. SlotInv /\ [Next]_vars => SlotInv'
  BY NextSlotInv
<1> QED
  BY <1>1, <1>2, PTL DEF Spec

-----------------------------------------------------------------------------
(* The freelists: NthFree is the function its recursion describes, and on  *)
(* lists whose pages fall it goes through every free page of the class.    *)

\* What follows ptr in its list.
After(ptr) == IF ptr = NULL \/ ~Mapped(ptr.page) THEN NULL ELSE mem[ptr.page].link

IsList(f, b, N) ==
  f = [n \in 0 .. N |-> IF n = 0 THEN g_flsts[b].top_of_stack ELSE After(f[n - 1])]

LEMMA ListExists ==
  ASSUME NEW b, NEW N \in Nat
  PROVE  \E f : IsList(f, b, N)
<1> DEFINE Without == {n \in Nat : ~ \E f : IsList(f, b, n)}
<1>1. SUFFICES ASSUME Without # {} PROVE FALSE
  OBVIOUS
<1>2. PICK m \in Without : \A n \in Without : m <= n
  BY <1>1, NatMin
<1>3. m # 0
  <2>1. IsList([n \in 0 .. 0 |-> g_flsts[b].top_of_stack], b, 0)
    BY DEF IsList
  <2> QED
    BY <2>1
<1>4. m \in Nat /\ m - 1 \in Nat /\ m - 1 \notin Without
  BY <1>2, <1>3
<1>5. PICK f : IsList(f, b, m - 1)
  BY <1>4
<1> DEFINE g == [n \in 0 .. m |-> IF n < m THEN f[n] ELSE After(f[m - 1])]
<1>6. \A n \in 0 .. m :
        g[n] = IF n = 0 THEN g_flsts[b].top_of_stack ELSE After(g[n - 1])
  <2>1. ASSUME NEW n \in 0 .. m, n < m
        PROVE  g[n] = IF n = 0 THEN g_flsts[b].top_of_stack ELSE After(g[n - 1])
    <3>1. n \in 0 .. (m - 1) /\ g[n] = f[n] /\ (n # 0 => g[n - 1] = f[n - 1])
      BY <1>4, <2>1
    <3>2. f[n] = IF n = 0 THEN g_flsts[b].top_of_stack ELSE After(f[n - 1])
      BY <1>5, <3>1 DEF IsList
    <3> QED
      BY <3>1, <3>2
  <2>2. g[m] = After(g[m - 1])
    BY <1>3, <1>4
  <2> QED
    BY <1>3, <1>4, <2>1, <2>2
<1>7. g = [n \in 0 .. m |-> IF n = 0 THEN g_flsts[b].top_of_stack ELSE After(g[n - 1])]
  BY <1>6
<1> QED
  BY <1>2, <1>7 DEF IsList

LEMMA NthFreeIsList ==
  ASSUME NEW b
  PROVE  /\ NthFree(b)[0] = g_flsts[b].top_of_stack
         /\ \A n \in 0 .. VADDR_END : n # 0 => NthFree(b)[n] = After(NthFree(b)[n - 1])
<1>1. VADDR_END \in Nat
  BY NuafAssumption DEF NuafAssumption
<1>2. \E f : IsList(f, b, VADDR_END)
  BY <1>1, ListExists
<1>3. IsList(NthFree(b), b, VADDR_END)
  BY Zenon, <1>2 DEF IsList, NthFree, After
<1> QED
  BY <1>1, <1>3 DEF IsList

\* The n-th pointer of a list lies n pages below the watermark, and the list
\* up to there holds the free pages above it.
LEMMA ListFalls ==
  ASSUME SlotInv, Quiet, NEW b \in BlockTypes, NEW n \in 0 .. VADDR_END
  PROVE  /\ NthFree(b)[n] # NULL =>
              /\ NthFree(b)[n].page \in FreePages /\ NthFree(b)[n].page + n < high_vaddr
              /\ mem[NthFree(b)[n].page].head = b
              /\ mem[NthFree(b)[n].page].slot.off = NthFree(b)[n].off
         /\ \A p \in FreePages : mem[p].head = b =>
              \/ \E m \in 0 .. n : NthFree(b)[m] # NULL /\ NthFree(b)[m].page = p
              \/ NthFree(b)[n] # NULL /\ p < NthFree(b)[n].page
<1> DEFINE nth == NthFree(b)
           Falls(k) == nth[k] # NULL =>
                         /\ nth[k].page \in FreePages /\ nth[k].page + k < high_vaddr
                         /\ mem[nth[k].page].head = b
                         /\ mem[nth[k].page].slot.off = nth[k].off
           Holds(k) == \A p \in FreePages : mem[p].head = b =>
                         \/ \E m \in 0 .. k : nth[m] # NULL /\ nth[m].page = p
                         \/ nth[k] # NULL /\ p < nth[k].page
           Bad == {k \in 0 .. VADDR_END : ~(Falls(k) /\ Holds(k))}
<1>1. /\ VADDR_END \in Nat /\ high_vaddr \in Nat
      /\ \A p \in FreePages : p \in Nat /\ p # 0 /\ p < high_vaddr /\ Mapped(p)
  <2>1. /\ VADDR_END \in Nat /\ LARGE_OBJ_VADDR_START \in Nat /\ high_vaddr \in Nat
        /\ MMAP_MIN_ADDR \in Nat \ {0}
    BY NuafAssumption DEF SlotInv, IInv, TypeOK, NuafAssumption
  <2> QED
    BY <2>1 DEF SlotInv, IInv, Heap, Watermarks, FreePages, SmallMapped, Pages
<1>2. /\ nth[0] = g_flsts[b].top_of_stack
      /\ \A k \in 0 .. VADDR_END : k # 0 => nth[k] = After(nth[k - 1])
  BY NthFreeIsList
<1> HIDE DEF nth
<1>3. FreelistsFalling /\ FreeSlots
  BY DEF SlotInv, IInv
<1>4. Falls(0) /\ Holds(0)
  <2>1. HighestFree(b, nth[0], high_vaddr) /\ AtSlot(nth[0])
    BY <1>2, <1>3 DEF FreelistsFalling, FreeSlots
  <2>2. Falls(0)
    BY <1>1, <2>1 DEF HighestFree, AtSlot
  <2>3. ASSUME NEW p \in FreePages, mem[p].head = b
        PROVE  nth[0] # NULL /\ (nth[0].page = p \/ p < nth[0].page)
    <3>1. nth[0].page \in FreePages /\ p <= nth[0].page
      BY <1>1, <2>1, <2>3 DEF HighestFree
    <3>2. nth[0].page # 0 /\ nth[0].page \in Nat
      BY <1>1, <3>1
    <3> QED
      BY <1>1, <3>1, <3>2 DEF NULL
  <2> QED
    BY <2>2, <2>3
<1>5. ASSUME NEW k \in 0 .. VADDR_END, k # 0, Falls(k - 1), Holds(k - 1)
      PROVE  Falls(k) /\ Holds(k)
  <2>1. k \in Nat /\ k - 1 \in Nat /\ k - 1 \in 0 .. VADDR_END /\ nth[k] = After(nth[k - 1])
    BY <1>1, <1>2, <1>5
  <2>2. CASE nth[k - 1] = NULL
    <3>1. nth[k] = NULL
      BY <2>1, <2>2 DEF After
    <3>2. \A m \in 0 .. (k - 1) : m \in 0 .. k
      BY <2>1
    <3> QED
      BY <1>5, <2>2, <3>1, <3>2
  <2>3. CASE nth[k - 1] # NULL
    <3> DEFINE x == nth[k - 1].page
    <3>1. x \in FreePages /\ x + (k - 1) < high_vaddr /\ mem[x].head = b
      BY <1>5, <2>3
    <3>2. nth[k] = mem[x].link
      BY <1>1, <2>1, <2>3, <3>1 DEF After
    <3>3. HighestFree(b, nth[k], x) /\ AtSlot(nth[k])
      BY <1>3, <3>1, <3>2 DEF FreelistsFalling, FreeSlots
    <3>4. nth[k] # NULL =>
            /\ nth[k].page \in FreePages /\ mem[nth[k].page].head = b /\ nth[k].page < x
            /\ mem[nth[k].page].slot.off = nth[k].off
      BY <3>3 DEF HighestFree, AtSlot
    <3>5. \A p \in FreePages : mem[p].head = b /\ p < x =>
            nth[k] # NULL /\ (p = nth[k].page \/ p < nth[k].page)
      <4>1. SUFFICES ASSUME NEW p \in FreePages, mem[p].head = b, p < x
                     PROVE  nth[k] # NULL /\ (p = nth[k].page \/ p < nth[k].page)
        OBVIOUS
      <4>2. nth[k].page \in FreePages /\ p <= nth[k].page
        BY <1>1, <3>3, <4>1 DEF HighestFree
      <4>3. nth[k].page # 0 /\ nth[k].page \in Nat
        BY <1>1, <4>2
      <4> QED
        BY <1>1, <4>2, <4>3 DEF NULL
    <3>6. x \in Nat
      BY <1>1, <3>1
    <3>7. Falls(k)
      BY <1>1, <2>1, <3>1, <3>4, <3>6
    <3>8. ASSUME NEW p \in FreePages, mem[p].head = b
          PROVE  \/ \E m \in 0 .. k : nth[m] # NULL /\ nth[m].page = p
                 \/ nth[k] # NULL /\ p < nth[k].page
      <4>1. \A m \in 0 .. (k - 1) : m \in 0 .. k
        BY <2>1
      <4>2. k \in 0 .. k
        BY <2>1
      <4> QED
        BY <1>5, <3>5, <3>8, <4>1, <4>2
    <3> QED
      BY <3>7, <3>8
  <2> QED
    BY <2>2, <2>3
<1> HIDE DEF Falls, Holds
<1>6. Bad = {}
  <2>1. SUFFICES ASSUME Bad # {} PROVE FALSE
    OBVIOUS
  <2>2. PICK k \in Bad : \A j \in Bad : k <= j
    <3>1. Bad \in SUBSET Nat
      BY <1>1
    <3> HIDE DEF Bad
    <3> QED
      BY <2>1, <3>1, NatMin
  <2>3. k # 0 /\ k \in 0 .. VADDR_END
    BY <1>4, <2>2
  <2>4. k - 1 \in 0 .. VADDR_END /\ ~(k <= k - 1)
    BY <1>1, <2>3
  <2>5. Falls(k - 1) /\ Holds(k - 1)
    BY <2>2, <2>4
  <2> QED
    BY <1>5, <2>2, <2>3, <2>5
<1>7. Falls(n) /\ Holds(n)
  BY <1>6
<1> QED
  BY <1>7 DEF Falls, Holds, nth

\* The lists end, hold free pages of their class only, and all of them.
LEMMA ListsHoldFreePages ==
  ASSUME SlotInv, Quiet
  PROVE  /\ \A b \in BlockTypes :
              /\ NthFree(b)[VADDR_END] = NULL
              /\ \A ptr \in FreePtrs(b) :
                   Mapped(ptr.page) /\ mem[ptr.page].head = b /\ mem[ptr.page].slot.off = ptr.off
         /\ {ptr.page : ptr \in UNION {FreePtrs(b) : b \in BlockTypes}} = FreePages
<1>1. VADDR_END \in Nat /\ VADDR_END \in 0 .. VADDR_END
  BY NuafAssumption DEF NuafAssumption
<1>2. ASSUME NEW b \in BlockTypes
      PROVE  NthFree(b)[VADDR_END] = NULL
  <2>1. /\ LARGE_OBJ_VADDR_START \in Nat /\ high_vaddr \in Nat
        /\ LARGE_OBJ_VADDR_START <= VADDR_END /\ high_vaddr <= LARGE_OBJ_VADDR_START
    BY NuafAssumption DEF NuafAssumption, SlotInv, IInv, TypeOK, Heap, Watermarks
  <2>2. \A p \in FreePages : p \in Nat
    BY <1>1 DEF FreePages, SmallMapped, Pages
  <2>3. NthFree(b)[VADDR_END] # NULL =>
          /\ NthFree(b)[VADDR_END].page \in FreePages
          /\ NthFree(b)[VADDR_END].page + VADDR_END < high_vaddr
    BY <1>1, ListFalls
  <2> QED
    BY <1>1, <2>1, <2>2, <2>3
<1>3. ASSUME NEW b \in BlockTypes, NEW ptr \in FreePtrs(b)
      PROVE  /\ ptr.page \in FreePages /\ Mapped(ptr.page)
             /\ mem[ptr.page].head = b /\ mem[ptr.page].slot.off = ptr.off
  <2>1. PICK n \in 0 .. VADDR_END : ptr = NthFree(b)[n] /\ ptr # NULL
    BY DEF FreePtrs
  <2>2. /\ ptr.page \in FreePages /\ mem[ptr.page].head = b
        /\ mem[ptr.page].slot.off = ptr.off
    BY <2>1, ListFalls
  <2> QED
    BY <2>2 DEF FreePages, SmallMapped
<1>4. ASSUME NEW p \in FreePages
      PROVE  \E b \in BlockTypes : \E ptr \in FreePtrs(b) : ptr.page = p
  <2>1. mem[p].head \in BlockTypes
    BY DEF SlotInv, IInv, Heap, SmallHeads, FreePages, SmallMapped
  <2>2. NthFree(mem[p].head)[VADDR_END] = NULL
    BY <1>2, <2>1
  <2>3. PICK m \in 0 .. VADDR_END :
          NthFree(mem[p].head)[m] # NULL /\ NthFree(mem[p].head)[m].page = p
    BY <1>1, <2>1, <2>2, ListFalls
  <2>4. NthFree(mem[p].head)[m] \in FreePtrs(mem[p].head)
    BY <2>3 DEF FreePtrs
  <2> QED
    BY <2>1, <2>3, <2>4
<1>5. {ptr.page : ptr \in UNION {FreePtrs(b) : b \in BlockTypes}} = FreePages
  BY <1>3, <1>4
<1> QED
  BY <1>2, <1>3, <1>5

\* The linked lists embedded in freed objects stay lists that end, hold pages
\* of their class where the objects on them began, and with the objects in the
\* program's hands hold every small page exactly once (freelist_push and
\* freelist_pop, against what the program stores and how threads interleave).
THEOREM FreelistsStaySound ==
  ASSUME Reliable
  PROVE  Spec => []FreelistsSound
<1>1. ASSUME SlotInv, Quiet
      PROVE  /\ (SmallMapped \cap PagesOf(live \cup Dying)) \cap FreePages = {}
             /\ (SmallMapped \cap PagesOf(live \cup Dying)) \cup FreePages = SmallMapped
  <2>1. ASSUME NEW o \in live \cup Dying
        PROVE  /\ o.page \in ObjectPages(o)
               /\ \A p \in ObjectPages(o) \cap SmallMapped : p = o.page
    <3>1. o \in Known /\ TypeOK /\ Watermarks /\ ObjectsSound
      BY <1>1 DEF Known, SlotInv, IInv, Heap
    <3>2. o.page \in Nat /\ o.np \in Nat \ {0} /\ LARGE_OBJ_VADDR_START \in Nat
      BY <3>1, KnownObjects, ObjectBounds, NuafAssumption DEF NuafAssumption
    <3>3. \A p \in ObjectPages(o) : /\ p \in Nat
                                    /\ IsLarge(o) => LARGE_OBJ_VADDR_START <= p
                                    /\ ~IsLarge(o) => p = o.page
      BY <3>1, KnownPages
    <3> QED
      BY <3>2, <3>3 DEF ObjectPages, SmallMapped
  <2> QED
    BY <2>1 DEF PagesOf, FreePages
<1>2. SlotInv => FreelistsSound
  <2>1. SUFFICES ASSUME SlotInv, ~Retrying PROVE FreelistsSound
    BY DEF FreelistsSound
  <2>2. Quiet
    BY <2>1 DEF Quiet
  <2> QED
    BY <1>1, <2>1, <2>2, ListsHoldFreePages DEF FreelistsSound
<1> QED
  BY <1>2, SlotInvariance, PTL
=============================================================================
