----------------------------- MODULE NuafProofs -----------------------------
(***************************************************************************)
(* Proofs about Nuaf, for any number of threads, sizes, pages and classes: *)
(* StaleUnmapped, and the inductive invariant IInv that it rests on, under *)
(* the assumptions named in Reliable.                                      *)
(***************************************************************************)
EXTENDS Nuaf, LayoutProofs

\* The small objects stay below the large ones.
AreasApart == SMALL_CAP <= LARGE_OBJ_VADDR_START

\* Besides, munmap and mremap do not fail for want of resources, and the
\* program does not store the magic word at the start of a page of a large
\* object.
Reliable ==
  /\ AreasApart
  /\ MUNMAP_MAY_FAIL = FALSE /\ MREMAP_MAY_FAIL = FALSE
  /\ LARGE_OBJ_START_MAGIC \notin UserWords

-----------------------------------------------------------------------------
(* The inductive invariant.                                                *)

Known == live \cup Dying \cup freed

\* Whatever is mapped lies below the watermark of its area.
Watermarks ==
  /\ MMAP_MIN_ADDR <= high_vaddr /\ high_vaddr <= LARGE_OBJ_VADDR_START
  /\ LARGE_OBJ_VADDR_START <= large_obj_next_page /\ large_obj_next_page <= VADDR_END
  /\ \A p \in Pages : Mapped(p) =>
       \/ MMAP_MIN_ADDR <= p /\ p < high_vaddr
       \/ LARGE_OBJ_VADDR_START <= p /\ p < large_obj_next_page

\* The metadata of a page of small objects names a class.
SmallHeads ==
  \A p \in Pages : Mapped(p) /\ p < LARGE_OBJ_VADDR_START => mem[p].head \in BlockTypes

\* The next slot of each class is a slot.
CanonicalSlots == \A b \in BlockTypes : SlotOf(b, g_flsts[b].high_canonical_addr.off)

SmallObject(o) ==
  /\ o.np = 1 /\ MMAP_MIN_ADDR <= o.page /\ o.page < high_vaddr
  /\ o.off + o.size <= PAGE_SIZE
  /\ Mapped(o.page) => /\ SlotOf(mem[o.page].head, o.off)
                       /\ o.size <= BlockSize(mem[o.page].head)

\* A large object: its first page has the header as long as it is mapped,
\* and no other page of it begins with the magic word.
LargeObject(o) ==
  /\ o.off = LARGE_HEADER /\ o.np = NumPages(o.size)
  /\ o.page + o.np <= large_obj_next_page
  /\ Mapped(o.page) => mem[o.page].head = LARGE_OBJ_START_MAGIC /\ mem[o.page].np = o.np
  /\ \A q \in Pages : o.page < q /\ q < o.page + o.np /\ Mapped(q) =>
       mem[q].head # LARGE_OBJ_START_MAGIC

ObjectsSound ==
  \A o \in Known : IF IsLarge(o) THEN LargeObject(o) ELSE SmallObject(o)

\* Where a large object lies, whatever is left of its header.
LargePlaced(o) ==
  o.off = LARGE_HEADER /\ o.np = NumPages(o.size) /\ o.page + o.np <= large_obj_next_page

ObjectsPlaced ==
  \A o \in Known : IF IsLarge(o) THEN LargePlaced(o) ELSE SmallObject(o)

Apart(a, b) == a.page + a.np <= b.page \/ b.page + b.np <= a.page

ObjectsApart == \A a, b \in Known : a # b => Apart(a, b)

\* The object a thread has mapped and not yet written the header of.
Pending(t) == [page |-> loc[t].ptr.page, np |-> loc[t].np]

PendingSound(t) ==
  /\ LARGE_OBJ_VADDR_START <= loc[t].ptr.page
  /\ loc[t].np = NumPages(loc[t].size)
  /\ loc[t].ptr.page + loc[t].np <= large_obj_next_page
  /\ \A q \in Pages : loc[t].ptr.page <= q /\ q < loc[t].ptr.page + loc[t].np /\ Mapped(q) =>
       mem[q].head # LARGE_OBJ_START_MAGIC
  /\ \A o \in Known : Apart(Pending(t), o)
  /\ \A u \in Threads \ {t} : pc[u] = "header" => Apart(Pending(t), Pending(u))

\* The locals of a thread that frees an object are those of that object.
LargeFree(t) ==
  LET o == loc[t].obj
  IN  /\ o # NoObject /\ IsLarge(o) /\ loc[t].np = o.np
      /\ o.page <= loc[t].ptr.page /\ loc[t].ptr.page < o.page + o.np

SmallFree(t) ==
  LET o == loc[t].obj
  IN  /\ o # NoObject /\ ~IsLarge(o) /\ loc[t].ptr.page = o.page
      /\ Mapped(o.page) => loc[t].ptr.off = o.off
      /\ loc[t].i >= 1
      /\ loc[t].i > 1 => ~Mapped(o.page) \/ high_vaddr >= VADDR_END

LocalsSound(t) ==
  /\ pc[t] \in {"lock_pop", "pop"} => loc[t].size <= LARGEST_BLOCK_SIZE
  /\ pc[t] = "header" => PendingSound(t)
  /\ pc[t] = "obj_start" => LargeFree(t)
  /\ pc[t] = "munmap" => LargeFree(t) /\ loc[t].ptr.page = loc[t].obj.page
  /\ pc[t] = "lock_push" => SmallFree(t) /\ loc[t].i = 1
  /\ pc[t] = "mremap" => SmallFree(t)
  /\ pc[t] \notin {"obj_start", "munmap", "lock_push", "mremap", "reenter"} =>
       loc[t].obj = NoObject

\* g_m is held wherever the code reads or writes what it guards.
MutexHeld ==
  \A t \in Threads : pc[t] \in {"pop", "mremap", "reenter", "lock_all_big", "locked"} => g_m = t

FreePages == {p \in SmallMapped : \A o \in live \cup Dying : o.page # p}

\* ptr is the free object of class b on the highest page below `bound`.
HighestFree(b, ptr, bound) ==
  LET candidates == {p \in FreePages : mem[p].head = b /\ p < bound}
  IN  \/ ptr = NULL /\ candidates = {}
      \/ /\ ptr.page \in candidates /\ SlotOf(b, ptr.off)
         /\ \A p \in candidates : p <= ptr.page

\* Each freelist holds the free pages of its class in falling order: pages are
\* pushed at the rising watermark.  The order makes the list finite and its
\* members distinct without counting along it.
FreelistsFalling ==
  /\ \A b \in BlockTypes : HighestFree(b, g_flsts[b].top_of_stack, high_vaddr)
  /\ \A p \in FreePages : HighestFree(mem[p].head, mem[p].link, p)

\* A thread whose mremap has failed holds g_m until the process ends.
Quiet == ~Retrying

Heap ==
  /\ Watermarks /\ SmallHeads /\ CanonicalSlots
  /\ ObjectsSound /\ ObjectsApart
  /\ StaleUnmapped

IInv ==
  /\ TypeOK
  /\ Heap
  /\ \A t \in Threads : LocalsSound(t)
  /\ MutexHeld
  /\ Quiet => FreelistsFalling

\* A step makes objects on pages of their own only.
NewApart == \A o \in live' \ live : \A a \in Known : Apart(o, a)

-----------------------------------------------------------------------------
(* What the invariant says of single objects and pointers.                 *)

LEMMA KnownObjects ==
  ASSUME TypeOK, NEW o \in Known
  PROVE  /\ o \in Object
         /\ o.page \in Nat /\ o.off \in Nat /\ o.np \in Nat /\ o.size \in Nat
         /\ o.page < VADDR_END /\ o.off < PAGE_SIZE
<1>1. o \in Object
  BY DEF TypeOK, Known, Dying
<1> QED
  BY <1>1, NuafAssumption, PageBytes
  DEF Object, Pages, NuafAssumption

LEMMA SoundPlaced ==
  ASSUME ObjectsSound
  PROVE  ObjectsPlaced
BY DEF ObjectsSound, ObjectsPlaced, LargeObject, LargePlaced

\* Where an object lies.
LEMMA PlacedBounds ==
  ASSUME TypeOK, Watermarks, ObjectsPlaced, NEW o \in Known
  PROVE  /\ o.np \in Nat \ {0}
         /\ IsLarge(o) => /\ LARGE_OBJ_VADDR_START <= o.page
                          /\ o.page + o.np <= large_obj_next_page
         /\ ~IsLarge(o) => /\ o.np = 1 /\ MMAP_MIN_ADDR <= o.page /\ o.page < high_vaddr
                           /\ o.page < LARGE_OBJ_VADDR_START
<1>1. o.size \in Nat /\ o.page \in Nat
  BY KnownObjects
<1>2. CASE IsLarge(o)
  BY <1>1, <1>2, NumPagesHold, NuafAssumption
  DEF ObjectsPlaced, LargePlaced, IsLarge, NuafAssumption
<1>3. CASE ~IsLarge(o)
  BY <1>1, <1>3, NuafAssumption DEF ObjectsPlaced, SmallObject, IsLarge, NuafAssumption
<1> QED
  BY <1>2, <1>3

LEMMA ObjectBounds ==
  ASSUME TypeOK, Watermarks, ObjectsSound, NEW o \in Known
  PROVE  /\ o.np \in Nat \ {0}
         /\ IsLarge(o) => /\ LARGE_OBJ_VADDR_START <= o.page
                          /\ o.page + o.np <= large_obj_next_page
         /\ ~IsLarge(o) => /\ o.np = 1 /\ MMAP_MIN_ADDR <= o.page /\ o.page < high_vaddr
                           /\ o.page < LARGE_OBJ_VADDR_START
BY SoundPlaced, PlacedBounds

\* While a page is left for a small object, the next one is a page of its area.
LEMMA RoomBelow ==
  ASSUME AreasApart, TypeOK, Watermarks, high_vaddr < SMALL_CAP
  PROVE  /\ high_vaddr \in Nat /\ high_vaddr \in Pages
         /\ LARGE_OBJ_VADDR_START \in Nat /\ MMAP_MIN_ADDR \in Nat /\ VADDR_END \in Nat
         /\ MMAP_MIN_ADDR <= high_vaddr
         /\ high_vaddr < LARGE_OBJ_VADDR_START /\ high_vaddr < VADDR_END
<1>1. /\ LARGE_OBJ_VADDR_START \in Nat /\ VADDR_END \in Nat /\ MMAP_MIN_ADDR \in Nat
      /\ SMALL_CAP \in Nat /\ SMALL_CAP <= LARGE_OBJ_VADDR_START
      /\ LARGE_OBJ_VADDR_START <= VADDR_END
  BY NuafAssumption DEF NuafAssumption, AreasApart
<1>2. high_vaddr \in Nat /\ MMAP_MIN_ADDR <= high_vaddr
  BY DEF TypeOK, Watermarks
<1> QED
  BY <1>1, <1>2 DEF Pages

LEMMA SmallRoom ==
  ASSUME Reliable, TypeOK, Watermarks, high_vaddr < SMALL_CAP
  PROVE  /\ high_vaddr \in Nat /\ high_vaddr \in Pages
         /\ LARGE_OBJ_VADDR_START \in Nat /\ MMAP_MIN_ADDR \in Nat /\ VADDR_END \in Nat
         /\ MMAP_MIN_ADDR <= high_vaddr
         /\ high_vaddr < LARGE_OBJ_VADDR_START /\ high_vaddr < VADDR_END
BY RoomBelow DEF Reliable

\* The pages of an object are below the watermark of its area.
LEMMA PlacedPages ==
  ASSUME TypeOK, Watermarks, ObjectsPlaced, NEW o \in Known, NEW q \in ObjectPages(o)
  PROVE  /\ q \in Pages /\ q \in Nat
         /\ IsLarge(o) => LARGE_OBJ_VADDR_START <= q /\ q < large_obj_next_page
         /\ ~IsLarge(o) => q = o.page /\ q < high_vaddr
<1>1. o.page \in Nat /\ o.np \in Nat \ {0}
  BY KnownObjects, PlacedBounds
<1>2. q \in Nat /\ o.page <= q /\ q < o.page + o.np
  BY <1>1 DEF ObjectPages
<1>3. /\ LARGE_OBJ_VADDR_START \in Nat /\ VADDR_END \in Nat /\ LARGE_OBJ_VADDR_START <= VADDR_END
      /\ high_vaddr \in Nat /\ large_obj_next_page \in Nat
      /\ high_vaddr <= LARGE_OBJ_VADDR_START /\ large_obj_next_page <= VADDR_END
  BY NuafAssumption DEF NuafAssumption, TypeOK, Watermarks
<1> QED
  BY <1>1, <1>2, <1>3, PlacedBounds DEF Pages

LEMMA KnownPages ==
  ASSUME TypeOK, Watermarks, ObjectsSound, NEW o \in Known, NEW q \in ObjectPages(o)
  PROVE  /\ q \in Pages /\ q \in Nat
         /\ IsLarge(o) => LARGE_OBJ_VADDR_START <= q /\ q < large_obj_next_page
         /\ ~IsLarge(o) => q = o.page /\ q < high_vaddr
BY SoundPlaced, PlacedPages

\* The pages of freed objects stay unmapped when no page below the watermarks
\* is mapped anew.
LEMMA StaleStays ==
  ASSUME TypeOK, Heap, freed' \subseteq Known,
         \A o \in freed' : o \in freed \/ \A q \in ObjectPages(o) : ~Mapped(q)',
         \A q \in Pages :
           /\ q < high_vaddr \/ (LARGE_OBJ_VADDR_START <= q /\ q < large_obj_next_page)
           /\ Mapped(q)'
           => Mapped(q)
  PROVE  StaleUnmapped'
<1>1. ASSUME NEW o \in freed', NEW q \in ObjectPages(o)
      PROVE  ~Mapped(q)'
  <2>1. CASE o \in freed
    <3>1. ~Mapped(q)
      BY <2>1 DEF Heap, StaleUnmapped, PagesOf
    <3> QED
      BY <3>1, KnownPages DEF Heap
  <2> QED
    BY <1>1, <2>1
<1> QED
  BY <1>1 DEF StaleUnmapped, PagesOf, ObjectPages

\* A pointer into a large object points to one of its pages.
LEMMA PlacedLargeInterior ==
  ASSUME TypeOK, Watermarks, ObjectsPlaced, NEW o \in Known, IsLarge(o), NEW ptr \in Interior(o)
  PROVE  /\ ptr \in Ptr /\ IsLarge(ptr)
         /\ o.page <= ptr.page /\ ptr.page < o.page + o.np
<1>1. /\ o.page \in Nat /\ o.size \in Nat /\ o.np \in Nat /\ LARGE_OBJ_VADDR_START <= o.page
      /\ o.page + o.np <= large_obj_next_page
  BY KnownObjects, PlacedBounds
<1>2. o.off = LARGE_HEADER /\ o.np = NumPages(o.size)
  BY DEF ObjectsPlaced, LargePlaced
<1>3. PICK b \in o.off .. (o.off + (IF o.size = 0 THEN 0 ELSE o.size - 1)) :
        ptr = [page |-> o.page + b \div PAGE_SIZE, off |-> b % PAGE_SIZE]
  BY DEF Interior
<1>4. PAGE_SIZE \in Nat /\ PAGE_SIZE > 0 /\ LARGE_HEADER \in Nat
  BY PageBytes
<1>5. b \in 0 .. (o.size + LARGE_HEADER) /\ b \in Int
  BY <1>1, <1>2, <1>3, <1>4
<1>6. b \div PAGE_SIZE \in Nat /\ b \div PAGE_SIZE < o.np /\ b % PAGE_SIZE \in 0 .. (PAGE_SIZE - 1)
  BY <1>1, <1>2, <1>4, <1>5, NumPagesHold, DivMod
<1>7. large_obj_next_page <= VADDR_END /\ large_obj_next_page \in Nat /\ VADDR_END \in Nat
      /\ LARGE_OBJ_VADDR_START \in Nat
  BY NuafAssumption DEF Watermarks, TypeOK, NuafAssumption
<1> QED
  BY <1>1, <1>3, <1>6, <1>7 DEF Ptr, Pages, IsLarge

LEMMA LargeInterior ==
  ASSUME TypeOK, Watermarks, ObjectsSound, NEW o \in Known, IsLarge(o), NEW ptr \in Interior(o)
  PROVE  /\ ptr \in Ptr /\ IsLarge(ptr)
         /\ o.page <= ptr.page /\ ptr.page < o.page + o.np
BY SoundPlaced, PlacedLargeInterior

\* A pointer into a small object points to its page, and get_obj_start finds
\* the object from it as long as the page is mapped.
LEMMA PlacedSmallInterior ==
  ASSUME TypeOK, Watermarks, SmallHeads, ObjectsPlaced,
         NEW o \in Known, ~IsLarge(o), NEW ptr \in Interior(o)
  PROVE  /\ ptr \in Ptr /\ ~IsLarge(ptr) /\ ptr.page = o.page
         /\ Mapped(o.page) => ObjStart(ptr) = [page |-> o.page, off |-> o.off]
<1>1. /\ o.page \in Nat /\ o.size \in Nat /\ o.off \in Nat /\ o.off < PAGE_SIZE
      /\ o.page < VADDR_END /\ o.off + o.size <= PAGE_SIZE
  BY KnownObjects DEF ObjectsPlaced, SmallObject
<1>2. PICK b \in o.off .. (o.off + (IF o.size = 0 THEN 0 ELSE o.size - 1)) :
        ptr = [page |-> o.page + b \div PAGE_SIZE, off |-> b % PAGE_SIZE]
  BY DEF Interior
<1>3. PAGE_SIZE \in Nat
  BY PageBytes
<1>4. b \in Nat /\ b < PAGE_SIZE
  BY <1>1, <1>2, <1>3
<1>5. b \div PAGE_SIZE = 0 /\ b % PAGE_SIZE = b
  BY <1>3, <1>4, BelowDivisor
<1>6. ptr = [page |-> o.page, off |-> b]
  BY <1>1, <1>2, <1>5
<1>7. ptr \in Ptr /\ ~IsLarge(ptr) /\ ptr.page = o.page
  BY <1>1, <1>3, <1>4, <1>6, NuafAssumption DEF Ptr, Pages, IsLarge, NuafAssumption
<1>8. ASSUME Mapped(o.page)
      PROVE  ObjStart(ptr) = [page |-> o.page, off |-> o.off]
  <2> DEFINE c == mem[o.page].head
             d == b - o.off
  <2>1. c \in BlockTypes
    BY <1>1, <1>8, NuafAssumption DEF SmallHeads, Pages, IsLarge, NuafAssumption
  <2>2. SlotOf(c, o.off) /\ o.size <= BlockSize(c)
    BY <1>8 DEF ObjectsPlaced, SmallObject
  <2>3. BlockSize(c) \in Nat \ {0}
    BY <2>1, BlockSizes
  <2>4. d \in Nat /\ d < BlockSize(c) /\ b = o.off + d
    BY <1>1, <1>2, <1>4, <2>2, <2>3
  <2> HIDE DEF c, d
  <2>5. SmallObjStart(b, BlockSize(c)) = o.off
    BY <1>1, <2>1, <2>2, <2>4, SmallStart
  <2> QED
    BY <1>6, <1>7, <2>5 DEF ObjStart, UsableSize, c
<1> QED
  BY <1>7, <1>8

LEMMA SmallInterior ==
  ASSUME TypeOK, Watermarks, SmallHeads, ObjectsSound,
         NEW o \in Known, ~IsLarge(o), NEW ptr \in Interior(o)
  PROVE  /\ ptr \in Ptr /\ ~IsLarge(ptr) /\ ptr.page = o.page
         /\ Mapped(o.page) => ObjStart(ptr) = [page |-> o.page, off |-> o.off]
BY SoundPlaced, PlacedSmallInterior

\* The downward search from a page of a large object ends at its first page.
LEMMA LargeSearch ==
  ASSUME TypeOK, Watermarks, ObjectsSound, NEW o \in Known, IsLarge(o),
         NEW ptr \in Ptr, o.page <= ptr.page, ptr.page < o.page + o.np, Readable(ptr)
  PROVE  /\ ObjStart(ptr) = [page |-> o.page, off |-> 0]
         /\ UsableSize(ptr) = LargeUsable(o.np) /\ MunmapPages(UsableSize(ptr)) = o.np
<1>1. /\ o.page \in Nat /\ o.np \in Nat \ {0} /\ LARGE_OBJ_VADDR_START <= o.page
      /\ ptr.page \in Nat /\ ptr.page < VADDR_END /\ LARGE_OBJ_VADDR_START \in Nat
  BY KnownObjects, ObjectBounds, NuafAssumption DEF Ptr, Pages, NuafAssumption
<1>2. IsLarge(ptr) /\ HeaderPages(ptr.page) # {}
  BY <1>1 DEF IsLarge, Readable
<1>3. \A q \in HeaderPages(ptr.page) : q <= o.page
  BY <1>1, NuafAssumption DEF HeaderPages, ObjectsSound, LargeObject, Pages, NuafAssumption
<1>4. o.page \in HeaderPages(ptr.page)
  <2>1. PICK q \in HeaderPages(ptr.page) : TRUE
    BY <1>2
  <2>2. q \in 0 .. ptr.page /\ q <= o.page /\ \A r \in q .. ptr.page : Mapped(r)
    BY <1>3, <2>1 DEF HeaderPages
  <2>3. \A r \in o.page .. ptr.page : Mapped(r)
    BY <1>1, <2>2
  <2>4. mem[o.page].head = LARGE_OBJ_START_MAGIC
    BY <1>1, <2>3 DEF ObjectsSound, LargeObject
  <2> QED
    BY <1>1, <2>3, <2>4 DEF HeaderPages
<1>5. LargeStart(ptr) = o.page
  <2>1. \A q \in HeaderPages(ptr.page) : q \in Nat
    BY <1>1 DEF HeaderPages
  <2> QED
    BY <1>1, <1>3, <1>4, <2>1 DEF LargeStart
<1>6. Mapped(o.page)
  BY <1>1, <1>4 DEF HeaderPages
<1>7. mem[o.page].np = o.np
  BY <1>6 DEF ObjectsSound, LargeObject
<1> QED
  BY <1>1, <1>2, <1>5, <1>7, MunmapExact DEF ObjStart, UsableSize

-----------------------------------------------------------------------------
(* Steps that leave the heap as it is.                                     *)

LEMMA DyingSame ==
  ASSUME \A u \in Threads : loc'[u].obj = loc[u].obj
  PROVE  Dying' = Dying
BY DEF Dying

LEMMA HeapSame ==
  ASSUME UNCHANGED <<heapVars, freed>>, (live \cup Dying)' = live \cup Dying
  PROVE  /\ Heap' = Heap /\ Known' = Known
         /\ FreelistsFalling' = FreelistsFalling
<1>1. /\ mem' = mem /\ high_vaddr' = high_vaddr /\ large_obj_next_page' = large_obj_next_page
      /\ g_flsts' = g_flsts /\ freed' = freed
  BY DEF heapVars
<1>2. Known' = Known
  BY <1>1 DEF Known
<1>3. Watermarks' = Watermarks /\ SmallHeads' = SmallHeads /\ CanonicalSlots' = CanonicalSlots
  BY <1>1 DEF Watermarks, SmallHeads, CanonicalSlots, Mapped
<1>4. ObjectsSound' = ObjectsSound
  BY <1>1, <1>2 DEF ObjectsSound, LargeObject, SmallObject, Mapped, IsLarge
<1>5. ObjectsApart' = ObjectsApart /\ StaleUnmapped' = StaleUnmapped
  BY <1>1, <1>2 DEF ObjectsApart, StaleUnmapped, PagesOf, ObjectPages, Mapped
<1>6. FreePages' = FreePages
  BY <1>1 DEF FreePages, SmallMapped, Mapped
<1>7. FreelistsFalling' = FreelistsFalling
  BY <1>1, <1>6 DEF FreelistsFalling, HighestFree
<1> QED
  BY <1>2, <1>3, <1>4, <1>5, <1>7 DEF Heap

\* The other threads' locals, when nothing they speak of changes.
LEMMA LocalsSame ==
  ASSUME UNCHANGED <<heapVars, freed>>, (live \cup Dying)' = live \cup Dying,
         NEW u \in Threads, LocalsSound(u), pc'[u] = pc[u], loc'[u] = loc[u],
         \A v \in Threads : pc'[v] = "header" => pc[v] = "header" /\ loc'[v] = loc[v]
  PROVE  LocalsSound(u)'
<1>1. /\ mem' = mem /\ high_vaddr' = high_vaddr /\ large_obj_next_page' = large_obj_next_page
  BY DEF heapVars
<1>2. Known' = Known
  BY HeapSame
<1>3. PendingSound(u) /\ pc[u] = "header" => PendingSound(u)'
  BY <1>1, <1>2 DEF PendingSound, Pending, Apart, Mapped
<1>4. LargeFree(u)' = LargeFree(u) /\ SmallFree(u)' = SmallFree(u)
  BY <1>1 DEF LargeFree, SmallFree, Mapped, IsLarge
<1> QED
  BY <1>3, <1>4 DEF LocalsSound

\* A step that only moves thread t, and not to or from a place where the
\* invariant asks for more of it than it has.
LEMMA OnlyMoves ==
  ASSUME IInv, NEW t \in Threads, NEW label \in Labels,
         UNCHANGED <<heapVars, live, freed, loc>>,
         TypeOK',
         pc' = [pc EXCEPT ![t] = label],
         LocalsSound(t)',
         MutexHeld',
         Quiet' => Quiet,
         label # "header"
  PROVE  IInv'
<1>1. Dying' = Dying
  BY DyingSame
<1>2. Heap' /\ (FreelistsFalling' = FreelistsFalling)
  BY <1>1, HeapSame DEF IInv
<1>3. ASSUME NEW u \in Threads
      PROVE  LocalsSound(u)'
  <2>1. CASE u = t
    BY <2>1
  <2>2. CASE u # t
    <3>1. pc \in [Threads -> Labels] /\ pc'[u] = pc[u] /\ loc'[u] = loc[u]
      BY <2>2 DEF IInv, TypeOK
    <3>2. \A v \in Threads : pc'[v] = "header" => pc[v] = "header" /\ loc'[v] = loc[v]
      BY <3>1
    <3> QED
      BY <1>1, <3>1, <3>2, LocalsSame DEF IInv
  <2> QED
    BY <2>1, <2>2
<1> QED
  BY <1>2, <1>3 DEF IInv

LEMMA LockSmallStep ==
  ASSUME IInv, NEW t \in Threads, LockSmall(t)
  PROVE  IInv'
<1> DEFINE label == IF pc[t] = "lock_pop" THEN "pop" ELSE "mremap"
<1>1. pc' = [pc EXCEPT ![t] = label] /\ pc \in [Threads -> Labels] /\ label \in Labels
  BY DEF LockSmall, Goto, IInv, TypeOK, Labels
<1>2. TypeOK'
  BY <1>1 DEF LockSmall, IInv, TypeOK, heapVars
<1>3. MutexHeld'
  BY <1>1, NuafAssumption DEF LockSmall, IInv, MutexHeld, NuafAssumption
<1>4. LocalsSound(t)'
  BY <1>1 DEF LockSmall, IInv, LocalsSound, SmallFree, heapVars, Mapped, IsLarge
<1>5. Quiet' => Quiet
  BY <1>1 DEF LockSmall, Quiet, Retrying
<1> QED
  BY <1>1, <1>2, <1>3, <1>4, <1>5, OnlyMoves DEF LockSmall

LEMMA LockBigStep ==
  ASSUME IInv, NEW t \in Threads, LockBig(t)
  PROVE  IInv'
<1>1. pc' = [pc EXCEPT ![t] = "mmap_big"] /\ pc \in [Threads -> Labels] /\ "mmap_big" \in Labels
  BY DEF LockBig, Goto, IInv, TypeOK, Labels
<1>2. TypeOK'
  BY <1>1 DEF LockBig, IInv, TypeOK, heapVars
<1>3. MutexHeld' /\ (Quiet' => Quiet)
  BY <1>1 DEF LockBig, IInv, MutexHeld, Quiet, Retrying
<1>4. LocalsSound(t)'
  BY <1>1 DEF LockBig, IInv, LocalsSound
<1> QED
  BY <1>1, <1>2, <1>3, <1>4, OnlyMoves DEF LockBig

LEMMA HeapLocksStep ==
  ASSUME IInv, NEW t \in Threads,
         xxmalloc_lock(t) \/ LockAllSmall(t) \/ LockAllBig(t) \/ xxmalloc_unlock(t)
  PROVE  IInv'
<1> USE DEF xxmalloc_lock, LockAllSmall, LockAllBig, xxmalloc_unlock
<1>1. PICK label \in {"lock_all", "lock_all_big", "locked", "idle"} :
        pc' = [pc EXCEPT ![t] = label]
  BY DEF Goto
<1>2. pc \in [Threads -> Labels] /\ label \in Labels
  BY DEF IInv, TypeOK, Labels
<1>3. UNCHANGED <<heapVars, live, freed, loc>>
  OBVIOUS
<1>4. TypeOK'
  BY <1>1, <1>2, <1>3 DEF IInv, TypeOK, heapVars
<1>5. MutexHeld'
  BY <1>1, <1>2, NuafAssumption DEF IInv, MutexHeld, NuafAssumption, Goto
<1>6. Quiet' => Quiet
  BY <1>1, <1>2 DEF Quiet, Retrying
<1>7. LocalsSound(t)'
  BY <1>1, <1>2, <1>3 DEF IInv, LocalsSound
<1> QED
  BY <1>1, <1>2, <1>3, <1>4, <1>5, <1>6, <1>7, OnlyMoves

LEMMA xxmallocStep ==
  ASSUME IInv, NEW t \in Threads, NEW size \in Sizes, xxmalloc(t, size)
  PROVE  IInv'
<1>1. /\ pc \in [Threads -> Labels] /\ size \in Nat
      /\ loc \in [Threads -> [size : Nat, ptr : Ptr, np : Nat, i : Nat, obj : Object]]
  BY NuafAssumption DEF IInv, TypeOK, NuafAssumption
<1>2. PICK label \in {"lock_big", "lock_pop"} :
        /\ pc' = [pc EXCEPT ![t] = label]
        /\ label = "lock_pop" => size <= LARGEST_BLOCK_SIZE
  <2>1. LARGEST_BLOCK_SIZE \in Int
    BY PageBytes DEF LARGEST_BLOCK_SIZE
  <2>2. CASE size > LARGEST_BLOCK_SIZE
    BY <2>2 DEF xxmalloc, Goto
  <2>3. CASE ~(size > LARGEST_BLOCK_SIZE)
    <3>1. size <= LARGEST_BLOCK_SIZE
      BY <1>1, <2>1, <2>3
    <3> QED
      BY <2>3, <3>1 DEF xxmalloc, Goto
  <2> QED
    BY <2>2, <2>3
<1>3. loc' = [loc EXCEPT ![t].size = size] /\ UNCHANGED <<heapVars, live, freed, g_m, g_big_obj_m, exited>>
  BY DEF xxmalloc
<1>4. \A u \in Threads : loc'[u].obj = loc[u].obj
  BY <1>1, <1>3
<1>5. Dying' = Dying
  BY <1>4, DyingSame
<1>6. TypeOK'
  BY <1>1, <1>2, <1>3 DEF IInv, TypeOK, heapVars, Labels
<1>7. MutexHeld' /\ (Quiet' => Quiet)
  BY <1>1, <1>2, <1>3 DEF IInv, MutexHeld, Quiet, Retrying, xxmalloc
<1>8. Heap' /\ (FreelistsFalling' = FreelistsFalling)
  BY <1>3, <1>5, HeapSame DEF IInv
<1>9. ASSUME NEW u \in Threads
      PROVE  LocalsSound(u)'
  <2>1. CASE u = t
    BY <1>1, <1>2, <1>3, <2>1 DEF IInv, LocalsSound, xxmalloc
  <2>2. CASE u # t
    <3>1. \A v \in Threads : pc'[v] = "header" => pc[v] = "header" /\ loc'[v] = loc[v]
      BY <1>1, <1>2, <1>3
    <3> QED
      BY <1>1, <1>2, <1>3, <1>5, <2>2, <3>1, LocalsSame DEF IInv
  <2> QED
    BY <2>1, <2>2
<1> QED
  BY <1>6, <1>7, <1>8, <1>9 DEF IInv

\* The end of the process changes nothing else.
LEMMA ExitStep ==
  ASSUME IInv, NEW how \in {"exit", "segv"}, Exit(how)
  PROVE  IInv'
<1>1. UNCHANGED <<heapVars, g_m, g_big_obj_m, pc, loc, live, freed>> /\ exited' = how
  BY DEF Exit, heapVars
<1>2. Dying' = Dying
  BY <1>1, DyingSame
<1>3. Heap' /\ (FreelistsFalling' = FreelistsFalling)
  BY <1>1, <1>2, HeapSame DEF IInv
<1>4. TypeOK'
  BY <1>1 DEF IInv, TypeOK, heapVars
<1>5. \A u \in Threads : LocalsSound(u)'
  BY <1>1, <1>2, LocalsSame DEF IInv
<1>6. MutexHeld' /\ (Quiet' = Quiet)
  BY <1>1 DEF IInv, MutexHeld, Quiet, Retrying
<1> QED
  BY <1>3, <1>4, <1>5, <1>6 DEF IInv

\* freelist_pop and xxmalloc_big when mmap fails, xxfree when it gives up.
LEMMA FailureStep ==
  ASSUME IInv, NEW t \in Threads, PopFails(t) \/ MmapBigFails(t) \/ MremapGivesUp(t)
  PROVE  IInv'
<1>1. CASE Exit("exit")
  BY <1>1, ExitStep
<1>2. ASSUME NEW label, UNCHANGED <<heapVars, g_m, g_big_obj_m, loc, live, freed, exited>>,
             \/ label = "reenter" /\ PopFails(t) /\ Reenters(t, "reenter")
             \/ label = "reenter_big" /\ MmapBigFails(t) /\ Reenters(t, "reenter_big")
      PROVE  IInv'
  <2>1. pc' = [pc EXCEPT ![t] = label] /\ pc \in [Threads -> Labels] /\ label \in Labels
    BY <1>2 DEF Reenters, IInv, TypeOK, Labels
  <2>2. TypeOK'
    BY <1>2, <2>1 DEF IInv, TypeOK, heapVars
  <2>3. MutexHeld' /\ (Quiet' => Quiet)
    BY <1>2, <2>1 DEF IInv, MutexHeld, Quiet, Retrying, PopFails, MmapBigFails
  <2>4. LocalsSound(t)'
    <3>1. pc[t] \in {"pop", "mmap_big"} /\ loc'[t] = loc[t]
      BY <1>2 DEF PopFails, MmapBigFails
    <3> QED
      BY <1>2, <2>1, <3>1 DEF IInv, LocalsSound
  <2> QED
    BY <1>2, <2>1, <2>2, <2>3, <2>4, OnlyMoves
<1> QED
  BY <1>1, <1>2 DEF PopFails, MmapBigFails, MremapGivesUp

-----------------------------------------------------------------------------
(* xxfree up to the mutex or the munmap.                                   *)

\* A thread in a call to free, or not, changes its locals only.
LEMMA FreeingLocals ==
  ASSUME IInv, NEW t \in Threads,
         UNCHANGED <<heapVars, freed, g_m>>, (live \cup Dying)' = live \cup Dying,
         TypeOK',
         NEW label \in {"obj_start", "munmap", "lock_push"}, pc' = [pc EXCEPT ![t] = label],
         pc[t] \in {"idle", "obj_start"},
         \A u \in Threads \ {t} : loc'[u] = loc[u],
         LocalsSound(t)'
  PROVE  IInv'
<1>1. Heap' /\ FreelistsFalling' = FreelistsFalling
  BY HeapSame DEF IInv
<1>2. pc \in [Threads -> Labels]
  BY DEF IInv, TypeOK
<1>3. MutexHeld'
  BY <1>2 DEF IInv, MutexHeld
<1>4. Quiet' => Quiet
  BY <1>2 DEF Quiet, Retrying
<1>5. ASSUME NEW u \in Threads
      PROVE  LocalsSound(u)'
  <2>1. CASE u = t
    BY <2>1
  <2>2. CASE u # t
    <3>1. \A v \in Threads : pc'[v] = "header" => pc[v] = "header" /\ loc'[v] = loc[v]
      BY <1>2
    <3> QED
      BY <1>2, <2>2, <3>1, LocalsSame DEF IInv
  <2> QED
    BY <2>1, <2>2
<1> QED
  BY <1>1, <1>3, <1>4, <1>5 DEF IInv

LEMMA ReadSizeStep ==
  ASSUME IInv, NEW t \in Threads, pc[t] = "idle",
         NEW o \in Known, NEW ptr \in Interior(o), ReadSize(t, o, ptr)
  PROVE  IInv'
<1>1. /\ TypeOK /\ Watermarks /\ SmallHeads /\ ObjectsSound /\ ObjectsApart /\ StaleUnmapped
      /\ pc \in [Threads -> Labels]
      /\ loc \in [Threads -> [size : Nat, ptr : Ptr, np : Nat, i : Nat, obj : Object]]
  BY DEF IInv, Heap, TypeOK
<1>2. o \in Object /\ o.page \in Nat /\ o.np \in Nat \ {0}
  BY <1>1, KnownObjects, ObjectBounds
<1>3. o # NoObject
  BY <1>1, <1>2, ObjectBounds, NuafAssumption DEF NoObject, NuafAssumption, IsLarge
<1>4. CASE ~Readable(ptr)
  BY <1>4, ExitStep DEF ReadSize
<1>5. CASE Readable(ptr)
  <2>1. /\ UNCHANGED <<heapVars, g_m, g_big_obj_m, freed, exited>>
        /\ live' = live \ {o}
        /\ pc' = [pc EXCEPT ![t] = IF IsLarge(ptr) THEN "obj_start" ELSE "lock_push"]
        /\ loc' = [loc EXCEPT ![t] =
                     [size |-> 0,
                      ptr  |-> IF IsLarge(ptr) THEN ptr ELSE ObjStart(ptr),
                      np   |-> IF IsLarge(ptr) THEN MunmapPages(UsableSize(ptr)) ELSE 0,
                      i    |-> 1,
                      obj  |-> o]]
    BY <1>5 DEF ReadSize, Goto
  <2>2. ptr \in Ptr /\ (IsLarge(ptr) <=> IsLarge(o))
    BY <1>1, LargeInterior, SmallInterior
  <2>3. ptr.page \in ObjectPages(o) /\ Mapped(ptr.page)
    <3>1. CASE IsLarge(o)
      <4>1. o.page <= ptr.page /\ ptr.page < o.page + o.np /\ ptr.page \in Nat
        BY <1>1, <2>2, <3>1, LargeInterior DEF Ptr, Pages
      <4>2. HeaderPages(ptr.page) # {}
        BY <1>5, <2>2, <3>1 DEF Readable
      <4> QED
        BY <1>2, <4>1, <4>2 DEF HeaderPages, ObjectPages
    <3>2. CASE ~IsLarge(o)
      <4>1. ptr.page = o.page
        BY <1>1, <3>2, SmallInterior
      <4> QED
        BY <1>2, <1>5, <2>2, <3>2, <4>1 DEF Readable, ObjectPages
    <3> QED
      BY <3>1, <3>2
  <2>4. o \notin freed
    BY <1>1, <2>3 DEF StaleUnmapped, PagesOf
  <2>5. o \in live \cup Dying
    BY <2>4 DEF Known
  <2>6. Dying' = Dying \cup {o}
    <3>1. loc[t].obj = NoObject
      BY DEF IInv, LocalsSound
    <3>2. loc'[t].obj = o /\ \A u \in Threads \ {t} : loc'[u].obj = loc[u].obj
      BY <1>1, <2>1
    <3> QED
      BY <1>3, <3>1, <3>2 DEF Dying
  <2>7. (live \cup Dying)' = live \cup Dying
    BY <2>1, <2>5, <2>6
  <2>8. CASE IsLarge(o)
    <3>1. /\ o.page <= ptr.page /\ ptr.page < o.page + o.np
          /\ MunmapPages(UsableSize(ptr)) = o.np
      BY <1>1, <1>5, <2>8, LargeInterior, LargeSearch
    <3>2. /\ loc' = [loc EXCEPT ![t] = [size |-> 0, ptr |-> ptr, np |-> o.np, i |-> 1, obj |-> o]]
          /\ pc' = [pc EXCEPT ![t] = "obj_start"]
      BY <2>1, <2>2, <2>8, <3>1
    <3>3. TypeOK'
      BY <1>1, <1>2, <2>1, <2>2, <3>2 DEF TypeOK, heapVars, Labels
    <3>4. LocalsSound(t)'
      BY <1>1, <1>3, <2>8, <3>1, <3>2 DEF LocalsSound, LargeFree, IsLarge
    <3> QED
      BY <1>1, <2>1, <2>7, <3>2, <3>3, <3>4, FreeingLocals
  <2>9. CASE ~IsLarge(o)
    <3>1. ObjStart(ptr) = [page |-> o.page, off |-> o.off] /\ o.off \in Nat
      BY <1>1, <2>3, <2>9, SmallInterior, KnownObjects
    <3>2. /\ loc' = [loc EXCEPT ![t] = [size |-> 0, ptr |-> [page |-> o.page, off |-> o.off],
                                       np |-> 0, i |-> 1, obj |-> o]]
          /\ pc' = [pc EXCEPT ![t] = "lock_push"]
      BY <2>1, <2>2, <2>9, <3>1
    <3>3. [page |-> o.page, off |-> o.off] \in Ptr
      BY <1>2 DEF Object, Ptr
    <3>4. TypeOK'
      BY <1>1, <1>2, <2>1, <3>2, <3>3 DEF TypeOK, heapVars, Labels
    <3>5. LocalsSound(t)'
      BY <1>1, <1>3, <2>9, <3>1, <3>2 DEF LocalsSound, SmallFree, IsLarge
    <3> QED
      BY <1>1, <2>1, <2>7, <3>2, <3>4, <3>5, FreeingLocals
  <2> QED
    BY <2>8, <2>9
<1> QED
  BY <1>4, <1>5

LEMMA FreeStep ==
  ASSUME IInv, NEW t \in Threads, xxfree(t) \/ FreeAgain(t)
  PROVE  IInv'
BY ReadSizeStep DEF xxfree, FreeAgain, Known

LEMMA get_obj_startStep ==
  ASSUME IInv, NEW t \in Threads, get_obj_start(t)
  PROVE  IInv'
<1> DEFINE o == loc[t].obj
           ptr == loc[t].ptr
<1>1. /\ TypeOK /\ Watermarks /\ ObjectsSound
      /\ pc \in [Threads -> Labels] /\ pc[t] = "obj_start"
      /\ loc \in [Threads -> [size : Nat, ptr : Ptr, np : Nat, i : Nat, obj : Object]]
  BY DEF IInv, Heap, TypeOK, get_obj_start
<1>2. /\ o # NoObject /\ IsLarge(o) /\ loc[t].np = o.np
      /\ o.page <= ptr.page /\ ptr.page < o.page + o.np
  BY <1>1 DEF IInv, LocalsSound, LargeFree
<1>3. o \in Known /\ ptr \in Ptr
  BY <1>1, <1>2 DEF Known, Dying
<1>4. CASE ~Readable(ptr)
  BY <1>4, ExitStep DEF get_obj_start
<1>5. CASE Readable(ptr)
  <2>1. ObjStart(ptr) = [page |-> o.page, off |-> 0]
    BY <1>1, <1>2, <1>3, <1>5, LargeSearch
  <2>2. IsLarge(ObjStart(ptr))
    BY <1>2, <2>1 DEF IsLarge
  <2>3. /\ pc' = [pc EXCEPT ![t] = "munmap"]
        /\ loc' = [loc EXCEPT ![t].ptr = [page |-> o.page, off |-> 0]]
        /\ UNCHANGED <<heapVars, g_m, g_big_obj_m, live, freed, exited>>
    BY <1>5, <2>1, <2>2 DEF get_obj_start, Goto
  <2>4. \A u \in Threads : loc'[u].obj = loc[u].obj
    BY <1>1, <2>3
  <2>5. (live \cup Dying)' = live \cup Dying
    BY <2>3, <2>4, DyingSame
  <2>6. /\ o.page \in Nat /\ o.np \in Nat \ {0} /\ [page |-> o.page, off |-> 0] \in Ptr
    BY <1>1, <1>3, KnownObjects, ObjectBounds, PageBytes DEF Object, Ptr
  <2>7. TypeOK'
    BY <1>1, <2>3, <2>6 DEF TypeOK, heapVars, Labels
  <2>8. LocalsSound(t)'
    BY <1>1, <1>2, <2>3, <2>6 DEF LocalsSound, LargeFree, IsLarge
  <2> QED
    BY <1>1, <2>3, <2>5, <2>7, <2>8, FreeingLocals
<1> QED
  BY <1>4, <1>5

-----------------------------------------------------------------------------
(* Steps that change the heap: what survives them.                         *)

\* An object stays sound when its pages keep their metadata or go, and the
\* watermarks do not fall.
LEMMA KeepObject ==
  ASSUME TypeOK, Watermarks, ObjectsSound, NEW o \in Known,
         high_vaddr' \in Nat, high_vaddr <= high_vaddr',
         large_obj_next_page' \in Nat, large_obj_next_page <= large_obj_next_page',
         \A p \in Pages : o.page <= p /\ p < o.page + o.np /\ Mapped(p)' =>
           \/ Mapped(p) /\ mem'[p].head = mem[p].head /\ mem'[p].np = mem[p].np
           \/ IsLarge(o) /\ p # o.page /\ mem'[p].head # LARGE_OBJ_START_MAGIC
  PROVE  (IF IsLarge(o) THEN LargeObject(o) ELSE SmallObject(o))'
<1>1. /\ o \in Object /\ o.page \in Pages /\ o.page \in Nat /\ o.np \in Nat \ {0}
      /\ high_vaddr \in Nat /\ large_obj_next_page \in Nat
      /\ o.page < o.page + o.np
  BY KnownObjects, ObjectBounds DEF TypeOK, Object
<1>2. CASE IsLarge(o)
  <2>1. LargeObject(o)
    BY <1>2 DEF ObjectsSound
  <2>2. o.page + o.np <= large_obj_next_page'
    BY <1>1, <2>1 DEF LargeObject
  <2>3. Mapped(o.page)' => mem'[o.page].head = LARGE_OBJ_START_MAGIC /\ mem'[o.page].np = o.np
    BY <1>1, <2>1 DEF LargeObject
  <2>4. \A q \in Pages : o.page < q /\ q < o.page + o.np /\ Mapped(q)' =>
          mem'[q].head # LARGE_OBJ_START_MAGIC
    BY <1>1, <2>1, NuafAssumption DEF LargeObject, Pages, NuafAssumption
  <2> QED
    BY <1>2, <2>1, <2>2, <2>3, <2>4 DEF LargeObject, IsLarge
<1>3. CASE ~IsLarge(o)
  <2>1. SmallObject(o)
    BY <1>3 DEF ObjectsSound
  <2>2. MMAP_MIN_ADDR <= o.page /\ o.page < high_vaddr'
    BY <1>1, <2>1 DEF SmallObject
  <2>3. Mapped(o.page)' => /\ SlotOf(mem'[o.page].head, o.off)
                           /\ o.size <= BlockSize(mem'[o.page].head)
    BY <1>1, <1>3, <2>1 DEF SmallObject
  <2> QED
    BY <1>3, <2>1, <2>2, <2>3 DEF SmallObject, IsLarge
<1> QED
  BY <1>2, <1>3

\* So do the locals of a thread that does not take the step.
LEMMA KeepLocals ==
  ASSUME TypeOK, Watermarks, ObjectsSound,
         NEW u \in Threads, LocalsSound(u), pc'[u] = pc[u], loc'[u] = loc[u],
         high_vaddr' \in Nat, high_vaddr <= high_vaddr',
         large_obj_next_page' \in Nat, large_obj_next_page <= large_obj_next_page',
         \A p \in Pages : p < high_vaddr /\ Mapped(p)' => Mapped(p),
         pc[u] = "header" =>
           /\ \A q \in Pages : /\ loc[u].ptr.page <= q /\ q < loc[u].ptr.page + loc[u].np
                               /\ Mapped(q)'
                            => mem'[q].head # LARGE_OBJ_START_MAGIC
           /\ \A o \in Known' : Apart(Pending(u), o)
           /\ \A v \in Threads \ {u} : pc'[v] = "header" => Apart(Pending(u), Pending(v)')
  PROVE  LocalsSound(u)'
<1>1. /\ high_vaddr \in Nat /\ large_obj_next_page \in Nat /\ VADDR_END \in Nat
      /\ loc[u] \in [size : Nat, ptr : Ptr, np : Nat, i : Nat, obj : Object]
  BY NuafAssumption DEF TypeOK, NuafAssumption
<1>2. ASSUME pc[u] = "header"
      PROVE  PendingSound(u)'
  <2>1. PendingSound(u)
    BY <1>2 DEF LocalsSound
  <2>2. loc[u].ptr.page + loc[u].np <= large_obj_next_page'
    <3>1. loc[u].ptr.page \in Nat /\ loc[u].np \in Nat
      BY <1>1, NuafAssumption DEF Ptr, Pages, NuafAssumption
    <3> QED
      BY <1>1, <2>1, <3>1 DEF PendingSound
  <2>3. \A v \in Threads \ {u} : pc'[v] = "header" => Apart(Pending(u)', Pending(v)')
    BY <1>2 DEF Pending
  <2> QED
    BY <1>2, <2>1, <2>2, <2>3 DEF PendingSound, Pending
<1>3. LargeFree(u)' = LargeFree(u)
  BY DEF LargeFree, IsLarge
<1>4. ASSUME SmallFree(u)
      PROVE  SmallFree(u)'
  <2>1. loc[u].obj \in Known
    BY <1>4 DEF SmallFree, Known, Dying
  <2>2. loc[u].obj.page \in Pages /\ loc[u].obj.page < high_vaddr
    BY <1>1, <1>4, <2>1, ObjectBounds DEF SmallFree, Object
  <2>3. Mapped(loc[u].obj.page)' => Mapped(loc[u].obj.page)
    BY <2>2
  <2> QED
    BY <1>1, <1>4, <2>3 DEF SmallFree, IsLarge, Mapped
<1> QED
  BY <1>2, <1>3, <1>4 DEF LocalsSound

\* The freelists are the same when the free pages and the watermark are.
LEMMA KeepFreelists ==
  ASSUME high_vaddr' = high_vaddr, g_flsts' = g_flsts, FreePages' = FreePages,
         \A p \in FreePages : mem'[p].head = mem[p].head /\ mem'[p].link = mem[p].link,
         FreelistsFalling
  PROVE  FreelistsFalling'
<1>1. ASSUME NEW b, NEW ptr, NEW bound, HighestFree(b, ptr, bound)
      PROVE  HighestFree(b, ptr, bound)'
  BY <1>1 DEF HighestFree
<1>2. \A b \in BlockTypes : HighestFree(b, g_flsts[b].top_of_stack, high_vaddr)'
  BY <1>1 DEF FreelistsFalling
<1>3. \A p \in FreePages : HighestFree(mem[p].head, mem[p].link, p)'
  BY DEF FreelistsFalling, HighestFree
<1> QED
  BY <1>2, <1>3 DEF FreelistsFalling

\* A thread that returns frees nothing any more.
LEMMA ReturnLocals ==
  ASSUME TypeOK, NEW t \in Threads, Return(t)
  PROVE  /\ Dying' \subseteq Dying /\ Dying \subseteq Dying' \cup {loc[t].obj}
         /\ loc[t].obj = NoObject => Dying' = Dying
         /\ \A u \in Threads \ {t} : pc'[u] = pc[u] /\ loc'[u] = loc[u]
         /\ pc'[t] = "idle" /\ LocalsSound(t)'
         /\ pc' \in [Threads -> Labels]
         /\ loc' \in [Threads -> [size : Nat, ptr : Ptr, np : Nat, i : Nat, obj : Object]]
<1>1. /\ pc' = [pc EXCEPT ![t] = "idle"] /\ loc' = [loc EXCEPT ![t] = NoLocals]
      /\ pc \in [Threads -> Labels]
      /\ loc \in [Threads -> [size : Nat, ptr : Ptr, np : Nat, i : Nat, obj : Object]]
  BY DEF Return, TypeOK
<1>2. NoLocals \in [size : Nat, ptr : Ptr, np : Nat, i : Nat, obj : Object]
  BY NuafAssumption, PageBytes
  DEF NoLocals, NULL, NoObject, Ptr, Object, Pages, NuafAssumption
<1>3. loc'[t].obj = NoObject /\ pc'[t] = "idle"
  BY <1>1 DEF NoLocals
<1>4. \A u \in Threads \ {t} : pc'[u] = pc[u] /\ loc'[u] = loc[u]
  BY <1>1
<1>5. LocalsSound(t)'
  BY <1>3 DEF LocalsSound
<1>6. /\ Dying' \subseteq Dying /\ Dying \subseteq Dying' \cup {loc[t].obj}
      /\ loc[t].obj = NoObject => Dying' = Dying
  BY <1>3, <1>4 DEF Dying
<1>7. /\ pc' \in [Threads -> Labels]
      /\ loc' \in [Threads -> [size : Nat, ptr : Ptr, np : Nat, i : Nat, obj : Object]]
  BY <1>1, <1>2 DEF Labels
<1> QED
  BY <1>3, <1>4, <1>5, <1>6, <1>7

-----------------------------------------------------------------------------
(* Pages are unmapped: munmap of a large object, mremap of an unmapped page. *)

LEMMA ShrinkHeap ==
  ASSUME TypeOK, Heap,
         UNCHANGED <<high_vaddr, large_obj_next_page, g_flsts>>,
         \A p \in Pages : Mapped(p)' => mem'[p] = mem[p] /\ Mapped(p),
         Known' \subseteq Known, StaleUnmapped'
  PROVE  Heap'
<1>1. Watermarks'
  BY DEF Heap, Watermarks
<1>2. SmallHeads' /\ CanonicalSlots'
  BY DEF Heap, SmallHeads, CanonicalSlots
<1>3. ObjectsSound'
  <2>1. high_vaddr \in Nat /\ large_obj_next_page \in Nat
    BY DEF TypeOK
  <2>2. ASSUME NEW o \in Known'
        PROVE  (IF IsLarge(o) THEN LargeObject(o) ELSE SmallObject(o))'
    BY <2>1, KeepObject DEF Heap
  <2> QED
    BY <2>2 DEF ObjectsSound
<1>4. ObjectsApart'
  BY DEF Heap, ObjectsApart, Apart
<1> QED
  BY <1>1, <1>2, <1>3, <1>4 DEF Heap

\* What a step that unmaps pages leaves of the locals of another thread.
LEMMA ShrinkLocals ==
  ASSUME TypeOK, Heap,
         UNCHANGED <<high_vaddr, large_obj_next_page>>,
         \A p \in Pages : Mapped(p)' => mem'[p] = mem[p] /\ Mapped(p),
         Known' \subseteq Known,
         NEW u \in Threads, LocalsSound(u), pc'[u] = pc[u], loc'[u] = loc[u],
         \A v \in Threads : pc'[v] = "header" => pc[v] = "header" /\ loc'[v] = loc[v]
  PROVE  LocalsSound(u)'
<1>1. high_vaddr \in Nat /\ large_obj_next_page \in Nat
  BY DEF TypeOK
<1>2. pc[u] = "header" =>
           /\ \A q \in Pages : /\ loc[u].ptr.page <= q /\ q < loc[u].ptr.page + loc[u].np
                               /\ Mapped(q)'
                            => mem'[q].head # LARGE_OBJ_START_MAGIC
           /\ \A o \in Known' : Apart(Pending(u), o)
           /\ \A v \in Threads \ {u} : pc'[v] = "header" => Apart(Pending(u), Pending(v)')
  BY DEF LocalsSound, PendingSound, Pending
<1> QED
  BY <1>1, <1>2, KeepLocals DEF Heap

LEMMA MunmapStep ==
  ASSUME Reliable, IInv, NEW t \in Threads, Munmap(t)
  PROVE  IInv'
<1> DEFINE o == loc[t].obj
           p == loc[t].ptr.page
<1>1. /\ TypeOK /\ Heap /\ pc[t] = "munmap" /\ pc \in [Threads -> Labels]
      /\ mem' = Unmapping(mem, p .. (p + loc[t].np - 1))
      /\ freed' = freed \cup {o}
      /\ UNCHANGED <<high_vaddr, large_obj_next_page, g_flsts, g_m, g_big_obj_m, live, exited>>
      /\ Return(t)
      /\ \A u \in Threads : LocalsSound(u)
  BY DEF IInv, Munmap, Reliable, TypeOK
<1>2. o # NoObject /\ IsLarge(o) /\ loc[t].np = o.np /\ p = o.page
  BY <1>1 DEF LocalsSound, LargeFree
<1>3. /\ Dying' \subseteq Dying /\ Dying \subseteq Dying' \cup {o}
      /\ \A u \in Threads \ {t} : pc'[u] = pc[u] /\ loc'[u] = loc[u]
      /\ pc'[t] = "idle" /\ LocalsSound(t)'
      /\ pc' \in [Threads -> Labels]
      /\ loc' \in [Threads -> [size : Nat, ptr : Ptr, np : Nat, i : Nat, obj : Object]]
  BY <1>1, ReturnLocals
<1>4. o \in Known /\ o \in Object
  BY <1>1, <1>2 DEF Known, Dying, TypeOK
<1>5. o.page \in Nat /\ o.np \in Nat
  BY <1>1, <1>4, KnownObjects
<1>6. \A q \in Pages : mem'[q] = IF q \in ObjectPages(o) THEN UNMAPPED ELSE mem[q]
  BY <1>1, <1>2 DEF Unmapping, ObjectPages
<1>7. \A q \in Pages : Mapped(q)' => mem'[q] = mem[q] /\ Mapped(q) /\ q \notin ObjectPages(o)
  BY <1>6 DEF Mapped
<1>8. Known' \subseteq Known
  BY <1>1, <1>3, <1>4 DEF Known
<1>9. TypeOK'
  BY <1>1, <1>3, <1>4, <1>6 DEF TypeOK, Unmapping
<1>10. StaleUnmapped'
  <2>1. \A q \in ObjectPages(o) : ~Mapped(q)'
    BY <1>1, <1>4, <1>7, KnownPages DEF Heap
  <2>2. freed' \subseteq Known
    BY <1>1, <1>4 DEF Known
  <2> QED
    BY <1>1, <1>7, <2>1, <2>2, StaleStays
<1>11. Heap'
  BY <1>1, <1>7, <1>8, <1>10, ShrinkHeap
<1>12. \A u \in Threads : LocalsSound(u)'
  BY <1>1, <1>3, <1>7, <1>8, ShrinkLocals
<1>13. MutexHeld' /\ (Quiet' => Quiet)
  BY <1>1, <1>3 DEF IInv, MutexHeld, Quiet, Retrying
<1>14. Quiet => FreelistsFalling'
  <2>1. \A q \in Pages : q < LARGE_OBJ_VADDR_START => mem'[q] = mem[q]
    BY <1>2, <1>5, <1>6, NuafAssumption DEF ObjectPages, IsLarge, Pages, NuafAssumption
  <2>2. SmallMapped' = SmallMapped
    BY <2>1 DEF SmallMapped, Mapped
  <2>3. \A q \in SmallMapped : o.page # q
    BY <1>2, <1>5, NuafAssumption DEF SmallMapped, IsLarge, Pages, NuafAssumption
  <2>4. FreePages' = FreePages
    BY <1>1, <1>3, <2>2, <2>3 DEF FreePages
  <2>5. \A q \in FreePages : mem'[q] = mem[q]
    BY <2>1 DEF FreePages, SmallMapped
  <2> QED
    BY <1>1, <2>4, <2>5, KeepFreelists DEF IInv
<1> QED
  BY <1>9, <1>11, <1>12, <1>13, <1>14 DEF IInv

LEMMA MremapFailsStep ==
  ASSUME Reliable, IInv, NEW t \in Threads, MremapFails(t)
  PROVE  IInv'
<1> DEFINE o == loc[t].obj
           p == loc[t].ptr.page
           i == loc[t].i
<1>1. /\ TypeOK /\ Heap /\ MutexHeld /\ pc[t] = "mremap" /\ pc \in [Threads -> Labels]
      /\ loc \in [Threads -> [size : Nat, ptr : Ptr, np : Nat, i : Nat, obj : Object]]
      /\ loc' = [loc EXCEPT ![t].i = i + 1]
      /\ UNCHANGED <<high_vaddr, large_obj_next_page, g_flsts, g_m, g_big_obj_m,
                     live, freed, exited>>
      /\ \A u \in Threads : LocalsSound(u)
  BY DEF IInv, MremapFails, TypeOK
<1>2. o # NoObject /\ ~IsLarge(o) /\ p = o.page /\ i \in Nat /\ i >= 1 /\ SmallFree(t)
  BY <1>1 DEF LocalsSound, SmallFree
<1>3. o \in Known /\ o.page \in Pages /\ o.page \in Nat /\ o.page < high_vaddr
  BY <1>1, <1>2, KnownObjects, ObjectBounds DEF Known, Dying, Heap, Object
<1>4. PICK label \in {"reenter", "mremap"} : pc' = [pc EXCEPT ![t] = label]
  <2>1. pc = [pc EXCEPT ![t] = "mremap"]
    BY <1>1
  <2> QED
    BY <2>1 DEF MremapFails, Reenters
<1>5. \A u \in Threads \ {t} : pc'[u] = pc[u] /\ loc'[u] = loc[u]
  BY <1>1, <1>4
<1>6. /\ loc'[t].obj = o /\ loc'[t].ptr = loc[t].ptr /\ loc'[t].i = i + 1
      /\ \A u \in Threads : loc'[u].obj = loc[u].obj
      /\ pc'[t] = label
  BY <1>1, <1>4
<1>7. Known' = Known
  BY <1>1, <1>6, DyingSame DEF Known
<1>8. mem' = mem \/ mem' = MremapCleared(p, i)
  BY DEF MremapFails, Reliable
<1>9. \A q \in Pages : mem'[q] = mem[q] \/ mem'[q] = UNMAPPED
  BY <1>8 DEF MremapCleared, Unmapping
<1>10. \A q \in Pages : Mapped(q)' => mem'[q] = mem[q] /\ Mapped(q)
  BY <1>9 DEF Mapped
<1>11. TypeOK'
  <2>1. mem' \in [Pages -> PageContent \cup {UNMAPPED}]
    BY <1>1, <1>8 DEF TypeOK, MremapCleared, Unmapping
  <2>2. pc' \in [Threads -> Labels]
    BY <1>1, <1>4 DEF Labels
  <2>3. loc' \in [Threads -> [size : Nat, ptr : Ptr, np : Nat, i : Nat, obj : Object]]
    BY <1>1, <1>2
  <2> QED
    BY <1>1, <2>1, <2>2, <2>3 DEF TypeOK
<1>12. StaleUnmapped'
  BY <1>1, <1>10, StaleStays DEF Known
<1>13. Heap'
  BY <1>1, <1>7, <1>10, <1>12, ShrinkHeap
<1>14. SmallFree(t)'
  <2>1. Mapped(o.page)' => Mapped(o.page)
    BY <1>3, <1>6, <1>10 DEF Mapped
  <2>2. ~Mapped(o.page)' \/ high_vaddr >= VADDR_END
    <3>1. CASE MremapRefused(p, i)
      <4>1. i > 1 \/ high_vaddr >= VADDR_END
        BY <1>1, <1>2, <1>3, <3>1 DEF MremapRefused, TypeOK
      <4> QED
        BY <1>2, <2>1, <4>1 DEF SmallFree
    <3>2. CASE ~MremapRefused(p, i)
      <4>1. ~Mapped(p)
        BY <3>2 DEF MremapFails, Reliable
      <4> QED
        BY <1>2, <2>1, <4>1
    <3> QED
      BY <3>1, <3>2
  <2> QED
    BY <1>1, <1>2, <1>6, <2>1, <2>2 DEF SmallFree, IsLarge
<1>15. ASSUME NEW u \in Threads
       PROVE  LocalsSound(u)'
  <2>1. CASE u = t
    BY <1>4, <1>6, <1>14, <2>1 DEF LocalsSound
  <2>2. CASE u # t
    <3>1. \A v \in Threads : pc'[v] = "header" => pc[v] = "header" /\ loc'[v] = loc[v]
      BY <1>4, <1>5, <1>6
    <3> QED
      BY <1>1, <1>5, <1>7, <1>10, <2>2, <3>1, ShrinkLocals
  <2> QED
    BY <2>1, <2>2
<1>16. MutexHeld' /\ ~Quiet'
  BY <1>1, <1>2, <1>4, <1>5, <1>6 DEF MutexHeld, Quiet, Retrying
<1> QED
  BY <1>11, <1>13, <1>15, <1>16 DEF IInv

-----------------------------------------------------------------------------
(* xxmalloc_big.                                                           *)

LEMMA MmapBigStep ==
  ASSUME Reliable, IInv, NEW t \in Threads, MmapBig(t)
  PROVE  IInv'
<1> DEFINE np == NumPages(loc[t].size)
           first == large_obj_next_page
<1>1. /\ TypeOK /\ Heap /\ pc[t] = "mmap_big" /\ pc \in [Threads -> Labels]
      /\ loc \in [Threads -> [size : Nat, ptr : Ptr, np : Nat, i : Nat, obj : Object]]
      /\ first + np <= VADDR_END
      /\ mem' = MappingAnon(mem, first .. (first + np - 1))
      /\ large_obj_next_page' = first + np
      /\ loc' = [loc EXCEPT ![t].np = np, ![t].ptr = [page |-> first, off |-> 0]]
      /\ pc' = [pc EXCEPT ![t] = "header"]
      /\ g_big_obj_m' = NoThread
      /\ UNCHANGED <<high_vaddr, g_flsts, g_m, live, freed, exited>>
      /\ \A u \in Threads : LocalsSound(u)
  BY DEF IInv, MmapBig, TypeOK, Goto, NextLargePage
<1>2. /\ np \in Nat \ {0} /\ first \in Nat /\ high_vaddr \in Nat
      /\ high_vaddr <= LARGE_OBJ_VADDR_START /\ LARGE_OBJ_VADDR_START <= first
      /\ LARGE_OBJ_VADDR_START \in Nat /\ VADDR_END \in Nat /\ MMAP_MIN_ADDR \in Nat
  BY <1>1, NumPagesHold, NuafAssumption DEF Heap, Watermarks, TypeOK, NuafAssumption
<1>3. \A q \in Pages : mem'[q] = IF first <= q /\ q < first + np THEN AnonPage ELSE mem[q]
  <2>1. \A q \in Pages : q \in Int
    BY <1>2 DEF Pages
  <2>2. \A q \in Pages : q \in first .. (first + np - 1) <=> first <= q /\ q < first + np
    BY <1>2, <2>1
  <2> QED
    BY <1>1, <2>2 DEF MappingAnon
<1>4. \A q \in Pages : q < first => mem'[q] = mem[q]
  BY <1>2, <1>3, NuafAssumption DEF Pages, NuafAssumption
<1>5. /\ \A u \in Threads : loc'[u].obj = loc[u].obj
      /\ \A u \in Threads \ {t} : pc'[u] = pc[u] /\ loc'[u] = loc[u]
      /\ pc'[t] = "header" /\ loc'[t].np = np /\ loc'[t].ptr = [page |-> first, off |-> 0]
      /\ loc'[t].size = loc[t].size
  BY <1>1
<1>6. Known' = Known /\ Dying' = Dying
  BY <1>1, <1>5, DyingSame DEF Known
<1>7. AnonPage \in PageContent /\ AnonPage.head # LARGE_OBJ_START_MAGIC
  BY NuafAssumption, PageBytes
  DEF NuafAssumption, AnonPage, PageContent, Ptr, Addr, Pages, NULL, NoSlot
<1>8. TypeOK'
  <2>1. mem' \in [Pages -> PageContent \cup {UNMAPPED}]
    BY <1>1, <1>7 DEF TypeOK, MappingAnon
  <2>2. [page |-> first, off |-> 0] \in Ptr
    <3>1. first \in Pages
      BY <1>1, <1>2 DEF Pages
    <3>2. 0 \in 0 .. (PAGE_SIZE - 1)
      BY PageBytes
    <3> QED
      BY <3>1, <3>2 DEF Ptr
  <2>3. loc' \in [Threads -> [size : Nat, ptr : Ptr, np : Nat, i : Nat, obj : Object]]
    BY <1>1, <1>2, <2>2
  <2>4. pc' \in [Threads -> Labels]
    BY <1>1 DEF Labels
  <2>5. large_obj_next_page' \in Nat
    BY <1>1, <1>2
  <2>6. /\ UNCHANGED <<high_vaddr, g_flsts, g_m, live, freed, exited>>
        /\ g_big_obj_m' = NoThread /\ TypeOK
    BY <1>1
  <2> QED
    BY <2>1, <2>3, <2>4, <2>5, <2>6 DEF TypeOK
<1>9. Watermarks'
  <2>1. ASSUME NEW q \in Pages, Mapped(q)'
        PROVE  \/ MMAP_MIN_ADDR <= q /\ q < high_vaddr
               \/ LARGE_OBJ_VADDR_START <= q /\ q < first + np
    <3>1. q \in Nat
      BY <1>2 DEF Pages
    <3>2. CASE first <= q /\ q < first + np
      BY <1>2, <3>1, <3>2
    <3>3. CASE ~(first <= q /\ q < first + np)
      <4>1. Mapped(q)
        BY <1>3, <2>1, <3>3 DEF Mapped
      <4> QED
        BY <1>1, <1>2, <3>1, <4>1 DEF Heap, Watermarks
    <3> QED
      BY <3>2, <3>3
  <2> QED
    BY <1>1, <1>2, <2>1 DEF Heap, Watermarks
<1>10. SmallHeads' /\ CanonicalSlots'
  <2>1. \A q \in Pages : q < LARGE_OBJ_VADDR_START => mem'[q] = mem[q]
    BY <1>2, <1>4 DEF Pages
  <2> QED
    BY <1>1, <2>1 DEF Heap, SmallHeads, CanonicalSlots, Mapped
<1>11. \A o \in Known : \A q \in ObjectPages(o) : q \in Pages /\ mem'[q] = mem[q]
  <2>1. ASSUME NEW o \in Known, NEW q \in ObjectPages(o)
        PROVE  q \in Pages /\ mem'[q] = mem[q]
    BY <1>1, <1>2, <1>4, KnownPages DEF Heap
  <2> QED
    BY <2>1
<1>12. ObjectsSound' /\ ObjectsApart'
  <2>1. ASSUME NEW o \in Known'
        PROVE  (IF IsLarge(o) THEN LargeObject(o) ELSE SmallObject(o))'
    <3>1. o \in Known /\ o.page \in Nat /\ o.np \in Nat
      BY <1>1, <1>6, KnownObjects
    <3>2. \A q \in Pages : o.page <= q /\ q < o.page + o.np => mem'[q] = mem[q]
      BY <1>2, <1>11, <3>1 DEF ObjectPages, Pages
    <3>3. /\ high_vaddr' \in Nat /\ high_vaddr <= high_vaddr'
          /\ large_obj_next_page' \in Nat /\ large_obj_next_page <= large_obj_next_page'
      BY <1>1, <1>2
    <3>4. TypeOK /\ Watermarks /\ ObjectsSound
      BY <1>1 DEF Heap
    <3> QED
      BY <3>1, <3>2, <3>3, <3>4, KeepObject DEF Mapped
  <2> QED
    BY <1>1, <1>6, <2>1 DEF Heap, ObjectsSound, ObjectsApart, Apart
<1>13. StaleUnmapped'
  BY <1>1, <1>6, <1>11 DEF Heap, StaleUnmapped, PagesOf, ObjectPages, Mapped, Known
<1>14. \A o \in Known : o.page + o.np <= first
  <2>1. TAKE o \in Known
  <2>2. TypeOK /\ Watermarks /\ ObjectsSound
    BY <1>1 DEF Heap
  <2>3. o.page \in Nat /\ o.np \in Nat
    BY <2>2, KnownObjects
  <2>4. \/ o.page + o.np <= large_obj_next_page
        \/ o.np = 1 /\ o.page < high_vaddr /\ o.page < LARGE_OBJ_VADDR_START
    BY <2>2, ObjectBounds
  <2> QED
    BY <1>1, <1>2, <2>3, <2>4 DEF Watermarks
<1>15. LocalsSound(t)'
  <2>1. \A q \in Pages : first <= q /\ q < first + np => mem'[q].head # LARGE_OBJ_START_MAGIC
    BY <1>3, <1>7
  <2>2. \A o \in Known' : Apart(Pending(t), o)'
    BY <1>5, <1>6, <1>14 DEF Apart, Pending
  <2>3. ASSUME NEW u \in Threads \ {t}, pc'[u] = "header"
        PROVE  Apart(Pending(t), Pending(u))'
    <3>1. PendingSound(u) /\ pc'[u] = pc[u] /\ loc'[u] = loc[u]
      BY <1>1, <1>5, <2>3 DEF LocalsSound
    <3> QED
      BY <1>5, <3>1 DEF PendingSound, Pending, Apart
  <2>4. PendingSound(t)'
    BY <1>1, <1>2, <1>5, <2>1, <2>2, <2>3 DEF PendingSound
  <2>5. loc'[t].obj = NoObject
    BY <1>1, <1>5 DEF LocalsSound
  <2> QED
    BY <1>5, <2>4, <2>5 DEF LocalsSound
<1>16. ASSUME NEW u \in Threads \ {t}
       PROVE  LocalsSound(u)'
  <2>1. pc'[u] = pc[u] /\ loc'[u] = loc[u] /\ LocalsSound(u)
    BY <1>1, <1>5
  <2>2. ASSUME pc[u] = "header"
        PROVE  /\ \A q \in Pages : /\ loc[u].ptr.page <= q /\ q < loc[u].ptr.page + loc[u].np
                                   /\ Mapped(q)'
                                => mem'[q].head # LARGE_OBJ_START_MAGIC
               /\ \A o \in Known' : Apart(Pending(u), o)
               /\ \A v \in Threads \ {u} : pc'[v] = "header" => Apart(Pending(u), Pending(v)')
    <3>1. PendingSound(u)
      BY <2>1, <2>2 DEF LocalsSound
    <3>2. \A q \in Pages : /\ loc[u].ptr.page <= q /\ q < loc[u].ptr.page + loc[u].np
                           /\ Mapped(q)'
                        => mem'[q].head # LARGE_OBJ_START_MAGIC
      BY <1>3, <1>7, <3>1 DEF PendingSound, Mapped
    <3>3. \A v \in Threads \ {u} : pc'[v] = "header" => Apart(Pending(u), Pending(v)')
      <4>1. Apart(Pending(u), Pending(t)')
        BY <1>5, <3>1 DEF PendingSound, Pending, Apart
      <4>2. \A v \in Threads \ {t} : Pending(v)' = Pending(v)
        BY <1>5 DEF Pending
      <4> QED
        BY <1>5, <3>1, <4>1, <4>2 DEF PendingSound
    <3> QED
      BY <1>6, <3>1, <3>2, <3>3 DEF PendingSound
  <2>3. /\ large_obj_next_page' \in Nat /\ large_obj_next_page <= large_obj_next_page'
        /\ high_vaddr' \in Nat /\ high_vaddr <= high_vaddr'
    BY <1>1, <1>2
  <2>4. \A q \in Pages : q < high_vaddr /\ Mapped(q)' => Mapped(q)
    BY <1>2, <1>4 DEF Pages, Mapped
  <2> QED
    BY <1>1, <2>1, <2>2, <2>3, <2>4, KeepLocals DEF Heap
<1>17. MutexHeld' /\ (Quiet' => Quiet)
  BY <1>1, <1>5 DEF IInv, MutexHeld, Quiet, Retrying
<1>18. Quiet => FreelistsFalling'
  <2>1. \A q \in Pages : q < LARGE_OBJ_VADDR_START => mem'[q] = mem[q]
    BY <1>2, <1>4 DEF Pages
  <2>2. SmallMapped' = SmallMapped
    BY <2>1 DEF SmallMapped, Mapped
  <2>3. FreePages' = FreePages /\ \A q \in FreePages : mem'[q] = mem[q]
    BY <1>1, <1>6, <2>1, <2>2 DEF FreePages, SmallMapped
  <2> QED
    BY <1>1, <2>3, KeepFreelists DEF IInv
<1> QED
  BY <1>8, <1>9, <1>10, <1>12, <1>13, <1>15, <1>16, <1>17, <1>18 DEF IInv, Heap

LEMMA WriteHeaderStep ==
  ASSUME Reliable, IInv, NEW t \in Threads, WriteHeader(t)
  PROVE  IInv' /\ NewApart
<1>0. PICK p, np, new : /\ p = loc[t].ptr.page /\ np = loc[t].np
                        /\ new = [page |-> p, off |-> LARGE_HEADER, np |-> np, size |-> loc[t].size]
  OBVIOUS
<1>1. CASE ~Mapped(p)
  BY <1>0, <1>1, ExitStep DEF WriteHeader, Exit, NewApart
<1>2. CASE Mapped(p)
  <2>1. /\ TypeOK /\ Heap /\ pc[t] = "header" /\ pc \in [Threads -> Labels]
        /\ loc \in [Threads -> [size : Nat, ptr : Ptr, np : Nat, i : Nat, obj : Object]]
        /\ mem' = [mem EXCEPT ![p].head = LARGE_OBJ_START_MAGIC, ![p].np = np]
        /\ live' = live \cup {new}
        /\ Return(t)
        /\ UNCHANGED <<high_vaddr, large_obj_next_page, g_flsts, g_m, g_big_obj_m,
                       freed, exited>>
        /\ \A u \in Threads : LocalsSound(u)
    BY <1>0, <1>2 DEF IInv, WriteHeader, TypeOK
  <2>2. PendingSound(t) /\ loc[t].obj = NoObject
    BY <2>1 DEF LocalsSound
  <2>3. /\ p \in Pages /\ p \in Nat /\ np \in Nat \ {0} /\ LARGE_OBJ_VADDR_START <= p
        /\ LARGE_OBJ_VADDR_START \in Nat /\ loc[t].size \in Nat
        /\ high_vaddr \in Nat /\ large_obj_next_page \in Nat
        /\ high_vaddr <= LARGE_OBJ_VADDR_START
        /\ p + np <= large_obj_next_page
    BY <1>0, <2>1, <2>2, NumPagesHold, NuafAssumption
    DEF PendingSound, Ptr, Pages, NuafAssumption, TypeOK, Heap, Watermarks
  <2>4. /\ Dying' = Dying
        /\ \A u \in Threads \ {t} : pc'[u] = pc[u] /\ loc'[u] = loc[u]
        /\ pc'[t] = "idle" /\ LocalsSound(t)'
        /\ pc' \in [Threads -> Labels]
        /\ loc' \in [Threads -> [size : Nat, ptr : Ptr, np : Nat, i : Nat, obj : Object]]
    BY <2>1, <2>2, ReturnLocals
  <2>5. Known' = Known \cup {new}
    BY <2>1, <2>4 DEF Known
  <2>6. /\ \A q \in Pages \ {p} : mem'[q] = mem[q]
        /\ Mapped(p)' /\ mem'[p].head = LARGE_OBJ_START_MAGIC /\ mem'[p].np = np
        /\ mem' \in [Pages -> PageContent \cup {UNMAPPED}]
    <3>1. mem \in [Pages -> PageContent \cup {UNMAPPED}] /\ mem[p] \in PageContent
      BY <1>2, <2>1, <2>3 DEF TypeOK, Mapped
    <3>2. mem' = [mem EXCEPT ![p] = [mem[p] EXCEPT !.head = LARGE_OBJ_START_MAGIC, !.np = np]]
      BY <2>1, <2>3, <3>1
    <3>3. [mem[p] EXCEPT !.head = LARGE_OBJ_START_MAGIC, !.np = np] \in PageContent
      BY <2>3, <3>1, NuafAssumption DEF PageContent, NuafAssumption
    <3>4. /\ mem'[p] \in PageContent /\ mem'[p].head = LARGE_OBJ_START_MAGIC
          /\ mem'[p].np = np
      BY <2>3, <3>1, <3>2, <3>3 DEF PageContent
    <3>5. UNMAPPED \notin PageContent
      BY NuafAssumption DEF NuafAssumption
    <3>6. \A q \in Pages \ {p} : mem'[q] = mem[q]
      BY <3>1, <3>2
    <3>7. mem' \in [Pages -> PageContent \cup {UNMAPPED}]
      BY <3>1, <3>2, <3>3
    <3>8. Mapped(p)'
      BY <3>4, <3>5 DEF Mapped
    <3> QED
      BY <3>4, <3>6, <3>7, <3>8
  <2>7. \A q \in Pages : Mapped(q)' = Mapped(q)
    BY <1>2, <2>6 DEF Mapped
  <2>8. TypeOK'
    <3>1. new \in Object
      BY <1>0, <2>3, PageBytes DEF Object
    <3> QED
      BY <2>1, <2>4, <2>6, <3>1 DEF TypeOK
  <2>9. Watermarks' /\ SmallHeads' /\ CanonicalSlots'
    <3>1. \A q \in Pages : q < LARGE_OBJ_VADDR_START => mem'[q] = mem[q]
      BY <2>3, <2>6 DEF Pages
    <3> QED
      BY <2>1, <2>7, <3>1 DEF Heap, Watermarks, SmallHeads, CanonicalSlots
  <2>10. \A o \in Known : o.page \in Nat /\ o.np \in Nat \ {0} /\ Apart(new, o)
    BY <1>0, <2>1, <2>2, KnownObjects, ObjectBounds DEF PendingSound, Pending, Apart, Heap
  <2>11. ObjectsSound'
    <3>1. ASSUME NEW o \in Known
          PROVE  (IF IsLarge(o) THEN LargeObject(o) ELSE SmallObject(o))'
      <4>1. \A q \in Pages : o.page <= q /\ q < o.page + o.np => mem'[q] = mem[q]
        <5>1. new.page = p /\ new.np = np /\ o.page \in Nat /\ o.np \in Nat
          BY <1>0, <2>10
        <5>2. p + np <= o.page \/ o.page + o.np <= p
          BY <2>10, <5>1 DEF Apart
        <5> QED
          BY <2>3, <2>6, <5>1, <5>2 DEF Pages
      <4>2. TypeOK /\ Watermarks /\ ObjectsSound
            /\ UNCHANGED <<high_vaddr, large_obj_next_page>>
        BY <2>1 DEF Heap
      <4> QED
        BY <2>3, <4>1, <4>2, KeepObject DEF Mapped
    <3>2. IsLarge(new) /\ new.page = p /\ new.np = np /\ new.off = LARGE_HEADER
      BY <1>0, <2>3 DEF IsLarge
    <3>3. LargeObject(new)'
      <4>1. np = NumPages(new.size) /\ p + np <= large_obj_next_page'
        BY <1>0, <2>1, <2>2 DEF PendingSound
      <4>2. \A q \in Pages : p < q /\ q < p + np /\ Mapped(q)' =>
              mem'[q].head # LARGE_OBJ_START_MAGIC
        BY <1>0, <2>2, <2>3, <2>6, <2>7 DEF PendingSound, Pages
      <4> QED
        BY <2>6, <3>2, <4>1, <4>2 DEF LargeObject
    <3> QED
      BY <2>5, <3>1, <3>2, <3>3 DEF ObjectsSound, IsLarge
  <2>12. ObjectsApart'
    BY <2>1, <2>5, <2>10 DEF Heap, ObjectsApart, Apart
  <2>13. StaleUnmapped'
    BY <2>1, <2>7, StaleStays DEF Known
  <2>14. ASSUME NEW u \in Threads \ {t}
         PROVE  LocalsSound(u)'
    <3>1. pc'[u] = pc[u] /\ loc'[u] = loc[u] /\ LocalsSound(u)
      BY <2>1, <2>4
    <3>2. ASSUME pc[u] = "header"
          PROVE  /\ \A q \in Pages : /\ loc[u].ptr.page <= q /\ q < loc[u].ptr.page + loc[u].np
                                     /\ Mapped(q)'
                                  => mem'[q].head # LARGE_OBJ_START_MAGIC
                 /\ \A o \in Known' : Apart(Pending(u), o)
                 /\ \A v \in Threads \ {u} : pc'[v] = "header" => Apart(Pending(u), Pending(v)')
      <4>1. PendingSound(u)
        BY <3>1, <3>2 DEF LocalsSound
      <4>2. Apart(Pending(u), Pending(t))
        BY <2>1, <4>1 DEF PendingSound
      <4>3. loc[u].ptr.page \in Nat /\ loc[u].np \in Nat
        BY <2>1, NuafAssumption DEF Ptr, Pages, NuafAssumption
      <4>4. ~(loc[u].ptr.page <= p /\ p < loc[u].ptr.page + loc[u].np)
        BY <1>0, <2>3, <4>2, <4>3 DEF Apart, Pending
      <4>5. \A q \in Pages : /\ loc[u].ptr.page <= q /\ q < loc[u].ptr.page + loc[u].np
                             /\ Mapped(q)'
                          => mem'[q].head # LARGE_OBJ_START_MAGIC
        BY <2>6, <4>1, <4>4 DEF PendingSound, Mapped
      <4>6. \A o \in Known' : Apart(Pending(u), o)
        BY <1>0, <2>5, <4>1, <4>2 DEF PendingSound, Pending, Apart
      <4>7. \A v \in Threads \ {u} : pc'[v] = "header" => Apart(Pending(u), Pending(v)')
        BY <2>4, <4>1 DEF PendingSound, Pending
      <4> QED
        BY <4>5, <4>6, <4>7
    <3>3. /\ TypeOK /\ Watermarks /\ ObjectsSound
          /\ UNCHANGED <<high_vaddr, large_obj_next_page>>
      BY <2>1 DEF Heap
    <3> QED
      BY <2>3, <2>7, <3>1, <3>2, <3>3, KeepLocals
  <2>15. MutexHeld' /\ (Quiet' => Quiet)
    BY <2>1, <2>4 DEF IInv, MutexHeld, Quiet, Retrying
  <2>16. Quiet => FreelistsFalling'
    <3>1. \A q \in Pages : q < LARGE_OBJ_VADDR_START => mem'[q] = mem[q]
      BY <2>3, <2>6 DEF Pages
    <3>2. SmallMapped' = SmallMapped
      BY <3>1 DEF SmallMapped, Mapped
    <3>3. \A q \in SmallMapped : new.page # q
      BY <1>0, <2>3 DEF SmallMapped, Pages
    <3>4. FreePages' = FreePages
      BY <2>1, <2>4, <3>2, <3>3 DEF FreePages
    <3>5. \A q \in FreePages : mem'[q] = mem[q]
      BY <3>1 DEF FreePages, SmallMapped
    <3> QED
      BY <2>1, <3>4, <3>5, KeepFreelists DEF IInv
  <2>17. NewApart
    BY <2>1, <2>10 DEF NewApart
  <2> QED
    BY <2>4, <2>8, <2>9, <2>11, <2>12, <2>13, <2>14, <2>15, <2>16, <2>17 DEF IInv, Heap
<1> QED
  BY <1>1, <1>2

-----------------------------------------------------------------------------
(* The program stores into an object.                                      *)

LEMMA StoreStep ==
  ASSUME Reliable, IInv, NEW t \in Threads, Store(t)
  PROVE  IInv'
<1>0. PICK o \in live \cup freed : \E p \in ObjectPages(o) :
        IF Mapped(p)
        THEN /\ \/ ~IsLarge(o) /\ mem' = [mem EXCEPT ![p].link = WILD]
                \/ /\ IsLarge(o) /\ p # o.page
                   /\ \E w \in UserWords : \/ mem' = [mem EXCEPT ![p].head = w]
                                           \/ mem' = [mem EXCEPT ![p].np = w]
             /\ UNCHANGED <<high_vaddr, large_obj_next_page, g_flsts, g_m, g_big_obj_m,
                            pc, loc, live, freed, exited>>
        ELSE Exit("segv")
  BY DEF Store
<1>1. PICK p \in ObjectPages(o) :
        IF Mapped(p)
        THEN /\ \/ ~IsLarge(o) /\ mem' = [mem EXCEPT ![p].link = WILD]
                \/ /\ IsLarge(o) /\ p # o.page
                   /\ \E w \in UserWords : \/ mem' = [mem EXCEPT ![p].head = w]
                                           \/ mem' = [mem EXCEPT ![p].np = w]
             /\ UNCHANGED <<high_vaddr, large_obj_next_page, g_flsts, g_m, g_big_obj_m,
                            pc, loc, live, freed, exited>>
        ELSE Exit("segv")
  BY <1>0
<1>2. CASE ~Mapped(p)
  BY <1>1, <1>2, ExitStep
<1>3. CASE Mapped(p)
  <2>1. /\ TypeOK /\ Heap /\ Watermarks /\ ObjectsSound /\ o \in Known
        /\ \A u \in Threads : LocalsSound(u)
        /\ UNCHANGED <<high_vaddr, large_obj_next_page, g_flsts, g_m, g_big_obj_m,
                       pc, loc, live, freed, exited>>
    BY <1>1, <1>3 DEF IInv, Heap, Known
  <2>2. o \in live
    BY <1>1, <1>3, <2>1 DEF Heap, StaleUnmapped, PagesOf
  <2>3. /\ p \in Pages /\ p \in Nat /\ (~IsLarge(o) => p = o.page)
        /\ IsLarge(o) => LARGE_OBJ_VADDR_START <= p
        /\ mem \in [Pages -> PageContent \cup {UNMAPPED}] /\ mem[p] \in PageContent
    BY <1>3, <2>1, KnownPages DEF TypeOK, Mapped
  <2>4. PICK page \in PageContent :
          /\ mem' = [mem EXCEPT ![p] = page]
          /\ ~IsLarge(o) => page.head = mem[p].head /\ page.np = mem[p].np
          /\ IsLarge(o) => p # o.page /\ page.head # LARGE_OBJ_START_MAGIC
    <3>1. CASE ~IsLarge(o) /\ mem' = [mem EXCEPT ![p].link = WILD]
      <4>1. WILD \in Ptr
        BY NuafAssumption, PageBytes, <2>3
        DEF WILD, Ptr, Pages, NuafAssumption
      <4> QED
        BY <2>3, <3>1, <4>1 DEF PageContent
    <3>2. CASE IsLarge(o) /\ p # o.page /\ \E w \in UserWords : \/ mem' = [mem EXCEPT ![p].head = w]
                                                                 \/ mem' = [mem EXCEPT ![p].np = w]
      <4>1. PICK w \in UserWords : mem' = [mem EXCEPT ![p].head = w] \/ mem' = [mem EXCEPT ![p].np = w]
        BY <3>2
      <4>2. w \in Nat /\ w # LARGE_OBJ_START_MAGIC
        BY NuafAssumption DEF NuafAssumption, Reliable
      <4>3. mem[p].head # LARGE_OBJ_START_MAGIC
        <5>1. o.page \in Nat /\ o.np \in Nat
          BY <2>1, KnownObjects
        <5>2. LargeObject(o) /\ o.page < p /\ p < o.page + o.np
          BY <1>1, <2>1, <2>3, <3>2, <5>1 DEF ObjectsSound, ObjectPages
        <5> QED
          BY <1>3, <2>3, <5>2 DEF LargeObject
      <4>4. \A page : page = [mem[p] EXCEPT !.head = w] \/ page = [mem[p] EXCEPT !.np = w] =>
              page \in PageContent /\ page.head # LARGE_OBJ_START_MAGIC
        BY <2>3, <4>2, <4>3 DEF PageContent
      <4>5. \/ mem' = [mem EXCEPT ![p] = [mem[p] EXCEPT !.head = w]]
            \/ mem' = [mem EXCEPT ![p] = [mem[p] EXCEPT !.np = w]]
        BY <2>3, <4>1
      <4> QED
        BY <3>2, <4>4, <4>5
    <3> QED
      BY <1>1, <1>3, <3>1, <3>2
  <2>5. /\ \A q \in Pages \ {p} : mem'[q] = mem[q]
        /\ mem'[p] = page
        /\ \A q \in Pages : Mapped(q)' = Mapped(q)
    BY <1>3, <2>3, <2>4, NuafAssumption DEF Mapped, NuafAssumption
  <2>6. Known' = Known /\ Dying' = Dying
    BY <2>1, DyingSame DEF Known
  <2>7. TypeOK'
    BY <2>1, <2>3, <2>4 DEF TypeOK
  <2>8. Watermarks' /\ SmallHeads' /\ CanonicalSlots' /\ StaleUnmapped'
    <3>1. ASSUME NEW q \in Pages, q < LARGE_OBJ_VADDR_START, Mapped(q)
          PROVE  mem'[q].head = mem[q].head
      <4>1. q = p => ~IsLarge(o)
        BY <2>3, <3>1, NuafAssumption DEF NuafAssumption
      <4> QED
        BY <2>4, <2>5, <4>1
    <3>2. StaleUnmapped'
      BY <2>1, <2>5, StaleStays DEF Known
    <3> QED
      BY <2>1, <2>5, <3>1, <3>2 DEF Heap, Watermarks, SmallHeads, CanonicalSlots
  <2>9. ObjectsSound'
    <3>1. ASSUME NEW x \in Known
          PROVE  (IF IsLarge(x) THEN LargeObject(x) ELSE SmallObject(x))'
      <4>1. ASSUME NEW q \in Pages, x.page <= q, q < x.page + x.np, Mapped(q)'
            PROVE  \/ Mapped(q) /\ mem'[q].head = mem[q].head /\ mem'[q].np = mem[q].np
                   \/ IsLarge(x) /\ q # x.page /\ mem'[q].head # LARGE_OBJ_START_MAGIC
        <5>1. CASE q # p
          BY <2>5, <4>1, <5>1
        <5>2. CASE q = p /\ ~IsLarge(o)
          BY <1>3, <2>4, <2>5, <5>2
        <5>3. CASE q = p /\ IsLarge(o)
          <6>1. /\ x.page \in Nat /\ x.np \in Nat /\ o.page \in Nat /\ o.np \in Nat
            BY <2>1, KnownObjects
          <6>2. o.page <= p /\ p < o.page + o.np
            BY <6>1 DEF ObjectPages
          <6>3. x = o
            BY <2>1, <2>3, <4>1, <5>3, <6>1, <6>2 DEF Heap, ObjectsApart, Apart
          <6> QED
            BY <2>4, <2>5, <5>3, <6>3
        <5> QED
          BY <5>1, <5>2, <5>3
      <4>2. high_vaddr \in Nat /\ large_obj_next_page \in Nat
        BY <2>1 DEF TypeOK
      <4> QED
        BY <2>1, <4>1, <4>2, KeepObject
    <3> QED
      BY <2>6, <3>1 DEF ObjectsSound
  <2>10. ObjectsApart'
    BY <2>1, <2>6 DEF Heap, ObjectsApart, Apart
  <2>11. ASSUME NEW u \in Threads
         PROVE  LocalsSound(u)'
    <3>1. high_vaddr \in Nat /\ large_obj_next_page \in Nat
      BY <2>1 DEF TypeOK
    <3>2. ASSUME pc[u] = "header"
          PROVE  /\ \A q \in Pages : /\ loc[u].ptr.page <= q /\ q < loc[u].ptr.page + loc[u].np
                                     /\ Mapped(q)'
                                  => mem'[q].head # LARGE_OBJ_START_MAGIC
                 /\ \A x \in Known' : Apart(Pending(u), x)
                 /\ \A v \in Threads \ {u} : pc'[v] = "header" => Apart(Pending(u), Pending(v)')
      <4>1. PendingSound(u)
        BY <2>1, <3>2 DEF LocalsSound
      <4>2. \A q \in Pages : /\ loc[u].ptr.page <= q /\ q < loc[u].ptr.page + loc[u].np
                             /\ Mapped(q)'
                          => mem'[q].head # LARGE_OBJ_START_MAGIC
        BY <1>3, <2>4, <2>5, <4>1 DEF PendingSound
      <4> QED
        BY <2>1, <2>6, <4>1, <4>2 DEF PendingSound, Pending
    <3> QED
      BY <2>1, <2>5, <3>1, <3>2, KeepLocals
  <2>12. MutexHeld' /\ (Quiet' => Quiet)
    BY <2>1 DEF IInv, MutexHeld, Quiet, Retrying
  <2>13. Quiet => FreelistsFalling'
    <3>1. FreePages' = FreePages
      BY <2>1, <2>5, <2>6 DEF FreePages, SmallMapped
    <3>2. p \notin FreePages
      <4>1. CASE IsLarge(o)
        BY <2>3, <4>1, NuafAssumption DEF FreePages, SmallMapped, NuafAssumption
      <4>2. CASE ~IsLarge(o)
        BY <2>2, <2>3, <4>2 DEF FreePages
      <4> QED
        BY <4>1, <4>2
    <3>3. \A q \in FreePages : mem'[q] = mem[q]
      BY <2>5, <3>2 DEF FreePages, SmallMapped
    <3> QED
      BY <2>1, <3>1, <3>3, KeepFreelists DEF IInv
  <2> QED
    BY <2>7, <2>8, <2>9, <2>10, <2>11, <2>12, <2>13 DEF IInv, Heap
<1> QED
  BY <1>2, <1>3

-----------------------------------------------------------------------------
(* The freelists of small objects: freelist_pop and freelist_push.         *)

\* The thread at "pop" or "mremap" holds g_m, so that no other has failed.
LEMMA HolderQuiet ==
  ASSUME TypeOK, MutexHeld, NEW t \in Threads, pc[t] \in {"pop", "mremap"},
         pc[t] = "mremap" => loc[t].i = 1
  PROVE  /\ g_m = t /\ Quiet
         /\ \A u \in Threads \ {t} :
              pc[u] \notin {"pop", "mremap", "reenter", "lock_all_big", "locked"}
<1>1. g_m = t
  BY DEF MutexHeld
<1>2. \A u \in Threads \ {t} : pc[u] \notin {"pop", "mremap", "reenter", "lock_all_big", "locked"}
  BY <1>1 DEF MutexHeld
<1> QED
  BY <1>1, <1>2 DEF Quiet, Retrying

\* What is left to show for a thread that returns with g_m, having touched
\* pages of small objects only.
LEMMA SmallReturn ==
  ASSUME TypeOK, Heap, MutexHeld, NEW t \in Threads, \A u \in Threads : LocalsSound(u),
         pc[t] \in {"pop", "mremap"}, pc[t] = "mremap" => loc[t].i = 1, Return(t),
         high_vaddr' \in Nat, high_vaddr <= high_vaddr',
         large_obj_next_page' = large_obj_next_page,
         \A p \in Pages : p >= LARGE_OBJ_VADDR_START => mem'[p] = mem[p],
         \A p \in Pages : p < high_vaddr /\ Mapped(p)' => Mapped(p),
         \A o \in Known' : 
           o \in Known \/ (o.np = 1 /\ o.page \in Nat /\ o.page < LARGE_OBJ_VADDR_START)
  PROVE  MutexHeld' /\ \A u \in Threads : LocalsSound(u)'
<1>1. /\ \A u \in Threads \ {t} : pc'[u] = pc[u] /\ loc'[u] = loc[u]
      /\ pc'[t] = "idle" /\ LocalsSound(t)'
  BY ReturnLocals
<1>2. MutexHeld'
  BY <1>1, HolderQuiet DEF MutexHeld
<1>3. ASSUME NEW u \in Threads \ {t}
      PROVE  LocalsSound(u)'
  <2>1. /\ large_obj_next_page \in Nat /\ LARGE_OBJ_VADDR_START \in Nat
        /\ loc[u] \in [size : Nat, ptr : Ptr, np : Nat, i : Nat, obj : Object]
    BY NuafAssumption DEF TypeOK, NuafAssumption
  <2>2. ASSUME pc[u] = "header"
        PROVE  /\ \A q \in Pages : /\ loc[u].ptr.page <= q /\ q < loc[u].ptr.page + loc[u].np
                                   /\ Mapped(q)'
                                => mem'[q].head # LARGE_OBJ_START_MAGIC
               /\ \A o \in Known' : Apart(Pending(u), o)
               /\ \A v \in Threads \ {u} : pc'[v] = "header" => Apart(Pending(u), Pending(v)')
    <3>1. PendingSound(u)
      BY <2>2 DEF LocalsSound
    <3>2. loc[u].ptr.page \in Nat /\ LARGE_OBJ_VADDR_START <= loc[u].ptr.page
      BY <2>1, <3>1, NuafAssumption DEF Ptr, Pages, PendingSound, NuafAssumption
    <3>3. \A q \in Pages : /\ loc[u].ptr.page <= q /\ q < loc[u].ptr.page + loc[u].np
                           /\ Mapped(q)'
                        => mem'[q].head # LARGE_OBJ_START_MAGIC
      <4>1. \A q \in Pages : loc[u].ptr.page <= q => mem'[q] = mem[q]
        BY <2>1, <3>2, NuafAssumption DEF Pages, NuafAssumption
      <4> QED
        BY <3>1, <4>1 DEF PendingSound, Mapped
    <3>4. ASSUME NEW o \in Known'
          PROVE  Apart(Pending(u), o)
      <4>1. CASE o \in Known
        BY <3>1, <4>1 DEF PendingSound
      <4>2. CASE o.np = 1 /\ o.page \in Nat /\ o.page < LARGE_OBJ_VADDR_START
        BY <2>1, <3>2, <4>2 DEF Apart, Pending
      <4> QED
        BY <4>1, <4>2
    <3>5. \A v \in Threads \ {u} : pc'[v] = "header" => Apart(Pending(u), Pending(v)')
      BY <1>1, <3>1 DEF PendingSound, Pending
    <3> QED
      BY <3>3, <3>4, <3>5
  <2>3. pc'[u] = pc[u] /\ loc'[u] = loc[u] /\ LocalsSound(u)
    BY <1>1
  <2> QED
    BY <2>1, <2>2, <2>3, KeepLocals DEF Heap
<1> QED
  BY <1>1, <1>2, <1>3

\* A pop hands out an object on a page no known object is on: a fresh page at
\* the watermark or the page of the top of a freelist.
LEMMA NewSmallObject ==
  ASSUME TypeOK, Heap, NEW t \in Threads, pc[t] = "pop", loc[t].obj = NoObject, loc[t].size \in Nat,
         NEW new \in Object, new.np = 1, new.page < LARGE_OBJ_VADDR_START,
         SmallObject(new)',
         live' = live \cup {new}, Return(t), UNCHANGED <<freed, large_obj_next_page>>,
         high_vaddr' \in Nat, high_vaddr <= high_vaddr',
         \A p \in Pages : p # new.page => mem'[p] = mem[p],
         \A o \in Known : ~IsLarge(o) => o.page # new.page
  PROVE  /\ Known' = Known \cup {new} /\ Dying' = Dying
         /\ ObjectsSound' /\ ObjectsApart' /\ NewApart
<1>1. Dying' = Dying
  BY ReturnLocals
<1>2. Known' = Known \cup {new}
  BY <1>1 DEF Known
<1>3. /\ new.page \in Nat /\ LARGE_OBJ_VADDR_START \in Nat
      /\ high_vaddr \in Nat /\ large_obj_next_page \in Nat
  BY NuafAssumption DEF Object, Pages, NuafAssumption, TypeOK
<1>4. ASSUME NEW o \in Known
      PROVE  /\ o.page \in Nat /\ o.np \in Nat
             /\ o.page + o.np <= new.page \/ new.page + 1 <= o.page
  <2>1. /\ o.page \in Nat /\ o.np \in Nat \ {0}
        /\ IsLarge(o) => LARGE_OBJ_VADDR_START <= o.page
        /\ ~IsLarge(o) => o.np = 1
    BY KnownObjects, ObjectBounds DEF Heap
  <2> QED
    BY <1>3, <2>1
<1>5. ASSUME NEW o \in Known
      PROVE  (IF IsLarge(o) THEN LargeObject(o) ELSE SmallObject(o))'
  <2>1. \A q \in Pages : o.page <= q /\ q < o.page + o.np => mem'[q] = mem[q]
    BY <1>3, <1>4 DEF Pages
  <2> QED
    BY <1>3, <2>1, KeepObject DEF Heap, Mapped
<1>6. ObjectsSound'
  <2>1. ~IsLarge(new)
    BY <1>3 DEF IsLarge
  <2> QED
    BY <1>2, <1>5, <2>1 DEF ObjectsSound, IsLarge
<1>7. ObjectsApart'
  BY <1>2, <1>4 DEF Heap, ObjectsApart, Apart
<1>8. NewApart
  BY <1>4 DEF NewApart, Apart
<1> QED
  BY <1>1, <1>2, <1>6, <1>7, <1>8

LEMMA PopFreshStep ==
  ASSUME Reliable, IInv, NEW t \in Threads, PopFresh(t)
  PROVE  IInv' /\ NewApart
<1>0. PICK b, slot, new :
        /\ b = BlockType(loc[t].size) /\ slot = g_flsts[b].high_canonical_addr
        /\ new = [page |-> high_vaddr, off |-> slot.off, np |-> 1, size |-> loc[t].size]
  OBVIOUS
<1>1. /\ TypeOK /\ Heap /\ MutexHeld /\ pc[t] = "pop"
      /\ \A u \in Threads : LocalsSound(u)
      /\ g_flsts[b].top_of_stack = NULL
      /\ high_vaddr < SMALL_CAP /\ high_vaddr < VADDR_END
      /\ mem' = [mem EXCEPT ![high_vaddr] = SmallPage(b, slot)]
      /\ high_vaddr' = high_vaddr + 1
      /\ g_flsts' = [g_flsts EXCEPT ![b].high_canonical_addr = NextCanonical(b, slot)]
      /\ live' = live \cup {new}
      /\ g_m' = NoThread /\ Return(t)
      /\ UNCHANGED <<large_obj_next_page, g_big_obj_m, freed, exited>>
  BY <1>0 DEF PopFresh, ReturnSmall, IInv, NextSmallPage
<1>2. /\ high_vaddr \in Nat /\ high_vaddr \in Pages /\ high_vaddr < LARGE_OBJ_VADDR_START
      /\ LARGE_OBJ_VADDR_START \in Nat /\ MMAP_MIN_ADDR \in Nat
      /\ MMAP_MIN_ADDR <= high_vaddr
      /\ mem \in [Pages -> PageContent \cup {UNMAPPED}]
      /\ g_flsts \in [BlockTypes -> [top_of_stack : Ptr, high_canonical_addr : Addr]]
  <2>1. Watermarks /\ high_vaddr < SMALL_CAP
    BY <1>1 DEF Heap
  <2>2. /\ mem \in [Pages -> PageContent \cup {UNMAPPED}]
        /\ g_flsts \in [BlockTypes -> [top_of_stack : Ptr, high_canonical_addr : Addr]]
    BY <1>1 DEF TypeOK
  <2> QED
    BY <1>1, <2>1, <2>2, SmallRoom
<1>3. /\ loc[t].size \in Nat /\ loc[t].size <= LARGEST_BLOCK_SIZE /\ loc[t].obj = NoObject
  BY <1>1 DEF LocalsSound, TypeOK
<1>4. b \in BlockTypes /\ loc[t].size <= BlockSize(b) /\ BlockSize(b) \in Nat
  BY <1>0, <1>3, ClassHolds, BlockSizes
<1>5. slot \in Addr /\ SlotOf(b, slot.off)
  BY <1>0, <1>1, <1>2, <1>4 DEF Heap, CanonicalSlots
<1>6. NextCanonical(b, slot) \in Addr /\ SlotOf(b, NextCanonical(b, slot).off)
  BY <1>4, <1>5, NextCanonicalSlot
<1>7. slot.off \in 0 .. (PAGE_SIZE - 1) /\ slot.off + loc[t].size <= PAGE_SIZE
  BY <1>3, <1>4, <1>5, PageBytes, BlockSizes
  DEF SlotOf, Addr
<1>8. new \in Object /\ new.page = high_vaddr /\ new.np = 1 /\ new.off = slot.off
      /\ new.size = loc[t].size /\ ~IsLarge(new)
  BY <1>0, <1>2, <1>3, <1>7 DEF Object, IsLarge
<1>9. SmallPage(b, slot) \in PageContent
  <2>1. BlockTypes \subseteq Int
    BY PageBytes DEF BlockTypes
  <2>2. NULL \in Ptr
    BY <1>2, PageBytes, NuafAssumption
    DEF NULL, Ptr, Pages, NuafAssumption
  <2> QED
    BY <1>4, <1>5, <2>1, <2>2 DEF SmallPage, PageContent
<1>10. /\ \A q \in Pages \ {high_vaddr} : mem'[q] = mem[q]
       /\ mem'[high_vaddr] = SmallPage(b, slot) /\ mem'[high_vaddr].head = b
       /\ mem' \in [Pages -> PageContent \cup {UNMAPPED}]
       /\ Mapped(new.page)'
  BY <1>1, <1>2, <1>8, <1>9, NuafAssumption DEF SmallPage, Mapped, NuafAssumption
<1>11. /\ high_vaddr' \in Nat /\ high_vaddr <= high_vaddr' /\ high_vaddr < high_vaddr'
       /\ high_vaddr' <= LARGE_OBJ_VADDR_START
  BY <1>1, <1>2
<1>12. SmallObject(new)'
  BY <1>2, <1>4, <1>5, <1>7, <1>8, <1>10, <1>11 DEF SmallObject
<1>13. \A o \in Known : ~IsLarge(o) => o.page # new.page
  BY <1>1, <1>2, <1>8, KnownObjects, ObjectBounds DEF Heap
<1>14. /\ Known' = Known \cup {new} /\ Dying' = Dying
       /\ ObjectsSound' /\ ObjectsApart' /\ NewApart
  BY <1>1, <1>2, <1>3, <1>8, <1>10, <1>11, <1>12, <1>13, NewSmallObject
<1>15. TypeOK'
  <2>1. g_flsts' \in [BlockTypes -> [top_of_stack : Ptr, high_canonical_addr : Addr]]
    BY <1>1, <1>2, <1>6
  <2> QED
    BY <1>1, <1>8, <1>10, <1>11, <2>1, ReturnLocals DEF TypeOK
<1>16. Watermarks' /\ SmallHeads'
  <2>1. ASSUME NEW q \in Pages, Mapped(q)', q # high_vaddr
        PROVE  Mapped(q)
    BY <1>10, <2>1 DEF Mapped
  <2> QED
    BY <1>1, <1>2, <1>4, <1>10, <1>11, <2>1 DEF Heap, Watermarks, SmallHeads, Pages
<1>17. CanonicalSlots'
  BY <1>1, <1>2, <1>6 DEF Heap, CanonicalSlots
<1>18. StaleUnmapped'
  <2>1. \A q \in Pages :
          /\ q < high_vaddr \/ (LARGE_OBJ_VADDR_START <= q /\ q < large_obj_next_page)
          /\ Mapped(q)'
          => Mapped(q)
    BY <1>2, <1>10 DEF Mapped, Pages
  <2> QED
    BY <1>1, <2>1, StaleStays DEF Known
<1>19. MutexHeld' /\ \A u \in Threads : LocalsSound(u)'
  <2>1. /\ \A p \in Pages : p >= LARGE_OBJ_VADDR_START => mem'[p] = mem[p]
        /\ \A p \in Pages : p < high_vaddr /\ Mapped(p)' => Mapped(p)
    BY <1>2, <1>10 DEF Mapped, Pages
  <2>2. \A o \in Known' :
          o \in Known \/ (o.np = 1 /\ o.page \in Nat /\ o.page < LARGE_OBJ_VADDR_START)
    BY <1>2, <1>8, <1>14
  <2> QED
    BY <1>1, <1>11, <2>1, <2>2, SmallReturn
<1>20. FreelistsFalling'
  <2>1. FreelistsFalling
    BY <1>1, HolderQuiet DEF IInv
  <2>2. FreePages' = FreePages /\ \A p \in FreePages : p < high_vaddr /\ mem'[p] = mem[p]
    <3>1. \A p \in SmallMapped : p < high_vaddr
      BY <1>1, <1>2 DEF Heap, Watermarks, SmallMapped, Pages
    <3>2. SmallMapped' = SmallMapped \cup {high_vaddr}
      BY <1>2, <1>8, <1>10 DEF SmallMapped, Mapped
    <3>3. \A p \in FreePages : p < high_vaddr /\ mem'[p] = mem[p]
      BY <1>2, <1>10, <3>1 DEF FreePages, SmallMapped
    <3>4. FreePages' = FreePages
      BY <1>1, <1>2, <1>8, <1>14, <3>1, <3>2 DEF FreePages
    <3> QED
      BY <3>3, <3>4
  <2>3. \A c \in BlockTypes : g_flsts'[c].top_of_stack = g_flsts[c].top_of_stack
    BY <1>1, <1>2
  <2>4. ASSUME NEW c \in BlockTypes
        PROVE  HighestFree(c, g_flsts[c].top_of_stack, high_vaddr)'
    <3>1. HighestFree(c, g_flsts[c].top_of_stack, high_vaddr)
      BY <2>1 DEF FreelistsFalling
    <3>2. \A p \in FreePages : p < high_vaddr' /\ p < high_vaddr
      BY <1>1, <1>2, <2>2 DEF FreePages, SmallMapped, Pages
    <3> QED
      BY <2>2, <2>3, <3>1, <3>2 DEF HighestFree
  <2>5. \A p \in FreePages : HighestFree(mem[p].head, mem[p].link, p)'
    BY <2>1, <2>2 DEF FreelistsFalling, HighestFree
  <2> QED
    BY <2>1, <2>2, <2>4, <2>5 DEF FreelistsFalling
<1> QED
  BY <1>14, <1>15, <1>16, <1>17, <1>18, <1>19, <1>20 DEF IInv, Heap

LEMMA PopTopStep ==
  ASSUME Reliable, IInv, NEW t \in Threads, PopTop(t)
  PROVE  IInv' /\ NewApart
<1>0. PICK b, top, new :
        /\ b = BlockType(loc[t].size) /\ top = g_flsts[b].top_of_stack
        /\ new = [page |-> top.page, off |-> top.off, np |-> 1, size |-> loc[t].size]
  OBVIOUS
<1>1. CASE ~Mapped(top.page)
  BY <1>0, <1>1, ExitStep DEF PopTop, Exit, NewApart
<1>2. CASE Mapped(top.page)
  <2>1. /\ TypeOK /\ Heap /\ MutexHeld /\ pc[t] = "pop" /\ top # NULL
        /\ \A u \in Threads : LocalsSound(u)
        /\ g_flsts' = [g_flsts EXCEPT ![b].top_of_stack = mem[top.page].link]
        /\ live' = live \cup {new}
        /\ g_m' = NoThread /\ Return(t)
        /\ UNCHANGED <<mem, high_vaddr, large_obj_next_page, g_big_obj_m, freed, exited>>
    BY <1>0, <1>2 DEF PopTop, ReturnSmall, IInv
  <2>2. /\ g_flsts \in [BlockTypes -> [top_of_stack : Ptr, high_canonical_addr : Addr]]
        /\ mem \in [Pages -> PageContent \cup {UNMAPPED}]
        /\ high_vaddr \in Nat /\ large_obj_next_page \in Nat /\ LARGE_OBJ_VADDR_START \in Nat
        /\ MMAP_MIN_ADDR \in Nat
    BY <2>1, NuafAssumption DEF TypeOK, NuafAssumption
  <2>3. /\ loc[t].size \in Nat /\ loc[t].size <= LARGEST_BLOCK_SIZE /\ loc[t].obj = NoObject
    BY <2>1 DEF LocalsSound, TypeOK
  <2>4. b \in BlockTypes /\ loc[t].size <= BlockSize(b) /\ BlockSize(b) \in Nat
    BY <1>0, <2>3, ClassHolds, BlockSizes
  <2>5. FreelistsFalling
    BY Zenon, <2>1, HolderQuiet DEF IInv
  <2>6. /\ top \in Ptr /\ top.page \in FreePages /\ mem[top.page].head = b /\ SlotOf(b, top.off)
        /\ top.page < high_vaddr
        /\ \A p \in FreePages : mem[p].head = b /\ p < high_vaddr => p <= top.page
    <3>1. HighestFree(b, top, high_vaddr)
      BY <1>0, <2>4, <2>5 DEF FreelistsFalling
    <3> QED
      BY <1>0, <2>1, <2>2, <2>4, <3>1 DEF HighestFree
  <2>7. /\ top.page \in Pages /\ top.page \in Nat /\ top.page < LARGE_OBJ_VADDR_START
        /\ mem[top.page] \in PageContent /\ mem[top.page].link \in Ptr
    <3>1. top.page \in Pages /\ top.page < LARGE_OBJ_VADDR_START
      BY <2>6 DEF FreePages, SmallMapped
    <3> QED
      BY <1>2, <2>2, <3>1 DEF Pages, PageContent, Mapped
  <2>8. top.off \in 0 .. (PAGE_SIZE - 1) /\ top.off + loc[t].size <= PAGE_SIZE
    <3>1. top.off \in 0 .. (PAGE_SIZE - 1) /\ top.off + BlockSize(b) <= PAGE_SIZE
      BY <2>6 DEF Ptr, SlotOf
    <3> QED
      BY <2>3, <2>4, <3>1, PageBytes
  <2>9. new \in Object /\ new.page = top.page /\ new.np = 1 /\ new.off = top.off
        /\ new.size = loc[t].size /\ ~IsLarge(new)
    BY <1>0, <2>2, <2>3, <2>7, <2>8 DEF Object, IsLarge
  <2>10. \A p \in Pages : Mapped(p)' = Mapped(p) /\ mem'[p] = mem[p]
    BY <2>1 DEF Mapped
  <2>11. SmallObject(new)'
    <3>1. MMAP_MIN_ADDR <= top.page
      BY <1>2, <2>1, <2>2, <2>7 DEF Heap, Watermarks
    <3> QED
      BY <2>1, <2>4, <2>6, <2>8, <2>9, <3>1 DEF SmallObject
  <2>12. \A o \in Known : ~IsLarge(o) => o.page # new.page
    <3>1. ASSUME NEW o \in freed, ~IsLarge(o)
          PROVE  o.page # top.page
      <4>1. o \in Known /\ o.np = 1 /\ o.page \in Nat
        BY <2>1, <3>1, ObjectBounds, KnownObjects DEF Known, Heap
      <4>2. o.page \in ObjectPages(o)
        BY <4>1 DEF ObjectPages
      <4> QED
        BY <1>2, <2>1, <4>2 DEF Heap, StaleUnmapped, PagesOf
    <3> QED
      BY <2>6, <2>9, <3>1 DEF Known, FreePages
  <2>13. /\ Known' = Known \cup {new} /\ Dying' = Dying
         /\ ObjectsSound' /\ ObjectsApart' /\ NewApart
    <3>1. /\ high_vaddr' \in Nat /\ high_vaddr <= high_vaddr'
          /\ \A p \in Pages : p # new.page => mem'[p] = mem[p]
          /\ new.page < LARGE_OBJ_VADDR_START
      BY <2>1, <2>2, <2>7, <2>9
    <3> QED
      BY <2>1, <2>3, <2>9, <2>11, <2>12, <3>1, NewSmallObject
  <2>14. TypeOK'
    <3>1. g_flsts' \in [BlockTypes -> [top_of_stack : Ptr, high_canonical_addr : Addr]]
      BY <2>1, <2>2, <2>7
    <3> QED
      BY <2>1, <2>9, <3>1, ReturnLocals DEF TypeOK
  <2>15. Watermarks' /\ SmallHeads'
    BY <2>1, <2>10 DEF Heap, Watermarks, SmallHeads
  <2>16. CanonicalSlots'
    <3>1. \A c \in BlockTypes : g_flsts'[c].high_canonical_addr = g_flsts[c].high_canonical_addr
      BY <2>1, <2>2
    <3> QED
      BY <2>1, <3>1 DEF Heap, CanonicalSlots
  <2>17. StaleUnmapped'
    BY <2>1, <2>10, StaleStays DEF Known
  <2>18. MutexHeld' /\ \A u \in Threads : LocalsSound(u)'
    <3>1. \A o \in Known' :
            o \in Known \/ (o.np = 1 /\ o.page \in Nat /\ o.page < LARGE_OBJ_VADDR_START)
      BY <2>7, <2>9, <2>13
    <3>2. high_vaddr' \in Nat /\ high_vaddr <= high_vaddr'
      BY <2>1, <2>2
    <3> QED
      BY <2>1, <2>10, <3>1, <3>2, SmallReturn
  <2>19. FreelistsFalling'
    <3>1. FreePages' = FreePages \ {top.page}
      BY <2>1, <2>9, <2>10, <2>13 DEF FreePages, SmallMapped
    <3>2. \A p \in FreePages : p \in Pages /\ p \in Nat
      BY NuafAssumption DEF FreePages, SmallMapped, Pages, NuafAssumption
    <3>3. ASSUME NEW c \in BlockTypes
          PROVE  HighestFree(c, g_flsts[c].top_of_stack, high_vaddr)'
      <4>1. CASE c = b
        <5>1. g_flsts'[c].top_of_stack = mem[top.page].link
          BY <2>1, <2>2, <4>1
        <5>2. HighestFree(b, mem[top.page].link, top.page)
          BY <2>5, <2>6 DEF FreelistsFalling
        <5>3. {p \in FreePages : mem[p].head = b /\ p < top.page}
                = {p \in FreePages' : mem'[p].head = b /\ p < high_vaddr'}
          BY <2>1, <2>2, <2>6, <2>7, <3>1, <3>2
        <5> QED
          BY <4>1, <5>1, <5>2, <5>3 DEF HighestFree
      <4>2. CASE c # b
        <5>1. g_flsts'[c].top_of_stack = g_flsts[c].top_of_stack
          BY <2>1, <2>2, <4>2
        <5>2. HighestFree(c, g_flsts[c].top_of_stack, high_vaddr)
          BY <2>5 DEF FreelistsFalling
        <5>3. {p \in FreePages : mem[p].head = c /\ p < high_vaddr}
                = {p \in FreePages' : mem'[p].head = c /\ p < high_vaddr'}
          BY <2>1, <2>6, <3>1, <4>2
        <5> QED
          BY <5>1, <5>2, <5>3 DEF HighestFree
      <4> QED
        BY <4>1, <4>2
    <3>4. ASSUME NEW q \in FreePages'
          PROVE  HighestFree(mem[q].head, mem[q].link, q)'
      <4>1. q \in FreePages /\ q # top.page /\ q \in Nat /\ mem'[q] = mem[q] /\ q < high_vaddr
        BY <2>1, <2>2, <3>1, <3>2 DEF Heap, Watermarks, FreePages, SmallMapped
      <4>2. HighestFree(mem[q].head, mem[q].link, q)
        BY <2>5, <4>1 DEF FreelistsFalling
      <4>3. mem[q].head = b => q <= top.page
        BY <2>6, <4>1
      <4>4. {p \in FreePages : mem[p].head = mem[q].head /\ p < q}
              = {p \in FreePages' : mem'[p].head = mem'[q].head /\ p < q}
        BY <2>1, <2>6, <2>7, <3>1, <4>1, <4>3
      <4> QED
        BY <4>1, <4>2, <4>4 DEF HighestFree
    <3> QED
      BY <3>3, <3>4 DEF FreelistsFalling
  <2> QED
    BY <2>13, <2>14, <2>15, <2>16, <2>17, <2>18, <2>19 DEF IInv, Heap
<1> QED
  BY <1>1, <1>2

LEMMA MremapAndPushStep ==
  ASSUME Reliable, IInv, NEW t \in Threads, MremapAndPush(t)
  PROVE  IInv'
<1>0. PICK o, p, b, ptr, top, page :
        /\ o = loc[t].obj /\ p = loc[t].ptr.page /\ b = mem[p].head
        /\ top = g_flsts[b].top_of_stack
        /\ ptr = [page |-> high_vaddr, off |-> loc[t].ptr.off]
        /\ page = [mem[p] EXCEPT !.link = top]
  BY Zenon
<1>1. /\ TypeOK /\ Heap /\ MutexHeld /\ pc[t] = "mremap"
      /\ \A u \in Threads : LocalsSound(u)
      /\ ~MremapRefused(p, loc[t].i) /\ Mapped(p) /\ high_vaddr < SMALL_CAP
      /\ mem' = [MremapCleared(p, loc[t].i) EXCEPT ![p] = UNMAPPED, ![high_vaddr] = page]
      /\ g_flsts' = [g_flsts EXCEPT ![b].top_of_stack = ptr]
      /\ high_vaddr' = high_vaddr + 1
      /\ g_m' = NoThread
      /\ freed' = freed \cup {o}
      /\ Return(t)
      /\ UNCHANGED <<large_obj_next_page, g_big_obj_m, live, exited>>
  BY Zenon, <1>0 DEF MremapAndPush, IInv, Mremapped, WithLink, NextSmallPage
<1>2. /\ g_flsts \in [BlockTypes -> [top_of_stack : Ptr, high_canonical_addr : Addr]]
      /\ mem \in [Pages -> PageContent \cup {UNMAPPED}]
      /\ high_vaddr \in Nat /\ large_obj_next_page \in Nat /\ LARGE_OBJ_VADDR_START \in Nat
      /\ MMAP_MIN_ADDR \in Nat /\ VADDR_END \in Nat /\ MMAP_MIN_ADDR <= high_vaddr
      /\ high_vaddr < LARGE_OBJ_VADDR_START /\ high_vaddr < VADDR_END /\ high_vaddr \in Pages
  <2>1. Watermarks /\ high_vaddr < SMALL_CAP
    BY <1>1 DEF Heap
  <2> QED
    BY <1>1, <2>1, SmallRoom DEF TypeOK, Heap, Watermarks
\* The object that is freed.
<1>3. /\ o # NoObject /\ ~IsLarge(o) /\ p = o.page /\ SmallFree(t) /\ o \in Dying
      /\ o \in Known /\ o \in Object
  BY Zenon, <1>0, <1>1 DEF LocalsSound, SmallFree, Known, Dying, TypeOK
<1>4. p \in Pages /\ p \in Nat /\ p < high_vaddr /\ o.np = 1
  BY <1>1, <1>3, KnownObjects, ObjectBounds DEF Heap, Object
<1>5. loc[t].i = 1 /\ loc[t].ptr.off = o.off
  <2>1. loc[t].i \in Nat
    BY <1>1 DEF TypeOK
  <2> QED
    <3>1. Mapped(loc[t].obj.page) /\ o = loc[t].obj
      BY Zenon, <1>0, <1>1, <1>3
    <3>2. loc[t].i >= 1 /\ ~(loc[t].i > 1) /\ loc[t].ptr.off = o.off
      BY <1>2, <1>3, <3>1 DEF SmallFree
    <3>3. loc[t].i = 1
      BY <2>1, <3>2
    <3> QED
      BY Zenon, <3>2, <3>3
<1>6. o \notin freed
  BY <1>1, <1>3, <1>4 DEF Heap, StaleUnmapped, PagesOf, ObjectPages
<1>7. SlotOf(b, o.off) /\ b \in BlockTypes /\ mem[p] \in PageContent
  <2>1. Mapped(o.page) /\ o.page \in Pages /\ b = mem[o.page].head
    BY Zenon, <1>0, <1>1, <1>3, <1>4
  <2>2. SmallObject(o) /\ o.page < LARGE_OBJ_VADDR_START
    BY <1>1, <1>2, <1>3, <1>4 DEF Heap, ObjectsSound
  <2>3. SlotOf(b, o.off)
    BY <2>1, <2>2 DEF SmallObject
  <2>4. b \in BlockTypes
    BY Zenon, <1>1, <2>1, <2>2 DEF Heap, SmallHeads
  <2> QED
    BY Zenon, <1>2, <1>3, <2>1, <2>3, <2>4 DEF Mapped
<1>8. ptr \in Ptr /\ ptr.page = high_vaddr /\ ptr.off = o.off /\ top \in Ptr
  <2>1. loc[t].ptr.off \in 0 .. (PAGE_SIZE - 1)
    BY Zenon, <1>3, <1>5 DEF Object
  <2> QED
    BY Zenon, <1>0, <1>2, <1>5, <1>7, <2>1 DEF Ptr
\* The memory after the move.
<1>9. page \in PageContent /\ page.head = b /\ page.link = top /\ page.np = mem[p].np
  BY Zenon, <1>0, <1>7, <1>8 DEF PageContent
<1>10. /\ mem' \in [Pages -> PageContent \cup {UNMAPPED}]
       /\ \A q \in Pages : mem'[q] = IF q = high_vaddr THEN page
                                     ELSE IF q = p THEN UNMAPPED ELSE mem[q]
  <2>1. (p + 1) .. (p + loc[t].i - 1) = {}
    BY <1>4, <1>5
  <2>2. MremapCleared(p, loc[t].i) = [q \in Pages |-> IF q = high_vaddr THEN UNMAPPED ELSE mem[q]]
    BY <2>1 DEF MremapCleared, Unmapping
  <2> QED
    BY <1>1, <1>2, <1>4, <1>9, <2>2
<1>11. /\ Mapped(high_vaddr) = FALSE
       /\ mem'[high_vaddr] # UNMAPPED /\ mem'[p] = UNMAPPED
       /\ \A q \in Pages : q # high_vaddr /\ mem'[q] # UNMAPPED => Mapped(q) /\ mem'[q] = mem[q]
       /\ \A q \in Pages : q # high_vaddr /\ q # p => mem'[q] = mem[q]
  <2>1. ~Mapped(high_vaddr)
    BY <1>1, <1>2 DEF Heap, Watermarks
  <2>2. page # UNMAPPED
    BY Zenon, <1>9, NuafAssumption DEF NuafAssumption
  <2> QED
    BY <1>2, <1>4, <1>10, <2>1, <2>2 DEF Mapped
<1>12. /\ Dying' \subseteq Dying /\ Dying \subseteq Dying' \cup {o}
       /\ pc' \in [Threads -> Labels]
       /\ loc' \in [Threads -> [size : Nat, ptr : Ptr, np : Nat, i : Nat, obj : Object]]
  BY Zenon, <1>0, <1>1, ReturnLocals
<1>13. Known' \subseteq Known
  BY <1>1, <1>3, <1>12 DEF Known
<1>14. high_vaddr' \in Nat /\ high_vaddr < high_vaddr' /\ high_vaddr' <= LARGE_OBJ_VADDR_START
  BY <1>1, <1>2
<1>15. TypeOK'
  <2>1. g_flsts' \in [BlockTypes -> [top_of_stack : Ptr, high_canonical_addr : Addr]]
    BY <1>1, <1>2, <1>8
  <2>2. /\ freed' \in SUBSET Object /\ live' \in SUBSET Object
        /\ g_m' \in Threads \cup {NoThread} /\ g_big_obj_m' \in Threads \cup {NoThread}
        /\ large_obj_next_page' \in Nat /\ exited' \in {"no", "exit", "segv"}
    BY <1>1, <1>3 DEF TypeOK
  <2> QED
    BY <1>10, <1>12, <1>14, <2>1, <2>2 DEF TypeOK
<1>16. Watermarks' /\ SmallHeads'
  <2>1. ASSUME NEW q \in Pages, Mapped(q)'
        PROVE  /\ \/ MMAP_MIN_ADDR <= q /\ q < high_vaddr'
                  \/ LARGE_OBJ_VADDR_START <= q /\ q < large_obj_next_page'
               /\ q < LARGE_OBJ_VADDR_START => mem'[q].head \in BlockTypes
    <3>1. CASE q = high_vaddr
      BY <1>2, <1>7, <1>9, <1>10, <1>14, <3>1
    <3>2. CASE q # high_vaddr
      <4>1. Mapped(q) /\ mem'[q] = mem[q] /\ q \in Nat
        BY <1>2, <1>11, <2>1, <3>2 DEF Mapped, Pages
      <4> QED
        BY <1>1, <1>2, <1>14, <4>1 DEF Heap, Watermarks, SmallHeads
    <3> QED
      BY <3>1, <3>2
  <2>2. MMAP_MIN_ADDR <= high_vaddr' /\ high_vaddr' <= LARGE_OBJ_VADDR_START
    BY <1>2, <1>14
  <2> QED
    BY <1>1, <2>1, <2>2 DEF Heap, Watermarks, SmallHeads
<1>17. CanonicalSlots'
  <2>1. \A c \in BlockTypes : g_flsts'[c].high_canonical_addr = g_flsts[c].high_canonical_addr
    BY <1>1, <1>2
  <2> QED
    BY <1>1, <2>1 DEF Heap, CanonicalSlots
<1>18. ASSUME NEW x \in Known, NEW q \in ObjectPages(x)
       PROVE  q \in Pages /\ q # high_vaddr
  BY <1>1, <1>2, KnownPages DEF Heap
<1>19. ObjectsSound' /\ ObjectsApart'
  <2>1. ASSUME NEW x \in Known
        PROVE  (IF IsLarge(x) THEN LargeObject(x) ELSE SmallObject(x))'
    <3>1. x.page \in Nat /\ x.np \in Nat
      BY <1>1, KnownObjects
    <3>2. \A q \in Pages : x.page <= q /\ q < x.page + x.np => q # high_vaddr
      BY <1>2, <1>18, <3>1 DEF ObjectPages, Pages
    <3>3. TypeOK /\ Watermarks /\ ObjectsSound /\ large_obj_next_page' = large_obj_next_page
      BY <1>1 DEF Heap
    <3>4. high_vaddr' \in Nat /\ high_vaddr <= high_vaddr'
      BY <1>2, <1>14
    <3> QED
      BY <1>2, <1>11, <3>2, <3>3, <3>4, KeepObject DEF Mapped
  <2> QED
    BY <1>1, <1>13, <2>1 DEF Heap, ObjectsSound, ObjectsApart, Apart
<1>20. StaleUnmapped'
  <2>1. \A q \in ObjectPages(o) : ~Mapped(q)'
    BY <1>3, <1>4, <1>11 DEF ObjectPages, Mapped
  <2>2. \A q \in Pages :
          /\ q < high_vaddr \/ (LARGE_OBJ_VADDR_START <= q /\ q < large_obj_next_page)
          /\ Mapped(q)'
          => Mapped(q)
    BY <1>2, <1>11 DEF Mapped
  <2> QED
    BY <1>1, <1>3, <2>1, <2>2, StaleStays DEF Known
<1>21. MutexHeld' /\ \A u \in Threads : LocalsSound(u)'
  <2>1. \A q \in Pages : q >= LARGE_OBJ_VADDR_START => mem'[q] = mem[q]
    BY <1>2, <1>4, <1>11
  <2>2. \A q \in Pages : q < high_vaddr /\ Mapped(q)' => Mapped(q)
    BY <1>2, <1>11 DEF Mapped
  <2>3. high_vaddr' \in Nat /\ high_vaddr <= high_vaddr'
    BY <1>2, <1>14
  <2> QED
    BY <1>1, <1>5, <1>13, <2>1, <2>2, <2>3, SmallReturn
\* The page that moved is the highest free one of its class.
<1>22. FreelistsFalling'
  <2>1. FreelistsFalling
    BY <1>1, <1>5, HolderQuiet DEF IInv
  <2>2. \A q \in SmallMapped : q \in Nat /\ q < high_vaddr
    BY <1>1, <1>2 DEF Heap, Watermarks, SmallMapped, Pages
  <2>3. /\ SmallMapped' = (SmallMapped \ {p}) \cup {high_vaddr}
        /\ \A q \in SmallMapped \ {p} : mem'[q] = mem[q]
    <3>1. \A q \in Pages : Mapped(q)' <=> q = high_vaddr \/ (q # p /\ Mapped(q))
      BY <1>10, <1>11 DEF Mapped
    <3>2. \A q \in SmallMapped \ {p} : mem'[q] = mem[q]
      BY <1>11, <2>2 DEF SmallMapped
    <3> QED
      BY <1>2, <3>1, <3>2 DEF SmallMapped
  <2>4. FreePages' = FreePages \cup {high_vaddr} /\ p \notin FreePages
    <3>1. p \notin FreePages
      BY <1>3 DEF FreePages
    <3>2. \A x \in Known : x.page # high_vaddr
      <4>1. ASSUME NEW x \in Known
            PROVE  x.page \in ObjectPages(x)
        BY <1>1, KnownObjects, ObjectBounds DEF ObjectPages, Heap
      <4> QED
        BY <1>18, <4>1
    <3>3. high_vaddr \in FreePages'
      BY <1>13, <2>3, <3>2 DEF FreePages, Known
    <3>4. \A q \in SmallMapped \ {p} :
            (\A x \in live \cup Dying : x.page # q) <=> (\A x \in (live \cup Dying)' : x.page # q)
      BY <1>1, <1>3, <1>12
    <3> QED
      BY <2>3, <3>1, <3>3, <3>4 DEF FreePages
  <2>5. /\ \A q \in FreePages : mem'[q] = mem[q] /\ q < high_vaddr /\ q < high_vaddr' /\ q \in Nat
        /\ mem'[high_vaddr].head = b /\ mem'[high_vaddr].link = top
    BY <1>2, <1>9, <1>10, <1>14, <2>2, <2>3, <2>4 DEF FreePages
  <2>6. ASSUME NEW c \in BlockTypes
        PROVE  HighestFree(c, g_flsts[c].top_of_stack, high_vaddr)'
    <3>1. CASE c = b
      <4>1. g_flsts'[c].top_of_stack = ptr
        BY <1>1, <1>2, <3>1
      <4> QED
        BY <1>2, <1>7, <1>8, <1>14, <2>4, <2>5, <3>1, <4>1 DEF HighestFree
    <3>2. CASE c # b
      <4>1. g_flsts'[c].top_of_stack = g_flsts[c].top_of_stack
        BY <1>1, <1>2, <3>2
      <4>2. HighestFree(c, g_flsts[c].top_of_stack, high_vaddr)
        BY <2>1 DEF FreelistsFalling
      <4>3. {q \in FreePages : mem[q].head = c /\ q < high_vaddr}
              = {q \in FreePages' : mem'[q].head = c /\ q < high_vaddr'}
        BY <2>4, <2>5, <3>2
      <4> QED
        BY <4>1, <4>2, <4>3 DEF HighestFree
    <3> QED
      BY <3>1, <3>2
  <2>7. ASSUME NEW q, q = high_vaddr
        PROVE  HighestFree(mem[q].head, mem[q].link, q)'
    <3>1. HighestFree(b, top, q)
      BY <1>0, <1>7, <2>1, <2>7 DEF FreelistsFalling
    <3>2. {r \in FreePages : mem[r].head = b /\ r < q}
            = {r \in FreePages' : mem'[r].head = b /\ r < q}
      BY <1>2, <2>4, <2>5, <2>7
    <3> QED
      BY Zenon, <2>5, <2>7, <3>1, <3>2 DEF HighestFree
  <2>8. ASSUME NEW q \in FreePages
        PROVE  HighestFree(mem[q].head, mem[q].link, q)'
    <3>1. HighestFree(mem[q].head, mem[q].link, q)
      BY <2>1 DEF FreelistsFalling
    <3>2. {r \in FreePages : mem[r].head = mem[q].head /\ r < q}
            = {r \in FreePages' : mem'[r].head = mem'[q].head /\ r < q}
      BY <1>2, <2>4, <2>5
    <3> QED
      BY <2>5, <3>1, <3>2 DEF HighestFree
  <2> QED
    BY <2>4, <2>6, <2>7, <2>8 DEF FreelistsFalling
<1> QED
  BY <1>15, <1>16, <1>17, <1>19, <1>20, <1>21, <1>22 DEF IInv, Heap

-----------------------------------------------------------------------------
(* The invariant holds initially and every step keeps it.                  *)

LEMMA InitIInv ==
  ASSUME Init
  PROVE  IInv
<1>1. /\ mem = [p \in Pages |-> UNMAPPED] /\ live = {} /\ freed = {}
      /\ \A t \in Threads : pc[t] = "idle" /\ loc[t] = NoLocals
      /\ high_vaddr = MMAP_MIN_ADDR /\ large_obj_next_page = LARGE_OBJ_VADDR_START
  BY DEF Init
<1>2. \A p \in Pages : ~Mapped(p)
  BY <1>1 DEF Mapped
<1>3. Known = {}
  BY <1>1 DEF Known, Dying, NoLocals
<1>4. TypeOK
  <2>1. NoLocals \in [size : Nat, ptr : Ptr, np : Nat, i : Nat, obj : Object] /\ NULL \in Ptr
    BY NuafAssumption, PageBytes
    DEF NoLocals, NULL, NoObject, Ptr, Object, Pages, NuafAssumption
  <2>2. g_flsts \in [BlockTypes -> [top_of_stack : Ptr, high_canonical_addr : Addr]]
    BY <2>1, FirstCanonicalSlot DEF Init
  <2> QED
    BY <2>1, <2>2, NuafAssumption DEF Init, TypeOK, Labels, NuafAssumption
<1>5. Watermarks /\ SmallHeads
  BY <1>1, <1>2, NuafAssumption DEF Watermarks, SmallHeads, NuafAssumption
<1>6. CanonicalSlots
  BY FirstCanonicalSlot DEF Init, CanonicalSlots
<1>7. ObjectsSound /\ ObjectsApart /\ StaleUnmapped
  BY <1>1, <1>3 DEF ObjectsSound, ObjectsApart, StaleUnmapped, PagesOf
<1>8. \A t \in Threads : LocalsSound(t)
  BY <1>1 DEF LocalsSound, NoLocals
<1>9. MutexHeld
  BY <1>1 DEF MutexHeld
<1>10. FreelistsFalling
  <2>1. FreePages = {}
    BY <1>2 DEF FreePages, SmallMapped
  <2> QED
    BY <2>1 DEF Init, FreelistsFalling, HighestFree
<1> QED
  BY <1>4, <1>5, <1>6, <1>7, <1>8, <1>9, <1>10 DEF IInv, Heap

LEMMA StutterStep ==
  ASSUME IInv, UNCHANGED vars
  PROVE  IInv'
<1>1. UNCHANGED <<heapVars, g_m, g_big_obj_m, pc, loc, live, freed, exited>>
  BY DEF vars, heapVars
<1>2. Dying' = Dying
  BY <1>1, DyingSame
<1>3. Heap' /\ (FreelistsFalling' = FreelistsFalling)
  BY <1>1, <1>2, HeapSame DEF IInv
<1>4. TypeOK'
  BY <1>1 DEF IInv, TypeOK, heapVars
<1>5. \A u \in Threads : LocalsSound(u)'
  BY <1>1, <1>2, LocalsSame DEF IInv
<1>6. MutexHeld' /\ (Quiet' = Quiet)
  BY <1>1 DEF IInv, MutexHeld, Quiet, Retrying
<1> QED
  BY <1>3, <1>4, <1>5, <1>6 DEF IInv

LEMMA NextIInv ==
  ASSUME Reliable, IInv, [Next]_vars
  PROVE  IInv'
<1>1. ASSUME NEW t \in Threads, Step(t)
      PROVE  IInv'
  BY <1>1, LockSmallStep, PopFreshStep, FailureStep, PopTopStep, LockBigStep, MmapBigStep,
     WriteHeaderStep, get_obj_startStep, MunmapStep, MremapAndPushStep, MremapFailsStep,
     HeapLocksStep
  DEF Step
<1>2. ASSUME NEW t \in Threads, Client(t)
      PROVE  IInv'
  BY <1>2, xxmallocStep, FreeStep, HeapLocksStep, StoreStep DEF Client
<1> QED
  BY <1>1, <1>2, StutterStep DEF Next

-----------------------------------------------------------------------------
(* The theorems.                                                           *)

\* The inductive invariant holds in every state of every execution of the
\* allocator: watermarks, objects, freelists and the locals of the calls agree.
THEOREM Invariance ==
  ASSUME Reliable
  PROVE  Spec => []IInv
<1>1. Init => IInv
  BY InitIInv
<1>2. IInv /\ [Next]_vars => IInv'
  BY NextIInv
<1> QED
  BY <1>1, <1>2, PTL DEF Spec

\* Once a free has returned, whether or not the program frees the object
\* again or uses it, no page of the object is ever mapped again (the rising
\* watermarks of freelist_pop, xxfree and xxmalloc_big).
THEOREM StaleStaysUnmapped ==
  ASSUME Reliable
  PROVE  Spec => []StaleUnmapped
<1>1. IInv => StaleUnmapped
  BY DEF IInv, Heap
<1> QED
  BY <1>1, Invariance, PTL

\* Only the ends of xxmalloc and xxmalloc_big make objects.
LEMMA OnlyMakers ==
  ASSUME [Next]_vars,
         \A t \in Threads : PopFresh(t) \/ PopTop(t) \/ WriteHeader(t) => NewApart
  PROVE  NewApart
<1>1. CASE UNCHANGED vars
  BY <1>1 DEF vars, NewApart
<1>2. ASSUME NEW t \in Threads, Step(t), ~(PopFresh(t) \/ PopTop(t) \/ WriteHeader(t))
      PROVE  NewApart
  <2>1. live' = live
    BY Zenon, <1>2
    DEF Step, LockSmall, PopFails, LockBig, MmapBig, MmapBigFails, get_obj_start, Munmap,
        MremapAndPush, MremapFails, MremapGivesUp, LockAllSmall, LockAllBig, xxmalloc_unlock,
        Exit
  <2> QED
    BY Zenon, <2>1 DEF NewApart
<1>3. ASSUME NEW t \in Threads, Client(t)
      PROVE  NewApart
  <2>1. live' \subseteq live
    BY <1>3 DEF Client, xxmalloc, xxfree, FreeAgain, ReadSize, xxmalloc_lock, Store, Exit
  <2> QED
    BY <2>1 DEF NewApart
<1> QED
  BY <1>1, <1>2, <1>3 DEF Next

\* New objects get pages of their own.
LEMMA NextNewApart ==
  ASSUME Reliable, IInv, [Next]_vars
  PROVE  NewApart
<1>1. ASSUME NEW t \in Threads, PopFresh(t) \/ PopTop(t) \/ WriteHeader(t)
      PROVE  NewApart
  BY <1>1, PopFreshStep, PopTopStep, WriteHeaderStep
<1> QED
  BY <1>1, OnlyMakers
=============================================================================
