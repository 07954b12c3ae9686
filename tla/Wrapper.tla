------------------------------ MODULE Wrapper ------------------------------
(***************************************************************************)
(* The malloc family that gnuwrapper.cpp puts in front of nuaf             *)
(* (wrapper.h), over the objects xxmalloc makes.  Pointers and sizes are   *)
(* numbers of WIDTH bits; NULL is 0.                                       *)
(*                                                                         *)
(* The functions keep no state of their own, and concurrent calls meet     *)
(* only inside xxmalloc and xxfree (module Nuaf), on different objects: a  *)
(* call is one step here.  A function of the API is an operator from the   *)
(* heap and its arguments to the set of its outcomes, a heap and the       *)
(* pointer returned.                                                       *)
(***************************************************************************)
EXTENDS Layout, FiniteSets

CONSTANTS
  WIDTH,                  \* bits of a size_t
  SIZEOF_DOUBLE,
  MMAP_MIN_ADDR,          \* first page of small objects
  LARGE_OBJ_VADDR_START,  \* first page of large objects
  VADDR_END,              \* first page that cannot be mapped
  Sizes,                  \* sizes, and numbers of elements, the program asks for
  Alignments,             \* alignments it asks for
  PATH_MAX,               \* size of getcwd's buffer when the program gives none
  MAX_HELD,               \* bound: objects the program holds at a time
  ALIGNED_ARE_RESIZED     \* are pointers of memalign passed to realloc and
                          \* malloc_usable_size?

VARIABLES
  heap,   \* objs: what xxmalloc has made and xxfree not freed; both watermarks
  held,   \* what the program holds: pointers, the sizes and alignments asked for
  ended   \* "no", or the signal that ended the process

vars == <<heap, held, ended>>

ASSUME WrapperAssumption ==
  /\ WIDTH \in Nat \ {0} /\ SIZEOF_DOUBLE \in Nat \ {0}
  /\ MMAP_MIN_ADDR \in Nat \ {0}
  /\ LARGE_OBJ_VADDR_START \in Nat /\ LARGE_OBJ_VADDR_START >= MMAP_MIN_ADDR
  /\ VADDR_END \in Nat /\ VADDR_END >= LARGE_OBJ_VADDR_START
  /\ VADDR_END * PAGE_SIZE <= 2 ^ WIDTH
  /\ Sizes \subseteq 0 .. (2 ^ WIDTH - 1) /\ Alignments \subseteq 0 .. (2 ^ WIDTH - 1)
  /\ PATH_MAX \in Sizes \ {0}
  /\ MAX_HELD \in Nat /\ ALIGNED_ARE_RESIZED \in BOOLEAN

\* The powers of two that a size_t holds, as in PowerAssumption of Layout.
ASSUME WidthAssumption ==
  /\ 2 ^ 0 = 1
  /\ \A k \in 0 .. (WIDTH - 1) : 2 ^ (k + 1) = 2 * 2 ^ k

NULL == 0

Wrap(n) == n % 2 ^ WIDTH

TopBit(n) == n >= 2 ^ (WIDTH - 1)

\* alignment # 0 and not (alignment & (alignment - 1))
PowerOfTwo(n) == \E k \in 0 .. (WIDTH - 1) : n = 2 ^ k

-----------------------------------------------------------------------------
(* The heap: what xxmalloc, xxfree and xxmalloc_usable_size do.            *)

IsBig(size) == size > LARGEST_BLOCK_SIZE

\* An object made for `size` bytes: its usable bytes and its pages.
Usable(o) ==
  IF IsBig(o.size) THEN LargeUsable(NumPages(o.size)) ELSE BlockSize(BlockType(o.size))

Bytes(o) == o.start .. (o.start + Usable(o) - 1)

PagesOf(o) ==
  LET first == o.start \div PAGE_SIZE
  IN  first .. (first + (IF IsBig(o.size) THEN NumPages(o.size) ELSE 1) - 1)

\* The offsets in its page at which an object of class b may begin.
SlotOffsets(b) ==
  {off \in BYTE_ALIGNMENT .. (PAGE_SIZE - 1) :
     /\ (off - BYTE_ALIGNMENT) % BlockSize(b) = 0
     /\ off = BYTE_ALIGNMENT \/ off < PAGE_SIZE - 2 * BlockSize(b)}

SmallRoom(h) == h.high < LARGE_OBJ_VADDR_START

\* Outcomes of xxmalloc: none when no page is left, for then the process ends.
xxmalloc(h, size) ==
  LET Made(addr, high, large) ==
        [ptr  |-> addr,
         heap |-> [objs |-> h.objs \cup {[start |-> addr, size |-> size]},
                   high |-> high, large |-> large]]
  IN  IF IsBig(size)
      THEN IF h.large + NumPages(size) > VADDR_END
           THEN {}
           ELSE {Made(h.large * PAGE_SIZE + LARGE_HEADER, h.high, h.large + NumPages(size))}
      ELSE {Made(h.high * PAGE_SIZE + off, h.high + 1, h.large) :
              off \in IF SmallRoom(h) THEN SlotOffsets(BlockType(size)) ELSE {}}

\* The object a pointer, also an interior one, belongs to.
ObjectAt(h, ptr) == CHOOSE o \in h.objs : ptr \in Bytes(o)

xxmalloc_usable_size(h, ptr) == Usable(ObjectAt(h, ptr))

\* xxfree: the page of a small object moves to the watermark.
xxfree(h, ptr) ==
  LET o == ObjectAt(h, ptr)
  IN  IF ptr = NULL
      THEN {h}
      ELSE IF IsBig(o.size)
      THEN {[h EXCEPT !.objs = @ \ {o}]}
      ELSE {[h EXCEPT !.objs = @ \ {o}, !.high = @ + 1] : x \in {n \in {0} : SmallRoom(h)}}

-----------------------------------------------------------------------------
(* The functions of the API.                                               *)

Null(h) == {[heap |-> h, ptr |-> NULL]}

\* Faulty: the size is not tested.
MallocUnchecked(h, size) == xxmalloc(h, size)

malloc(h, size) == IF TopBit(size) THEN Null(h) ELSE xxmalloc(h, size)

calloc(h, nelem, elsize) ==
  LET n == Wrap(nelem * elsize)
  IN  IF elsize # 0 /\ nelem # n \div elsize THEN Null(h) ELSE malloc(h, n)

\* Faulty: the low bits are not masked.
AlignUpUnmasked(ptr, alignment) == Wrap(ptr + alignment - 1)

\* (ptr + alignment - 1) & ~(alignment - 1)
AlignUp(ptr, alignment) ==
  LET n == Wrap(ptr + alignment - 1)
  IN  n - (n % alignment)

\* Faulty: room for the object, and none for the bytes before it.
PaddedSizeOnly(size, alignment) == size

PaddedSize(size, alignment) == Wrap(size + 2 * alignment)

\* The pointer returned is not where the object begins.
Aligned(h, alignment, size) ==
  {[heap |-> r.heap, ptr |-> AlignUp(r.ptr, alignment)] :
     r \in malloc(h, PaddedSize(size, alignment))}

\* Faulty: the first object is not freed.
MemalignKeepsFirst(h, alignment, size) ==
  IF ~PowerOfTwo(alignment) THEN Null(h)
  ELSE UNION {Aligned(r.heap, alignment, size) : r \in malloc(h, size)}

\* memalign: the test for a first object that is aligned already asks
\* whether masking leaves the pointer as it is.
memalign(h, alignment, size) ==
  IF ~PowerOfTwo(alignment) THEN Null(h)
  ELSE IF alignment = SIZEOF_DOUBLE THEN malloc(h, size)
  ELSE UNION {IF r.ptr % alignment = r.ptr
              THEN {r}
              ELSE UNION {Aligned(g, alignment, size) : g \in xxfree(r.heap, r.ptr)} :
                r \in malloc(h, size)}

aligned_alloc(h, alignment, size) ==
  memalign(h, alignment, Wrap(size + alignment - (size % alignment)))

\* Faulty: the size of the new object, whatever the old one held.
CopyAll(objSize, size) == size

CopySize(objSize, size) == IF objSize < size THEN objSize ELSE size

Mapped(h, ptrs) == {ptr \div PAGE_SIZE : ptr \in ptrs} \subseteq UNION {PagesOf(o) : o \in h.objs}

\* realloc with a pointer and a size that are not 0.  When malloc returns NULL
\* the old object is freed all the same.  memcpy reads from ptr on before the
\* old object is freed, and `ok` is whether all it reads is mapped.
realloc(h, ptr, size) ==
  LET objSize == xxmalloc_usable_size(h, ptr)
      Outcome(r) ==
        IF r.ptr # NULL /\ objSize = xxmalloc_usable_size(r.heap, r.ptr)
        THEN {[heap |-> g, ptr |-> ptr, ok |-> TRUE] : g \in xxfree(r.heap, r.ptr)}
        ELSE {[heap |-> g, ptr |-> r.ptr,
               ok   |-> \/ r.ptr = NULL
                        \/ Mapped(r.heap, ptr .. (ptr + CopySize(objSize, size) - 1))] :
                g \in xxfree(r.heap, ptr)}
  IN  UNION {Outcome(r) : r \in malloc(h, size)}

\* "for convenience, we assume page size = 8192", twice the one of nuaf
VALLOC_ALIGNMENT == 2 * PAGE_SIZE

valloc(h, size) == memalign(h, VALLOC_ALIGNMENT, size)

\* pvalloc calls valloc with (sz + 8191UL) & ~8191UL.
PvallocSize(size) == AlignUp(size, VALLOC_ALIGNMENT)

\* malloc_good_size makes an object to learn its size, and frees it.
malloc_good_size(h, size) == UNION {xxfree(r.heap, r.ptr) : r \in malloc(h, size)}

\* The memory strndup asks for, given strlen(s) and its limit, and strdup,
\* which has none.
StrndupSize(length, cap) == (IF length < cap THEN length ELSE cap) + 1

StrdupSize(length) == length + 1

\* getcwd without a buffer.  The C library fills it; a path that does not
\* fit is left out, for then nobody has the pointer to the buffer.
getcwd(h, size) == malloc(h, IF size = 0 THEN PATH_MAX ELSE size)

-----------------------------------------------------------------------------
(* The calls of the program.                                               *)

Running == ended = "no"

\* The program gets what a call returned.
Gets(r, size, alignment) ==
  /\ heap' = r.heap
  /\ held' = IF r.ptr = NULL THEN held
             ELSE held \cup {[ptr |-> r.ptr, size |-> size, alignment |-> alignment]}
  /\ UNCHANGED ended

CanAsk == Running /\ Cardinality(held) < MAX_HELD

\* malloc, operator new (which throws instead of returning NULL), and realloc
\* of NULL
CallMalloc ==
  /\ CanAsk
  /\ \E size \in Sizes : \E r \in malloc(heap, size) : Gets(r, size, 1)

CallCalloc ==
  /\ CanAsk
  /\ \E nelem, elsize \in Sizes : \E r \in calloc(heap, nelem, elsize) :
       Gets(r, nelem * elsize, 1)

\* memalign, and posix_memalign, which reports NULL as an error
CallMemalign ==
  /\ CanAsk
  /\ \E alignment \in Alignments, size \in Sizes : \E r \in memalign(heap, alignment, size) :
       Gets(r, size, alignment)

\* valloc, and pvalloc, whose caller asked for `size` and not for what it is
\* rounded up to
CallValloc ==
  /\ CanAsk
  /\ \E size \in Sizes : \E n \in {size, PvallocSize(size)} : \E r \in valloc(heap, n) :
       Gets(r, size, VALLOC_ALIGNMENT)

\* strdup and strndup of strings that end where an object of `Sizes` would
CallStrdup ==
  /\ CanAsk
  /\ \E length, cap \in {size - 1 : size \in Sizes \ {0}} :
       \E n \in {StrdupSize(length), StrndupSize(length, cap)} :
         \E r \in malloc(heap, n) : Gets(r, n, 1)

CallGetcwd ==
  /\ CanAsk
  /\ \E size \in Sizes : \E r \in getcwd(heap, size) : Gets(r, size, 1)

CallGoodSize ==
  /\ Running
  /\ \E size \in Sizes : heap' \in malloc_good_size(heap, size)
  /\ UNCHANGED <<held, ended>>

\* size % 0 raises SIGFPE.
CallAlignedAlloc ==
  /\ CanAsk
  /\ \E alignment \in Alignments :
       IF alignment = 0
       THEN ended' = "sigfpe" /\ UNCHANGED <<heap, held>>
       ELSE \E size \in Sizes : \E r \in aligned_alloc(heap, alignment, size) :
              Gets(r, size, alignment)

\* free, cfree, operator delete, and realloc to 0
CallFree ==
  /\ Running
  /\ \E x \in held :
       /\ heap' \in xxfree(heap, x.ptr)
       /\ held' = held \ {x}
  /\ UNCHANGED ended

Resized == {x \in held : x.alignment = 1 \/ ALIGNED_ARE_RESIZED}

\* The size realloc is called with, also by recalloc, which multiplies; the
\* products of the program do not overflow.
ReallocSizes ==
  {n \in Sizes \cup {num * sz : num, sz \in Sizes} : n # 0 /\ n = Wrap(n)}

CallRealloc ==
  /\ Running
  /\ \E x \in Resized, size \in ReallocSizes : \E r \in realloc(heap, x.ptr, size) :
       IF r.ok
       THEN /\ heap' = r.heap
            /\ held' = (held \ {x}) \cup
                         (IF r.ptr = NULL THEN {}
                          ELSE {[ptr |-> r.ptr, size |-> size, alignment |-> 1]})
            /\ UNCHANGED ended
       ELSE ended' = "segv" /\ UNCHANGED <<heap, held>>

\* The program may use all the bytes malloc_usable_size tells it of.
CallUsableSize ==
  /\ Running
  /\ \E x \in Resized :
       held' = (held \ {x}) \cup {[x EXCEPT !.size = xxmalloc_usable_size(heap, x.ptr)]}
  /\ UNCHANGED <<heap, ended>>

Init ==
  /\ heap = [objs |-> {}, high |-> MMAP_MIN_ADDR, large |-> LARGE_OBJ_VADDR_START]
  /\ held = {}
  /\ ended = "no"

Next ==
  \/ CallMalloc \/ CallCalloc \/ CallMemalign \/ CallAlignedAlloc
  \/ CallValloc \/ CallStrdup \/ CallGetcwd \/ CallGoodSize
  \/ CallFree \/ CallRealloc \/ CallUsableSize

Spec == Init /\ [][Next]_vars

-----------------------------------------------------------------------------
(* Properties.                                                             *)

\* Pointers and objects are of WIDTH bits, and no object is larger than half
\* of the address space (malloc refuses the size).
TypeOK ==
  LET Address == 1 .. (2 ^ WIDTH - 1)
  IN  /\ heap.objs \subseteq [start : Address, size : 0 .. (2 ^ (WIDTH - 1) - 1)]
      /\ heap.high \in MMAP_MIN_ADDR .. LARGE_OBJ_VADDR_START
      /\ heap.large \in LARGE_OBJ_VADDR_START .. VADDR_END
      /\ held \subseteq [ptr : Address, size : Nat, alignment : Alignments \cup {1, VALLOC_ALIGNMENT}]
      /\ ended \in {"no", "sigfpe", "segv"}

\* The bytes a caller asked for, from the pointer it got on, are bytes of one
\* object: whatever calloc multiplies, memalign pads, aligned_alloc rounds and
\* realloc takes for the same size.
HeldFits ==
  \A x \in held : \E o \in heap.objs : {x.ptr} \cup (x.ptr .. (x.ptr + x.size - 1)) \subseteq Bytes(o)

\* The functions that make two objects, memalign, aligned_alloc and realloc,
\* keep exactly one: each object is behind one pointer of the program.
NothingLost ==
  \A o \in heap.objs : Cardinality({x \in held : x.ptr \in Bytes(o)}) = 1

\* memalign, posix_memalign and aligned_alloc return what they were asked for.
AlignedAsAsked == \A x \in held : x.ptr % x.alignment = 0

\* realloc never reads past the memory of the object it copies.
CopiesWithinObject == ended # "segv"
=============================================================================
