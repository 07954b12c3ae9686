------------------------------ MODULE Requests ------------------------------
(***************************************************************************)
(* How nuaf serves requests of one size (allocator.c, freelist.c): which   *)
(* freelist, or how many pages, what xxmalloc_usable_size and the munmap   *)
(* of xxfree make of the object, and the slots the class of the size gets  *)
(* in the backing file, in the order in which freelist_pop makes them.     *)
(* The classes do not interact.  The run takes every size, and the largest *)
(* size of each class through all pages of the file below FILE_PAGES, with *)
(* the constants of freelist.h.                                            *)
(***************************************************************************)
EXTENDS Layout

CONSTANTS
  MAX_SIZE,    \* bound: the largest size that is requested
  FILE_PAGES   \* bound: pages of the backing file that are walked

ASSUME RequestsAssumption == MAX_SIZE \in Nat /\ FILE_PAGES \in Nat

VARIABLES
  size,                 \* the size that is requested again and again
  slot,                 \* the slot made last
  high_canonical_addr   \* the slot made next

walk == <<size, slot, high_canonical_addr>>

IsBig(n) == n > LARGEST_BLOCK_SIZE

\* The class; requests for more than a block count with the largest one.
block_type == IF IsBig(size) THEN NUM_BLOCK_TYPES - 1 ELSE BlockType(size)

Block == BlockSize(block_type)

\* freelist_init
Init ==
  /\ size \in 0 .. MAX_SIZE
  /\ slot = FirstCanonical(block_type)
  /\ high_canonical_addr = NextCanonical(block_type, slot)

\* freelist_pop with an empty freelist
Make ==
  /\ size = Block
  /\ high_canonical_addr.page < FILE_PAGES
  /\ slot' = high_canonical_addr
  /\ high_canonical_addr' = NextCanonical(block_type, high_canonical_addr)
  /\ UNCHANGED size

Next == Make

Spec == Init /\ [][Next]_walk

-----------------------------------------------------------------------------
\* A small request gets the smallest block that holds it, from a freelist
\* that exists: ceil(log2(size)) is right at and around each power of two.
SmallestClass ==
  ~IsBig(size) =>
    /\ BlockType(size) \in BlockTypes
    /\ size <= BlockSize(BlockType(size))
    /\ \A t \in BlockTypes : size <= BlockSize(t) => BlockType(size) <= t

\* A large request gets the pages that hold it and the header, and the length
\* that xxfree computes from the usable size is the length that was mapped.
LargeFitsAndUnmapsExactly ==
  IsBig(size) =>
    /\ LargeUsable(NumPages(size)) >= size
    /\ MunmapPages(LargeUsable(NumPages(size))) = NumPages(size)

\* A slot does not reach into the metadata of its page or past its end, and
\* pages are dealt to the classes in turn, so that all slots of a page have
\* the class its metadata names.
SlotInItsPage ==
  /\ slot.off >= BYTE_ALIGNMENT /\ slot.off + Block <= PAGE_SIZE
  /\ slot.page % NUM_BLOCK_TYPES = block_type

\* Slots are made in rising order without overlap: no two objects share a
\* byte of the backing file.
SlotsAdvance ==
  [][\/ slot'.page = slot.page /\ slot'.off >= slot.off + Block
     \/ slot'.page > slot.page]_walk

\* xxfree finds the start of a small object from a pointer to any byte of it:
\* rounding down to the object's size undoes the shift by the metadata.
EveryByteFindsItsStart ==
  size = Block =>
    \A off \in slot.off .. (slot.off + Block - 1) : SmallObjStart(off, Block) = slot.off
=============================================================================
