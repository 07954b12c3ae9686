------------------------------- MODULE Layout -------------------------------
(***************************************************************************)
(* The address arithmetic of nuaf: the size classes of the small-object    *)
(* freelists, the bump allocation of slots in the backing file, the page   *)
(* count and usable size of large objects, and the recovery of an object's *)
(* start from an interior pointer (freelist.h, freelist.c, allocator.c).   *)
(*                                                                         *)
(* An address is a record [page, off]: the code only ever uses             *)
(* ROUND_DOWN(a, PAGE_SIZE) and a % PAGE_SIZE of an address, and mappings  *)
(* are whole pages.  Everything else is arithmetic on byte offsets.        *)
(***************************************************************************)
EXTENDS Integers

CONSTANTS
  PAGE_SIZE,        \* bytes in a page
  BYTE_ALIGNMENT,   \* bytes of metadata at the start of a page of small objects
  MAGIC_NUMBER,     \* log2 of the smallest block size
  NUM_BLOCK_TYPES,  \* number of size classes
  LARGE_HEADER      \* sizeof(size_t) + 8: magic word and page count of a large object

ROUND_UP(x, y) == IF x % y = 0 THEN x ELSE x + (y - (x % y))

ROUND_DOWN(x, y) == IF x % y = 0 THEN x ELSE x - (x % y)

MIN_BLOCK_SIZE == 2 ^ MAGIC_NUMBER

LARGEST_BLOCK_SIZE == PAGE_SIZE \div 2

BlockTypes == 0 .. (NUM_BLOCK_TYPES - 1)

\* 1 << (MAGIC_NUMBER + block_type)
BlockSize(t) == 2 ^ (MAGIC_NUMBER + t)

\* (int) ceil(log2(n)), for n >= 1
CeilLog2(n) == CHOOSE k \in 0 .. n : 2 ^ k >= n /\ \A j \in 0 .. (k - 1) : 2 ^ j < n

\* Faulty: the logarithm of an exact power of two is rounded up.
BlockTypeOfNextPower(obj_size) ==
  IF obj_size < MIN_BLOCK_SIZE \/ obj_size >= LARGEST_BLOCK_SIZE
  THEN (IF obj_size < MIN_BLOCK_SIZE THEN 0 ELSE CeilLog2(obj_size) - MAGIC_NUMBER)
  ELSE CeilLog2(obj_size + 1) - MAGIC_NUMBER

\* The freelist a request of obj_size bytes is served from.
BlockType(obj_size) ==
  IF obj_size < MIN_BLOCK_SIZE THEN 0 ELSE CeilLog2(obj_size) - MAGIC_NUMBER

-----------------------------------------------------------------------------
(* Slots of the backing file.  high_canonical_addr is the file offset of   *)
(* the next slot of a class, as the pair of its page and its byte in page. *)

Addr == [page : Nat, off : Nat]

\* addr + n bytes, for n no larger than a page
Plus(addr, n) ==
  IF addr.off + n < PAGE_SIZE
  THEN [addr EXCEPT !.off = @ + n]
  ELSE [page |-> addr.page + 1, off |-> addr.off + n - PAGE_SIZE]

FirstCanonical(t) == [page |-> t, off |-> BYTE_ALIGNMENT]

\* ROUND_UP(addr, PAGE_SIZE) + PAGE_SIZE * (NUM_BLOCK_TYPES - 1) + BYTE_ALIGNMENT
NextCanonicalPage(addr) ==
  [page |-> (IF addr.off = 0 THEN addr.page ELSE addr.page + 1) + NUM_BLOCK_TYPES - 1,
   off  |-> BYTE_ALIGNMENT]

\* Faulty: only a slot that would start on the next page moves there.
NextCanonicalToTheEnd(t, addr) ==
  LET bumped == Plus(addr, BlockSize(t))
  IN  IF bumped.off = 0 THEN NextCanonicalPage(bumped) ELSE bumped

\* Faulty: the next slot begins in the middle of this one.
NextCanonicalHalf(t, addr) ==
  LET bumped == Plus(addr, BlockSize(t) \div 2)
      bof    == bumped.off
  IN  IF bof = 0 \/ bof >= PAGE_SIZE - 2 * BlockSize(t)
      THEN NextCanonicalPage(bumped)
      ELSE bumped

\* The slot after `addr` of class t: the next one in the page, unless it
\* would come too close to the end of the page.
NextCanonical(t, addr) ==
  LET bumped == Plus(addr, BlockSize(t))
      bof    == bumped.off
  IN  IF bof = 0 \/ bof >= PAGE_SIZE - 2 * BlockSize(t)
      THEN NextCanonicalPage(bumped)
      ELSE bumped

-----------------------------------------------------------------------------
(* Large objects.                                                          *)

\* Faulty: as many pages as the division gives, and none for the remainder.
NumPagesWithoutRemainder(size) == (size + LARGE_HEADER) \div PAGE_SIZE

NumPages(size) == (size + LARGE_HEADER) \div PAGE_SIZE + 1

LargeUsable(np) == np * PAGE_SIZE - LARGE_HEADER

\* Faulty: the length is rounded down.
MunmapPagesRoundedDown(obj_size) == ROUND_DOWN(obj_size, PAGE_SIZE) \div PAGE_SIZE

\* Pages that munmap(start, ROUND_UP(obj_size, PAGE_SIZE)) removes.
MunmapPages(obj_size) == ROUND_UP(obj_size, PAGE_SIZE) \div PAGE_SIZE

-----------------------------------------------------------------------------
(* Small objects: the offset in its page of the object that byte `off` of  *)
(* the page belongs to.  PAGE_SIZE is a multiple of obj_size, so rounding  *)
(* the address down is rounding its offset in the page down.               *)

\* Faulty: the metadata is added first and subtracted afterwards.
SmallObjStartSwapped(off, obj_size) ==
  ROUND_DOWN(off + BYTE_ALIGNMENT, obj_size) - BYTE_ALIGNMENT

SmallObjStart(off, obj_size) ==
  ROUND_DOWN(off - BYTE_ALIGNMENT, obj_size) + BYTE_ALIGNMENT

-----------------------------------------------------------------------------
\* What the constants of freelist.h satisfy: NUM_BLOCK_TYPES is 12 minus
\* MAGIC_NUMBER, for pages of 2 ^ 12 bytes, and the largest blocks leave room
\* for the metadata.
ASSUME LayoutAssumption ==
  /\ MAGIC_NUMBER \in Nat /\ NUM_BLOCK_TYPES \in Nat \ {0}
  /\ PAGE_SIZE \in Nat /\ PAGE_SIZE = 2 ^ (MAGIC_NUMBER + NUM_BLOCK_TYPES)
  /\ LARGE_HEADER \in 1 .. (PAGE_SIZE - 1)
  /\ BYTE_ALIGNMENT \in 1 .. LARGEST_BLOCK_SIZE

\* The powers of two up to the size of a page, as the recursion that defines
\* them: the provers know nothing else of ^.
ASSUME PowerAssumption ==
  /\ 2 ^ 0 = 1
  /\ \A k \in 0 .. (MAGIC_NUMBER + NUM_BLOCK_TYPES - 1) : 2 ^ (k + 1) = 2 * 2 ^ k
=============================================================================
