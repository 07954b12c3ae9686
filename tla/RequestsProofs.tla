--------------------------- MODULE RequestsProofs ---------------------------
(***************************************************************************)
(* What Requests checks with the constants of freelist.h, proved for every *)
(* page size that is a power of two, every number of size classes, and     *)
(* requests and files of any size.                                         *)
(***************************************************************************)
EXTENDS Requests, LayoutProofs

\* The inductive invariant: the slot made last is one of the class's, on one
\* of its pages, and the slot made next is the one after it.
WalkInv ==
  /\ size \in Nat
  /\ slot \in Addr /\ SlotOf(block_type, slot.off)
  /\ slot.page % NUM_BLOCK_TYPES = block_type
  /\ high_canonical_addr = NextCanonical(block_type, slot)

-----------------------------------------------------------------------------
\* Every size has a class.
LEMMA ClassOfSize ==
  ASSUME size \in Nat
  PROVE  block_type \in BlockTypes
<1>1. CASE IsBig(size)
  BY <1>1, PageBytes DEF block_type, BlockTypes
<1>2. CASE ~IsBig(size)
  BY <1>2, PageBytes, LeastClass DEF block_type, IsBig
<1> QED
  BY <1>1, <1>2

\* The slot made next is one of the class's, on one of its pages.
LEMMA NextSlot ==
  ASSUME WalkInv
  PROVE  /\ high_canonical_addr \in Addr /\ SlotOf(block_type, high_canonical_addr.off)
         /\ high_canonical_addr.page % NUM_BLOCK_TYPES = block_type
         /\ \/ /\ high_canonical_addr.page = slot.page
               /\ high_canonical_addr.off = slot.off + Block
            \/ high_canonical_addr.page > slot.page
<1>1. block_type \in BlockTypes
  BY ClassOfSize DEF WalkInv
<1> QED
  BY <1>1, NextCanonicalSlot, NextCanonicalAdvances DEF WalkInv, Block

LEMMA InitWalks ==
  ASSUME Init
  PROVE  WalkInv
<1>1. size \in Nat
  BY RequestsAssumption DEF RequestsAssumption, Init
<1>2. block_type \in BlockTypes
  BY <1>1, ClassOfSize
<1>3. slot \in Addr /\ SlotOf(block_type, slot.off) /\ slot.page = block_type
  BY <1>2, FirstCanonicalSlot DEF Init, FirstCanonical
<1>4. block_type % NUM_BLOCK_TYPES = block_type
  BY <1>2, PageBytes, BelowDivisor DEF BlockTypes
<1> QED
  BY <1>1, <1>3, <1>4 DEF WalkInv, Init

LEMMA StepWalks ==
  ASSUME WalkInv, [Next]_walk
  PROVE  WalkInv'
<1>1. CASE Make
  BY <1>1, NextSlot DEF WalkInv, Make, block_type
<1>2. CASE UNCHANGED walk
  BY <1>2 DEF WalkInv, walk, block_type
<1> QED
  BY <1>1, <1>2 DEF Next

THEOREM WalkInvariance == Spec => []WalkInv
  BY InitWalks, StepWalks, PTL DEF Spec

-----------------------------------------------------------------------------
\* freelist_pop serves every small request from the least class whose blocks
\* hold it, and that class exists.
THEOREM ServedFromSmallestClass == Spec => []SmallestClass
<1>1. WalkInv => SmallestClass
  <2>1. SUFFICES ASSUME size \in Nat, ~IsBig(size)
        PROVE  /\ BlockType(size) \in BlockTypes
               /\ size <= BlockSize(BlockType(size))
               /\ \A t \in BlockTypes : size <= BlockSize(t) => BlockType(size) <= t
    BY DEF WalkInv, SmallestClass
  <2>2. size <= LARGEST_BLOCK_SIZE
    BY <2>1, PageBytes DEF IsBig
  <2> QED
    BY <2>1, <2>2, LeastClass
<1> QED
  BY <1>1, WalkInvariance, PTL

\* xxmalloc maps pages enough for a large object and its header, and xxfree
\* unmaps exactly those pages.
THEOREM LargeMappedAndUnmapped == Spec => []LargeFitsAndUnmapsExactly
<1>1. WalkInv => LargeFitsAndUnmapsExactly
  <2>1. SUFFICES ASSUME size \in Nat
        PROVE  /\ LargeUsable(NumPages(size)) >= size
               /\ MunmapPages(LargeUsable(NumPages(size))) = NumPages(size)
    BY DEF WalkInv, LargeFitsAndUnmapsExactly
  <2>2. NumPages(size) \in Nat \ {0}
    BY <2>1, NumPagesHold
  <2>3. LargeUsable(NumPages(size)) >= size
    BY <2>1, LargeFits
  <2> QED
    BY <2>2, <2>3, MunmapExact
<1> QED
  BY <1>1, WalkInvariance, PTL

\* The slots that freelist_pop makes stay between the metadata and the end of
\* their page, on pages of their own class.
THEOREM SlotsKeepToTheirPage == Spec => []SlotInItsPage
<1>1. WalkInv => SlotInItsPage
  BY DEF WalkInv, SlotInItsPage, SlotOf, Block
<1> QED
  BY <1>1, WalkInvariance, PTL

\* No slot that freelist_pop makes overlaps one made before it.
THEOREM SlotsNeverOverlap == Spec => SlotsAdvance
<1>1. ASSUME WalkInv, [Next]_walk
      PROVE  [\/ slot'.page = slot.page /\ slot'.off >= slot.off + Block
              \/ slot'.page > slot.page]_walk
  <2>1. CASE Make
    <3>1. slot' = high_canonical_addr
      BY <2>1 DEF Make
    <3>2. high_canonical_addr.off \in Nat
      BY <1>1, NextSlot DEF Addr
    <3> QED
      BY <1>1, <3>1, <3>2, NextSlot
  <2>2. CASE UNCHANGED walk
    BY <2>2
  <2> QED
    BY <1>1, <2>1, <2>2 DEF Next
<1> QED
  BY <1>1, WalkInvariance, PTL DEF Spec, SlotsAdvance

\* get_obj_start finds the start of every small object from a pointer to any
\* of its bytes.
THEOREM StartFromEveryByte == Spec => []EveryByteFindsItsStart
<1>1. WalkInv => EveryByteFindsItsStart
  <2>1. SUFFICES ASSUME WalkInv, size = Block,
                        NEW off \in slot.off .. (slot.off + Block - 1)
        PROVE  SmallObjStart(off, Block) = slot.off
    BY DEF EveryByteFindsItsStart
  <2>2. block_type \in BlockTypes /\ slot.off \in Nat /\ SlotOf(block_type, slot.off)
        /\ Block \in Nat /\ Block = BlockSize(block_type)
    BY <2>1, ClassOfSize, BlockSizes DEF WalkInv, Addr, Block
  <2> DEFINE d == off - slot.off
  <2>3. d \in Nat /\ d < Block /\ off = slot.off + d
    BY <2>2
  <2> HIDE DEF d
  <2> QED
    BY <2>2, <2>3, SmallStart
<1> QED
  BY <1>1, WalkInvariance, PTL
=============================================================================
