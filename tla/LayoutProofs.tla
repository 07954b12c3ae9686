---------------------------- MODULE LayoutProofs ----------------------------
(***************************************************************************)
(* Lemmas about the arithmetic of Layout.                                  *)
(***************************************************************************)
EXTENDS Layout, WellFoundedInduction, TLAPS

\* The offset is one at which slots of class b begin, and the slot ends in
\* its page.
SlotOf(b, off) ==
  /\ off >= BYTE_ALIGNMENT /\ off + BlockSize(b) <= PAGE_SIZE
  /\ (off - BYTE_ALIGNMENT) % BlockSize(b) = 0

-----------------------------------------------------------------------------
\* Division with remainder, and its uniqueness.
LEMMA DivMod ==
  ASSUME NEW a \in Int, NEW b \in Nat, b > 0
  PROVE  a \div b \in Int /\ a % b \in 0 .. (b - 1) /\ a = b * (a \div b) + (a % b)
OBVIOUS

LEMMA DivModUnique ==
  ASSUME NEW k \in Int, NEW b \in Nat, NEW d \in 0 .. (b - 1)
  PROVE  (k * b + d) % b = d /\ (k * b + d) \div b = k
OBVIOUS

LEMMA DivMonotone ==
  ASSUME NEW a \in Int, NEW c \in Int, NEW b \in Nat, b > 0, a <= c
  PROVE  a \div b <= c \div b
OBVIOUS

LEMMA BelowDivisor ==
  ASSUME NEW a \in Nat, NEW b \in Nat, a < b
  PROVE  a \div b = 0 /\ a % b = a
OBVIOUS

\* Adding the divisor does not change the remainder.
LEMMA ModShift ==
  ASSUME NEW a \in Int, NEW b \in Nat, b > 0
  PROVE  (a + b) % b = a % b
<1> DEFINE k == a \div b
           d == a % b
           j == k + 1
<1>1. k \in Int /\ d \in 0 .. (b - 1) /\ a = k * b + d
  BY DivMod
<1> HIDE DEF k, d
<1>2. j \in Int /\ a + b = j * b + d
  BY <1>1
<1> HIDE DEF j
<1>3. (j * b + d) % b = d
  BY <1>1, <1>2, DivModUnique
<1> QED
  BY <1>2, <1>3 DEF d

\* Products.
LEMMA Commute ==
  ASSUME NEW a \in Int, NEW b \in Int
  PROVE  a * b = b * a
OBVIOUS

LEMMA Distribute ==
  ASSUME NEW a \in Int, NEW b \in Int
  PROVE  (a + 1) * b = a * b + b /\ a * b \in Int
OBVIOUS

\* The remainder of a multiple of the divisor plus a smaller number.
LEMMA ModOfSum ==
  ASSUME NEW x \in Int, NEW b \in Nat, b > 0, x % b = 0, NEW d \in 0 .. (b - 1)
  PROVE  (x + d) % b = d
<1> DEFINE k == x \div b
<1>1. k \in Int /\ x = k * b
  BY DivMod
<1> HIDE DEF k
<1>2. (k * b + d) % b = d
  BY <1>1, DivModUnique
<1> QED
  BY <1>1, <1>2

-----------------------------------------------------------------------------
\* The least element of a set of natural numbers.  Applied to the set of the
\* numbers a formula does not hold of, it is induction for that formula.
LEMMA NatMin ==
  ASSUME NEW T \in SUBSET Nat, T # {}
  PROVE  \E m \in T : \A n \in T : m <= n
<1> DEFINE R == OpToRel(<, Nat)
<1>1. \A x, y \in Nat : y < x => <<y, x>> \in R
  BY Zenon DEF OpToRel
<1>2. IsWellFoundedOn(R, Nat)
  BY NatLessThanWellFounded
<1> HIDE DEF R
<1>3. PICK x \in T : \A y \in T : <<y, x>> \notin R
  BY <1>2, WFMin
<1>4. \A y \in T : ~(y < x)
  BY <1>1, <1>3
<1>5. \A y \in T : x <= y
  BY <1>4
<1> QED
  BY <1>5

\* What LayoutAssumption says of the sizes without powers of two.
LEMMA PageBytes ==
  /\ PAGE_SIZE \in Nat /\ PAGE_SIZE > 0
  /\ MAGIC_NUMBER \in Nat /\ NUM_BLOCK_TYPES \in Nat \ {0}
  /\ LARGE_HEADER \in 1 .. (PAGE_SIZE - 1)
  /\ BYTE_ALIGNMENT \in 1 .. (PAGE_SIZE - 1) /\ 2 * BYTE_ALIGNMENT <= PAGE_SIZE
  /\ LARGEST_BLOCK_SIZE \in Nat
  BY LayoutAssumption DEF LayoutAssumption, LARGEST_BLOCK_SIZE

\* The logarithm of the size of a page.
PageShift == MAGIC_NUMBER + NUM_BLOCK_TYPES

\* The powers of two up to a page: each is larger than its exponent, at least
\* twice the ones before it, and a multiple of them.
LEMMA Powers ==
  \A k \in 0 .. PageShift : \A j \in 0 .. k :
    /\ 2 ^ j \in Nat /\ 2 ^ j > j
    /\ 2 ^ k % 2 ^ j = 0 /\ 2 ^ j <= 2 ^ k /\ (j < k => 2 * 2 ^ j <= 2 ^ k)
<1> DEFINE Below(j, k) ==
      /\ 2 ^ j \in Nat /\ 2 ^ j > j
      /\ 2 ^ k % 2 ^ j = 0 /\ 2 ^ j <= 2 ^ k /\ (j < k => 2 * 2 ^ j <= 2 ^ k)
           Good(k) == \A j \in 0 .. k : Below(j, k)
           T == {k \in 0 .. PageShift : ~Good(k)}
<1>0. PageShift \in Nat
  BY PageBytes DEF PageShift
<1>1. Good(0)
  <2>1. 2 ^ 0 = 1 /\ 2 ^ 0 % 2 ^ 0 = 0
    BY PowerAssumption DEF PowerAssumption
  <2>2. \A j \in 0 .. 0 : j = 0
    OBVIOUS
  <2> QED
    BY <2>1, <2>2
<1>2. ASSUME NEW k \in 0 .. (PageShift - 1), Good(k)
      PROVE  Good(k + 1)
  <2> DEFINE x == 2 ^ k
             y == 2 ^ (k + 1)
  <2>1. y = 2 * x /\ x \in Nat /\ x > k /\ y \in Nat /\ y > k + 1 /\ k + 1 \in Nat
    <3>1. k \in 0 .. k /\ k \in Nat
      OBVIOUS
    <3>2. x \in Nat /\ x > k
      BY <1>2, <3>1
    <3>3. k \in 0 .. (MAGIC_NUMBER + NUM_BLOCK_TYPES - 1)
      BY PageBytes DEF PageShift
    <3>4. y = 2 * x
      BY <3>3, PowerAssumption DEF PowerAssumption
    <3> HIDE DEF x, y
    <3> QED
      BY <3>1, <3>2, <3>4
  <2>2. y % y = 0
    BY <2>1
  <2>3. ASSUME NEW j \in 0 .. k
        PROVE  y % 2 ^ j = 0 /\ 2 * 2 ^ j <= y /\ 2 ^ j <= y /\ 2 ^ j \in Nat /\ 2 ^ j > j
    <3> DEFINE z == 2 ^ j
    <3>1. x % z = 0 /\ z <= x /\ z \in Nat /\ z > j
      BY <1>2
    <3>2. z \in Nat /\ z > 0
      BY <3>1
    <3> HIDE DEF x, y, z
    <3> DEFINE q == x \div z
    <3>3. q \in Int /\ x = q * z
      BY <2>1, <3>1, <3>2, DivMod
    <3> HIDE DEF q
    <3>4. (2 * q) * z = 2 * (q * z)
      BY <3>2, <3>3
    <3>5. ((2 * q) * z + 0) % z = 0
      BY <3>2, <3>3, DivModUnique
    <3>6. y = (2 * q) * z + 0
      BY <2>1, <3>3, <3>4
    <3> QED
      BY <2>1, <3>1, <3>2, <3>5, <3>6 DEF z
  <2>4. \A j \in 0 .. (k + 1) : j = k + 1 \/ j \in 0 .. k
    BY <1>0
  <2> QED
    BY <2>1, <2>2, <2>3, <2>4
<1>3. T = {}
  <2>1. SUFFICES ASSUME T # {} PROVE FALSE
    OBVIOUS
  <2>2. T \in SUBSET Nat
    BY <1>0
  <2>3. PICK m \in T : \A n \in T : m <= n
    BY <2>1, <2>2, NatMin
  <2>4. m # 0 /\ m \in 0 .. PageShift
    BY <1>1, <2>3
  <2>5. m - 1 \in 0 .. (PageShift - 1) /\ m - 1 \in 0 .. PageShift /\ ~(m <= m - 1)
    BY <1>0, <2>4
  <2>6. Good(m - 1)
    BY <2>3, <2>5
  <2>7. Good((m - 1) + 1)
    BY <1>2, <2>5, <2>6
  <2>8. (m - 1) + 1 = m
    BY <2>4
  <2> HIDE DEF Good
  <2> QED
    BY <2>3, <2>7, <2>8
<1> QED
  BY <1>3

-----------------------------------------------------------------------------
\* A slot fits behind the metadata of its page, which slots fill evenly.
LEMMA BlockSizes ==
  \A t \in BlockTypes :
    /\ BlockSize(t) \in Nat \ {0}
    /\ BlockSize(t) + BYTE_ALIGNMENT <= PAGE_SIZE
    /\ PAGE_SIZE % BlockSize(t) = 0
<1> SUFFICES ASSUME NEW t \in BlockTypes
             PROVE  /\ BlockSize(t) \in Nat \ {0}
                    /\ BlockSize(t) + BYTE_ALIGNMENT <= PAGE_SIZE
                    /\ PAGE_SIZE % BlockSize(t) = 0
  OBVIOUS
<1> DEFINE k == MAGIC_NUMBER + t
<1>1. PageShift \in 0 .. PageShift /\ k \in 0 .. PageShift /\ k < PageShift
  BY PageBytes DEF PageShift, BlockTypes
<1>2. PAGE_SIZE = 2 ^ PageShift
  BY LayoutAssumption DEF LayoutAssumption, PageShift
<1>3. /\ 2 ^ k \in Nat /\ 2 ^ k > k
      /\ 2 ^ PageShift % 2 ^ k = 0 /\ 2 * 2 ^ k <= 2 ^ PageShift
  BY <1>1, Powers
<1> HIDE DEF k
<1> QED
  BY <1>1, <1>2, <1>3, PageBytes DEF BlockSize, k

\* The logarithm, for numbers that some power below a page reaches.
LEMMA CeilLog2Least ==
  ASSUME NEW n \in Nat \ {0}, NEW k \in 0 .. PageShift, n <= 2 ^ k
  PROVE  /\ CeilLog2(n) \in 0 .. k /\ 2 ^ CeilLog2(n) >= n
         /\ \A j \in 0 .. (CeilLog2(n) - 1) : 2 ^ j < n
<1> DEFINE T == {i \in 0 .. k : 2 ^ i >= n}
<1>1. T \in SUBSET Nat /\ k \in T
  BY PageBytes DEF PageShift
<1>2. PICK m \in T : \A i \in T : m <= i
  BY <1>1, NatMin
<1>3. m \in 0 .. k /\ 2 ^ m >= n
  BY <1>2
<1>4. ASSUME NEW j \in 0 .. (m - 1)
      PROVE  2 ^ j < n /\ j < 2 ^ j /\ 2 ^ j \in Nat
  <2>1. j \in 0 .. k /\ ~(m <= j) /\ k \in 0 .. PageShift
    BY <1>3
  <2>2. 2 ^ j \in Nat /\ j < 2 ^ j
    BY <2>1, Powers
  <2> QED
    BY <1>2, <2>1, <2>2
<1>5. m \in 0 .. n
  <2>1. CASE m = 0
    BY <2>1
  <2>2. CASE m # 0
    <3>1. m - 1 \in 0 .. (m - 1)
      BY <1>3, <2>2
    <3> QED
      BY <1>3, <1>4, <3>1
  <2> QED
    BY <2>1, <2>2
<1> DEFINE Log(i) == 2 ^ i >= n /\ \A j \in 0 .. (i - 1) : 2 ^ j < n
           c == CHOOSE i \in 0 .. n : Log(i)
<1>6. c \in 0 .. n /\ Log(c)
  BY <1>3, <1>4, <1>5
<1>7. CeilLog2(n) = c
  BY DEF CeilLog2
<1>8. c <= m
  <2>1. SUFFICES ASSUME m \in 0 .. (c - 1)
        PROVE  FALSE
    BY <1>3, <1>6
  <2>2. 2 ^ m < n
    BY <1>6, <2>1
  <2>3. 2 ^ m \in Nat
    BY <1>3, Powers
  <2> QED
    BY <1>3, <2>2, <2>3
<1> HIDE DEF c
<1> QED
  BY <1>3, <1>6, <1>7, <1>8

\* A small request is served from the least class whose blocks hold it.
LEMMA LeastClass ==
  ASSUME NEW size \in Nat, size <= LARGEST_BLOCK_SIZE
  PROVE  /\ BlockType(size) \in BlockTypes /\ size <= BlockSize(BlockType(size))
         /\ \A t \in BlockTypes : size <= BlockSize(t) => BlockType(size) <= t
<1>0. /\ MAGIC_NUMBER \in Nat /\ NUM_BLOCK_TYPES \in Nat \ {0}
      /\ \A t \in BlockTypes : BlockSize(t) \in Nat \ {0}
  BY PageBytes, BlockSizes
<1>1. CASE size < MIN_BLOCK_SIZE
  <2>1. BlockType(size) = 0 /\ 0 \in BlockTypes /\ BlockSize(0) = MIN_BLOCK_SIZE
    BY <1>0, <1>1 DEF BlockType, BlockTypes, BlockSize, MIN_BLOCK_SIZE
  <2>2. \A t \in BlockTypes : 0 <= t
    BY <1>0 DEF BlockTypes
  <2> QED
    BY <1>0, <1>1, <2>1, <2>2
<1>2. CASE ~(size < MIN_BLOCK_SIZE)
  <2> DEFINE c == CeilLog2(size)
             k == PageShift - 1
  <2>1. /\ k \in 0 .. PageShift /\ PageShift = k + 1 /\ PageShift \in 0 .. PageShift /\ k < PageShift
        /\ MAGIC_NUMBER \in 0 .. PageShift /\ k = MAGIC_NUMBER + (NUM_BLOCK_TYPES - 1)
    BY <1>0 DEF PageShift
  <2>2. 2 ^ MAGIC_NUMBER \in Nat \ {0} /\ 2 ^ k \in Nat
    BY <2>1, Powers
  <2>3. size >= 2 ^ MAGIC_NUMBER /\ size \in Nat \ {0}
    BY <1>2, <2>2 DEF MIN_BLOCK_SIZE
  <2>4. size <= 2 ^ k
    <3>1. PAGE_SIZE = 2 ^ (k + 1) /\ 2 ^ (k + 1) = 2 * 2 ^ k
      BY <2>1, LayoutAssumption, PowerAssumption DEF LayoutAssumption, PowerAssumption, PageShift
    <3> HIDE DEF k
    <3>2. PAGE_SIZE \div 2 = 2 ^ k
      BY <2>2, <3>1
    <3> QED
      BY <3>2 DEF LARGEST_BLOCK_SIZE
  <2>5. /\ c \in 0 .. k /\ 2 ^ c >= size
        /\ \A j \in 0 .. (c - 1) : 2 ^ j < size
    <3> HIDE DEF k
    <3> QED
      BY <2>1, <2>3, <2>4, CeilLog2Least
  <2>6. c >= MAGIC_NUMBER
    <3>1. SUFFICES ASSUME c < MAGIC_NUMBER
          PROVE  FALSE
      BY <1>0, <2>1, <2>5
    <3>2. c \in 0 .. MAGIC_NUMBER /\ c \in Nat
      BY <1>0, <2>1, <2>5, <3>1
    <3>3. 2 ^ c \in Nat /\ 2 ^ c > c /\ 2 * 2 ^ c <= 2 ^ MAGIC_NUMBER
      BY <2>1, <3>1, <3>2, Powers
    <3> QED
      BY <2>2, <2>3, <2>5, <3>2, <3>3
  <2>7. BlockType(size) = c - MAGIC_NUMBER
    BY <1>2 DEF BlockType
  <2>8. MAGIC_NUMBER + (c - MAGIC_NUMBER) = c /\ c - MAGIC_NUMBER \in BlockTypes
    BY <1>0, <2>1, <2>5, <2>6 DEF BlockTypes
  <2>9. ASSUME NEW t \in BlockTypes, size <= BlockSize(t)
        PROVE  c - MAGIC_NUMBER <= t
    <3>1. MAGIC_NUMBER + t \notin 0 .. (c - 1)
      <4> HIDE DEF c
      <4>1. 2 ^ (MAGIC_NUMBER + t) \in Nat
        BY <1>0 DEF BlockSize
      <4> QED
        BY <2>5, <2>9, <4>1 DEF BlockSize
    <3> QED
      BY <1>0, <2>1, <2>5, <3>1 DEF BlockTypes
  <2> HIDE DEF c
  <2>10. size <= BlockSize(c - MAGIC_NUMBER)
    <3>1. BlockSize(c - MAGIC_NUMBER) = 2 ^ c
      BY <2>8 DEF BlockSize
    <3> QED
      BY <2>5, <3>1
  <2> QED
    BY <2>7, <2>8, <2>9, <2>10
<1>3. MIN_BLOCK_SIZE \in Nat
  <2>1. 0 \in BlockTypes /\ BlockSize(0) = MIN_BLOCK_SIZE
    BY <1>0 DEF BlockTypes, BlockSize, MIN_BLOCK_SIZE
  <2> QED
    BY <1>0, <2>1
<1> QED
  BY <1>1, <1>2

\* The class of a small request holds it.
LEMMA ClassHolds ==
  ASSUME NEW size \in Nat, size <= LARGEST_BLOCK_SIZE
  PROVE  BlockType(size) \in BlockTypes /\ size <= BlockSize(BlockType(size))
BY LeastClass

-----------------------------------------------------------------------------
\* freelist_init starts each class at one of its slots.
LEMMA FirstCanonicalSlot ==
  ASSUME NEW b \in BlockTypes
  PROVE  FirstCanonical(b) \in Addr /\ SlotOf(b, FirstCanonical(b).off)
<1>1. BlockSize(b) \in Nat \ {0} /\ BlockSize(b) + BYTE_ALIGNMENT <= PAGE_SIZE
  BY BlockSizes
<1>2. 0 % BlockSize(b) = 0
  BY <1>1, BelowDivisor
<1> QED
  BY <1>1, <1>2, PageBytes
  DEF FirstCanonical, SlotOf, Addr, BlockTypes

\* freelist_pop goes from slot to slot.
LEMMA NextCanonicalSlot ==
  ASSUME NEW b \in BlockTypes, NEW addr \in Addr, SlotOf(b, addr.off)
  PROVE  NextCanonical(b, addr) \in Addr /\ SlotOf(b, NextCanonical(b, addr).off)
<1> DEFINE bumped == Plus(addr, BlockSize(b))
<1>1. BlockSize(b) \in Nat \ {0} /\ BlockSize(b) + BYTE_ALIGNMENT <= PAGE_SIZE
  BY BlockSizes
<1>2. 0 % BlockSize(b) = 0
  BY <1>1, BelowDivisor
<1>3. /\ PAGE_SIZE \in Nat /\ BYTE_ALIGNMENT \in 1 .. (PAGE_SIZE - 1) /\ NUM_BLOCK_TYPES \in Nat \ {0}
      /\ addr.page \in Nat /\ addr.off \in Nat
  BY PageBytes DEF Addr
<1>4. bumped \in Addr
  BY <1>1, <1>3 DEF Plus, Addr
<1>5. NextCanonicalPage(bumped) \in Addr /\ SlotOf(b, NextCanonicalPage(bumped).off)
  <2>1. NextCanonicalPage(bumped) \in Addr
    BY <1>3, <1>4 DEF NextCanonicalPage, Addr
  <2>2. NextCanonicalPage(bumped).off = BYTE_ALIGNMENT
    BY DEF NextCanonicalPage
  <2> QED
    BY <1>1, <1>2, <1>3, <2>1, <2>2 DEF SlotOf
<1>6. CASE bumped.off = 0 \/ bumped.off >= PAGE_SIZE - 2 * BlockSize(b)
  BY <1>5, <1>6 DEF NextCanonical
<1>7. CASE bumped.off # 0 /\ ~(bumped.off >= PAGE_SIZE - 2 * BlockSize(b))
  <2>1. addr.off + BlockSize(b) <= PAGE_SIZE
    BY DEF SlotOf
  <2>2. bumped.off = addr.off + BlockSize(b)
    BY <1>1, <1>3, <1>7, <2>1 DEF Plus
  <2>3. (addr.off - BYTE_ALIGNMENT + BlockSize(b)) % BlockSize(b) = 0
    BY <1>1, <1>3, ModShift DEF SlotOf
  <2>4. bumped.off - BYTE_ALIGNMENT = addr.off - BYTE_ALIGNMENT + BlockSize(b)
    BY <1>1, <1>3, <2>2
  <2>5. bumped.off >= BYTE_ALIGNMENT /\ bumped.off + BlockSize(b) <= PAGE_SIZE
    BY <1>1, <1>3, <1>7, <2>2 DEF SlotOf
  <2>6. SlotOf(b, bumped.off)
    BY <2>3, <2>4, <2>5 DEF SlotOf
  <2> QED
    BY <1>4, <1>7, <2>6 DEF NextCanonical
<1> QED
  BY <1>1, <1>3, <1>4, <1>6, <1>7 DEF Addr

\* It goes forward: past the slot in the same page, or to a later page that
\* belongs to the same class.
LEMMA NextCanonicalAdvances ==
  ASSUME NEW b \in BlockTypes, NEW addr \in Addr, SlotOf(b, addr.off),
         addr.page % NUM_BLOCK_TYPES = b
  PROVE  /\ NextCanonical(b, addr).page % NUM_BLOCK_TYPES = b
         /\ \/ /\ NextCanonical(b, addr).page = addr.page
               /\ NextCanonical(b, addr).off = addr.off + BlockSize(b)
            \/ NextCanonical(b, addr).page > addr.page
<1> DEFINE bumped == Plus(addr, BlockSize(b))
<1>1. /\ BlockSize(b) \in Nat \ {0} /\ PAGE_SIZE \in Nat /\ NUM_BLOCK_TYPES \in Nat \ {0}
      /\ addr.page \in Nat /\ addr.off \in Nat /\ addr.off + BlockSize(b) <= PAGE_SIZE
      /\ BYTE_ALIGNMENT \in Nat
  BY BlockSizes, PageBytes DEF Addr, SlotOf
<1>2. (addr.page + NUM_BLOCK_TYPES) % NUM_BLOCK_TYPES = b
  BY <1>1, ModShift
<1>3. CASE addr.off + BlockSize(b) < PAGE_SIZE
  <2>1. bumped.page = addr.page /\ bumped.off = addr.off + BlockSize(b) /\ bumped.off # 0
    BY <1>1, <1>3 DEF Plus, Addr
  <2>2. NextCanonicalPage(bumped).page = addr.page + NUM_BLOCK_TYPES
    BY <1>1, <2>1 DEF NextCanonicalPage
  <2>3. CASE bumped.off >= PAGE_SIZE - 2 * BlockSize(b)
    BY <1>1, <1>2, <2>2, <2>3 DEF NextCanonical
  <2>4. CASE ~(bumped.off >= PAGE_SIZE - 2 * BlockSize(b))
    BY <2>1, <2>4 DEF NextCanonical
  <2> QED
    BY <2>3, <2>4
<1>4. CASE addr.off + BlockSize(b) = PAGE_SIZE
  <2>1. bumped.page = addr.page + 1 /\ bumped.off = 0
    BY <1>1, <1>4 DEF Plus
  <2>2. NextCanonicalPage(bumped).page = addr.page + NUM_BLOCK_TYPES
    BY <1>1, <2>1 DEF NextCanonicalPage
  <2> QED
    BY <1>1, <1>2, <2>1, <2>2 DEF NextCanonical
<1> QED
  BY <1>1, <1>3, <1>4

\* get_obj_start finds the start of a small object from each of its bytes.
LEMMA SmallStart ==
  ASSUME NEW b \in BlockTypes, NEW off \in Nat, NEW d \in Nat,
         SlotOf(b, off), d < BlockSize(b)
  PROVE  SmallObjStart(off + d, BlockSize(b)) = off
<1> DEFINE B == BlockSize(b)
           x == off - BYTE_ALIGNMENT
<1>1. B \in Nat \ {0} /\ x \in Int /\ x % B = 0 /\ off + d - BYTE_ALIGNMENT = x + d
      /\ BYTE_ALIGNMENT \in Nat
  BY BlockSizes, PageBytes DEF SlotOf
<1> HIDE DEF B, x
<1>2. d \in 0 .. (B - 1)
  BY <1>1 DEF B
<1>3. (x + d) % B = d
  BY <1>1, <1>2, ModOfSum
<1>4. ROUND_DOWN(x + d, B) = x
  BY <1>1, <1>3 DEF ROUND_DOWN
<1>5. SmallObjStart(off + d, B) = x + BYTE_ALIGNMENT
  BY <1>1, <1>4 DEF SmallObjStart
<1> QED
  BY <1>1, <1>5 DEF B, x

-----------------------------------------------------------------------------
\* The munmap of xxfree removes as many pages as the header says.
LEMMA MunmapExact ==
  ASSUME NEW np \in Nat
  PROVE  MunmapPages(LargeUsable(np)) = np
<1> DEFINE d == PAGE_SIZE - LARGE_HEADER
           k == np - 1
           x == LargeUsable(np)
<1>1. PAGE_SIZE \in Nat /\ PAGE_SIZE > 0 /\ LARGE_HEADER \in Nat /\ d \in 1 .. (PAGE_SIZE - 1)
  BY PageBytes
<1>2. k \in Int /\ x = k * PAGE_SIZE + d /\ x \in Int
  BY <1>1 DEF LargeUsable
<1>3. x + (PAGE_SIZE - d) = np * PAGE_SIZE + 0
  BY <1>1 DEF LargeUsable
<1> HIDE DEF x, k, d
<1>4. (k * PAGE_SIZE + d) % PAGE_SIZE = d
  BY <1>1, <1>2, DivModUnique
<1>5. ROUND_UP(x, PAGE_SIZE) = x + (PAGE_SIZE - d)
  BY <1>1, <1>2, <1>4 DEF ROUND_UP
<1>6. (np * PAGE_SIZE + 0) \div PAGE_SIZE = np
  BY <1>1, DivModUnique
<1> QED
  BY <1>3, <1>5, <1>6 DEF MunmapPages, x

\* A large object has at least a page, and all its bytes are on its pages.
LEMMA NumPagesHold ==
  ASSUME NEW size \in Nat
  PROVE  /\ NumPages(size) \in Nat \ {0}
         /\ \A b \in 0 .. (size + LARGE_HEADER) :
              b \div PAGE_SIZE \in Nat /\ b \div PAGE_SIZE < NumPages(size)
<1>1. PAGE_SIZE \in Nat /\ PAGE_SIZE > 0 /\ LARGE_HEADER \in Nat
  BY PageBytes
<1>2. \A b \in 0 .. (size + LARGE_HEADER) :
        /\ b \div PAGE_SIZE \in Int
        /\ 0 \div PAGE_SIZE <= b \div PAGE_SIZE
        /\ b \div PAGE_SIZE <= (size + LARGE_HEADER) \div PAGE_SIZE
  BY <1>1, DivMonotone, DivMod
<1>3. 0 \div PAGE_SIZE = 0
  BY <1>1, BelowDivisor
<1>4. size + LARGE_HEADER \in 0 .. (size + LARGE_HEADER)
  BY <1>1
<1> QED
  BY <1>1, <1>2, <1>3, <1>4 DEF NumPages

\* The pages of a large object hold the size asked for and the header.
LEMMA LargeFits ==
  ASSUME NEW size \in Nat
  PROVE  LargeUsable(NumPages(size)) >= size
<1> DEFINE total == size + LARGE_HEADER
           q == total \div PAGE_SIZE
           r == total % PAGE_SIZE
<1>1. PAGE_SIZE \in Nat /\ PAGE_SIZE > 0 /\ LARGE_HEADER \in Nat /\ total \in Int
  BY PageBytes
<1>2. q \in Int /\ r \in 0 .. (PAGE_SIZE - 1) /\ total = PAGE_SIZE * q + r
  BY <1>1, DivMod
<1>3. NumPages(size) = q + 1
  BY DEF NumPages
<1> HIDE DEF q, r
<1> DEFINE x == q * PAGE_SIZE
<1>4. (q + 1) * PAGE_SIZE = x + PAGE_SIZE /\ x \in Int
  BY <1>1, <1>2, Distribute
<1>5. LargeUsable(q + 1) = x + PAGE_SIZE - LARGE_HEADER
  BY <1>1, <1>2, <1>4 DEF LargeUsable
<1>6. size + LARGE_HEADER = x + r
  <2>1. PAGE_SIZE * q = x
    BY <1>1, <1>2, Commute
  <2> HIDE DEF x
  <2> QED
    BY <1>2, <2>1
<1> HIDE DEF x
<1> QED
  BY <1>1, <1>2, <1>3, <1>4, <1>5, <1>6
=============================================================================
