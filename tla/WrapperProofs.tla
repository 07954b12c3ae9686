---------------------------- MODULE WrapperProofs ----------------------------
(***************************************************************************)
(* What the malloc family returns to the program, for every width of       *)
(* size_t, every page size and any sizes: memory of one object each, large *)
(* enough, aligned as asked, and behind one pointer of the program.        *)
(***************************************************************************)
EXTENDS Wrapper, LayoutProofs, FiniteSetTheorems

\* Requests that the code treats as it means to: pointers of memalign are not
\* resized (wrapper.h:270), alignments are no larger than any pointer, nor so
\* large that the padding overflows (wrapper.h:205, 211), and sizes do not
\* overflow when aligned_alloc or pvalloc rounds them (wrapper.h:226, 465).
\* Objects begin where a double may.
Modest ==
  /\ ALIGNED_ARE_RESIZED = FALSE
  /\ \A alignment \in Alignments \cup {VALLOC_ALIGNMENT} : PowerOfTwo(alignment) =>
       alignment <= MMAP_MIN_ADDR * PAGE_SIZE /\ 4 * alignment <= 2 ^ WIDTH
  /\ \A alignment \in Alignments \cup {VALLOC_ALIGNMENT}, size \in Sizes :
       size + alignment < 2 ^ WIDTH
  /\ \A bytes \in {MIN_BLOCK_SIZE, BYTE_ALIGNMENT, LARGE_HEADER} : bytes % SIZEOF_DOUBLE = 0

-----------------------------------------------------------------------------
(* Arithmetic.                                                             *)

LEMMA DivBounds ==
  ASSUME NEW a \in Int, NEW b \in Nat, b > 0, NEW c \in Int
  PROVE  /\ c * b <= a => c <= a \div b
         /\ a < c * b => a \div b < c
OBVIOUS

LEMMA MulMonotone ==
  ASSUME NEW a \in Int, NEW c \in Int, NEW b \in Nat, a <= c
  PROVE  a * b <= c * b /\ a * b \in Int /\ c * b \in Int
OBVIOUS

\* Multiples of d.
LEMMA MultiplesAdd ==
  ASSUME NEW d \in Nat, d > 0, NEW x \in Int, NEW y \in Int, x % d = 0, y % d = 0
  PROVE  (x + y) % d = 0
<1> DEFINE i == x \div d
           k == y \div d
           j == i + k
<1>1. i \in Int /\ k \in Int /\ x = i * d /\ y = k * d
  BY DivMod
<1> HIDE DEF i, k
<1>2. j \in Int /\ x + y = j * d + 0
  BY <1>1
<1> HIDE DEF j
<1>3. (j * d + 0) % d = 0
  BY <1>2, DivModUnique
<1> QED
  BY <1>2, <1>3

LEMMA MultiplesMultiply ==
  ASSUME NEW d \in Nat, d > 0, NEW x \in Int, NEW y \in Int, y % d = 0
  PROVE  (x * y) % d = 0
<1> DEFINE k == y \div d
           j == x * k
<1>1. k \in Int /\ y = k * d
  BY DivMod
<1> HIDE DEF k
<1>2. j \in Int /\ x * y = j * d + 0
  BY <1>1
<1> HIDE DEF j
<1>3. (j * d + 0) % d = 0
  BY <1>2, DivModUnique
<1> QED
  BY <1>2, <1>3

LEMMA MultiplesOfMultiples ==
  ASSUME NEW d \in Nat, d > 0, NEW b \in Nat, b > 0, NEW x \in Int, x % b = 0, b % d = 0
  PROVE  x % d = 0
<1> DEFINE k == x \div b
<1>1. k \in Int /\ x = k * b
  BY DivMod
<1> HIDE DEF k
<1>2. (k * b) % d = 0
  <2>1. b \in Int
    OBVIOUS
  <2> QED
    BY <1>1, <2>1, MultiplesMultiply
<1> QED
  BY <1>1, <1>2

\* Rounding down to a multiple.
LEMMA RoundedDown ==
  ASSUME NEW d \in Nat, d > 0, NEW n \in Int
  PROVE  (n - (n % d)) % d = 0 /\ n % d \in 0 .. (d - 1)
<1> DEFINE k == n \div d
<1>1. k \in Int /\ n - (n % d) = k * d + 0 /\ n % d \in 0 .. (d - 1)
  BY DivMod
<1> HIDE DEF k
<1>2. (k * d + 0) % d = 0
  BY <1>1, DivModUnique
<1> QED
  BY <1>1, <1>2

\* The powers of two of a size_t.
LEMMA WidthPowers ==
  /\ \A k \in 0 .. WIDTH : 2 ^ k \in Nat \ {0}
  /\ 2 ^ (WIDTH - 1) \in Nat \ {0} /\ 2 ^ WIDTH = 2 * 2 ^ (WIDTH - 1)
<1> DEFINE T == {k \in 0 .. WIDTH : 2 ^ k \notin Nat \ {0}}
<1>1. WIDTH \in Nat \ {0}
  BY WrapperAssumption DEF WrapperAssumption
<1>2. T = {}
  <2>1. SUFFICES ASSUME T # {} PROVE FALSE
    OBVIOUS
  <2>2. T \in SUBSET Nat
    BY <1>1
  <2>3. PICK m \in T : \A n \in T : m <= n
    BY <2>1, <2>2, NatMin
  <2>0. 0 \notin T
    <3>1. 2 ^ 0 \in Nat \ {0}
      BY WidthAssumption DEF WidthAssumption
    <3> QED
      BY <3>1
  <2>4. m # 0 /\ m \in 0 .. WIDTH
    BY <2>0, <2>3
  <2>5. m - 1 \in 0 .. (WIDTH - 1) /\ m - 1 \in 0 .. WIDTH /\ ~(m <= m - 1) /\ (m - 1) + 1 = m
    BY <1>1, <2>4
  <2>6. 2 ^ (m - 1) \in Nat \ {0}
    BY <2>3, <2>5
  <2>7. 2 ^ m = 2 * 2 ^ (m - 1)
    BY <2>5, WidthAssumption DEF WidthAssumption
  <2>8. \A x \in Nat \ {0} : 2 * x \in Nat \ {0}
    OBVIOUS
  <2> QED
    BY <2>3, <2>6, <2>7, <2>8
<1>3. WIDTH - 1 \in 0 .. (WIDTH - 1) /\ (WIDTH - 1) + 1 = WIDTH /\ WIDTH - 1 \in 0 .. WIDTH
  BY <1>1
<1> QED
  BY <1>2, <1>3, WidthAssumption DEF WidthAssumption

LEMMA WrapSmall ==
  /\ \A n \in Nat : Wrap(n) \in Nat /\ Wrap(n) <= n /\ Wrap(n) < 2 ^ WIDTH
  /\ \A n \in Nat : n < 2 ^ WIDTH => Wrap(n) = n
<1> DEFINE w == 2 ^ WIDTH
<1>1. w \in Nat /\ w > 0
  <2>1. WIDTH \in 0 .. WIDTH
    BY WrapperAssumption DEF WrapperAssumption
  <2> QED
    BY <2>1, WidthPowers
<1> HIDE DEF w
<1>2. \A n \in Nat : n % w \in Nat /\ n % w <= n /\ n % w < w /\ (n < w => n % w = n)
  BY <1>1, DivMod, BelowDivisor
<1> QED
  BY <1>2 DEF Wrap, w

-----------------------------------------------------------------------------
(* Where objects lie in a heap: each on pages of its own, all its bytes on *)
(* them, the small ones below the one watermark, the large ones below the  *)
(* other.                                                                  *)

NumPagesOf(o) == IF IsBig(o.size) THEN NumPages(o.size) ELSE 1

Placed(h, o) ==
  LET p   == o.start \div PAGE_SIZE
      off == o.start % PAGE_SIZE
  IN  /\ o.start % SIZEOF_DOUBLE = 0
      /\ IF IsBig(o.size)
         THEN LARGE_OBJ_VADDR_START <= p /\ p + NumPages(o.size) <= h.large /\ off = LARGE_HEADER
         ELSE /\ MMAP_MIN_ADDR <= p /\ p < h.high
              /\ BYTE_ALIGNMENT <= off /\ off + Usable(o) <= PAGE_SIZE

Objects == [start : Nat, size : 0 .. (2 ^ (WIDTH - 1) - 1)]

HeapOK(h) ==
  /\ h \in [objs  : SUBSET Objects,
            high  : MMAP_MIN_ADDR .. LARGE_OBJ_VADDR_START,
            large : LARGE_OBJ_VADDR_START .. VADDR_END]
  /\ \A o \in h.objs : Placed(h, o)
  /\ \A a, b \in h.objs : a # b => PagesOf(a) \cap PagesOf(b) = {}

LEMMA Constants ==
  /\ PAGE_SIZE \in Nat /\ PAGE_SIZE > 0 /\ LARGE_HEADER \in Nat /\ BYTE_ALIGNMENT \in Nat
  /\ 1 <= LARGE_HEADER /\ LARGE_HEADER < PAGE_SIZE
  /\ 1 <= BYTE_ALIGNMENT /\ BYTE_ALIGNMENT < PAGE_SIZE
  /\ LARGEST_BLOCK_SIZE \in Nat
  /\ MMAP_MIN_ADDR \in Nat \ {0} /\ LARGE_OBJ_VADDR_START \in Nat /\ VADDR_END \in Nat
  /\ MMAP_MIN_ADDR <= LARGE_OBJ_VADDR_START /\ LARGE_OBJ_VADDR_START <= VADDR_END
  /\ SIZEOF_DOUBLE \in Nat /\ SIZEOF_DOUBLE > 0
  /\ WIDTH \in Nat \ {0} /\ 2 ^ WIDTH \in Nat /\ 2 ^ WIDTH > 0
  /\ VADDR_END * PAGE_SIZE <= 2 ^ WIDTH
<1>1. WIDTH \in 0 .. WIDTH
  BY WrapperAssumption DEF WrapperAssumption
<1> QED
  BY <1>1, PageBytes, WrapperAssumption, WidthPowers DEF WrapperAssumption

\* The usable bytes of an object.
LEMMA UsableBytes ==
  ASSUME NEW o, o.size \in Nat
  PROVE  /\ Usable(o) \in Nat \ {0} /\ o.size <= Usable(o)
         /\ NumPagesOf(o) \in Nat \ {0}
         /\ IsBig(o.size) => LARGE_HEADER + Usable(o) = NumPagesOf(o) * PAGE_SIZE
<1>1. LARGEST_BLOCK_SIZE \in Nat /\ LARGE_HEADER \in Nat /\ PAGE_SIZE \in Nat
  BY Constants
<1>2. CASE IsBig(o.size)
  <2>1. NumPages(o.size) \in Nat \ {0} /\ LargeUsable(NumPages(o.size)) >= o.size
    BY NumPagesHold, LargeFits
  <2>2. NumPages(o.size) * PAGE_SIZE \in Int
    BY <1>1, <2>1
  <2> QED
    BY <1>1, <1>2, <2>1, <2>2 DEF Usable, IsBig, NumPagesOf, LargeUsable
<1>3. CASE ~IsBig(o.size)
  <2>1. BlockType(o.size) \in BlockTypes /\ o.size <= BlockSize(BlockType(o.size))
    BY <1>1, <1>3, ClassHolds DEF IsBig
  <2>2. BlockSize(BlockType(o.size)) \in Nat \ {0}
    BY <2>1, BlockSizes
  <2> QED
    BY <1>3, <2>1, <2>2 DEF Usable, NumPagesOf
<1> QED
  BY <1>2, <1>3

LEMMA ObjectPlace ==
  ASSUME NEW h, HeapOK(h), NEW o \in h.objs
  PROVE  /\ o \in Objects /\ o.start \in Nat /\ o.size \in Nat
         /\ LET p   == o.start \div PAGE_SIZE
                off == o.start % PAGE_SIZE
                np  == NumPagesOf(o)
            IN  /\ p \in Nat /\ off \in Nat /\ np \in Nat \ {0}
                /\ o.start = p * PAGE_SIZE + off
                /\ MMAP_MIN_ADDR <= p /\ p + np <= VADDR_END
                /\ 1 <= off /\ off + Usable(o) <= np * PAGE_SIZE
                /\ PagesOf(o) = p .. (p + np - 1)
                /\ IF IsBig(o.size) THEN LARGE_OBJ_VADDR_START <= p /\ p + np <= h.large
                                    ELSE p < h.high /\ np = 1
<1> DEFINE p   == o.start \div PAGE_SIZE
           off == o.start % PAGE_SIZE
           np  == NumPagesOf(o)
<1>1. o \in Objects /\ o.start \in Nat /\ o.size \in Nat
  <2>1. 2 ^ (WIDTH - 1) \in Nat
    BY WidthPowers
  <2> QED
    BY <2>1 DEF HeapOK, Objects
<1>2. /\ h.high \in Nat /\ h.high <= LARGE_OBJ_VADDR_START
      /\ h.large \in Nat /\ h.large <= VADDR_END
  BY Constants DEF HeapOK
<1>3. np \in Nat \ {0} /\ Usable(o) \in Nat /\ PagesOf(o) = p .. (p + np - 1)
      /\ (IsBig(o.size) => np = NumPages(o.size) /\ LARGE_HEADER + Usable(o) = np * PAGE_SIZE)
      /\ (~IsBig(o.size) => np = 1)
  BY <1>1, UsableBytes DEF PagesOf, NumPagesOf
<1>4. p \in Int /\ off \in 0 .. (PAGE_SIZE - 1) /\ o.start = PAGE_SIZE * p + off
  BY <1>1, Constants, DivMod
<1>5. PAGE_SIZE * p = p * PAGE_SIZE
  BY <1>4, Constants, Commute
<1>6. Placed(h, o)
  BY DEF HeapOK
<1>7. IF IsBig(o.size)
      THEN LARGE_OBJ_VADDR_START <= p /\ p + np <= h.large /\ off = LARGE_HEADER
      ELSE MMAP_MIN_ADDR <= p /\ p < h.high /\ BYTE_ALIGNMENT <= off /\ off + Usable(o) <= PAGE_SIZE
  BY <1>3, <1>6 DEF Placed
<1> HIDE DEF p, off, np
<1>8. p \in Nat /\ off \in Nat /\ MMAP_MIN_ADDR <= p /\ p + np <= VADDR_END /\ 1 <= off
  <2>1. CASE IsBig(o.size)
    <3>1. LARGE_OBJ_VADDR_START <= p /\ p + np <= h.large /\ off = LARGE_HEADER
      BY <1>7, <2>1
    <3> QED
      BY <1>2, <1>3, <1>4, <3>1, Constants
  <2>2. CASE ~IsBig(o.size)
    <3>1. MMAP_MIN_ADDR <= p /\ p < h.high /\ BYTE_ALIGNMENT <= off /\ np = 1
      BY <1>3, <1>7, <2>2
    <3>2. MMAP_MIN_ADDR \in Nat /\ VADDR_END \in Nat /\ LARGE_OBJ_VADDR_START \in Nat
          /\ LARGE_OBJ_VADDR_START <= VADDR_END /\ BYTE_ALIGNMENT \in Nat /\ 1 <= BYTE_ALIGNMENT
      BY Constants
    <3>3. p \in Nat /\ off \in Nat /\ 1 <= off
      BY <1>4, <3>1, <3>2, Constants
    <3> QED
      BY <1>2, <3>1, <3>2, <3>3
  <2> QED
    BY <2>1, <2>2
<1>9. off + Usable(o) <= np * PAGE_SIZE
  <2>1. CASE IsBig(o.size)
    <3>1. off = LARGE_HEADER
      BY <1>7, <2>1
    <3>2. np * PAGE_SIZE \in Int /\ LARGE_HEADER + Usable(o) = np * PAGE_SIZE
      BY <1>3, <2>1, Constants
    <3> QED
      BY <3>1, <3>2
  <2>2. CASE ~IsBig(o.size)
    <3>1. np * PAGE_SIZE = PAGE_SIZE
      BY <1>3, <2>2, Constants
    <3> QED
      BY <1>7, <2>2, <3>1
  <2> QED
    BY <2>1, <2>2
<1>10. o.start = p * PAGE_SIZE + off
  BY <1>4, <1>5
<1> QED
  BY <1>1, <1>3, <1>7, <1>8, <1>9, <1>10 DEF p, off, np

\* The bytes of an object are on its pages.
LEMMA BytesPlace ==
  ASSUME NEW h, HeapOK(h), NEW o \in h.objs, NEW b \in Bytes(o)
  PROVE  /\ b \in Nat /\ MMAP_MIN_ADDR * PAGE_SIZE < b /\ b < 2 ^ WIDTH
         /\ b \div PAGE_SIZE \in PagesOf(o)
<1>1. PICK p, off, np, u :
        /\ p = o.start \div PAGE_SIZE /\ off = o.start % PAGE_SIZE
        /\ np = NumPagesOf(o) /\ u = Usable(o)
  OBVIOUS
<1>2. /\ p \in Nat /\ off \in Nat /\ np \in Nat \ {0} /\ u \in Nat
      /\ o.start = p * PAGE_SIZE + off
      /\ MMAP_MIN_ADDR <= p /\ p + np <= VADDR_END
      /\ 1 <= off /\ off + u <= np * PAGE_SIZE
      /\ PagesOf(o) = p .. (p + np - 1)
  BY <1>1, ObjectPlace, UsableBytes
<1>3. PICK x, y, z, e : x = p * PAGE_SIZE /\ y = np * PAGE_SIZE /\ z = (p + np) * PAGE_SIZE
                        /\ e = MMAP_MIN_ADDR * PAGE_SIZE
  OBVIOUS
<1>4. x \in Int /\ y \in Int /\ z = x + y /\ e \in Int /\ e <= x /\ z <= VADDR_END * PAGE_SIZE
      /\ VADDR_END * PAGE_SIZE \in Int
  <2>1. z = x + y
    BY <1>2, <1>3, Constants
  <2>2. e <= x /\ e \in Int /\ x \in Int
    BY <1>2, <1>3, Constants, MulMonotone
  <2>3. z <= VADDR_END * PAGE_SIZE /\ VADDR_END * PAGE_SIZE \in Int
    BY <1>2, <1>3, Constants, MulMonotone
  <2>4. y \in Int
    BY <1>2, <1>3, Constants
  <2> QED
    BY <2>1, <2>2, <2>3, <2>4
<1>5. b \in Int /\ x + off <= b /\ b < x + off + u
  <2>1. o.start = x + off
    BY <1>2, <1>3
  <2>2. b \in (x + off) .. (x + off + u - 1)
    BY <1>1, <2>1 DEF Bytes
  <2>3. x + off \in Int /\ u \in Int
    BY <1>2, <1>4
  <2> QED
    BY <2>2, <2>3
<1>6. b \in Nat /\ e < b /\ x <= b /\ b < z /\ b < VADDR_END * PAGE_SIZE
  <2>1. e \in Nat
    BY <1>3, Constants
  <2>2. off \in Int /\ 1 <= off /\ u \in Int /\ off + u <= y
    BY <1>2, <1>3
  <2>3. PICK v : v = VADDR_END * PAGE_SIZE
    OBVIOUS
  <2>4. x \in Int /\ y \in Int /\ z = x + y /\ e <= x /\ z <= v /\ v \in Int
    BY <1>4, <2>3
  <2>5. b \in Nat /\ e < b /\ x <= b /\ b < z /\ b < v
    BY <1>5, <2>1, <2>2, <2>4
  <2> QED
    BY <2>3, <2>5
<1>7. p <= b \div PAGE_SIZE /\ b \div PAGE_SIZE < p + np /\ b \div PAGE_SIZE \in Int
  <2>1. p \in Int /\ p + np \in Int /\ PAGE_SIZE \in Nat /\ PAGE_SIZE > 0
    BY <1>2, Constants
  <2> QED
    BY <1>3, <1>6, <2>1, DivBounds, DivMod
<1>8. b \div PAGE_SIZE \in PagesOf(o)
  BY <1>2, <1>7
<1>9. b < 2 ^ WIDTH
  BY <1>4, <1>6, Constants
<1> QED
  BY <1>3, <1>6, <1>8, <1>9

\* No byte is in two objects.
LEMMA BytesApart ==
  ASSUME NEW h, HeapOK(h), NEW a \in h.objs, NEW o \in h.objs, NEW b, b \in Bytes(a), b \in Bytes(o)
  PROVE  a = o
<1>1. b \div PAGE_SIZE \in PagesOf(a) /\ b \div PAGE_SIZE \in PagesOf(o)
  BY BytesPlace
<1> QED
  BY <1>1 DEF HeapOK

LEMMA StartInBytes ==
  ASSUME NEW h, HeapOK(h), NEW o \in h.objs
  PROVE  o.start \in Bytes(o) /\ o.start \in Nat \ {0} /\ ObjectAt(h, o.start) = o
<1>1. o.start \in Nat /\ Usable(o) \in Nat \ {0}
  BY ObjectPlace, UsableBytes
<1>2. o.start \in Bytes(o)
  BY <1>1 DEF Bytes
<1>3. o.start # 0
  BY <1>2, BytesPlace, Constants
<1>4. \A a \in h.objs : o.start \in Bytes(a) => a = o
  BY <1>2, BytesApart
<1> QED
  BY <1>1, <1>2, <1>3, <1>4 DEF ObjectAt

-----------------------------------------------------------------------------
(* xxmalloc and xxfree.                                                    *)

\* An object on pages of no other can be added when a watermark moves past it.
LEMMA HeapGrows ==
  ASSUME NEW h, HeapOK(h), NEW g, NEW o \in Objects,
         g \in [objs  : {h.objs \cup {o}},
                high  : h.high .. LARGE_OBJ_VADDR_START,
                large : h.large .. VADDR_END],
         Placed(g, o), \A a \in h.objs : PagesOf(a) \cap PagesOf(o) = {}
  PROVE  HeapOK(g) /\ o \notin h.objs
<1>1. /\ h.objs \in SUBSET Objects
      /\ h.high \in Nat /\ MMAP_MIN_ADDR <= h.high
      /\ h.large \in Nat /\ LARGE_OBJ_VADDR_START <= h.large
  BY Constants DEF HeapOK
<1>2. /\ g.objs = h.objs \cup {o}
      /\ g.high \in Int /\ h.high <= g.high /\ g.high <= LARGE_OBJ_VADDR_START
      /\ g.large \in Int /\ h.large <= g.large /\ g.large <= VADDR_END
  BY <1>1, Constants
<1>3. g.high \in MMAP_MIN_ADDR .. LARGE_OBJ_VADDR_START /\ g.large \in LARGE_OBJ_VADDR_START .. VADDR_END
  BY <1>1, <1>2, Constants
<1>4. g \in [objs  : SUBSET Objects,
             high  : MMAP_MIN_ADDR .. LARGE_OBJ_VADDR_START,
             large : LARGE_OBJ_VADDR_START .. VADDR_END]
  BY <1>1, <1>2, <1>3
<1>5. ASSUME NEW a \in h.objs
      PROVE  Placed(g, a)
  <2>1. Placed(h, a)
    BY DEF HeapOK
  <2>2. PICK p : p = a.start \div PAGE_SIZE
    OBVIOUS
  <2>3. p \in Int
    BY <2>2, ObjectPlace
  <2>4. CASE IsBig(a.size)
    <3>1. PICK n : n = p + NumPages(a.size)
      OBVIOUS
    <3>2. n \in Int
      BY <2>2, <2>4, <3>1, ObjectPlace DEF NumPagesOf
    <3>3. n <= g.large
      BY <1>1, <1>2, <2>1, <2>2, <2>4, <3>1, <3>2 DEF Placed
    <3> QED
      BY <2>1, <2>2, <2>4, <3>1, <3>3 DEF Placed
  <2>5. CASE ~IsBig(a.size)
    <3>1. p < g.high
      BY <1>1, <1>2, <2>1, <2>2, <2>3, <2>5 DEF Placed
    <3> QED
      BY <2>1, <2>2, <2>5, <3>1 DEF Placed
  <2> QED
    BY <2>4, <2>5
<1>6. \A a, b \in g.objs : a # b => PagesOf(a) \cap PagesOf(b) = {}
  BY <1>2 DEF HeapOK
<1>7. o \notin h.objs
  <2>1. ASSUME o \in h.objs PROVE FALSE
    <3>1. PagesOf(o) # {}
      <4>1. PICK p, n : p = o.start \div PAGE_SIZE /\ n = NumPagesOf(o)
        OBVIOUS
      <4>2. p \in Nat /\ n \in Nat \ {0} /\ PagesOf(o) = p .. (p + n - 1)
        BY <2>1, <4>1, ObjectPlace
      <4>3. p \in p .. (p + n - 1)
        BY <4>2
      <4> QED
        BY <4>2, <4>3
    <3> QED
      BY <2>1, <3>1
  <2> QED
    BY <2>1
<1> QED
  BY <1>2, <1>4, <1>5, <1>6, <1>7 DEF HeapOK

LEMMA HeapShrinks ==
  ASSUME NEW h, HeapOK(h), NEW g, NEW o,
         g \in [objs  : {h.objs \ {o}},
                high  : h.high .. LARGE_OBJ_VADDR_START,
                large : {h.large}]
  PROVE  HeapOK(g)
<1>1. /\ h.objs \in SUBSET Objects
      /\ h.high \in Nat /\ MMAP_MIN_ADDR <= h.high
      /\ h.large \in LARGE_OBJ_VADDR_START .. VADDR_END
  BY Constants DEF HeapOK
<1>2. /\ g.objs = h.objs \ {o}
      /\ g.high \in Int /\ h.high <= g.high /\ g.high <= LARGE_OBJ_VADDR_START
      /\ g.large = h.large
  BY <1>1, Constants
<1>3. g.high \in MMAP_MIN_ADDR .. LARGE_OBJ_VADDR_START
  BY <1>1, <1>2, Constants
<1>4. g \in [objs  : SUBSET Objects,
             high  : MMAP_MIN_ADDR .. LARGE_OBJ_VADDR_START,
             large : LARGE_OBJ_VADDR_START .. VADDR_END]
  BY <1>1, <1>2, <1>3
<1>5. ASSUME NEW a \in h.objs
      PROVE  Placed(g, a)
  <2>1. Placed(h, a)
    BY DEF HeapOK
  <2>2. PICK p : p = a.start \div PAGE_SIZE
    OBVIOUS
  <2>3. p \in Int
    BY <2>2, ObjectPlace
  <2>4. CASE IsBig(a.size)
    BY <1>2, <2>1, <2>4 DEF Placed
  <2>5. CASE ~IsBig(a.size)
    <3>1. p < g.high
      BY <1>1, <1>2, <2>1, <2>2, <2>3, <2>5 DEF Placed
    <3> QED
      BY <2>1, <2>2, <2>5, <3>1 DEF Placed
  <2> QED
    BY <2>4, <2>5
<1> QED
  BY <1>2, <1>4, <1>5 DEF HeapOK

\* The page and the offset of an address.
LEMMA PageAndOffset ==
  ASSUME NEW p \in Int, NEW off \in 0 .. (PAGE_SIZE - 1)
  PROVE  (p * PAGE_SIZE + off) \div PAGE_SIZE = p /\ (p * PAGE_SIZE + off) % PAGE_SIZE = off
BY Constants, DivModUnique

\* Blocks and pages are multiples of a double.
LEMMA BlocksHoldDoubles ==
  ASSUME Modest
  PROVE  /\ \A t \in BlockTypes : BlockSize(t) % SIZEOF_DOUBLE = 0
         /\ PAGE_SIZE % SIZEOF_DOUBLE = 0
         /\ BYTE_ALIGNMENT % SIZEOF_DOUBLE = 0 /\ LARGE_HEADER % SIZEOF_DOUBLE = 0
<1>1. /\ MIN_BLOCK_SIZE % SIZEOF_DOUBLE = 0 /\ BYTE_ALIGNMENT % SIZEOF_DOUBLE = 0
      /\ LARGE_HEADER % SIZEOF_DOUBLE = 0
  BY DEF Modest
<1>2. ASSUME NEW k \in MAGIC_NUMBER .. PageShift
      PROVE  2 ^ k % SIZEOF_DOUBLE = 0
  <2>1. k \in 0 .. PageShift /\ MAGIC_NUMBER \in 0 .. k
    BY PageBytes DEF PageShift
  <2>2. MAGIC_NUMBER \in 0 .. PageShift /\ k \in 0 .. k
    BY <2>1, PageBytes DEF PageShift
  <2>3. 2 ^ k % 2 ^ MAGIC_NUMBER = 0 /\ 2 ^ MAGIC_NUMBER \in Nat /\ 2 ^ MAGIC_NUMBER > MAGIC_NUMBER
    BY <2>1, Powers
  <2>4. 2 ^ k \in Nat
    BY <2>1, <2>2, Powers
  <2>5. 2 ^ MAGIC_NUMBER > 0 /\ 2 ^ k \in Int
    BY <2>3, <2>4, PageBytes
  <2> QED
    BY <1>1, <2>3, <2>5, Constants, MultiplesOfMultiples DEF MIN_BLOCK_SIZE
<1>3. \A t \in BlockTypes : MAGIC_NUMBER + t \in MAGIC_NUMBER .. PageShift
  BY PageBytes DEF BlockTypes, PageShift
<1>4. PageShift \in MAGIC_NUMBER .. PageShift /\ PAGE_SIZE = 2 ^ PageShift
  BY PageBytes, LayoutAssumption DEF PageShift, LayoutAssumption
<1> QED
  BY <1>1, <1>2, <1>3, <1>4 DEF BlockSize

\* r is a call of xxmalloc that has made o.
Makes(h, r, o) ==
  /\ o \notin h.objs
  /\ r.heap.objs = h.objs \cup {o}
  /\ HeapOK(r.heap)
  /\ r.ptr = o.start

LEMMA LargeMakes ==
  ASSUME Modest, NEW h, HeapOK(h), NEW size \in 0 .. (2 ^ (WIDTH - 1) - 1), IsBig(size),
         h.large + NumPages(size) <= VADDR_END,
         NEW o, o = [start |-> h.large * PAGE_SIZE + LARGE_HEADER, size |-> size],
         NEW g, g = [objs |-> h.objs \cup {o}, high |-> h.high, large |-> h.large + NumPages(size)]
  PROVE  HeapOK(g) /\ o \notin h.objs
<1>1. PICK p, n : p = h.large /\ n = NumPages(size)
  OBVIOUS
<1>2. /\ p \in Nat /\ LARGE_OBJ_VADDR_START <= p /\ p <= VADDR_END
      /\ h.high \in Nat /\ h.high <= LARGE_OBJ_VADDR_START
  BY <1>1, Constants DEF HeapOK
<1>3. size \in Nat /\ n \in Nat \ {0} /\ p + n <= VADDR_END
  <2>1. size \in Nat
    BY WidthPowers
  <2> QED
    BY <1>1, <2>1, NumPagesHold, Constants
<1>4. /\ o.size = size /\ o.start = p * PAGE_SIZE + LARGE_HEADER
      /\ o.start \div PAGE_SIZE = p /\ o.start % PAGE_SIZE = LARGE_HEADER
  <2>1. p \in Int /\ LARGE_HEADER \in 0 .. (PAGE_SIZE - 1)
    BY <1>2, Constants
  <2> QED
    BY <1>1, <2>1, PageAndOffset
<1>5. o.start \in Nat
  <2>1. p * PAGE_SIZE \in Nat
    BY <1>2, Constants
  <2> QED
    BY <1>4, <2>1, Constants
<1>6. o.start % SIZEOF_DOUBLE = 0
  <2>1. PICK x : x = p * PAGE_SIZE
    OBVIOUS
  <2>2. SIZEOF_DOUBLE \in Nat /\ SIZEOF_DOUBLE > 0 /\ p \in Int /\ PAGE_SIZE \in Int
        /\ LARGE_HEADER \in Int
    BY <1>2, Constants
  <2>3. PAGE_SIZE % SIZEOF_DOUBLE = 0 /\ LARGE_HEADER % SIZEOF_DOUBLE = 0
    BY BlocksHoldDoubles
  <2>4. x % SIZEOF_DOUBLE = 0 /\ x \in Int
    <3>1. (p * PAGE_SIZE) % SIZEOF_DOUBLE = 0
      BY <2>2, <2>3, MultiplesMultiply
    <3>2. p * PAGE_SIZE \in Int
      BY <2>2
    <3> QED
      BY <2>1, <3>1, <3>2
  <2>5. (x + LARGE_HEADER) % SIZEOF_DOUBLE = 0
    BY <2>2, <2>3, <2>4, MultiplesAdd
  <2> QED
    BY <1>4, <2>1, <2>5
<1>7. o \in Objects
  BY <1>4, <1>5 DEF Objects
<1>8. g \in [objs  : {h.objs \cup {o}},
             high  : h.high .. LARGE_OBJ_VADDR_START,
             large : h.large .. VADDR_END]
  <2>1. h.high \in h.high .. LARGE_OBJ_VADDR_START /\ p + n \in p .. VADDR_END
    BY <1>2, <1>3, Constants
  <2> QED
    BY <1>1, <2>1
<1>9. Placed(g, o)
  <2>1. g.large = p + n
    BY <1>1
  <2>2. p + n <= g.large
    BY <1>2, <1>3, <2>1
  <2> QED
    BY <1>1, <1>2, <1>4, <1>6, <2>2 DEF Placed
<1>10. ASSUME NEW a \in h.objs
       PROVE  PagesOf(a) \cap PagesOf(o) = {}
  <2>1. PICK q, m : q = a.start \div PAGE_SIZE /\ m = NumPagesOf(a)
    OBVIOUS
  <2>2. q \in Nat /\ m \in Nat \ {0} /\ PagesOf(a) = q .. (q + m - 1)
        /\ (IsBig(a.size) => q + m <= p) /\ (~IsBig(a.size) => q < h.high /\ m = 1)
    BY <1>1, <2>1, ObjectPlace
  <2>3. q + m <= p
    BY <1>2, <2>2, Constants
  <2>4. PagesOf(o) = p .. (p + n - 1)
    BY <1>1, <1>4 DEF PagesOf
  <2> QED
    BY <1>2, <1>3, <2>2, <2>3, <2>4
<1> QED
  BY <1>7, <1>8, <1>9, <1>10, HeapGrows

LEMMA SmallMakes ==
  ASSUME Modest, NEW h, HeapOK(h), NEW size \in 0 .. (2 ^ (WIDTH - 1) - 1), ~IsBig(size),
         SmallRoom(h), NEW off \in SlotOffsets(BlockType(size)),
         NEW o, o = [start |-> h.high * PAGE_SIZE + off, size |-> size],
         NEW g, g = [objs |-> h.objs \cup {o}, high |-> h.high + 1, large |-> h.large]
  PROVE  HeapOK(g) /\ o \notin h.objs
<1>1. PICK p, s : p = h.high /\ s = BlockSize(BlockType(size))
  OBVIOUS
<1>2. /\ p \in Nat /\ MMAP_MIN_ADDR <= p /\ p < LARGE_OBJ_VADDR_START
      /\ h.large \in Nat /\ LARGE_OBJ_VADDR_START <= h.large /\ h.large <= VADDR_END
  BY <1>1, Constants DEF HeapOK, SmallRoom
<1>3. size \in Nat /\ BlockType(size) \in BlockTypes
  <2>1. size \in Nat
    BY WidthPowers
  <2>2. size <= LARGEST_BLOCK_SIZE
    BY <2>1, Constants DEF IsBig
  <2> QED
    BY <2>1, <2>2, ClassHolds
<1>4. /\ s \in Nat \ {0} /\ s + BYTE_ALIGNMENT <= PAGE_SIZE /\ s % SIZEOF_DOUBLE = 0
      /\ PAGE_SIZE % SIZEOF_DOUBLE = 0 /\ BYTE_ALIGNMENT % SIZEOF_DOUBLE = 0
  BY <1>1, <1>3, BlockSizes, BlocksHoldDoubles
<1>5. /\ off \in BYTE_ALIGNMENT .. (PAGE_SIZE - 1) /\ (off - BYTE_ALIGNMENT) % s = 0
      /\ off = BYTE_ALIGNMENT \/ off < PAGE_SIZE - 2 * s
  BY <1>1 DEF SlotOffsets
<1>6. off \in Nat /\ off \in 0 .. (PAGE_SIZE - 1) /\ BYTE_ALIGNMENT <= off /\ off + s <= PAGE_SIZE
  BY <1>4, <1>5, Constants
<1>7. /\ o.size = size /\ o.start = p * PAGE_SIZE + off
      /\ o.start \div PAGE_SIZE = p /\ o.start % PAGE_SIZE = off
  <2>1. p \in Int
    BY <1>2
  <2> QED
    BY <1>1, <1>6, <2>1, PageAndOffset
<1>8. p * PAGE_SIZE \in Nat /\ p * PAGE_SIZE \in Int
  BY <1>2, Constants
<1>9. o.start \in Nat
  BY <1>6, <1>7, <1>8
<1>10. o.start % SIZEOF_DOUBLE = 0
  <2>1. PICK d : d = off - BYTE_ALIGNMENT
    OBVIOUS
  <2>2. d \in Int /\ off = d + BYTE_ALIGNMENT /\ d % s = 0
    BY <1>5, <1>6, <2>1, Constants
  <2>3. d % SIZEOF_DOUBLE = 0
    <3>1. s \in Nat /\ s > 0
      BY <1>4
    <3> QED
      BY <1>4, <2>2, <3>1, Constants, MultiplesOfMultiples
  <2>4. off % SIZEOF_DOUBLE = 0
    <3>1. BYTE_ALIGNMENT \in Int
      BY Constants
    <3> QED
      BY <1>4, <2>2, <2>3, <3>1, Constants, MultiplesAdd
  <2>5. PICK x : x = p * PAGE_SIZE
    OBVIOUS
  <2>6. SIZEOF_DOUBLE \in Nat /\ SIZEOF_DOUBLE > 0 /\ p \in Int /\ PAGE_SIZE \in Int /\ off \in Int
    BY <1>2, <1>6, Constants
  <2>7. x % SIZEOF_DOUBLE = 0 /\ x \in Int
    <3>1. (p * PAGE_SIZE) % SIZEOF_DOUBLE = 0
      BY <1>4, <2>6, MultiplesMultiply
    <3> QED
      BY <1>8, <2>5, <3>1
  <2>8. (x + off) % SIZEOF_DOUBLE = 0
    BY <2>4, <2>6, <2>7, MultiplesAdd
  <2> QED
    BY <1>7, <2>5, <2>8
<1>11. o \in Objects
  BY <1>7, <1>9 DEF Objects
<1>12. g \in [objs  : {h.objs \cup {o}},
              high  : h.high .. LARGE_OBJ_VADDR_START,
              large : h.large .. VADDR_END]
  <2>1. p + 1 \in p .. LARGE_OBJ_VADDR_START /\ h.large \in h.large .. VADDR_END
    BY <1>2, Constants
  <2> QED
    BY <1>1, <2>1
<1>13. Placed(g, o)
  <2>1. g.high = p + 1
    BY <1>1
  <2>2. p < g.high
    BY <1>2, <2>1
  <2>3. Usable(o) = s /\ ~IsBig(o.size)
    BY <1>1, <1>7 DEF Usable
  <2> QED
    BY <1>2, <1>6, <1>7, <1>10, <2>2, <2>3 DEF Placed
<1>14. ASSUME NEW a \in h.objs
       PROVE  PagesOf(a) \cap PagesOf(o) = {}
  <2>1. PICK q, m : q = a.start \div PAGE_SIZE /\ m = NumPagesOf(a)
    OBVIOUS
  <2>2. q \in Nat /\ m \in Nat \ {0} /\ PagesOf(a) = q .. (q + m - 1)
        /\ (IsBig(a.size) => LARGE_OBJ_VADDR_START <= q) /\ (~IsBig(a.size) => q < p /\ m = 1)
    BY <1>1, <2>1, ObjectPlace
  <2>3. PagesOf(o) = p .. p
    <3>1. p + 1 - 1 = p
      BY <1>2
    <3> QED
      BY <1>7, <3>1 DEF PagesOf
  <2>4. p \notin PagesOf(a)
    <3>1. CASE IsBig(a.size)
      BY <1>2, <2>2, <3>1, Constants
    <3>2. CASE ~IsBig(a.size)
      BY <1>2, <2>2, <3>2
    <3> QED
      BY <3>1, <3>2
  <2>5. \A x \in p .. p : x = p
    BY <1>2
  <2> QED
    BY <2>3, <2>4, <2>5
<1> QED
  BY <1>11, <1>12, <1>13, <1>14, HeapGrows

LEMMA xxmallocMakes ==
  ASSUME Modest, NEW h, HeapOK(h), NEW size \in 0 .. (2 ^ (WIDTH - 1) - 1),
         NEW r \in xxmalloc(h, size)
  PROVE  \E o : Makes(h, r, o) /\ o.size = size
<1>1. CASE IsBig(size)
  <2>1. h.large + NumPages(size) <= VADDR_END
    <3>1. h.large + NumPages(size) \in Int /\ VADDR_END \in Int
      <4>1. size \in Nat
        BY WidthPowers
      <4>2. NumPages(size) \in Nat /\ h.large \in Nat
        BY <4>1, NumPagesHold, Constants DEF HeapOK
      <4> QED
        BY <4>2, Constants
    <3>2. ~(h.large + NumPages(size) > VADDR_END)
      BY <1>1 DEF xxmalloc
    <3> QED
      BY <3>1, <3>2
  <2>2. ~(h.large + NumPages(size) > VADDR_END)
    BY <1>1 DEF xxmalloc
  <2>3. PICK o : o = [start |-> h.large * PAGE_SIZE + LARGE_HEADER, size |-> size]
    OBVIOUS
  <2>4. PICK g : g = [objs |-> h.objs \cup {o}, high |-> h.high, large |-> h.large + NumPages(size)]
    OBVIOUS
  <2>5. r = [ptr |-> h.large * PAGE_SIZE + LARGE_HEADER, heap |-> g]
    BY <1>1, <2>2, <2>3, <2>4 DEF xxmalloc
  <2>6. HeapOK(g) /\ o \notin h.objs
    BY <1>1, <2>1, <2>3, <2>4, LargeMakes
  <2> QED
    BY <2>3, <2>4, <2>5, <2>6 DEF Makes
<1>2. CASE ~IsBig(size)
  <2>1. PICK off \in SlotOffsets(BlockType(size)) :
          SmallRoom(h) /\ r = [ptr  |-> h.high * PAGE_SIZE + off,
                               heap |-> [objs |-> h.objs \cup
                                                    {[start |-> h.high * PAGE_SIZE + off,
                                                      size |-> size]},
                                         high |-> h.high + 1, large |-> h.large]]
    BY <1>2 DEF xxmalloc
  <2>3. PICK o : o = [start |-> h.high * PAGE_SIZE + off, size |-> size]
    OBVIOUS
  <2>4. PICK g : g = [objs |-> h.objs \cup {o}, high |-> h.high + 1, large |-> h.large]
    OBVIOUS
  <2>5. r = [ptr |-> h.high * PAGE_SIZE + off, heap |-> g]
    BY <2>1, <2>3, <2>4
  <2>6. HeapOK(g) /\ o \notin h.objs
    BY <1>2, <2>1, <2>3, <2>4, SmallMakes
  <2> QED
    BY <2>3, <2>4, <2>5, <2>6 DEF Makes
<1> QED
  BY <1>1, <1>2

\* xxfree of a pointer to a byte of o.
LEMMA xxfreeFrees ==
  ASSUME NEW h, HeapOK(h), NEW o \in h.objs, NEW ptr \in Bytes(o), NEW g \in xxfree(h, ptr)
  PROVE  HeapOK(g) /\ g.objs = h.objs \ {o}
<1>1. ptr # NULL
  <2>1. ptr \in Nat /\ MMAP_MIN_ADDR * PAGE_SIZE < ptr /\ MMAP_MIN_ADDR * PAGE_SIZE \in Nat
    BY BytesPlace, Constants
  <2> QED
    BY <2>1 DEF NULL
<1>2. ObjectAt(h, ptr) = o
  BY BytesApart DEF ObjectAt
<1>3. /\ h.high \in Nat /\ h.high <= LARGE_OBJ_VADDR_START
      /\ h = [objs |-> h.objs, high |-> h.high, large |-> h.large]
  BY Constants DEF HeapOK
<1>4. g \in [objs  : {h.objs \ {o}}, high  : h.high .. LARGE_OBJ_VADDR_START, large : {h.large}]
  <2>1. CASE IsBig(o.size)
    <3>1. g = [h EXCEPT !.objs = @ \ {o}]
      BY <1>1, <1>2, <2>1 DEF xxfree
    <3>2. g = [objs |-> h.objs \ {o}, high |-> h.high, large |-> h.large]
      BY <1>3, <3>1
    <3>3. h.high \in h.high .. LARGE_OBJ_VADDR_START
      BY <1>3, Constants
    <3> QED
      BY <3>2, <3>3
  <2>2. CASE ~IsBig(o.size)
    <3>1. g = [h EXCEPT !.objs = @ \ {o}, !.high = @ + 1] /\ SmallRoom(h)
      BY <1>1, <1>2, <2>2 DEF xxfree
    <3>2. g = [objs |-> h.objs \ {o}, high |-> h.high + 1, large |-> h.large]
      BY <1>3, <3>1
    <3>3. h.high + 1 \in h.high .. LARGE_OBJ_VADDR_START
      BY <1>3, <3>1, Constants DEF SmallRoom
    <3> QED
      BY <3>2, <3>3
  <2> QED
    BY <2>1, <2>2
<1>5. g.objs = h.objs \ {o}
  BY <1>4
<1> QED
  BY <1>4, <1>5, HeapShrinks

-----------------------------------------------------------------------------
(* What the functions return.                                              *)

\* The pointer and the bytes a caller asked for are of object o.
Fits(ptr, size, o) == {ptr} \cup (ptr .. (ptr + size - 1)) \subseteq Bytes(o)

\* What the program holds of object o: pointers that are not aligned are where
\* the object begins.
HeldIn(x, o) ==
  /\ Fits(x.ptr, x.size, o)
  /\ x.ptr % x.alignment = 0
  /\ x.alignment = 1 => x.ptr = o.start

\* A call returns NULL and leaves the objects as they are, or makes one object.
Served(h, r, size, alignment) ==
  /\ HeapOK(r.heap)
  /\ \/ r.ptr = NULL /\ r.heap.objs = h.objs
     \/ \E o : /\ o \notin h.objs /\ r.heap.objs = h.objs \cup {o}
               /\ HeldIn([ptr |-> r.ptr, size |-> size, alignment |-> alignment], o)

LEMMA ModOne ==
  ASSUME NEW n \in Int
  PROVE  n % 1 = 0
<1>1. (n * 1 + 0) % 1 = 0
  BY DivModUnique
<1> QED
  BY <1>1

LEMMA StartFits ==
  ASSUME NEW h, HeapOK(h), NEW o \in h.objs, NEW size \in Nat, size <= Usable(o)
  PROVE  Fits(o.start, size, o)
<1>1. PICK s, u : s = o.start /\ u = Usable(o)
  OBVIOUS
<1>2. s \in Nat /\ u \in Nat \ {0}
  BY <1>1, ObjectPlace, UsableBytes
<1>3. s \in s .. (s + u - 1) /\ s .. (s + size - 1) \subseteq s .. (s + u - 1)
  BY <1>1, <1>2
<1> QED
  BY <1>1, <1>3 DEF Fits, Bytes

LEMMA mallocMakes ==
  ASSUME Modest, NEW h, HeapOK(h), NEW size \in Nat, NEW r \in malloc(h, size)
  PROVE  \/ r = [heap |-> h, ptr |-> NULL]
         \/ /\ size \in 0 .. (2 ^ (WIDTH - 1) - 1)
            /\ \E o : Makes(h, r, o) /\ o.size = size
<1>1. CASE TopBit(size)
  BY <1>1 DEF malloc, Null
<1>2. CASE ~TopBit(size)
  <2>1. size \in 0 .. (2 ^ (WIDTH - 1) - 1)
    BY <1>2, WidthPowers DEF TopBit
  <2>2. r \in xxmalloc(h, size)
    BY <1>2 DEF malloc
  <2> QED
    BY <2>1, <2>2, xxmallocMakes
<1> QED
  BY <1>1, <1>2

\* An object that holds `size` bytes serves the call that made it.
LEMMA MadeServes ==
  ASSUME NEW h, NEW r, NEW o, Makes(h, r, o), NEW size \in Nat, size <= o.size
  PROVE  /\ Served(h, r, size, 1)
         /\ Served(h, r, size, SIZEOF_DOUBLE)
<1>1. HeapOK(r.heap) /\ o \in r.heap.objs /\ o \notin h.objs /\ r.heap.objs = h.objs \cup {o}
      /\ r.ptr = o.start
  BY DEF Makes
<1>2. o.size \in Nat /\ o.start \in Nat
  BY <1>1, ObjectPlace
<1>3. Usable(o) \in Nat /\ o.size <= Usable(o)
  BY <1>2, UsableBytes
<1>4. Fits(r.ptr, size, o)
  <2>1. size <= Usable(o)
    BY <1>2, <1>3
  <2> QED
    BY <1>1, <2>1, StartFits
<1>5. r.ptr % 1 = 0 /\ r.ptr % SIZEOF_DOUBLE = 0
  <2>1. o.start \in Int
    BY <1>2
  <2>2. o.start % 1 = 0
    BY <2>1, ModOne
  <2>3. Placed(r.heap, o)
    BY <1>1 DEF HeapOK
  <2> QED
    BY <1>1, <2>2, <2>3 DEF Placed
<1> QED
  BY <1>1, <1>4, <1>5 DEF Served, HeldIn

LEMMA NullServes ==
  ASSUME NEW h, HeapOK(h), NEW size, NEW alignment
  PROVE  Served(h, [heap |-> h, ptr |-> NULL], size, alignment)
BY DEF Served

LEMMA mallocServes ==
  ASSUME Modest, NEW h, HeapOK(h), NEW size \in Nat, NEW r \in malloc(h, size)
  PROVE  Served(h, r, size, 1) /\ Served(h, r, size, SIZEOF_DOUBLE)
<1>1. CASE r = [heap |-> h, ptr |-> NULL]
  BY <1>1, NullServes
<1>2. CASE \E o : Makes(h, r, o) /\ o.size = size
  <2>1. PICK o : Makes(h, r, o) /\ o.size = size
    BY <1>2
  <2>2. size <= o.size
    BY <2>1
  <2> QED
    BY <2>1, <2>2, MadeServes
<1> QED
  BY <1>1, <1>2, mallocMakes

\* calloc finds the product that a size_t does not hold.
LEMMA callocServes ==
  ASSUME Modest, NEW h, HeapOK(h), NEW nelem \in Nat, NEW elsize \in Nat,
         NEW r \in calloc(h, nelem, elsize)
  PROVE  Served(h, r, nelem * elsize, 1)
<1>1. PICK n, m : n = Wrap(nelem * elsize) /\ m = nelem * elsize
  OBVIOUS
<1>2. m \in Nat /\ n \in Nat /\ n <= m
  BY <1>1, WrapSmall
<1>3. CASE elsize # 0 /\ nelem # n \div elsize
  BY <1>1, <1>3, NullServes DEF calloc, Null
<1>4. CASE ~(elsize # 0 /\ nelem # n \div elsize)
  <2>1. r \in malloc(h, n)
    BY <1>1, <1>4 DEF calloc
  <2>2. n = m
    <3>1. CASE elsize = 0
      BY <1>1, <1>2, <3>1
    <3>2. CASE elsize # 0
      <4>1. elsize > 0 /\ nelem = n \div elsize
        BY <1>4, <3>2
      <4>2. n % elsize \in 0 .. (elsize - 1) /\ n = elsize * nelem + (n % elsize)
        BY <1>2, <4>1, DivMod
      <4>3. elsize * nelem = m
        BY <1>1, Commute
      <4>4. n >= m
        BY <1>2, <4>2, <4>3
      <4> QED
        BY <1>2, <4>4
    <3> QED
      BY <3>1, <3>2
  <2> QED
    BY <1>1, <1>2, <2>1, <2>2, mallocServes
<1> QED
  BY <1>3, <1>4

LEMMA PowersPositive ==
  ASSUME NEW n, PowerOfTwo(n)
  PROVE  n \in Nat \ {0}
<1>1. PICK k \in 0 .. (WIDTH - 1) : n = 2 ^ k
  BY DEF PowerOfTwo
<1>2. k \in 0 .. WIDTH
  BY Constants
<1> QED
  BY <1>1, <1>2, WidthPowers

\* The next address that is aligned, when it is one.
LEMMA AlignUpAligns ==
  ASSUME NEW ptr \in Nat, NEW alignment \in Nat \ {0}, ptr + alignment - 1 < 2 ^ WIDTH
  PROVE  /\ AlignUp(ptr, alignment) \in ptr .. (ptr + alignment - 1)
         /\ AlignUp(ptr, alignment) % alignment = 0
<1>1. PICK n, m : n = ptr + alignment - 1 /\ m = n % alignment
  OBVIOUS
<1>2. n \in Nat /\ n \in Int
  BY <1>1
<1>3. Wrap(n) = n
  BY <1>1, <1>2, WrapSmall
<1>4. AlignUp(ptr, alignment) = n - m
  BY <1>1, <1>3 DEF AlignUp
<1>5. (n - (n % alignment)) % alignment = 0 /\ n % alignment \in 0 .. (alignment - 1)
  <2>1. alignment \in Nat /\ alignment > 0
    OBVIOUS
  <2> QED
    BY <1>2, <2>1, RoundedDown
<1>6. n - m \in ptr .. (ptr + alignment - 1)
  BY <1>1, <1>2, <1>5
<1> QED
  BY <1>1, <1>4, <1>5, <1>6

LEMMA AlignUpNull ==
  ASSUME NEW alignment \in Nat \ {0}, alignment <= 2 ^ WIDTH
  PROVE  AlignUp(NULL, alignment) = NULL
<1>1. PICK q : q = AlignUp(0, alignment)
  OBVIOUS
<1>2. q \in 0 .. (alignment - 1) /\ q % alignment = 0
  <2>1. 0 + alignment - 1 < 2 ^ WIDTH /\ 0 \in Nat
    BY Constants
  <2>2. AlignUp(0, alignment) \in 0 .. (0 + alignment - 1) /\ AlignUp(0, alignment) % alignment = 0
    BY <2>1, AlignUpAligns
  <2> QED
    BY <1>1, <2>2
<1>3. q % alignment = q
  BY <1>2, BelowDivisor
<1> QED
  BY <1>1, <1>2, <1>3 DEF NULL

\* A padded object has room for the bytes and for those skipped before them.
LEMMA AlignedServes ==
  ASSUME Modest, NEW h, HeapOK(h), NEW size \in 0 .. (2 ^ (WIDTH - 1) - 1),
         NEW alignment, PowerOfTwo(alignment), 4 * alignment <= 2 ^ WIDTH,
         NEW r \in Aligned(h, alignment, size)
  PROVE  Served(h, r, size, alignment)
<1>1. PICK s \in malloc(h, PaddedSize(size, alignment)) :
         r = [heap |-> s.heap, ptr |-> AlignUp(s.ptr, alignment)]
  BY DEF Aligned
<1>2. alignment \in Nat \ {0} /\ 2 ^ (WIDTH - 1) \in Nat /\ 2 ^ WIDTH = 2 * 2 ^ (WIDTH - 1)
      /\ 2 ^ WIDTH \in Nat
  BY PowersPositive, WidthPowers, Constants
<1>3. size \in Nat /\ size + 2 * alignment \in Nat /\ size + 2 * alignment < 2 ^ WIDTH
  <2>1. PICK w, v : w = 2 ^ (WIDTH - 1) /\ v = 2 ^ WIDTH
    OBVIOUS
  <2>2. w \in Nat /\ v = 2 * w /\ 4 * alignment <= v /\ size \in 0 .. (w - 1)
    BY <1>2, <2>1
  <2>3. size \in Nat /\ size + 2 * alignment \in Nat /\ size + 2 * alignment < v
    BY <1>2, <2>2
  <2> QED
    BY <2>1, <2>3
<1>4. PaddedSize(size, alignment) = size + 2 * alignment
  BY <1>3, WrapSmall DEF PaddedSize
<1>5. CASE s = [heap |-> h, ptr |-> NULL]
  <2>1. alignment <= 2 ^ WIDTH
    BY <1>2
  <2>2. r = [heap |-> h, ptr |-> NULL]
    BY <1>1, <1>2, <1>5, <2>1, AlignUpNull
  <2> QED
    BY <2>2, NullServes
<1>6. CASE \E o : Makes(h, s, o) /\ o.size = size + 2 * alignment
  <2>1. PICK o : Makes(h, s, o) /\ o.size = size + 2 * alignment
    BY <1>6
  <2>2. HeapOK(s.heap) /\ o \in s.heap.objs /\ o \notin h.objs /\ s.heap.objs = h.objs \cup {o}
        /\ s.ptr = o.start
    BY <2>1 DEF Makes
  <2>3. PICK a, u, q : a = o.start /\ u = Usable(o) /\ q = AlignUp(o.start, alignment)
    OBVIOUS
  <2>4. a \in Nat /\ u \in Nat /\ size + 2 * alignment <= u
    BY <1>3, <2>1, <2>2, <2>3, ObjectPlace, UsableBytes
  <2>5. Bytes(o) = a .. (a + u - 1)
    BY <2>3 DEF Bytes
  <2>6. a + u - 1 \in Bytes(o)
    BY <1>2, <1>3, <2>4, <2>5
  <2>7. a + u - 1 < 2 ^ WIDTH
    BY <2>2, <2>6, BytesPlace
  <2>8. a + alignment - 1 < 2 ^ WIDTH
    BY <1>2, <1>3, <2>4, <2>7
  <2>9. q \in a .. (a + alignment - 1) /\ q % alignment = 0
    BY <1>2, <2>3, <2>4, <2>8, AlignUpAligns
  <2>10. Fits(q, size, o)
    <3>1. q \in a .. (a + u - 1) /\ q .. (q + size - 1) \subseteq a .. (a + u - 1)
      BY <1>2, <1>3, <2>4, <2>9
    <3> QED
      BY <2>5, <3>1 DEF Fits
  <2>11. alignment = 1 => q = a
    BY <2>4, <2>9
  <2>12. r.heap = s.heap /\ r.ptr = q
    BY <1>1, <2>2, <2>3
  <2>13. HeldIn([ptr |-> r.ptr, size |-> size, alignment |-> alignment], o)
    BY <2>3, <2>9, <2>10, <2>11, <2>12 DEF HeldIn
  <2> QED
    BY <2>2, <2>12, <2>13 DEF Served
<1> QED
  BY <1>1, <1>3, <1>4, <1>5, <1>6, mallocMakes

LEMMA memalignServes ==
  ASSUME Modest, NEW h, HeapOK(h), NEW size \in Nat, NEW alignment \in Alignments \cup {VALLOC_ALIGNMENT},
         NEW r \in memalign(h, alignment, size)
  PROVE  Served(h, r, size, alignment)
<1>1. CASE ~PowerOfTwo(alignment)
  BY <1>1, NullServes DEF memalign, Null
<1>2. CASE PowerOfTwo(alignment) /\ alignment = SIZEOF_DOUBLE
  <2>1. r \in malloc(h, size)
    BY <1>2 DEF memalign
  <2> QED
    BY <1>2, <2>1, mallocServes
<1>3. CASE PowerOfTwo(alignment) /\ alignment # SIZEOF_DOUBLE
  <2>1. alignment \in Nat \ {0} /\ alignment <= MMAP_MIN_ADDR * PAGE_SIZE /\ 4 * alignment <= 2 ^ WIDTH
    BY <1>3, PowersPositive DEF Modest
  <2>2. PICK f \in malloc(h, size) :
          r \in IF f.ptr % alignment = f.ptr
                THEN {f}
                ELSE UNION {Aligned(g, alignment, size) : g \in xxfree(f.heap, f.ptr)}
    BY <1>3, Zenon DEF memalign
  <2>3. CASE f = [heap |-> h, ptr |-> NULL]
    <3>1. f.ptr % alignment = f.ptr
      <4>1. 0 \in Nat /\ 0 < alignment
        BY <2>1
      <4>2. 0 % alignment = 0
        BY <2>1, <4>1, BelowDivisor
      <4> QED
        BY <2>3, <4>2 DEF NULL
    <3>2. r = f
      BY <2>2, <3>1
    <3> QED
      BY <2>3, <3>2, NullServes
  <2>4. CASE size \in 0 .. (2 ^ (WIDTH - 1) - 1) /\ \E o : Makes(h, f, o) /\ o.size = size
    <3>1. PICK o : Makes(h, f, o) /\ o.size = size
      BY <2>4
    <3>2. HeapOK(f.heap) /\ o \in f.heap.objs /\ o \notin h.objs /\ f.heap.objs = h.objs \cup {o}
          /\ f.ptr = o.start
      BY <3>1 DEF Makes
    <3>3. f.ptr \in Bytes(o) /\ f.ptr \in Nat /\ MMAP_MIN_ADDR * PAGE_SIZE < f.ptr
          /\ MMAP_MIN_ADDR * PAGE_SIZE \in Int
      BY <3>2, StartInBytes, BytesPlace, Constants
    <3>4. f.ptr % alignment # f.ptr
      <4>1. f.ptr % alignment \in 0 .. (alignment - 1)
        BY <2>1, <3>3, DivMod
      <4> QED
        BY <2>1, <3>3, <4>1
    <3>5. PICK g \in xxfree(f.heap, f.ptr) : r \in Aligned(g, alignment, size)
      BY <2>2, <3>4
    <3>6. HeapOK(g) /\ g.objs = f.heap.objs \ {o}
      BY <3>2, <3>3, xxfreeFrees
    <3>7. g.objs = h.objs
      BY <3>2, <3>6
    <3>8. Served(g, r, size, alignment)
      BY <1>3, <2>1, <2>4, <3>5, <3>6, AlignedServes
    <3> QED
      BY <3>7, <3>8 DEF Served
  <2> QED
    BY <2>2, <2>3, <2>4, mallocMakes
<1> QED
  BY <1>1, <1>2, <1>3

\* What serves a larger request serves a smaller one.
LEMMA ServesLess ==
  ASSUME NEW h, NEW r, NEW more \in Nat, NEW alignment, Served(h, r, more, alignment),
         NEW size \in Nat, size <= more
  PROVE  Served(h, r, size, alignment)
<1>1. CASE r.ptr = NULL /\ r.heap.objs = h.objs
  BY <1>1 DEF Served
<1>2. ASSUME NEW o, o \notin h.objs, r.heap.objs = h.objs \cup {o},
             HeldIn([ptr |-> r.ptr, size |-> more, alignment |-> alignment], o)
      PROVE  Served(h, r, size, alignment)
  <2>1. HeapOK(r.heap)
    BY DEF Served
  <2>2. r.ptr \in Bytes(o) /\ r.ptr .. (r.ptr + more - 1) \subseteq Bytes(o)
    BY <1>2 DEF HeldIn, Fits
  <2>3. r.ptr \in Nat
    BY <1>2, <2>1, <2>2, BytesPlace
  <2>4. r.ptr .. (r.ptr + size - 1) \subseteq r.ptr .. (r.ptr + more - 1)
    BY <2>3
  <2>5. Fits(r.ptr, size, o)
    BY <2>2, <2>4 DEF Fits
  <2>6. HeldIn([ptr |-> r.ptr, size |-> size, alignment |-> alignment], o)
    BY <1>2, <2>5 DEF HeldIn
  <2> QED
    BY <1>2, <2>1, <2>6 DEF Served
<1> QED
  BY <1>1, <1>2 DEF Served

LEMMA alignedAllocServes ==
  ASSUME Modest, NEW h, HeapOK(h), NEW size \in Sizes, NEW alignment \in Alignments, alignment # 0,
         NEW r \in aligned_alloc(h, alignment, size)
  PROVE  Served(h, r, size, alignment)
<1>1. PICK n, m : n = size + alignment - (size % alignment) /\ m = size % alignment
  OBVIOUS
<1>2. size \in Nat /\ alignment \in Nat \ {0} /\ size + alignment < 2 ^ WIDTH /\ 2 ^ WIDTH \in Nat
  BY Constants, WrapperAssumption DEF WrapperAssumption, Modest
<1>3. m \in 0 .. (alignment - 1)
  BY <1>1, <1>2, DivMod
<1>4. n \in Nat /\ size <= n /\ n < 2 ^ WIDTH
  BY <1>1, <1>2, <1>3
<1>5. r \in memalign(h, alignment, n)
  BY <1>1, <1>4, WrapSmall DEF aligned_alloc
<1>6. Served(h, r, n, alignment)
  BY <1>4, <1>5, memalignServes
<1> QED
  BY <1>2, <1>4, <1>6, ServesLess

-----------------------------------------------------------------------------
(* The objects and what the program holds of them.                         *)

Holds(H) == H \subseteq [ptr : Nat, size : Nat, alignment : Alignments \cup {1, VALLOC_ALIGNMENT}]

\* Each pointer the program holds is to an object, and each object is behind
\* one of them.
Owns(objs, H) ==
  /\ \A x \in H : \E o \in objs : HeldIn(x, o)
  /\ \A o \in objs : \E x \in H : x.ptr \in Bytes(o)
  /\ \A x, y \in H : \A o \in objs : x.ptr \in Bytes(o) /\ y.ptr \in Bytes(o) => x = y

Good(h, H) == HeapOK(h) /\ Holds(H) /\ Owns(h.objs, H)

\* The inductive invariant.
WInv == Good(heap, held) /\ ended \in {"no", "sigfpe"}

LEMMA HeldInBytes ==
  ASSUME NEW x, NEW o, HeldIn(x, o)
  PROVE  x.ptr \in Bytes(o)
BY DEF HeldIn, Fits

LEMMA OwnsMade ==
  ASSUME NEW g, HeapOK(g), NEW objs, NEW o, o \notin objs, g.objs = objs \cup {o},
         NEW H, Owns(objs, H), NEW x, HeldIn(x, o)
  PROVE  Owns(g.objs, H \cup {x})
<1>1. x.ptr \in Bytes(o)
  BY HeldInBytes
<1>2. ASSUME NEW y \in H
      PROVE  y.ptr \notin Bytes(o)
  <2>1. PICK p \in objs : HeldIn(y, p)
    BY DEF Owns
  <2>2. y.ptr \in Bytes(p) /\ p \in g.objs /\ o \in g.objs /\ p # o
    BY <2>1, HeldInBytes
  <2> QED
    BY <2>2, BytesApart
<1>3. \A p \in objs : x.ptr \notin Bytes(p)
  <2>1. \A p \in objs : p \in g.objs /\ o \in g.objs /\ p # o
    OBVIOUS
  <2> QED
    BY <1>1, <2>1, BytesApart
<1>4. \A y \in H \cup {x} : \E p \in g.objs : HeldIn(y, p)
  BY DEF Owns
<1>5. \A p \in g.objs : \E y \in H \cup {x} : y.ptr \in Bytes(p)
  BY <1>1 DEF Owns
<1>6. ASSUME NEW y \in H \cup {x}, NEW z \in H \cup {x}, NEW p \in g.objs,
             y.ptr \in Bytes(p), z.ptr \in Bytes(p)
      PROVE  y = z
  <2>1. CASE p = o
    BY <1>2, <1>6, <2>1
  <2>2. CASE p \in objs
    <3>1. y \in H /\ z \in H
      BY <1>3, <1>6, <2>2
    <3> QED
      BY <1>6, <2>2, <3>1 DEF Owns
  <2> QED
    BY <2>1, <2>2
<1> QED
  BY <1>4, <1>5, <1>6 DEF Owns

LEMMA OwnsFreed ==
  ASSUME NEW h, HeapOK(h), NEW H, Owns(h.objs, H),
         NEW o \in h.objs, NEW x \in H, x.ptr \in Bytes(o)
  PROVE  Owns(h.objs \ {o}, H \ {x})
<1>1. ASSUME NEW y \in H \ {x}
      PROVE  \E p \in h.objs \ {o} : HeldIn(y, p)
  <2>1. PICK p \in h.objs : HeldIn(y, p)
    BY DEF Owns
  <2>2. p # o
    BY <2>1, HeldInBytes DEF Owns
  <2> QED
    BY <2>1, <2>2
<1>2. ASSUME NEW p \in h.objs \ {o}
      PROVE  \E y \in H \ {x} : y.ptr \in Bytes(p)
  <2>1. PICK y \in H : y.ptr \in Bytes(p)
    BY DEF Owns
  <2>2. y # x
    BY <2>1, BytesApart
  <2> QED
    BY <2>1, <2>2
<1>3. \A y, z \in H \ {x} : \A p \in h.objs \ {o} : y.ptr \in Bytes(p) /\ z.ptr \in Bytes(p) => y = z
  BY DEF Owns
<1> QED
  BY <1>1, <1>2, <1>3 DEF Owns

\* Another request for the object behind x.
LEMMA OwnsAnew ==
  ASSUME NEW h, HeapOK(h), NEW H, Owns(h.objs, H),
         NEW o \in h.objs, NEW x \in H, x.ptr \in Bytes(o), NEW y, HeldIn(y, o)
  PROVE  Owns(h.objs, (H \ {x}) \cup {y})
<1>1. PICK objs : objs = h.objs \ {o}
  OBVIOUS
<1>2. Owns(objs, H \ {x})
  BY <1>1, OwnsFreed
<1>3. o \notin objs /\ h.objs = objs \cup {o}
  BY <1>1
<1> QED
  BY <1>2, <1>3, OwnsMade

\* What a call that makes an object leaves behind.
LEMMA ServedKeeps ==
  ASSUME NEW h, NEW H, Good(h, H), NEW r, NEW size \in Nat,
         NEW alignment \in Alignments \cup {1, VALLOC_ALIGNMENT}, Served(h, r, size, alignment)
  PROVE  Good(r.heap, IF r.ptr = NULL THEN H
                      ELSE H \cup {[ptr |-> r.ptr, size |-> size, alignment |-> alignment]})
<1>1. HeapOK(r.heap) /\ Holds(H) /\ Owns(h.objs, H)
  BY DEF Good, Served
<1>2. CASE r.ptr = NULL /\ r.heap.objs = h.objs
  BY <1>1, <1>2 DEF Good
<1>3. ASSUME NEW o, o \notin h.objs, r.heap.objs = h.objs \cup {o},
             HeldIn([ptr |-> r.ptr, size |-> size, alignment |-> alignment], o)
      PROVE  Good(r.heap, IF r.ptr = NULL THEN H
                          ELSE H \cup {[ptr |-> r.ptr, size |-> size, alignment |-> alignment]})
  <2>1. PICK x : x = [ptr |-> r.ptr, size |-> size, alignment |-> alignment]
    OBVIOUS
  <2>2. HeldIn(x, o) /\ x.ptr = r.ptr
    BY <1>3, <2>1
  <2>3. r.ptr \in Nat /\ r.ptr # NULL
    <3>1. r.ptr \in Bytes(o) /\ o \in r.heap.objs
      BY <1>3, <2>2, HeldInBytes
    <3>2. r.ptr \in Nat /\ MMAP_MIN_ADDR * PAGE_SIZE < r.ptr /\ MMAP_MIN_ADDR * PAGE_SIZE \in Nat
      BY <1>1, <3>1, BytesPlace, Constants
    <3> QED
      BY <3>2 DEF NULL
  <2>4. Owns(r.heap.objs, H \cup {x})
    BY <1>1, <1>3, <2>2, OwnsMade
  <2>5. Holds(H \cup {x})
    BY <1>1, <2>1, <2>3 DEF Holds
  <2> QED
    BY <1>1, <2>1, <2>3, <2>4, <2>5 DEF Good
<1> QED
  BY <1>2, <1>3 DEF Served

LEMMA reallocCases ==
  ASSUME NEW h, NEW ptr, NEW size, NEW r \in realloc(h, ptr, size)
  PROVE  \E m \in malloc(h, size) :
           \/ /\ m.ptr # NULL /\ xxmalloc_usable_size(h, ptr) = xxmalloc_usable_size(m.heap, m.ptr)
              /\ \E g \in xxfree(m.heap, m.ptr) : r = [heap |-> g, ptr |-> ptr, ok |-> TRUE]
           \/ /\ m.ptr = NULL \/ xxmalloc_usable_size(h, ptr) # xxmalloc_usable_size(m.heap, m.ptr)
              /\ \E g \in xxfree(m.heap, ptr) :
                   r = [heap |-> g, ptr |-> m.ptr,
                        ok   |-> \/ m.ptr = NULL
                                 \/ Mapped(m.heap,
                                           ptr .. (ptr + CopySize(xxmalloc_usable_size(h, ptr), size) - 1))]
<1>1. PICK m \in malloc(h, size) :
        r \in IF m.ptr # NULL /\ xxmalloc_usable_size(h, ptr) = xxmalloc_usable_size(m.heap, m.ptr)
              THEN {[heap |-> g, ptr |-> ptr, ok |-> TRUE] : g \in xxfree(m.heap, m.ptr)}
              ELSE {[heap |-> g, ptr |-> m.ptr,
                     ok   |-> \/ m.ptr = NULL
                              \/ Mapped(m.heap,
                                        ptr .. (ptr + CopySize(xxmalloc_usable_size(h, ptr), size) - 1))] :
                      g \in xxfree(m.heap, ptr)}
  BY Zenon DEF realloc
<1>2. CASE m.ptr # NULL /\ xxmalloc_usable_size(h, ptr) = xxmalloc_usable_size(m.heap, m.ptr)
  BY <1>1, <1>2, Zenon
<1>3. CASE ~(m.ptr # NULL /\ xxmalloc_usable_size(h, ptr) = xxmalloc_usable_size(m.heap, m.ptr))
  BY <1>1, <1>3, Zenon
<1> QED
  BY <1>2, <1>3

\* realloc copies within the object and keeps one of the two.
LEMMA reallocKeeps ==
  ASSUME Modest, NEW h, NEW H, Good(h, H), NEW x \in H, x.alignment = 1, NEW size \in Nat,
         NEW r \in realloc(h, x.ptr, size)
  PROVE  /\ r.ok
         /\ Good(r.heap, (H \ {x}) \cup
                           (IF r.ptr = NULL THEN {}
                            ELSE {[ptr |-> r.ptr, size |-> size, alignment |-> 1]}))
<1>1. HeapOK(h) /\ Holds(H) /\ Owns(h.objs, H)
  BY DEF Good
<1>2. PICK o \in h.objs : HeldIn(x, o)
  BY <1>1 DEF Owns
<1>3. /\ x.ptr = o.start /\ x.ptr \in Bytes(o) /\ x.ptr \in Nat \ {0} /\ ObjectAt(h, x.ptr) = o
      /\ Usable(o) \in Nat
  <2>1. x.ptr = o.start
    BY <1>2 DEF HeldIn
  <2> QED
    BY <1>1, <2>1, StartInBytes, ObjectPlace, UsableBytes
<1>4. PICK m \in malloc(h, size) :
        \/ /\ m.ptr # NULL /\ Usable(o) = Usable(ObjectAt(m.heap, m.ptr))
           /\ \E g \in xxfree(m.heap, m.ptr) : r = [heap |-> g, ptr |-> x.ptr, ok |-> TRUE]
        \/ /\ m.ptr = NULL \/ Usable(o) # Usable(ObjectAt(m.heap, m.ptr))
           /\ \E g \in xxfree(m.heap, x.ptr) :
                r = [heap |-> g, ptr |-> m.ptr,
                     ok   |-> \/ m.ptr = NULL
                              \/ Mapped(m.heap, x.ptr .. (x.ptr + CopySize(Usable(o), size) - 1))]
  <2>1. xxmalloc_usable_size(h, x.ptr) = Usable(o)
    BY <1>3 DEF xxmalloc_usable_size
  <2>2. \A m : xxmalloc_usable_size(m.heap, m.ptr) = Usable(ObjectAt(m.heap, m.ptr))
    BY DEF xxmalloc_usable_size
  <2> QED
    BY <2>1, <2>2, reallocCases
<1>5. CASE m = [heap |-> h, ptr |-> NULL]
  <2>1. PICK g \in xxfree(h, x.ptr) : r.heap = g /\ r.ptr = NULL /\ r.ok
    BY <1>4, <1>5
  <2>2. HeapOK(g) /\ g.objs = h.objs \ {o}
    BY <1>1, <1>3, xxfreeFrees
  <2>3. Owns(g.objs, H \ {x})
    <3>1. Owns(h.objs \ {o}, H \ {x})
      BY <1>1, <1>3, OwnsFreed
    <3> QED
      BY <2>2, <3>1
  <2>4. Holds(H \ {x})
    BY <1>1 DEF Holds
  <2>5. Good(r.heap, H \ {x})
    BY <2>1, <2>2, <2>3, <2>4 DEF Good
  <2> QED
    BY <2>1, <2>5
<1>6. CASE \E n : Makes(h, m, n) /\ n.size = size
  <2>1. PICK n : Makes(h, m, n) /\ n.size = size
    BY <1>6
  <2>2. HeapOK(m.heap) /\ n \in m.heap.objs /\ n \notin h.objs /\ m.heap.objs = h.objs \cup {n}
        /\ m.ptr = n.start /\ o \in m.heap.objs /\ o # n
    BY <2>1 DEF Makes
  <2>3. /\ m.ptr \in Bytes(n) /\ m.ptr \in Nat \ {0} /\ ObjectAt(m.heap, m.ptr) = n
        /\ Usable(n) \in Nat /\ size <= Usable(n)
    BY <2>1, <2>2, StartInBytes, ObjectPlace, UsableBytes
  <2>4. m.ptr # NULL
    BY <2>3 DEF NULL
  <2>5. CASE Usable(o) = Usable(n)
    <3>1. PICK g \in xxfree(m.heap, m.ptr) : r.heap = g /\ r.ptr = x.ptr /\ r.ok
      BY <1>4, <2>3, <2>4, <2>5
    <3>2. HeapOK(g) /\ g.objs = h.objs
      <4>1. HeapOK(g) /\ g.objs = m.heap.objs \ {n}
        BY <2>2, <2>3, <3>1, xxfreeFrees
      <4> QED
        BY <2>2, <4>1
    <3>3. PICK y : y = [ptr |-> x.ptr, size |-> size, alignment |-> 1]
      OBVIOUS
    <3>4. HeldIn(y, o)
      <4>1. Fits(o.start, size, o)
        <5>1. size <= Usable(o)
          BY <2>3, <2>5
        <5> QED
          BY <1>1, <5>1, StartFits
      <4>2. x.ptr % 1 = 0
        <5>1. x.ptr \in Int
          BY <1>3
        <5> QED
          BY <5>1, ModOne
      <4> QED
        BY <1>3, <3>3, <4>1, <4>2 DEF HeldIn
    <3>5. Owns(g.objs, (H \ {x}) \cup {y})
      BY <1>1, <1>3, <3>2, <3>4, OwnsAnew
    <3>6. Holds((H \ {x}) \cup {y})
      BY <1>1, <1>3, <3>3 DEF Holds
    <3>7. Good(r.heap, (H \ {x}) \cup {y})
      BY <3>1, <3>2, <3>5, <3>6 DEF Good
    <3>8. r.ptr # NULL
      BY <1>3, <3>1 DEF NULL
    <3> QED
      BY <3>1, <3>3, <3>7, <3>8
  <2>6. CASE Usable(o) # Usable(n)
    <3>1. PICK g \in xxfree(m.heap, x.ptr) :
            /\ r.heap = g /\ r.ptr = m.ptr
            /\ Mapped(m.heap, x.ptr .. (x.ptr + CopySize(Usable(o), size) - 1)) => r.ok
      <4>1. PICK g \in xxfree(m.heap, x.ptr) :
              r = [heap |-> g, ptr |-> m.ptr,
                   ok   |-> \/ m.ptr = NULL
                            \/ Mapped(m.heap, x.ptr .. (x.ptr + CopySize(Usable(o), size) - 1))]
        BY <1>4, <2>3, <2>6, Zenon
      <4>2. Mapped(m.heap, x.ptr .. (x.ptr + CopySize(Usable(o), size) - 1)) => r.ok
        BY <4>1
      <4> QED
        BY <4>1, <4>2
    <3>2. HeapOK(g) /\ g.objs = m.heap.objs \ {o}
      BY <1>3, <2>2, xxfreeFrees
    <3>3. PICK y : y = [ptr |-> m.ptr, size |-> size, alignment |-> 1]
      OBVIOUS
    <3>4. HeldIn(y, n)
      <4>1. Fits(n.start, size, n)
        BY <2>2, <2>3, StartFits
      <4>2. n.start % 1 = 0
        <5>1. n.start \in Int
          BY <2>2, <2>3
        <5> QED
          BY <5>1, ModOne
      <4> QED
        BY <2>2, <3>3, <4>1, <4>2 DEF HeldIn
    <3>5. PICK K : K = H \cup {y}
      OBVIOUS
    <3>6. Owns(m.heap.objs, K)
      BY <1>1, <2>2, <3>4, <3>5, OwnsMade
    <3>7. Owns(m.heap.objs \ {o}, K \ {x})
      <4>1. x \in K
        BY <3>5
      <4> QED
        BY <1>3, <2>2, <3>6, <4>1, OwnsFreed
    <3>8. K \ {x} = (H \ {x}) \cup {y}
      <4>1. y.ptr \in Bytes(n)
        BY <2>3, <3>3
      <4>2. x # y
        BY <1>3, <2>2, <4>1, BytesApart
      <4> QED
        BY <3>5, <4>2
    <3>9. Holds((H \ {x}) \cup {y})
      BY <1>1, <2>3, <3>3 DEF Holds
    <3>10. Good(r.heap, (H \ {x}) \cup {y})
      BY <3>1, <3>2, <3>7, <3>8, <3>9 DEF Good
    <3>11. Mapped(m.heap, x.ptr .. (x.ptr + CopySize(Usable(o), size) - 1))
      <4>1. PICK a, u, c : a = x.ptr /\ u = Usable(o) /\ c = CopySize(Usable(o), size)
        OBVIOUS
      <4>2. c \in Nat /\ c <= u /\ a \in Nat /\ u \in Nat
        BY <1>3, <4>1 DEF CopySize
      <4>3. a .. (a + c - 1) \subseteq Bytes(o)
        <5>1. Bytes(o) = a .. (a + u - 1)
          BY <1>3, <4>1 DEF Bytes
        <5> QED
          BY <4>2, <5>1
      <4>4. \A b \in a .. (a + c - 1) : b \div PAGE_SIZE \in PagesOf(o)
        BY <1>1, <4>3, BytesPlace
      <4> QED
        BY <2>2, <4>1, <4>4 DEF Mapped
    <3>12. r.ptr # NULL
      BY <2>4, <3>1
    <3>13. r.ok
      BY <3>1, <3>11
    <3> QED
      BY <3>1, <3>3, <3>10, <3>12, <3>13
  <2> QED
    BY <2>3, <2>5, <2>6
<1> QED
  BY <1>1, <1>4, <1>5, <1>6, mallocMakes

\* malloc_good_size keeps nothing.
LEMMA goodSizeKeeps ==
  ASSUME Modest, NEW h, NEW H, Good(h, H), NEW size \in Nat, NEW g \in malloc_good_size(h, size)
  PROVE  Good(g, H)
<1>1. HeapOK(h)
  BY DEF Good
<1>2. PICK m \in malloc(h, size) : g \in xxfree(m.heap, m.ptr)
  BY DEF malloc_good_size
<1>3. CASE m = [heap |-> h, ptr |-> NULL]
  <2>1. g = h
    BY <1>2, <1>3 DEF xxfree
  <2> QED
    BY <2>1
<1>4. CASE \E n : Makes(h, m, n) /\ n.size = size
  <2>1. PICK n : Makes(h, m, n)
    BY <1>4
  <2>2. HeapOK(m.heap) /\ n \in m.heap.objs /\ n \notin h.objs /\ m.heap.objs = h.objs \cup {n}
        /\ m.ptr = n.start
    BY <2>1 DEF Makes
  <2>3. m.ptr \in Bytes(n)
    BY <2>2, StartInBytes
  <2>4. HeapOK(g) /\ g.objs = m.heap.objs \ {n}
    BY <1>2, <2>2, <2>3, xxfreeFrees
  <2>5. g.objs = h.objs
    BY <2>2, <2>4
  <2> QED
    BY <2>4, <2>5 DEF Good
<1> QED
  BY <1>1, <1>3, <1>4, mallocMakes

-----------------------------------------------------------------------------
(* The invariant.                                                          *)

LEMMA SizesNat ==
  /\ \A size \in Sizes : size \in Nat
  /\ PATH_MAX \in Sizes /\ PATH_MAX \in Nat
  /\ \A alignment \in Alignments : alignment \in Nat
<1>1. 2 ^ WIDTH \in Nat
  BY Constants
<1> QED
  BY <1>1, WrapperAssumption DEF WrapperAssumption

\* A call that gets what serves its request keeps the invariant.
LEMMA GetsKeeps ==
  ASSUME WInv, NEW r, NEW size \in Nat, NEW alignment \in Alignments \cup {1, VALLOC_ALIGNMENT},
         Served(heap, r, size, alignment), Gets(r, size, alignment)
  PROVE  WInv'
<1>1. Good(heap, held)
  BY DEF WInv
<1>2. Good(r.heap, IF r.ptr = NULL THEN held
                   ELSE held \cup {[ptr |-> r.ptr, size |-> size, alignment |-> alignment]})
  BY <1>1, ServedKeeps
<1>3. heap' = r.heap /\ ended' = ended
      /\ held' = (IF r.ptr = NULL THEN held
                  ELSE held \cup {[ptr |-> r.ptr, size |-> size, alignment |-> alignment]})
  BY DEF Gets
<1> QED
  BY <1>2, <1>3 DEF WInv

LEMMA InitWInv == Init => WInv
<1> SUFFICES ASSUME Init PROVE WInv
  OBVIOUS
<1>1. heap = [objs |-> {}, high |-> MMAP_MIN_ADDR, large |-> LARGE_OBJ_VADDR_START]
      /\ held = {} /\ ended = "no"
  BY DEF Init
<1>2. MMAP_MIN_ADDR \in MMAP_MIN_ADDR .. LARGE_OBJ_VADDR_START
      /\ LARGE_OBJ_VADDR_START \in LARGE_OBJ_VADDR_START .. VADDR_END
  BY Constants
<1>3. HeapOK(heap)
  BY <1>1, <1>2 DEF HeapOK
<1> QED
  BY <1>1, <1>3 DEF WInv, Good, Holds, Owns

LEMMA NextWInv ==
  ASSUME Modest, WInv, Next
  PROVE  WInv'
<1>0. Good(heap, held) /\ HeapOK(heap) /\ Holds(held) /\ Owns(heap.objs, held)
  BY DEF WInv, Good
<1>1. CASE CallMalloc
  <2>0. PICK size \in Sizes : \E r \in malloc(heap, size) : Gets(r, size, 1)
    BY <1>1, Zenon DEF CallMalloc
  <2>1. PICK r \in malloc(heap, size) : Gets(r, size, 1)
    BY <2>0
  <2>2. size \in Nat
    BY SizesNat
  <2>3. Served(heap, r, size, 1)
    BY <1>0, <2>1, <2>2, mallocServes
  <2> QED
    BY <2>1, <2>2, <2>3, GetsKeeps
<1>2. CASE CallCalloc
  <2>0. PICK nelem \in Sizes, elsize \in Sizes :
          \E r \in calloc(heap, nelem, elsize) : Gets(r, nelem * elsize, 1)
    BY <1>2, Zenon DEF CallCalloc
  <2>1. PICK r \in calloc(heap, nelem, elsize) : Gets(r, nelem * elsize, 1)
    BY <2>0
  <2>2. nelem \in Nat /\ elsize \in Nat /\ nelem * elsize \in Nat
    BY SizesNat
  <2>3. Served(heap, r, nelem * elsize, 1)
    BY <1>0, <2>1, <2>2, callocServes
  <2> QED
    BY <2>1, <2>2, <2>3, GetsKeeps
<1>3. CASE CallMemalign
  <2>0. PICK alignment \in Alignments, size \in Sizes :
          \E r \in memalign(heap, alignment, size) : Gets(r, size, alignment)
    BY <1>3, Zenon DEF CallMemalign
  <2>1. PICK r \in memalign(heap, alignment, size) : Gets(r, size, alignment)
    BY <2>0
  <2>2. size \in Nat
    BY SizesNat
  <2>3. Served(heap, r, size, alignment)
    BY <1>0, <2>1, <2>2, memalignServes
  <2> QED
    BY <2>1, <2>2, <2>3, GetsKeeps
<1>4. CASE CallValloc
  <2>0. PICK size \in Sizes :
          \E n \in {size, PvallocSize(size)} : \E r \in valloc(heap, n) :
            Gets(r, size, VALLOC_ALIGNMENT)
    BY <1>4, Zenon DEF CallValloc
  <2>n. PICK n \in {size, PvallocSize(size)} :
          \E r \in valloc(heap, n) : Gets(r, size, VALLOC_ALIGNMENT)
    BY <2>0
  <2>1. PICK r \in valloc(heap, n) : Gets(r, size, VALLOC_ALIGNMENT)
    BY <2>n
  <2>2. size \in Nat /\ n \in Nat /\ size <= n
    <3>1. size \in Nat
      BY SizesNat
    <3>2. PICK a : a = VALLOC_ALIGNMENT
      OBVIOUS
    <3>3. a \in Nat \ {0} /\ size + a - 1 < 2 ^ WIDTH
      <4>1. size + a < 2 ^ WIDTH
        BY <3>2 DEF Modest
      <4>2. a \in Nat \ {0} /\ 2 ^ WIDTH \in Nat
        BY <3>2, Constants DEF VALLOC_ALIGNMENT
      <4> QED
        BY <3>1, <4>1, <4>2
    <3>4. PvallocSize(size) \in size .. (size + a - 1)
      BY <3>1, <3>2, <3>3, AlignUpAligns DEF PvallocSize
    <3> QED
      BY <2>n, <3>1, <3>3, <3>4
  <2>3. r \in memalign(heap, VALLOC_ALIGNMENT, n)
    BY <2>1 DEF valloc
  <2>4. Served(heap, r, n, VALLOC_ALIGNMENT)
    BY <1>0, <2>2, <2>3, memalignServes
  <2>5. Served(heap, r, size, VALLOC_ALIGNMENT)
    BY <2>2, <2>4, ServesLess
  <2> QED
    BY <2>1, <2>2, <2>5, GetsKeeps
<1>5. CASE CallStrdup
  <2>0. PICK length \in {size - 1 : size \in Sizes \ {0}}, cap \in {size - 1 : size \in Sizes \ {0}} :
          \E n \in {StrdupSize(length), StrndupSize(length, cap)} : \E r \in malloc(heap, n) :
            Gets(r, n, 1)
    BY <1>5, Zenon DEF CallStrdup
  <2>n. PICK n \in {StrdupSize(length), StrndupSize(length, cap)} :
          \E r \in malloc(heap, n) : Gets(r, n, 1)
    BY <2>0
  <2>1. PICK r \in malloc(heap, n) : Gets(r, n, 1)
    BY <2>n
  <2>2. length \in Nat /\ cap \in Nat
    <3>1. PICK a \in Sizes \ {0}, b \in Sizes \ {0} : length = a - 1 /\ cap = b - 1
      OBVIOUS
    <3>2. a \in Nat \ {0} /\ b \in Nat \ {0}
      BY SizesNat
    <3> QED
      BY <3>1, <3>2
  <2>3. n \in Nat
    BY <2>n, <2>2 DEF StrdupSize, StrndupSize
  <2>4. Served(heap, r, n, 1)
    BY <1>0, <2>1, <2>3, mallocServes
  <2> QED
    BY <2>1, <2>3, <2>4, GetsKeeps
<1>6. CASE CallGetcwd
  <2>0. PICK size \in Sizes : \E r \in getcwd(heap, size) : Gets(r, size, 1)
    BY <1>6, Zenon DEF CallGetcwd
  <2>1. PICK r \in getcwd(heap, size) : Gets(r, size, 1)
    BY <2>0
  <2>2. PICK n : n = IF size = 0 THEN PATH_MAX ELSE size
    OBVIOUS
  <2>3. size \in Nat /\ n \in Nat /\ size <= n
    BY <2>2, SizesNat
  <2>4. r \in malloc(heap, n)
    BY <2>1, <2>2 DEF getcwd
  <2>5. Served(heap, r, n, 1)
    BY <1>0, <2>3, <2>4, mallocServes
  <2>6. Served(heap, r, size, 1)
    BY <2>3, <2>5, ServesLess
  <2> QED
    BY <2>1, <2>3, <2>6, GetsKeeps
<1>7. CASE CallGoodSize
  <2>1. PICK size \in Sizes : heap' \in malloc_good_size(heap, size)
    BY <1>7 DEF CallGoodSize
  <2>2. held' = held /\ ended' = ended
    BY <1>7 DEF CallGoodSize
  <2>3. Good(heap', held)
    BY <1>0, <2>1, SizesNat, goodSizeKeeps
  <2> QED
    BY <2>2, <2>3 DEF WInv
<1>8. CASE CallAlignedAlloc
  <2>1. PICK alignment \in Alignments :
          IF alignment = 0
          THEN ended' = "sigfpe" /\ UNCHANGED <<heap, held>>
          ELSE \E size \in Sizes : \E r \in aligned_alloc(heap, alignment, size) :
                 Gets(r, size, alignment)
    BY <1>8 DEF CallAlignedAlloc
  <2>2. CASE alignment = 0
    BY <2>1, <2>2 DEF WInv
  <2>3. CASE alignment # 0
    <3>0. PICK size \in Sizes : \E r \in aligned_alloc(heap, alignment, size) : Gets(r, size, alignment)
      BY <2>1, <2>3
    <3>1. PICK r \in aligned_alloc(heap, alignment, size) : Gets(r, size, alignment)
      BY <3>0
    <3>2. size \in Nat
      BY SizesNat
    <3>3. Served(heap, r, size, alignment)
      BY <1>0, <2>3, <3>1, alignedAllocServes
    <3> QED
      BY <3>1, <3>2, <3>3, GetsKeeps
  <2> QED
    BY <2>2, <2>3
<1>9. CASE CallFree
  <2>1. PICK x \in held : heap' \in xxfree(heap, x.ptr) /\ held' = held \ {x}
    BY <1>9 DEF CallFree
  <2>2. ended' = ended
    BY <1>9 DEF CallFree
  <2>3. PICK o \in heap.objs : HeldIn(x, o)
    BY <1>0 DEF Owns
  <2>4. x.ptr \in Bytes(o)
    BY <2>3, HeldInBytes
  <2>5. HeapOK(heap') /\ heap'.objs = heap.objs \ {o}
    BY <1>0, <2>1, <2>4, xxfreeFrees
  <2>6. Owns(heap.objs \ {o}, held \ {x})
    BY <1>0, <2>4, OwnsFreed
  <2>7. Holds(held \ {x})
    BY <1>0 DEF Holds
  <2>8. Good(heap', held \ {x})
    BY <2>5, <2>6, <2>7 DEF Good
  <2> QED
    BY <2>1, <2>2, <2>8 DEF WInv
<1>10. CASE CallRealloc
  <2>0. PICK x \in Resized, size \in ReallocSizes : \E r \in realloc(heap, x.ptr, size) :
          IF r.ok
          THEN /\ heap' = r.heap
               /\ held' = (held \ {x}) \cup
                            (IF r.ptr = NULL THEN {}
                             ELSE {[ptr |-> r.ptr, size |-> size, alignment |-> 1]})
               /\ UNCHANGED ended
          ELSE ended' = "segv" /\ UNCHANGED <<heap, held>>
    BY <1>10, Zenon DEF CallRealloc
  <2>1. PICK r \in realloc(heap, x.ptr, size) :
          IF r.ok
          THEN /\ heap' = r.heap
               /\ held' = (held \ {x}) \cup
                            (IF r.ptr = NULL THEN {}
                             ELSE {[ptr |-> r.ptr, size |-> size, alignment |-> 1]})
               /\ UNCHANGED ended
          ELSE ended' = "segv" /\ UNCHANGED <<heap, held>>
    BY <2>0
  <2>2. x \in held /\ x.alignment = 1
    BY DEF Resized, Modest
  <2>3. size \in Nat
    <3>1. CASE size \in Sizes
      BY <3>1, SizesNat
    <3>2. CASE size \in {num * sz : num, sz \in Sizes}
      <4>1. PICK num \in Sizes, sz \in Sizes : size = num * sz
        BY <3>2
      <4>2. num \in Nat /\ sz \in Nat
        BY SizesNat
      <4> QED
        BY <4>1, <4>2
    <3> QED
      BY <3>1, <3>2 DEF ReallocSizes
  <2>4. /\ r.ok
        /\ Good(r.heap, (held \ {x}) \cup
                          (IF r.ptr = NULL THEN {}
                           ELSE {[ptr |-> r.ptr, size |-> size, alignment |-> 1]}))
    BY <1>0, <2>1, <2>2, <2>3, reallocKeeps
  <2> QED
    BY <2>1, <2>4 DEF WInv
<1>11. CASE CallUsableSize
  <2>1. PICK x \in Resized :
          held' = (held \ {x}) \cup {[x EXCEPT !.size = xxmalloc_usable_size(heap, x.ptr)]}
    BY <1>11 DEF CallUsableSize
  <2>2. heap' = heap /\ ended' = ended
    BY <1>11 DEF CallUsableSize
  <2>3. x \in held /\ x.alignment = 1
        /\ x \in [ptr : Nat, size : Nat, alignment : Alignments \cup {1, VALLOC_ALIGNMENT}]
    BY <1>0 DEF Resized, Modest, Holds
  <2>4. PICK o \in heap.objs : HeldIn(x, o)
    BY <1>0, <2>3 DEF Owns
  <2>5. x.ptr = o.start /\ x.ptr \in Bytes(o) /\ ObjectAt(heap, x.ptr) = o
    <3>1. x.ptr = o.start
      BY <2>3, <2>4 DEF HeldIn
    <3> QED
      BY <1>0, <3>1, StartInBytes
  <2>6. PICK y : y = [x EXCEPT !.size = xxmalloc_usable_size(heap, x.ptr)]
    OBVIOUS
  <2>7. y = [ptr |-> x.ptr, size |-> Usable(o), alignment |-> 1]
    BY <2>3, <2>5, <2>6 DEF xxmalloc_usable_size
  <2>8. Usable(o) \in Nat
    BY <1>0, ObjectPlace, UsableBytes
  <2>9. HeldIn(y, o)
    <3>1. Fits(o.start, Usable(o), o)
      BY <1>0, <2>8, StartFits
    <3> QED
      BY <2>3, <2>4, <2>5, <2>7, <3>1 DEF HeldIn
  <2>10. Owns(heap.objs, (held \ {x}) \cup {y})
    BY <1>0, <2>3, <2>5, <2>9, OwnsAnew
  <2>11. Holds((held \ {x}) \cup {y})
    BY <1>0, <2>3, <2>7, <2>8 DEF Holds
  <2>12. Good(heap, (held \ {x}) \cup {y})
    BY <1>0, <2>10, <2>11 DEF Good
  <2> QED
    BY <2>1, <2>2, <2>6, <2>12 DEF WInv
<1> QED
  BY <1>1, <1>2, <1>3, <1>4, <1>5, <1>6, <1>7, <1>8, <1>9, <1>10, <1>11 DEF Next

\* The invariant holds throughout.
LEMMA WInvariance ==
  ASSUME Modest
  PROVE  Spec => []WInv
<1>1. Init => WInv
  BY InitWInv
<1>2. WInv /\ [Next]_vars => WInv'
  <2> SUFFICES ASSUME WInv, [Next]_vars
               PROVE  WInv'
    OBVIOUS
  <2>1. CASE Next
    BY <2>1, NextWInv
  <2>2. CASE UNCHANGED vars
    BY <2>2 DEF WInv, vars
  <2> QED
    BY <2>1, <2>2
<1> QED
  BY <1>1, <1>2, PTL DEF Spec

\* Pointers and objects keep to the width of a size_t, and no object is larger
\* than half of the address space (wrapper.h:121).
THEOREM WrapperTypeCorrect ==
  ASSUME Modest
  PROVE  Spec => []TypeOK
<1>1. WInv => TypeOK
  <2> SUFFICES ASSUME WInv PROVE TypeOK
    OBVIOUS
  <2>0. HeapOK(heap) /\ Holds(held) /\ Owns(heap.objs, held) /\ ended \in {"no", "sigfpe"}
    BY DEF WInv, Good
  <2>1. /\ heap.objs \subseteq Objects
        /\ heap.high \in MMAP_MIN_ADDR .. LARGE_OBJ_VADDR_START
        /\ heap.large \in LARGE_OBJ_VADDR_START .. VADDR_END
    BY <2>0 DEF HeapOK
  <2>2. \A o \in heap.objs : \A b \in Bytes(o) : b \in 1 .. (2 ^ WIDTH - 1)
    <3> TAKE o \in heap.objs
    <3> TAKE b \in Bytes(o)
    <3>1. b \in Nat /\ MMAP_MIN_ADDR * PAGE_SIZE < b /\ b < 2 ^ WIDTH
          /\ MMAP_MIN_ADDR * PAGE_SIZE \in Nat /\ 2 ^ WIDTH \in Nat
      BY <2>0, BytesPlace, Constants
    <3> QED
      BY <3>1
  <2>3. \A o \in heap.objs : o \in [start : 1 .. (2 ^ WIDTH - 1), size : 0 .. (2 ^ (WIDTH - 1) - 1)]
    <3> TAKE o \in heap.objs
    <3>1. o.start \in 1 .. (2 ^ WIDTH - 1)
      BY <2>0, <2>2, StartInBytes
    <3> QED
      BY <2>1, <3>1 DEF Objects
  <2>4. \A x \in held : x \in [ptr : 1 .. (2 ^ WIDTH - 1), size : Nat,
                               alignment : Alignments \cup {1, VALLOC_ALIGNMENT}]
    <3> TAKE x \in held
    <3>1. PICK o \in heap.objs : HeldIn(x, o)
      BY <2>0 DEF Owns
    <3>2. x.ptr \in 1 .. (2 ^ WIDTH - 1)
      BY <2>2, <3>1, HeldInBytes
    <3> QED
      BY <2>0, <3>2 DEF Holds
  <2>5. ended \in {"no", "sigfpe", "segv"}
    BY <2>0
  <2> QED
    BY <2>1, <2>3, <2>4, <2>5 DEF TypeOK
<1> QED
  BY <1>1, WInvariance, PTL

\* Whatever calloc multiplies, memalign pads, aligned_alloc rounds and realloc
\* takes for the same size, the bytes a caller asked for are of one object.
THEOREM RequestsFit ==
  ASSUME Modest
  PROVE  Spec => []HeldFits
<1>1. WInv => HeldFits
  BY DEF WInv, Good, Owns, HeldIn, Fits, HeldFits
<1> QED
  BY <1>1, WInvariance, PTL

\* The functions that make two objects, memalign, aligned_alloc, realloc and
\* malloc_good_size, free the other one: each object is behind one pointer.
THEOREM NoObjectLost ==
  ASSUME Modest
  PROVE  Spec => []NothingLost
<1>1. WInv => NothingLost
  <2> SUFFICES ASSUME WInv, NEW o \in heap.objs
               PROVE  Cardinality({x \in held : x.ptr \in Bytes(o)}) = 1
    BY DEF NothingLost
  <2>1. Owns(heap.objs, held)
    BY DEF WInv, Good
  <2>2. PICK y \in held : y.ptr \in Bytes(o)
    BY <2>1 DEF Owns
  <2>3. {x \in held : x.ptr \in Bytes(o)} = {y}
    BY <2>1, <2>2 DEF Owns
  <2> QED
    BY <2>3, FS_Singleton
<1> QED
  BY <1>1, WInvariance, PTL

\* memalign, posix_memalign, aligned_alloc, valloc and pvalloc return what they
\* were asked for.
THEOREM AlignmentKept ==
  ASSUME Modest
  PROVE  Spec => []AlignedAsAsked
<1>1. WInv => AlignedAsAsked
  BY DEF WInv, Good, Owns, HeldIn, AlignedAsAsked
<1> QED
  BY <1>1, WInvariance, PTL

\* realloc reads no memory past the object it copies.
THEOREM ReallocCopiesWithin ==
  ASSUME Modest
  PROVE  Spec => []CopiesWithinObject
<1>1. WInv => CopiesWithinObject
  BY DEF WInv, CopiesWithinObject
<1> QED
  BY <1>1, WInvariance, PTL
=============================================================================
