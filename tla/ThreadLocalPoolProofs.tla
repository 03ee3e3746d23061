------------------------ MODULE ThreadLocalPoolProofs ------------------------
(***************************************************************************)
(* Proofs about ThreadLocalPool: for all sizes, size classes, threads and  *)
(* addresses, callers get storage as Heap promises it.                     *)
(***************************************************************************)
EXTENDS ThreadLocalPool, TLAPS

-----------------------------------------------------------------------------
(* Arithmetic.                                                             *)

\* align_up gives a multiple of the alignment, and pads by less than that.
LEMMA AlignUpBounds ==
  ASSUME NEW v \in Nat, NEW a \in Nat \ {0}
  PROVE  /\ AlignUp(v, a) \in Nat /\ v <= AlignUp(v, a) /\ AlignUp(v, a) < v + a
         /\ Multiple(AlignUp(v, a), a)
  <1>1. /\ (v + (a - 1)) \div a \in Nat
        /\ ((v + (a - 1)) \div a) * a <= v + (a - 1)
        /\ v + (a - 1) < ((v + (a - 1)) \div a) * a + a
    OBVIOUS
  <1>2. PICK q \in Nat : AlignUp(v, a) = q * a /\ q * a <= v + (a - 1) /\ v + (a - 1) < q * a + a
    BY <1>1 DEF AlignUp
  <1>3. q * a \in Nat /\ q <= q * a
    OBVIOUS
  <1> QED
    BY <1>2, <1>3 DEF Multiple

LEMMA MultipleOfMultiple ==
  ASSUME NEW x \in Nat, NEW a \in Nat \ {0}, NEW b \in Nat \ {0},
         Multiple(x, a), Multiple(a, b)
  PROVE  Multiple(x, b)
  <1>1. PICK k \in 0 .. x : x = k * a
    BY DEF Multiple
  <1>2. PICK j \in 0 .. a : a = j * b
    BY DEF Multiple
  <1>3. x = (k * j) * b
    BY <1>1, <1>2
  <1>4. k * j \in Nat /\ k * j <= x
    BY <1>1, <1>2, <1>3
  <1> QED
    BY <1>3, <1>4 DEF Multiple

\* Sums of multiples are multiples.
LEMMA MultipleSum ==
  ASSUME NEW x \in Nat, NEW y \in Nat, NEW a \in Nat \ {0}, Multiple(x, a), Multiple(y, a)
  PROVE  Multiple(x + y, a)
  <1>1. PICK k \in 0 .. x : x = k * a
    BY DEF Multiple
  <1>2. PICK j \in 0 .. y : y = j * a
    BY DEF Multiple
  <1>3. k + j \in 0 .. x + y /\ x + y = (k + j) * a
    BY <1>1, <1>2
  <1> QED
    BY <1>3 DEF Multiple

LEMMA MultipleProduct ==
  ASSUME NEW i \in Nat, NEW x \in Nat, NEW a \in Nat \ {0}, Multiple(x, a)
  PROVE  i * x \in Nat /\ Multiple(i * x, a)
  <1>1. PICK k \in 0 .. x : x = k * a
    BY DEF Multiple
  <1>2. i * x = (i * k) * a /\ i * k \in Nat /\ i * k <= i * x /\ i * x \in Nat
    BY <1>1
  <1> QED
    BY <1>2 DEF Multiple

\* Block i ends where block j, which comes later, begins, or before.
LEMMA Stride ==
  ASSUME NEW i \in Nat, NEW j \in Nat, NEW n \in Nat, i < j
  PROVE  i * n \in Nat /\ j * n \in Nat /\ i * n + n <= j * n
  <1>1. PICK d \in Nat : j = i + 1 + d
    BY j - i - 1 \in Nat
  <1>2. j * n = i * n + n + d * n
    BY <1>1
  <1> QED
    BY <1>2

-----------------------------------------------------------------------------
(* The layout.                                                             *)

\* A block has room for its header, its prefix and its class.
LEMMA ClassLayout ==
  ASSUME NEW k \in Class
  PROVE  /\ BlockUserSize(k) \in Nat /\ SizeClass[k] <= BlockUserSize(k)
         /\ BlockUserSize(k) < SizeLimit /\ SizeClass[k] \in Nat \ {0}
         /\ BlockTotal(k) \in Nat
         /\ HeaderSize + PrefixSize + BlockUserSize(k) <= BlockTotal(k)
         /\ Multiple(BlockTotal(k), MaxAlign)
         /\ BlocksPerChunk[k] \in Nat \ {0} /\ ChunkBytes(k) \in Nat \ {0}
  <1>1. SizeClass[k] \in Nat \ {0} /\ BlocksPerChunk[k] \in Nat \ {0} /\ MaxAlign \in Nat \ {0}
    BY LayoutAssumption DEF Class
  <1>2. /\ BlockUserSize(k) \in Nat /\ SizeClass[k] <= BlockUserSize(k)
        /\ BlockUserSize(k) < SizeClass[k] + MaxAlign
    BY <1>1, AlignUpBounds DEF BlockUserSize
  <1>3. BlockUserSize(k) < SizeLimit
    BY <1>1, <1>2, SizeAssumption
  <1>4. HeaderSize + PrefixSize + BlockUserSize(k) \in Nat
    BY <1>2, LayoutAssumption, SMTT(30)
  <1>5. /\ BlockTotal(k) \in Nat /\ Multiple(BlockTotal(k), MaxAlign)
        /\ HeaderSize + PrefixSize + BlockUserSize(k) <= BlockTotal(k)
    BY <1>1, <1>4, AlignUpBounds DEF BlockTotal
  <1>6. ChunkBytes(k) \in Nat \ {0}
    <2>1. BlockTotal(k) \in Nat \ {0}
      BY <1>1, <1>2, <1>4, <1>5, LayoutAssumption
    <2>2. BlocksPerChunk[k] * BlockTotal(k) \in Nat \ {0}
      BY <1>1, <2>1
    <2> QED
      BY <2>2, LayoutAssumption DEF ChunkBytes
  <1> QED
    BY <1>1, <1>2, <1>3, <1>5, <1>6

\* The blocks of a chunk follow its control block and each other, and end with it.
LEMMA ChunkLayout ==
  ASSUME NEW c \in Chunk, NEW i \in Index(c.class)
  PROVE  /\ HeaderOf(c, i) \in Nat /\ c.base <= HeaderOf(c, i)
         /\ HeaderOf(c, i) + BlockTotal(c.class) <= c.base + ChunkBytes(c.class)
         /\ \A j \in Index(c.class) :
              i < j => HeaderOf(c, i) + BlockTotal(c.class) <= HeaderOf(c, j)
  <1> DEFINE total == BlockTotal(c.class)
             n == BlocksPerChunk[c.class]
  <1>1. c.class \in Class /\ c.base \in Nat /\ ControlSize \in Nat
    BY LayoutAssumption, AlignAssumption DEF Chunk
  <1>2. total \in Nat /\ n \in Nat \ {0} /\ i \in Nat /\ i < n
    BY <1>1, ClassLayout DEF Index
  <1> HIDE DEF total, n
  <1>3. i * total \in Nat /\ n * total \in Nat /\ i * total + total <= n * total
    BY <1>2, Stride
  <1>4. HeaderOf(c, i) = c.base + ControlSize + i * total
    BY DEF HeaderOf, total
  <1>5. ChunkBytes(c.class) = ControlSize + n * total
    BY DEF ChunkBytes, total, n
  <1>6. ASSUME NEW j \in Index(c.class), i < j
        PROVE  HeaderOf(c, i) + total <= HeaderOf(c, j)
    <2>1. j \in Nat
      BY <1>2 DEF Index, n
    <2>2. i * total + total <= j * total /\ j * total \in Nat
      BY <1>2, <1>6, <2>1, Stride
    <2> QED
      BY <1>1, <1>2, <1>3, <1>4, <2>2 DEF HeaderOf, total
  <1> QED
    BY <1>1, <1>2, <1>3, <1>4, <1>5, <1>6 DEF total

\* A block's storage is as long as its class, and lies inside the block.
LEMMA BlockLayout ==
  ASSUME NEW b \in Block, b.index \in Index(b.chunk.class),
         Size(b.request) <= SizeClass[b.chunk.class]
  PROVE  /\ b.request \in Request /\ b.request.size \in Nat
         /\ BlockPtr(b) \in Nat /\ BlockLen(b) \in Nat \ {0} /\ b.request.size <= BlockLen(b)
         /\ HeaderOf(b.chunk, b.index) <= BlockPtr(b)
         /\ BlockPtr(b) + BlockLen(b) <= HeaderOf(b.chunk, b.index) + BlockTotal(b.chunk.class)
         /\ Within(BlockPtr(b), BlockLen(b), b.chunk.base, ChunkBytes(b.chunk.class))
  <1> DEFINE c == b.chunk
  <1>1. /\ c \in Chunk /\ c.class \in Class /\ c.base \in Nat
        /\ b.request \in Request /\ b.request.size \in Nat
    BY LayoutAssumption, AlignAssumption DEF Block, Chunk
  <1>2. /\ HeaderOf(c, b.index) \in Nat /\ c.base <= HeaderOf(c, b.index)
        /\ HeaderOf(c, b.index) + BlockTotal(c.class) <= c.base + ChunkBytes(c.class)
    BY <1>1, ChunkLayout
  <1>3. BlockLen(b) = BlockUserSize(c.class)
    <2>1. \A x \in Nat, y \in Nat : x < y => x % y = x
      OBVIOUS
    <2> QED
      BY <1>1, <2>1, ClassLayout, SizeAssumption DEF BlockLen, Usable
  <1>4. BlockPtr(b) = HeaderOf(c, b.index) + HeaderSize + PrefixSize
    BY DEF BlockPtr
  <1>5. b.request.size <= SizeClass[c.class]
    BY <1>1, ClassLayout DEF Size
  <1>6. /\ BlockUserSize(c.class) \in Nat \ {0} /\ b.request.size <= BlockUserSize(c.class)
        /\ HeaderSize + PrefixSize + BlockUserSize(c.class) <= BlockTotal(c.class)
        /\ BlockTotal(c.class) \in Nat /\ ChunkBytes(c.class) \in Nat
    BY <1>1, <1>5, ClassLayout
  <1> HIDE DEF c
  <1>7. HeaderSize \in Nat /\ PrefixSize \in Nat
    BY LayoutAssumption
  <1>8. /\ BlockPtr(b) \in Nat /\ HeaderOf(c, b.index) <= BlockPtr(b)
        /\ BlockPtr(b) + BlockLen(b) <= HeaderOf(c, b.index) + BlockTotal(c.class)
    BY <1>2, <1>3, <1>4, <1>6, <1>7
  <1> QED
    BY <1>1, <1>2, <1>3, <1>6, <1>8 DEF Within, c

\* Fallback storage is aligned, and lies in its allocation behind header and prefix.
LEMMA FallbackLayout ==
  ASSUME NEW f \in Fallback
  PROVE  /\ f.request \in Request /\ f.request.size \in Nat
         /\ FallbackPtr(f) \in Nat /\ FallbackLen(f) \in Nat \ {0}
         /\ FallbackLen(f) = Size(f.request) /\ f.request.size <= FallbackLen(f)
         /\ Multiple(FallbackPtr(f), f.request.align)
         /\ f.base \in Nat /\ FallbackTotal(f.request) \in Nat
         /\ f.base + HeaderSize + PrefixSize <= FallbackPtr(f)
         /\ Within(FallbackPtr(f), FallbackLen(f), f.base, FallbackTotal(f.request))
  <1> DEFINE r == f.request
             a == FallbackAlign(r)
             p == f.base + HeaderSize + PrefixSize
  <1>1. /\ r \in Request /\ r.size \in Nat /\ r.align \in Nat \ {0} /\ f.base \in Nat
        /\ HeaderSize \in Nat /\ PrefixSize \in Nat /\ PtrAlign \in Nat \ {0}
    BY LayoutAssumption, AlignAssumption DEF Fallback
  <1>2. a \in Nat \ {0} /\ Multiple(a, r.align)
    <2>1. CASE r.align < PtrAlign
      BY <1>1, <2>1, AlignAssumption DEF FallbackAlign
    <2>2. CASE ~(r.align < PtrAlign)
      <3>1. r.align = 1 * r.align /\ 1 \in 0 .. r.align
        BY <1>1
      <3> QED
        BY <1>1, <2>2, <3>1 DEF FallbackAlign, Multiple
    <2> QED
      BY <2>1, <2>2
  <1>3. p \in Nat
    BY <1>1
  <1>4. FallbackPtr(f) = AlignUp(p, a)
    BY DEF FallbackPtr
  <1>5. FallbackTotal(r) = HeaderSize + PrefixSize + Size(r) + a
    BY DEF FallbackTotal
  <1>6. /\ Size(r) \in Nat \ {0} /\ r.size <= Size(r) /\ Size(r) < SizeLimit
        /\ SizeLimit \in Nat
    BY <1>1, SizeAssumption DEF Size
  <1>7. FallbackLen(f) = Size(r)
    <2>1. \A x \in Nat, y \in Nat : x < y => x % y = x
      OBVIOUS
    <2> QED
      BY <1>6, <2>1 DEF FallbackLen, Usable
  <1> HIDE DEF a, p
  <1>8. /\ AlignUp(p, a) \in Nat /\ p <= AlignUp(p, a) /\ AlignUp(p, a) < p + a
        /\ Multiple(AlignUp(p, a), a)
    BY <1>2, <1>3, AlignUpBounds
  <1>9. Multiple(FallbackPtr(f), r.align)
    BY <1>1, <1>2, <1>4, <1>8, MultipleOfMultiple
  <1>10. FallbackTotal(r) \in Nat /\ Within(FallbackPtr(f), FallbackLen(f), f.base, FallbackTotal(r))
    BY <1>1, <1>2, <1>4, <1>5, <1>6, <1>7, <1>8 DEF Within, p
  <1> QED
    BY <1>1, <1>4, <1>6, <1>7, <1>8, <1>9, <1>10 DEF p

-----------------------------------------------------------------------------
(* The invariant.                                                          *)

LEMMA ApartSymmetric ==
  ASSUME NEW p, NEW m, NEW q, NEW n, Apart(p, m, q, n)
  PROVE  Apart(q, n, p, m)
  BY DEF Apart

LEMMA NewBlock ==
  ASSUME NEW t \in Thread, NEW k \in Class, NEW r \in Request, NEW x \in Address,
         NEW i \in Index(k)
  PROVE  LET c == [thread |-> t, class |-> k, base |-> x] IN
         c \in Chunk /\ [chunk |-> c, index |-> i, request |-> r] \in Block
  BY ClassLayout DEF Chunk, Block, Index

LEMMA AllocateBlockKeeps ==
  ASSUME IInv, NEW t \in Thread, NEW r \in Request, AllocateBlock(t, r)
  PROVE  IInv'
  <1>0. PICK k \in Class :
          \E c \in PoolOf(t, k), i \in Index(k) :
            /\ IsSizeClass(k, r) /\ IsFree(c, i)
            /\ blocks' = blocks \cup {[chunk |-> c, index |-> i, request |-> r]}
    BY DEF AllocateBlock
  <1>1. PICK c \in PoolOf(t, k), i \in Index(k) :
          /\ IsSizeClass(k, r) /\ IsFree(c, i)
          /\ blocks' = blocks \cup {[chunk |-> c, index |-> i, request |-> r]}
    BY <1>0
  <1> DEFINE b == [chunk |-> c, index |-> i, request |-> r]
  <1>2. c \in chunks /\ c.class = k /\ c \in Chunk
    BY DEF PoolOf, IInv, TypeOK
  <1>3. UNCHANGED <<chunks, fallbacks, exited>> /\ r.align <= MaxAlign
    BY DEF AllocateBlock, CanUseSmallPool
  <1>4. b \in Block
    BY <1>2, ClassLayout DEF Block, Index
  <1>5. TypeOK'
    BY <1>1, <1>3, <1>4 DEF IInv, TypeOK
  <1>6. HeldIsThere'
    BY <1>1, <1>2, <1>3 DEF IInv, HeldIsThere, IsSizeClass, Index, Size
  <1>7. HeldOnce'
    BY <1>1 DEF IInv, HeldOnce, IsFree
  <1>8. RawApart'
    BY <1>3 DEF IInv, RawApart
  <1>9. ExitedKeepsNothing'
    BY <1>1, <1>3 DEF IInv, ExitedKeepsNothing
  <1> QED
    BY <1>5, <1>6, <1>7, <1>8, <1>9 DEF IInv

LEMMA AllocateChunkKeeps ==
  ASSUME IInv, NEW t \in Thread, NEW r \in Request, AllocateChunk(t, r)
  PROVE  IInv'
  <1>0. PICK k \in Class :
          \E x \in Address, i \in Index(k) :
            LET c == [thread |-> t, class |-> k, base |-> x] IN
            /\ IsSizeClass(k, r) /\ Unused(x, ChunkBytes(k)) /\ chunks' = chunks \cup {c}
            /\ blocks' = blocks \cup {[chunk |-> c, index |-> i, request |-> r]}
    BY DEF AllocateChunk
  <1>1. PICK x \in Address, i \in Index(k) :
          LET c == [thread |-> t, class |-> k, base |-> x] IN
          /\ IsSizeClass(k, r) /\ Unused(x, ChunkBytes(k)) /\ chunks' = chunks \cup {c}
          /\ blocks' = blocks \cup {[chunk |-> c, index |-> i, request |-> r]}
    BY <1>0
  <1> DEFINE c == [thread |-> t, class |-> k, base |-> x]
             b == [chunk |-> c, index |-> i, request |-> r]
  <1>2. UNCHANGED <<fallbacks, exited>> /\ r.align <= MaxAlign /\ t \notin exited
    BY DEF AllocateChunk, CanUseSmallPool, MayAllocate
  <1>3. c \in Chunk /\ b \in Block /\ c.class = k /\ c.base = x
    BY NewBlock
  <1>4. chunks' = chunks \cup {c} /\ blocks' = blocks \cup {b}
    BY <1>1
  <1>5. c \notin chunks
    <2>1. ChunkBytes(k) \in Nat \ {0} /\ x \in Nat
      BY ClassLayout, AlignAssumption
    <2>2. ~Apart(x, ChunkBytes(k), x, ChunkBytes(k))
      BY <2>1 DEF Apart
    <2> QED
      BY <1>1, <1>3, <2>2 DEF Unused
  <1> HIDE DEF c
  <1>6. TypeOK'
    BY <1>2, <1>3, <1>4 DEF IInv, TypeOK
  <1>7. HeldIsThere'
    BY <1>1, <1>2, <1>3, <1>4 DEF IInv, HeldIsThere, IsSizeClass, Index, Size
  <1>8. HeldOnce'
    <2>1. \A a \in blocks : a.chunk # c
      BY <1>5 DEF IInv, HeldIsThere
    <2> QED
      BY <1>4, <2>1 DEF IInv, HeldOnce
  <1>9. RawApart'
    <2>1. \A d \in chunks : /\ Apart(c.base, ChunkBytes(c.class), d.base, ChunkBytes(d.class))
                            /\ Apart(d.base, ChunkBytes(d.class), c.base, ChunkBytes(c.class))
      BY <1>1, <1>3, ApartSymmetric DEF Unused
    <2>2. \A f \in fallbacks : Apart(c.base, ChunkBytes(c.class), f.base, FallbackTotal(f.request))
      BY <1>1, <1>3 DEF Unused
    <2> QED
      BY <1>2, <1>4, <2>1, <2>2 DEF IInv, RawApart
  <1>10. ExitedKeepsNothing'
    <2>1. b.chunk = c
      OBVIOUS
    <2> HIDE DEF b
    <2> QED
      BY <1>2, <1>4, <2>1 DEF IInv, ExitedKeepsNothing
  <1> QED
    BY <1>6, <1>7, <1>8, <1>9, <1>10 DEF IInv

LEMMA AllocateFallbackKeeps ==
  ASSUME IInv, NEW t \in Thread, NEW r \in Request, AllocateFallback(t, r)
  PROVE  IInv'
  <1>1. PICK x \in Address :
          /\ Unused(x, FallbackTotal(r))
          /\ fallbacks' = fallbacks \cup {[base |-> x, request |-> r]}
    BY DEF AllocateFallback
  <1> DEFINE f == [base |-> x, request |-> r]
  <1>2. UNCHANGED <<chunks, blocks, exited>>
    BY DEF AllocateFallback
  <1>3. f \in Fallback /\ f.base = x /\ f.request = r
    BY DEF Fallback
  <1>4. fallbacks' = fallbacks \cup {f}
    BY <1>1
  <1> HIDE DEF f
  <1>5. RawApart'
    <2>1. \A g \in fallbacks :
            /\ Apart(f.base, FallbackTotal(f.request), g.base, FallbackTotal(g.request))
            /\ Apart(g.base, FallbackTotal(g.request), f.base, FallbackTotal(f.request))
      BY <1>1, <1>3, ApartSymmetric DEF Unused
    <2>2. \A c \in chunks : Apart(c.base, ChunkBytes(c.class), f.base, FallbackTotal(f.request))
      BY <1>1, <1>3, ApartSymmetric DEF Unused
    <2> QED
      BY <1>2, <1>4, <2>1, <2>2 DEF IInv, RawApart
  <1>6. TypeOK' /\ HeldIsThere' /\ HeldOnce' /\ ExitedKeepsNothing'
    BY <1>2, <1>3, <1>4 DEF IInv, TypeOK, HeldIsThere, HeldOnce, ExitedKeepsNothing
  <1> QED
    BY <1>5, <1>6 DEF IInv

LEMMA DeallocateBlockKeeps ==
  ASSUME IInv, DeallocateBlock
  PROVE  IInv'
  <1>1. PICK b \in blocks :
          /\ blocks' = blocks \ {b}
          /\ chunks' = IF Dead(b.chunk, blocks \ {b}) THEN chunks \ {b.chunk} ELSE chunks
    BY DEF DeallocateBlock
  <1>2. UNCHANGED <<fallbacks, exited>> /\ chunks' \subseteq chunks
    BY <1>1 DEF DeallocateBlock
  <1>3. TypeOK' /\ HeldOnce' /\ RawApart'
    BY <1>1, <1>2 DEF IInv, TypeOK, HeldOnce, RawApart
  <1>4. HeldIsThere'
    BY <1>1, <1>2 DEF IInv, HeldIsThere, Dead
  <1>5. ExitedKeepsNothing'
    BY <1>1, <1>2 DEF IInv, ExitedKeepsNothing, Dead
  <1> QED
    BY <1>3, <1>4, <1>5 DEF IInv

LEMMA ExitKeeps ==
  ASSUME IInv, NEW t \in Thread, Exit(t)
  PROVE  IInv'
  <1>1. /\ UNCHANGED <<blocks, fallbacks>> /\ exited' = exited \cup {t} /\ chunks' \subseteq chunks
        /\ chunks' = {c \in chunks : c.thread = t => \E b \in blocks : b.chunk = c}
    BY DEF Exit
  <1>2. TypeOK' /\ HeldOnce' /\ RawApart'
    BY <1>1 DEF IInv, TypeOK, HeldOnce, RawApart
  <1>3. HeldIsThere' /\ ExitedKeepsNothing'
    BY <1>1 DEF IInv, HeldIsThere, ExitedKeepsNothing
  <1> QED
    BY <1>2, <1>3 DEF IInv

\* The raw memory in use is disjoint, the blocks that are held are distinct blocks
\* of chunks that are there, and threads that have ended keep no other chunks.
THEOREM InvariantHolds == Spec => []IInv
  <1>1. Init => IInv
    BY DEF Init, IInv, TypeOK, HeldIsThere, HeldOnce, RawApart, ExitedKeepsNothing
  <1>2. IInv /\ [Next]_vars => IInv'
    <2> SUFFICES ASSUME IInv, [Next]_vars PROVE IInv'
      OBVIOUS
    <2>1. CASE \E t \in Thread, r \in Request :
                 AllocateBlock(t, r) \/ AllocateChunk(t, r) \/ AllocateFallback(t, r)
      BY <2>1, AllocateBlockKeeps, AllocateChunkKeeps, AllocateFallbackKeeps
    <2>2. CASE DeallocateBlock
      BY <2>2, DeallocateBlockKeeps
    <2>3. CASE DeallocateFallback
      BY <2>3 DEF DeallocateFallback, IInv, TypeOK, HeldIsThere, HeldOnce, RawApart,
                  ExitedKeepsNothing
    <2>4. CASE \E t \in Thread : Exit(t)
      BY <2>4, ExitKeeps
    <2>5. CASE UNCHANGED vars
      BY <2>5 DEF vars, IInv, TypeOK, HeldIsThere, HeldOnce, RawApart, ExitedKeepsNothing
    <2> QED
      BY <2>1, <2>2, <2>3, <2>4, <2>5 DEF Next
  <1> QED
    BY <1>1, <1>2, PTL DEF Spec

-----------------------------------------------------------------------------
(* What it is for.                                                         *)

\* No caller's storage reaches into the header or prefix of another allocation, or
\* out of its raw memory.
THEOREM MetadataStaysSafe == Spec => []MetadataIsSafe
  <1>1. IInv => MetadataIsSafe
    <2> SUFFICES ASSUME IInv PROVE MetadataIsSafe
      OBVIOUS
    <2>1. ASSUME NEW b \in blocks
          PROVE  /\ b.chunk \in chunks /\ b.index \in Index(b.chunk.class)
                 /\ BlockPtr(b) + BlockLen(b) <=
                      IF b.index + 1 \in Index(b.chunk.class) THEN HeaderOf(b.chunk, b.index + 1)
                      ELSE b.chunk.base + ChunkBytes(b.chunk.class)
      <3>1. /\ b \in Block /\ b.chunk \in chunks /\ b.index \in Index(b.chunk.class)
            /\ Size(b.request) <= SizeClass[b.chunk.class]
            /\ b.chunk \in Chunk /\ b.chunk.class \in Class /\ b.index \in Nat
        BY DEF IInv, TypeOK, HeldIsThere, Block, Chunk
      <3>2. /\ BlockPtr(b) \in Nat /\ BlockLen(b) \in Nat
            /\ BlockPtr(b) + BlockLen(b) <= HeaderOf(b.chunk, b.index) + BlockTotal(b.chunk.class)
            /\ BlockPtr(b) + BlockLen(b) <= b.chunk.base + ChunkBytes(b.chunk.class)
        BY <3>1, BlockLayout DEF Within
      <3>3. CASE b.index + 1 \in Index(b.chunk.class)
        <4>1. HeaderOf(b.chunk, b.index) + BlockTotal(b.chunk.class) <= HeaderOf(b.chunk, b.index + 1)
          BY <3>1, <3>3, ChunkLayout
        <4>2. /\ HeaderOf(b.chunk, b.index) \in Nat /\ HeaderOf(b.chunk, b.index + 1) \in Nat
              /\ BlockTotal(b.chunk.class) \in Nat
          BY <3>1, <3>3, ChunkLayout, ClassLayout
        <4> QED
          BY <3>1, <3>2, <3>3, <4>1, <4>2
      <3> QED
        BY <3>1, <3>2, <3>3
    <2>2. ASSUME NEW f \in fallbacks
          PROVE  /\ FallbackPtr(f) >= f.base + HeaderSize + PrefixSize
                 /\ FallbackPtr(f) + Size(f.request) <= f.base + FallbackTotal(f.request)
      <3>1. f \in Fallback
        BY DEF IInv, TypeOK
      <3> QED
        BY <3>1, FallbackLayout, LayoutAssumption DEF Within
    <2> QED
      BY <2>1, <2>2 DEF MetadataIsSafe
  <1> QED
    BY <1>1, InvariantHolds, PTL

\* A thread that has ended keeps no chunk nobody holds a block of.
THEOREM ExitedThreadsKeepNothing == Spec => []ExitedKeepsNothing
  <1>1. IInv => ExitedKeepsNothing
    BY DEF IInv
  <1> QED
    BY <1>1, InvariantHolds, PTL

-----------------------------------------------------------------------------
(* The refinement.                                                         *)

\* As in a debug build: in front of a chunk's first user storage lies a multiple of
\* the alignment of max_align_t.
LayoutAligned == Multiple(ControlSize + HeaderSize + PrefixSize, MaxAlign)

LEMMA BlockAligned ==
  ASSUME LayoutAligned, NEW b \in Block, b.index \in Index(b.chunk.class),
         b.request.align <= MaxAlign
  PROVE  Multiple(BlockPtr(b), b.request.align)
  <1> DEFINE c == b.chunk
             total == BlockTotal(c.class)
             front == ControlSize + HeaderSize + PrefixSize
  <1>1. /\ c.class \in Class /\ c.base \in Nat /\ Multiple(c.base, MaxAlign)
        /\ b.request \in Request /\ b.request.align \in Nat \ {0}
        /\ Multiple(MaxAlign, b.request.align)
        /\ MaxAlign \in Nat \ {0} /\ b.index \in Nat
        /\ ControlSize \in Nat /\ HeaderSize \in Nat /\ PrefixSize \in Nat
    BY LayoutAssumption, AlignAssumption DEF Block, Chunk
  <1>2. total \in Nat /\ Multiple(total, MaxAlign)
    BY <1>1, ClassLayout
  <1>3. front \in Nat /\ Multiple(front, MaxAlign)
    BY <1>1 DEF LayoutAligned
  <1> HIDE DEF total, front
  <1>4. b.index * total \in Nat /\ Multiple(b.index * total, MaxAlign)
    BY <1>1, <1>2, MultipleProduct
  <1>5. Multiple(c.base + front, MaxAlign) /\ c.base + front \in Nat
    BY <1>1, <1>3, MultipleSum
  <1>6. Multiple(c.base + front + b.index * total, MaxAlign)
    BY <1>1, <1>4, <1>5, MultipleSum
  <1>7. BlockPtr(b) = c.base + front + b.index * total
    BY <1>1, <1>4 DEF BlockPtr, HeaderOf, total, front
  <1> QED
    BY <1>1, <1>3, <1>4, <1>6, <1>7, MultipleOfMultiple

\* A block and its storage, as the invariant has them.
LEMMA HeldBlock ==
  ASSUME IInv, NEW b \in blocks
  PROVE  /\ b \in Block /\ b.chunk \in Chunk /\ b.chunk \in chunks
         /\ b.chunk.class \in Class /\ b.index \in Index(b.chunk.class) /\ b.index \in Nat
         /\ Size(b.request) <= SizeClass[b.chunk.class] /\ b.request.align <= MaxAlign
  BY DEF IInv, TypeOK, HeldIsThere, Block, Chunk

LEMMA WithinApart ==
  ASSUME NEW p \in Nat, NEW m \in Nat, NEW q \in Nat, NEW n \in Nat,
         NEW r \in Nat, NEW x \in Nat, NEW s \in Nat, NEW y \in Nat,
         Within(p, m, r, x), Within(q, n, s, y), Apart(r, x, s, y)
  PROVE  Apart(p, m, q, n)
  BY DEF Within, Apart

LEMMA BlocksApart ==
  ASSUME IInv, NEW a \in blocks, NEW b \in blocks, a # b
  PROVE  Apart(BlockPtr(a), BlockLen(a), BlockPtr(b), BlockLen(b))
  <1>1. /\ a.chunk.base \in Nat /\ ChunkBytes(a.chunk.class) \in Nat
        /\ b.chunk.base \in Nat /\ ChunkBytes(b.chunk.class) \in Nat
    BY HeldBlock, ClassLayout, AlignAssumption DEF Chunk
  <1>2. /\ BlockPtr(a) \in Nat /\ BlockLen(a) \in Nat /\ BlockPtr(b) \in Nat /\ BlockLen(b) \in Nat
        /\ HeaderOf(a.chunk, a.index) <= BlockPtr(a) /\ HeaderOf(b.chunk, b.index) <= BlockPtr(b)
        /\ BlockPtr(a) + BlockLen(a) <= HeaderOf(a.chunk, a.index) + BlockTotal(a.chunk.class)
        /\ BlockPtr(b) + BlockLen(b) <= HeaderOf(b.chunk, b.index) + BlockTotal(b.chunk.class)
        /\ Within(BlockPtr(a), BlockLen(a), a.chunk.base, ChunkBytes(a.chunk.class))
        /\ Within(BlockPtr(b), BlockLen(b), b.chunk.base, ChunkBytes(b.chunk.class))
    BY HeldBlock, BlockLayout
  <1>3. CASE a.chunk # b.chunk
    <2>1. Apart(a.chunk.base, ChunkBytes(a.chunk.class), b.chunk.base, ChunkBytes(b.chunk.class))
      BY <1>3, HeldBlock DEF IInv, RawApart
    <2> QED
      BY <1>1, <1>2, <2>1 DEF Within, Apart
  <1>4. CASE a.chunk = b.chunk
    <2>1. a.index # b.index
      BY <1>4 DEF IInv, HeldOnce
    <2>2. /\ a.index \in Nat /\ b.index \in Nat
          /\ HeaderOf(a.chunk, a.index) \in Nat /\ HeaderOf(b.chunk, b.index) \in Nat
          /\ BlockTotal(a.chunk.class) \in Nat
      BY HeldBlock, ChunkLayout, ClassLayout
    <2>3. a.index < b.index =>
            HeaderOf(a.chunk, a.index) + BlockTotal(a.chunk.class) <= HeaderOf(b.chunk, b.index)
      BY <1>4, HeldBlock, ChunkLayout
    <2>4. b.index < a.index =>
            HeaderOf(b.chunk, b.index) + BlockTotal(b.chunk.class) <= HeaderOf(a.chunk, a.index)
      BY <1>4, HeldBlock, ChunkLayout
    <2> QED
      BY <1>2, <1>4, <2>1, <2>2, <2>3, <2>4 DEF Apart
  <1> QED
    BY <1>3, <1>4

LEMMA FallbacksApart ==
  ASSUME IInv, NEW f \in fallbacks, NEW g \in fallbacks, f # g
  PROVE  Apart(FallbackPtr(f), FallbackLen(f), FallbackPtr(g), FallbackLen(g))
  <1>1. f \in Fallback /\ g \in Fallback
    BY DEF IInv, TypeOK
  <1>2. Apart(f.base, FallbackTotal(f.request), g.base, FallbackTotal(g.request))
    BY DEF IInv, RawApart
  <1> QED
    BY <1>1, <1>2, FallbackLayout, WithinApart

LEMMA BlockFallbackApart ==
  ASSUME IInv, NEW b \in blocks, NEW f \in fallbacks
  PROVE  Apart(BlockPtr(b), BlockLen(b), FallbackPtr(f), FallbackLen(f))
  <1>1. f \in Fallback
    BY DEF IInv, TypeOK
  <1>2. b.chunk.base \in Nat /\ ChunkBytes(b.chunk.class) \in Nat
    BY HeldBlock, ClassLayout, AlignAssumption DEF Chunk
  <1>3. /\ BlockPtr(b) \in Nat /\ BlockLen(b) \in Nat
        /\ Within(BlockPtr(b), BlockLen(b), b.chunk.base, ChunkBytes(b.chunk.class))
    BY HeldBlock, BlockLayout
  <1>4. Apart(b.chunk.base, ChunkBytes(b.chunk.class), f.base, FallbackTotal(f.request))
    BY HeldBlock DEF IInv, RawApart
  <1>5. /\ FallbackPtr(f) \in Nat /\ FallbackLen(f) \in Nat
        /\ f.base \in Nat /\ FallbackTotal(f.request) \in Nat
        /\ Within(FallbackPtr(f), FallbackLen(f), f.base, FallbackTotal(f.request))
    BY <1>1, FallbackLayout
  <1> QED
    BY <1>2, <1>3, <1>4, <1>5 DEF Within, Apart

\* No two callers hold the same byte.
LEMMA RegionsApart ==
  ASSUME IInv, NEW x \in Regions, NEW y \in Regions, x # y
  PROVE  Apart(x.ptr, x.len, y.ptr, y.len)
  <1>1. ASSUME NEW b \in blocks
        PROVE  BlockRegion(b).ptr = BlockPtr(b) /\ BlockRegion(b).len = BlockLen(b)
    BY DEF BlockRegion
  <1>2. ASSUME NEW f \in fallbacks
        PROVE  FallbackRegion(f).ptr = FallbackPtr(f) /\ FallbackRegion(f).len = FallbackLen(f)
    BY DEF FallbackRegion
  <1>3. CASE \E a, b \in blocks : x = BlockRegion(a) /\ y = BlockRegion(b)
    BY <1>1, <1>3, BlocksApart
  <1>4. CASE \E f, g \in fallbacks : x = FallbackRegion(f) /\ y = FallbackRegion(g)
    BY <1>2, <1>4, FallbacksApart
  <1>5. CASE \E b \in blocks, f \in fallbacks : x = BlockRegion(b) /\ y = FallbackRegion(f)
    BY <1>1, <1>2, <1>5, BlockFallbackApart
  <1>6. CASE \E b \in blocks, f \in fallbacks : y = BlockRegion(b) /\ x = FallbackRegion(f)
    BY <1>1, <1>2, <1>6, BlockFallbackApart, ApartSymmetric
  <1> QED
    BY <1>3, <1>4, <1>5, <1>6 DEF Regions

LEMMA RegionsTyped ==
  ASSUME IInv, LayoutAligned, NEW x \in Regions
  PROVE  /\ x \in Abstract!Region /\ Multiple(x.ptr, x.request.align)
         /\ x.len >= x.request.size /\ x.ptr \in Nat /\ x.len \in Nat \ {0}
  <1>1. CASE \E b \in blocks : x = BlockRegion(b)
    <2>1. PICK b \in blocks : x = BlockRegion(b)
      BY <1>1
    <2>2. /\ b.request \in Request /\ b.request.size \in Nat /\ BlockPtr(b) \in Nat
          /\ BlockLen(b) \in Nat \ {0} /\ b.request.size <= BlockLen(b)
          /\ Multiple(BlockPtr(b), b.request.align)
      BY HeldBlock, BlockLayout, BlockAligned
    <2> QED
      BY <2>1, <2>2 DEF BlockRegion, Abstract!Region
  <1>2. CASE \E f \in fallbacks : x = FallbackRegion(f)
    <2>1. PICK f \in fallbacks : x = FallbackRegion(f)
      BY <1>2
    <2>2. f \in Fallback
      BY DEF IInv, TypeOK
    <2>3. /\ f.request \in Request /\ f.request.size \in Nat /\ FallbackPtr(f) \in Nat
          /\ FallbackLen(f) \in Nat \ {0} /\ f.request.size <= FallbackLen(f)
          /\ Multiple(FallbackPtr(f), f.request.align)
      BY <2>2, FallbackLayout
    <2> QED
      BY <2>1, <2>3 DEF FallbackRegion, Abstract!Region
  <1> QED
    BY <1>1, <1>2 DEF Regions

\* Different allocations have different regions.
LEMMA RegionsDiffer ==
  ASSUME IInv
  PROVE  /\ \A a, b \in blocks : a # b => BlockRegion(a) # BlockRegion(b)
         /\ \A f, g \in fallbacks : f # g => FallbackRegion(f) # FallbackRegion(g)
         /\ \A b \in blocks, f \in fallbacks : BlockRegion(b) # FallbackRegion(f)
  <1>1. \A p \in Nat, m \in Nat \ {0} : ~Apart(p, m, p, m)
    BY DEF Apart
  <1>2. \A b \in blocks : BlockPtr(b) \in Nat /\ BlockLen(b) \in Nat \ {0}
    BY HeldBlock, BlockLayout
  <1>3. \A f \in fallbacks : FallbackPtr(f) \in Nat /\ FallbackLen(f) \in Nat \ {0}
    BY FallbackLayout DEF IInv, TypeOK
  <1>4. \A b \in blocks : BlockRegion(b).ptr = BlockPtr(b) /\ BlockRegion(b).len = BlockLen(b)
    BY DEF BlockRegion
  <1>5. \A f \in fallbacks :
          FallbackRegion(f).ptr = FallbackPtr(f) /\ FallbackRegion(f).len = FallbackLen(f)
    BY DEF FallbackRegion
  <1>6. ASSUME NEW a \in blocks, NEW b \in blocks, a # b, BlockRegion(a) = BlockRegion(b)
        PROVE  FALSE
    <2>1. BlockPtr(a) = BlockPtr(b) /\ BlockLen(a) = BlockLen(b)
      BY <1>4, <1>6
    <2>2. Apart(BlockPtr(a), BlockLen(a), BlockPtr(b), BlockLen(b))
      BY <1>6, BlocksApart
    <2> QED
      BY <1>1, <1>2, <2>1, <2>2
  <1>7. ASSUME NEW f \in fallbacks, NEW g \in fallbacks, f # g,
               FallbackRegion(f) = FallbackRegion(g)
        PROVE  FALSE
    <2>1. FallbackPtr(f) = FallbackPtr(g) /\ FallbackLen(f) = FallbackLen(g)
      BY <1>5, <1>7
    <2>2. Apart(FallbackPtr(f), FallbackLen(f), FallbackPtr(g), FallbackLen(g))
      BY <1>7, FallbacksApart
    <2> QED
      BY <1>1, <1>3, <2>1, <2>2
  <1>8. ASSUME NEW b \in blocks, NEW f \in fallbacks, BlockRegion(b) = FallbackRegion(f)
        PROVE  FALSE
    <2>1. BlockPtr(b) = FallbackPtr(f) /\ BlockLen(b) = FallbackLen(f)
      BY <1>4, <1>5, <1>8
    <2>2. Apart(BlockPtr(b), BlockLen(b), FallbackPtr(f), FallbackLen(f))
      BY BlockFallbackApart
    <2> QED
      BY <1>1, <1>2, <2>1, <2>2
  <1> QED
    BY <1>6, <1>7, <1>8

RegionsSound ==
  /\ \A x \in Regions : /\ x \in Abstract!Region /\ Multiple(x.ptr, x.request.align)
                        /\ x.len >= x.request.size
  /\ \A x, y \in Regions : x # y => Apart(x.ptr, x.len, y.ptr, y.len)

\* A region more is an allocation of Heap, ...
LEMMA GrowImplements ==
  ASSUME RegionsSound', NEW x, Regions' = Regions \cup {x}
  PROVE  Abstract!Allocate \/ UNCHANGED Regions
  <1>1. CASE x \in Regions
    BY <1>1
  <1>2. CASE x \notin Regions
    <2>1. x \in Regions' \ Regions
      BY <1>2
    <2>2. /\ x \in Abstract!Region /\ Multiple(x.ptr, x.request.align)
          /\ x.len >= x.request.size
      BY <2>1 DEF RegionsSound
    <2>3. \A y \in Regions : Apart(x.ptr, x.len, y.ptr, y.len)
      BY <1>2, <2>1 DEF RegionsSound
    <2> QED
      BY <2>1, <2>2, <2>3 DEF Abstract!Allocate, Abstract!Multiple, Abstract!Apart, Multiple, Apart
  <1> QED
    BY <1>1, <1>2

\* ... and a region less gives one back.
LEMMA BlockFreed ==
  ASSUME IInv, DeallocateBlock
  PROVE  Abstract!Free
  <1>1. PICK b \in blocks : blocks' = blocks \ {b} /\ fallbacks' = fallbacks
    BY DEF DeallocateBlock
  <1>2. \A a \in blocks : a # b => BlockRegion(a) # BlockRegion(b)
    BY RegionsDiffer
  <1>3. \A f \in fallbacks : FallbackRegion(f) # BlockRegion(b)
    BY RegionsDiffer
  <1>4. Regions' = Regions \ {BlockRegion(b)} /\ BlockRegion(b) \in Regions
    BY <1>1, <1>2, <1>3 DEF Regions
  <1> QED
    BY <1>4 DEF Abstract!Free

LEMMA FallbackFreed ==
  ASSUME IInv, DeallocateFallback
  PROVE  Abstract!Free
  <1>1. PICK f \in fallbacks : fallbacks' = fallbacks \ {f} /\ blocks' = blocks
    BY DEF DeallocateFallback
  <1>2. \A g \in fallbacks : g # f => FallbackRegion(g) # FallbackRegion(f)
    BY RegionsDiffer
  <1>3. \A b \in blocks : BlockRegion(b) # FallbackRegion(f)
    BY RegionsDiffer
  <1>4. Regions' = Regions \ {FallbackRegion(f)} /\ FallbackRegion(f) \in Regions
    BY <1>1, <1>2, <1>3 DEF Regions
  <1> QED
    BY <1>4 DEF Abstract!Free

LEMMA AllocationsImplement ==
  ASSUME RegionsSound', NEW t \in Thread, NEW r \in Request,
         AllocateBlock(t, r) \/ AllocateChunk(t, r) \/ AllocateFallback(t, r)
  PROVE  Abstract!Allocate \/ UNCHANGED Regions
  <1>1. CASE AllocateBlock(t, r)
    <2>1. PICK b : blocks' = blocks \cup {b} /\ fallbacks' = fallbacks
      BY <1>1 DEF AllocateBlock
    <2>2. Regions' = Regions \cup {BlockRegion(b)}
      BY <2>1 DEF Regions
    <2> QED
      BY <2>2, GrowImplements
  <1>2. CASE AllocateChunk(t, r)
    <2>1. PICK b : blocks' = blocks \cup {b} /\ fallbacks' = fallbacks
      BY <1>2 DEF AllocateChunk
    <2>2. Regions' = Regions \cup {BlockRegion(b)}
      BY <2>1 DEF Regions
    <2> QED
      BY <2>2, GrowImplements
  <1>3. CASE AllocateFallback(t, r)
    <2>1. PICK f : fallbacks' = fallbacks \cup {f} /\ blocks' = blocks
      BY <1>3 DEF AllocateFallback
    <2>2. Regions' = Regions \cup {FallbackRegion(f)}
      BY <2>1 DEF Regions
    <2> QED
      BY <2>2, GrowImplements
  <1> QED
    BY <1>1, <1>2, <1>3

\* Whatever the sizes, classes, alignments and addresses, callers get aligned storage
\* that is long enough and nobody else's, if the layout is a debug build's; the
\* hypothesis is used for the alignment of pool blocks alone.
THEOREM PoolImplementsHeap ==
  ASSUME LayoutAligned
  PROVE  Spec => ImplementsHeap
  <1>1. IInv => RegionsSound
    BY RegionsTyped, RegionsApart DEF RegionsSound
  <1>2. Init => Abstract!Init
    BY DEF Init, Abstract!Init, Regions
  <1>3. IInv /\ RegionsSound' /\ [Next]_vars => [Abstract!Next]_Regions
    <2> SUFFICES ASSUME IInv, RegionsSound', [Next]_vars
                 PROVE  Abstract!Allocate \/ Abstract!Free \/ UNCHANGED Regions
      BY DEF Abstract!Next
    <2>1. CASE \E t \in Thread, r \in Request :
                 AllocateBlock(t, r) \/ AllocateChunk(t, r) \/ AllocateFallback(t, r)
      BY <2>1, AllocationsImplement
    <2>2. CASE DeallocateBlock
      BY <2>2, BlockFreed
    <2>3. CASE DeallocateFallback
      BY <2>3, FallbackFreed
    <2>4. CASE \E t \in Thread : Exit(t)
      BY <2>4 DEF Exit, Regions
    <2>5. CASE UNCHANGED vars
      BY <2>5 DEF vars, Regions
    <2> QED
      BY <2>1, <2>2, <2>3, <2>4, <2>5 DEF Next
  <1> QED
    BY <1>1, <1>2, <1>3, InvariantHolds, PTL DEF Spec, ImplementsHeap, Abstract!Spec

=============================================================================
