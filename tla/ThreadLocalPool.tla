--------------------------- MODULE ThreadLocalPool ---------------------------
(***************************************************************************)
(* memory/thread_local_pool.h over the layout of memory/fixed_block_pool.h:*)
(* where the storage lies that allocate() returns, and which raw memory    *)
(* deallocate() gives back.  ObjectPool, MemoryResource and the coroutine  *)
(* frames of task/task.h call nothing else.                                *)
(*                                                                         *)
(* Every thread has a pool per size class.  A call of a pool is one step   *)
(* here; FixedBlockPool shows the steps it is made of, and that a block of *)
(* a pool is either free or with a caller.  Sizes are numbers of bytes.    *)
(***************************************************************************)
EXTENDS Layout, Sequences, FiniteSets

CONSTANTS
  Thread,
  Request,         \* the size and align that callers pass to allocate()
  SizeClass,       \* size_classes_
  BlocksPerChunk,  \* blocks_per_chunk_for each of them
  SmallMax,        \* small_object_max_size
  MaxAlign, PtrAlign,                   \* alignof(max_align_t), alignof(void*)
  HeaderSize, PrefixSize, ControlSize,  \* sizeof AllocationHeader, AllocationPrefix, ChunkControl
  SizeLimit,       \* 2^32, which usable_size cannot reach
  Address,         \* where operator new may find memory
  MaxLive          \* bound on the allocations in the callers' hands

Class == DOMAIN SizeClass

ASSUME LayoutAssumption ==
  /\ Request \subseteq [size : Nat, align : Nat \ {0}]
  /\ SizeClass \in Seq(Nat \ {0}) /\ BlocksPerChunk \in [Class -> Nat \ {0}]
  /\ SmallMax \in Nat /\ \E k \in Class : SmallMax <= SizeClass[k]
  /\ MaxAlign \in Nat \ {0} /\ PtrAlign \in Nat \ {0} /\ MaxLive \in Nat
  /\ HeaderSize \in Nat /\ PrefixSize \in Nat /\ ControlSize \in Nat

\* Alignments are powers of two, and memory comes aligned to max_align_t.
ASSUME AlignAssumption ==
  /\ \A r \in Request : r.align <= PtrAlign => Multiple(PtrAlign, r.align)
  /\ \A r \in Request : r.align <= MaxAlign => Multiple(MaxAlign, r.align)
  /\ Address \subseteq Nat /\ \A x \in Address : Multiple(x, MaxAlign)

\* usable_size is a std::uint32_t.
ASSUME SizeAssumption ==
  /\ SizeLimit \in Nat \ {0, 1} /\ \A r \in Request : r.size < SizeLimit
  /\ \A k \in Class : SizeClass[k] + MaxAlign <= SizeLimit

VARIABLES
  chunks,     \* the chunks of the pools
  blocks,     \* their blocks that are in the callers' hands
  fallbacks,  \* the fallback allocations in the callers' hands
  exited      \* the threads whose ThreadLocalPool is destroyed

vars == <<chunks, blocks, fallbacks, exited>>

Chunk == [thread : Thread, class : Class, base : Address]
Block == [chunk : Chunk, index : Nat, request : Request]
Fallback == [base : Address, request : Request]

-----------------------------------------------------------------------------
(* The layout.                                                             *)

\* initialize.
BlockUserSize(k) == AlignUp(SizeClass[k], MaxAlign)
BlockTotal(k) == AlignUp(HeaderSize + PrefixSize + BlockUserSize(k), MaxAlign)

\* allocate_chunk: the ChunkControl and the blocks, each
\* [AllocationHeader][AllocationPrefix][user storage].
ChunkBytes(k) == ControlSize + BlocksPerChunk[k] * BlockTotal(k)
Index(k) == 0 .. BlocksPerChunk[k] - 1
HeaderOf(c, i) == c.base + ControlSize + i * BlockTotal(c.class)
BlockPtr(b) == HeaderOf(b.chunk, b.index) + HeaderSize + PrefixSize

\* allocate() takes a request of size 0 for one of size 1.
Size(r) == IF r.size = 0 THEN 1 ELSE r.size

\* Faulty: leaves no room to align the pointer.
FallbackTotalTight(r) == HeaderSize + PrefixSize + Size(r) + PtrAlign

\* fallback_allocate: [AllocationHeader][padding][AllocationPrefix][user memory].
FallbackAlign(r) == IF r.align < PtrAlign THEN PtrAlign ELSE r.align
FallbackTotal(r) == HeaderSize + PrefixSize + Size(r) + FallbackAlign(r)
FallbackPtr(f) == AlignUp(f.base + HeaderSize + PrefixSize, FallbackAlign(f.request))

\* usable_size().
Usable(size) == size % SizeLimit
BlockLen(b) == Usable(BlockUserSize(b.chunk.class))
FallbackLen(f) == Usable(Size(f.request))

\* operator new finds memory that is nobody's.
Unused(base, bytes) ==
  /\ \A c \in chunks : Apart(base, bytes, c.base, ChunkBytes(c.class))
  /\ \A f \in fallbacks : Apart(base, bytes, f.base, FallbackTotal(f.request))

-----------------------------------------------------------------------------
(* allocate() on thread t.                                                 *)

MayAllocate(t) == t \notin exited /\ Cardinality(blocks) + Cardinality(fallbacks) < MaxLive

\* Faulty: the size alone decides.
CanUseSmallPoolBySize(r) == Size(r) <= SmallMax

CanUseSmallPool(r) == r.align <= MaxAlign /\ Size(r) <= SmallMax

\* size_class_index: the first class that is large enough.
IsSizeClass(k, r) ==
  Size(r) <= SizeClass[k] /\ \A j \in 1 .. k - 1 : SizeClass[j] < Size(r)

IsFree(c, i) == \A b \in blocks : ~(b.chunk = c /\ b.index = i)

PoolOf(t, k) == {c \in chunks : c.thread = t /\ c.class = k}

\* A free block of the pool, ...
AllocateBlock(t, r) ==
  /\ MayAllocate(t) /\ CanUseSmallPool(r)
  /\ \E k \in Class : IsSizeClass(k, r) /\
       \E c \in PoolOf(t, k), i \in Index(k) :
         IsFree(c, i) /\ blocks' = blocks \cup {[chunk |-> c, index |-> i, request |-> r]}
  /\ UNCHANGED <<chunks, fallbacks, exited>>

\* ... or, if it has none, one of a new chunk, ...
AllocateChunk(t, r) ==
  /\ MayAllocate(t) /\ CanUseSmallPool(r)
  /\ \E k \in Class : IsSizeClass(k, r) /\
       /\ \A c \in PoolOf(t, k), i \in Index(k) : ~IsFree(c, i)
       /\ \E x \in Address : Unused(x, ChunkBytes(k)) /\
            LET c == [thread |-> t, class |-> k, base |-> x] IN
            /\ chunks' = chunks \cup {c}
            /\ \E i \in Index(k) : blocks' = blocks \cup {[chunk |-> c, index |-> i, request |-> r]}
  /\ UNCHANGED <<fallbacks, exited>>

\* ... or memory of its own.  Out of memory, they throw and change nothing.
AllocateFallback(t, r) ==
  /\ MayAllocate(t) /\ ~CanUseSmallPool(r)
  /\ \E x \in Address :
       Unused(x, FallbackTotal(r)) /\ fallbacks' = fallbacks \cup {[base |-> x, request |-> r]}
  /\ UNCHANGED <<chunks, blocks, exited>>

-----------------------------------------------------------------------------
(* deallocate(), on any thread: header->owner tells where a pointer is     *)
(* from.                                                                   *)

Dead(c, held) == c.thread \in exited /\ \A b \in held : b.chunk # c

\* Faulty: the block is given back to a pool that is gone, and its chunk stays.
DeallocateBlockLate ==
  \E b \in blocks :
    /\ blocks' = blocks \ {b}
    /\ UNCHANGED <<chunks, fallbacks, exited>>

\* deallocate_header; of a retired pool, the last block takes its chunk along.
DeallocateBlock ==
  \E b \in blocks :
    /\ blocks' = blocks \ {b}
    /\ chunks' = IF Dead(b.chunk, blocks \ {b}) THEN chunks \ {b.chunk} ELSE chunks
    /\ UNCHANGED <<fallbacks, exited>>

\* fallback_deallocate.
DeallocateFallback ==
  \E f \in fallbacks :
    /\ fallbacks' = fallbacks \ {f}
    /\ UNCHANGED <<chunks, blocks, exited>>

\* The thread ends; shutdown() of its pools frees the chunks nobody uses.
Exit(t) ==
  /\ t \notin exited /\ exited' = exited \cup {t}
  /\ chunks' = {c \in chunks : c.thread = t => \E b \in blocks : b.chunk = c}
  /\ UNCHANGED <<blocks, fallbacks>>

-----------------------------------------------------------------------------
Init == chunks = {} /\ blocks = {} /\ fallbacks = {} /\ exited = {}

Next ==
  \/ \E t \in Thread, r \in Request :
       AllocateBlock(t, r) \/ AllocateChunk(t, r) \/ AllocateFallback(t, r)
  \/ DeallocateBlock \/ DeallocateFallback
  \/ \E t \in Thread : Exit(t)

Spec == Init /\ [][Next]_vars

-----------------------------------------------------------------------------
(* Properties.                                                             *)

\* The chunks, the allocations and the threads.
TypeOK ==
  /\ chunks \subseteq Chunk /\ blocks \subseteq Block /\ fallbacks \subseteq Fallback
  /\ exited \subseteq Thread

\* The regions of Heap: what the callers hold.
BlockRegion(b) == [ptr |-> BlockPtr(b), len |-> BlockLen(b), request |-> b.request]
FallbackRegion(f) == [ptr |-> FallbackPtr(f), len |-> FallbackLen(f), request |-> f.request]
Regions == {BlockRegion(b) : b \in blocks} \cup {FallbackRegion(f) : f \in fallbacks}

Abstract == INSTANCE Heap WITH regions <- Regions

\* Callers get aligned storage nobody else has, whichever path it comes from, until
\* they give it back, even after the thread that allocated it has ended
\* (thread_local_pool.h:40-42, fixed_block_pool.h:16-20).
ImplementsHeap == Abstract!Spec

\* No caller can write to what deallocate() reads: a caller's storage lies in one raw
\* allocation that is not freed before, behind its own header and prefix
\* and in front of the next one's (thread_local_pool.h:172-175).
MetadataIsSafe ==
  /\ \A b \in blocks :
       /\ b.chunk \in chunks /\ b.index \in Index(b.chunk.class)
       /\ BlockPtr(b) + BlockLen(b) <=
            IF b.index + 1 \in Index(b.chunk.class) THEN HeaderOf(b.chunk, b.index + 1)
            ELSE b.chunk.base + ChunkBytes(b.chunk.class)
  /\ \A f \in fallbacks :
       /\ FallbackPtr(f) >= f.base + HeaderSize + PrefixSize
       /\ FallbackPtr(f) + Size(f.request) <= f.base + FallbackTotal(f.request)

\* Whoever gives back the last block of a thread that has ended frees its chunk.
ExitedKeepsNothing ==
  \A c \in chunks : c.thread \in exited => \E b \in blocks : b.chunk = c

\* "[AllocationHeader][AllocationPrefix][aligned user storage]"
\* (fixed_block_pool.h:317), and alignments up to that of max_align_t take this
\* path (thread_local_pool.h:41).
BlocksAreAligned == \A b \in blocks : Multiple(BlockPtr(b), b.request.align)

-----------------------------------------------------------------------------
(* The invariant of the proofs.                                            *)

\* A block that is held is one of a chunk that is there, and large enough.
HeldIsThere ==
  \A b \in blocks :
    /\ b.chunk \in chunks /\ b.index \in Index(b.chunk.class)
    /\ b.request.align <= MaxAlign /\ Size(b.request) <= SizeClass[b.chunk.class]

HeldOnce == \A a, b \in blocks : a.chunk = b.chunk /\ a.index = b.index => a = b

\* No two pieces of raw memory overlap.
RawApart ==
  /\ \A c, d \in chunks : c # d => Apart(c.base, ChunkBytes(c.class), d.base, ChunkBytes(d.class))
  /\ \A f, g \in fallbacks :
       f # g => Apart(f.base, FallbackTotal(f.request), g.base, FallbackTotal(g.request))
  /\ \A c \in chunks, f \in fallbacks :
       Apart(c.base, ChunkBytes(c.class), f.base, FallbackTotal(f.request))

\* The raw memory in use is disjoint, and the blocks in the callers' hands are
\* distinct blocks of chunks that have not been freed.
IInv == TypeOK /\ HeldIsThere /\ HeldOnce /\ RawApart /\ ExitedKeepsNothing

=============================================================================
