--------------------------- MODULE FixedBlockPool ---------------------------
(***************************************************************************)
(* memory/fixed_block_pool.h: a pool of equal blocks.  Only the owner      *)
(* thread allocates; any thread gives blocks back, the owner through the   *)
(* local free list, the others through a lock-free list.  shutdown()       *)
(* retires the pool while blocks may still be out; from then on whoever    *)
(* returns the last block of a chunk frees the chunk, and the last         *)
(* reference frees the control block.                                      *)
(*                                                                         *)
(* One action is one atomic access of shared memory (or one section of     *)
(* retired_chunk_mutex) with the private code around it.                   *)
(***************************************************************************)
EXTENDS Naturals, Sequences, FiniteSets, SequencesExt

CONSTANTS Chunk, PerChunk, Owner, Remote, NoBlock

Thread == {Owner} \cup Remote
Block == Chunk \X (1 .. PerChunk)

ASSUME PoolAssumption ==
  /\ IsFiniteSet(Chunk) /\ PerChunk \in Nat \ {0} /\ Owner \notin Remote
  /\ IsFiniteSet(Remote) /\ NoBlock \notin Block

VARIABLES
  retired, refs, deleted,  \* PoolControl::retired, ref_count, and its deletion
  chunks,       \* PoolControl::chunks
  freed,        \* the chunks given back to the system
  live,         \* ChunkControl::live_count
  local,        \* local_free_list
  remote,       \* remote_free_list
  out,          \* the blocks in the callers' hands
  pc, blk,      \* where each thread is, and the block it returns
  walk,         \* what shutdown() has still to unlink of the list it took
  sweep,        \* the chunks it has still to look at
  mutex         \* who holds retired_chunk_mutex, if anyone

control == <<retired, refs, deleted>>
lists == <<local, remote, out>>
closing == <<walk, sweep, mutex>>
vars == <<control, chunks, freed, live, lists, pc, blk, closing>>

Made == chunks \cup freed
BlocksOf(c) == {c} \X (1 .. PerChunk)

Init ==
  /\ retired = FALSE /\ refs = 1 /\ deleted = FALSE
  /\ chunks = {} /\ freed = {} /\ live = [c \in Chunk |-> 0]
  /\ local = {} /\ remote = <<>> /\ out = {}
  /\ pc = [t \in Thread |-> "idle"] /\ blk = [t \in Thread |-> NoBlock]
  /\ walk = <<>> /\ sweep = {} /\ mutex = {}

Goto(t, from, to) == pc[t] = from /\ pc' = [pc EXCEPT ![t] = to]

-----------------------------------------------------------------------------
(* allocate, on the owner thread.                                          *)

\* Hand out one block of the free list: live_count and ref_count go up.
Take(free) ==
  \E b \in free :
    /\ local' = free \ {b} /\ out' = out \cup {b}
    /\ live' = [live EXCEPT ![b[1]] = @ + 1]
    /\ refs' = refs + 1

MayAllocate == pc[Owner] = "idle" /\ ~retired

AllocateLocal ==
  /\ MayAllocate /\ local # {}
  /\ Take(local)
  /\ UNCHANGED <<retired, deleted, chunks, freed, remote, pc, blk, closing>>

\* Faulty: reads the remote list, and leaves it there.
AllocateDrainedKeeps ==
  /\ MayAllocate /\ local = {} /\ remote # <<>>
  /\ Take(ToSet(remote))
  /\ UNCHANGED <<retired, deleted, chunks, freed, remote, pc, blk, closing>>

\* drain_remote_frees: takes the whole remote list.
AllocateDrained ==
  /\ MayAllocate /\ local = {} /\ remote # <<>>
  /\ Take(ToSet(remote)) /\ remote' = <<>>
  /\ UNCHANGED <<retired, deleted, chunks, freed, pc, blk, closing>>

\* allocate_chunk.
AllocateFresh ==
  /\ MayAllocate /\ local = {} /\ remote = <<>>
  /\ \E c \in Chunk \ Made : chunks' = chunks \cup {c} /\ Take(BlocksOf(c))
  /\ UNCHANGED <<retired, deleted, freed, remote, pc, blk, closing>>

-----------------------------------------------------------------------------
(* deallocate_header, on any thread.                                       *)

\* The first look at retired decides between the free lists and none.
Free(t) ==
  /\ \E b \in out : out' = out \ {b} /\ blk' = [blk EXCEPT ![t] = b]
  /\ Goto(t, "idle", IF retired THEN "drop" ELSE IF t = Owner THEN "local" ELSE "check")
  /\ UNCHANGED <<control, chunks, freed, live, local, remote, closing>>

PushLocal(t) ==
  /\ Goto(t, "local", "release")
  /\ local' = local \cup {blk[t]}
  /\ UNCHANGED <<control, chunks, freed, live, remote, out, blk, closing>>

\* push_remote_if_active: retired is tested, ...
Check(t) ==
  /\ Goto(t, "check", IF retired THEN "drop" ELSE "push")
  /\ UNCHANGED <<control, chunks, freed, live, lists, blk, closing>>

\* ... the block is pushed (the compare-and-swap that succeeds) ...
PushRemote(t) ==
  /\ Goto(t, "push", "recheck")
  /\ remote' = <<blk[t]>> \o remote
  /\ UNCHANGED <<control, chunks, freed, live, local, out, blk, closing>>

\* ... and retired is tested again.
RecheckRetired(t) ==
  /\ Goto(t, "recheck", IF retired THEN "drop" ELSE "release")
  /\ UNCHANGED <<control, chunks, freed, live, lists, blk, closing>>

\* The list s after the next pointer of b has been cleared.
CutAfter(s, b) ==
  IF b \in ToSet(s) THEN SubSeq(s, 1, CHOOSE i \in DOMAIN s : s[i] = b) ELSE s

\* header->next = nullptr, for a block that may be on a list all the same.
Drop(t) ==
  /\ Goto(t, "drop", "release")
  /\ remote' = CutAfter(remote, blk[t]) /\ walk' = CutAfter(walk, blk[t])
  /\ UNCHANGED <<control, chunks, freed, live, local, out, blk, sweep, mutex>>

\* live_count.fetch_sub.
Release(t) ==
  LET c == blk[t][1] IN
  /\ Goto(t, "release", IF live[c] = 1 THEN "reclaim" ELSE "unref")
  /\ live' = [live EXCEPT ![c] = @ - 1]
  /\ UNCHANGED <<control, chunks, freed, lists, blk, closing>>

\* Faulty: leaves every chunk to shutdown().
ReclaimNever(t) ==
  /\ Goto(t, "reclaim", "unref")
  /\ UNCHANGED <<control, chunks, freed, live, lists, blk, closing>>

\* Faulty: reclaims while the pool is in use.
ReclaimActive(t) ==
  /\ Goto(t, "reclaim", "probe")
  /\ UNCHANGED <<control, chunks, freed, live, lists, blk, closing>>

\* try_reclaim_chunk_if_retired: only a retired pool reclaims, ...
Reclaim(t) ==
  /\ Goto(t, "reclaim", IF retired THEN "probe" ELSE "unref")
  /\ UNCHANGED <<control, chunks, freed, live, lists, blk, closing>>

\* ... only a chunk whose live_count reads 0 (anything, if it is freed), ...
Probe(t) ==
  LET c == blk[t][1] IN
  /\ pc[t] = "probe"
  /\ \/ (live[c] = 0 \/ c \in freed) /\ Goto(t, "probe", "unlink")
     \/ (live[c] # 0 \/ c \in freed) /\ Goto(t, "probe", "unref")
  /\ UNCHANGED <<control, chunks, freed, live, lists, blk, closing>>

\* ... and under the mutex, if the chunk is still in the list.
Unlink(t) ==
  LET c == blk[t][1] IN
  /\ mutex = {} /\ Goto(t, "unlink", "unref")
  /\ IF c \in chunks /\ live[c] = 0
     THEN chunks' = chunks \ {c} /\ freed' = freed \cup {c}
     ELSE UNCHANGED <<chunks, freed>>
  /\ UNCHANGED <<control, live, lists, blk, closing>>

\* release_pool; shutdown() releases the pool's own reference the same way.
Unref(t) ==
  /\ Goto(t, "unref", "idle")
  /\ refs' = refs - 1 /\ deleted' = (refs = 1)
  /\ blk' = [blk EXCEPT ![t] = NoBlock]
  /\ UNCHANGED <<retired, chunks, freed, live, lists, closing>>

-----------------------------------------------------------------------------
(* shutdown, on the owner thread.                                          *)

Retire ==
  /\ MayAllocate /\ pc' = [pc EXCEPT ![Owner] = "exchange"]
  /\ retired' = TRUE
  /\ UNCHANGED <<refs, deleted, chunks, freed, live, lists, blk, closing>>

\* Takes the remote list and forgets the local one.
Exchange ==
  /\ Goto(Owner, "exchange", "walk")
  /\ walk' = remote /\ remote' = <<>> /\ local' = {}
  /\ UNCHANGED <<control, chunks, freed, live, out, blk, sweep, mutex>>

\* Reads and clears the next pointer of one block of that list.
Walk ==
  /\ walk # <<>> /\ Goto(Owner, "walk", "walk")
  /\ walk' = Tail(walk)
  /\ UNCHANGED <<control, chunks, freed, live, lists, blk, sweep, mutex>>

Lock ==
  /\ walk = <<>> /\ mutex = {} /\ Goto(Owner, "walk", "sweep")
  /\ mutex' = {Owner} /\ sweep' = chunks
  /\ UNCHANGED <<control, chunks, freed, live, lists, blk, walk>>

\* Faulty: frees the chunk whoever holds blocks of it.
SweepAll ==
  \E c \in sweep :
    /\ Goto(Owner, "sweep", "sweep")
    /\ sweep' = sweep \ {c}
    /\ chunks' = chunks \ {c} /\ freed' = freed \cup {c}
    /\ UNCHANGED <<control, live, lists, blk, walk, mutex>>

\* Frees a chunk nobody holds a block of.
Sweep ==
  \E c \in sweep :
    /\ Goto(Owner, "sweep", "sweep")
    /\ sweep' = sweep \ {c}
    /\ IF live[c] = 0
       THEN chunks' = chunks \ {c} /\ freed' = freed \cup {c}
       ELSE UNCHANGED <<chunks, freed>>
    /\ UNCHANGED <<control, live, lists, blk, walk, mutex>>

Unlock ==
  /\ sweep = {} /\ Goto(Owner, "sweep", "unref")
  /\ mutex' = {}
  /\ UNCHANGED <<control, chunks, freed, live, lists, blk, walk, sweep>>

-----------------------------------------------------------------------------
\* What a thread inside deallocate or shutdown does next.
Continue(t) ==
  \/ PushLocal(t) \/ Check(t) \/ PushRemote(t) \/ RecheckRetired(t) \/ Drop(t)
  \/ Release(t) \/ Reclaim(t) \/ Probe(t) \/ Unlink(t) \/ Unref(t)

Close == Exchange \/ Walk \/ Lock \/ Sweep \/ Unlock

Next ==
  \/ AllocateLocal \/ AllocateDrained \/ AllocateFresh \/ Retire \/ Close
  \/ \E t \in Thread : Free(t) \/ Continue(t)

Spec == Init /\ [][Next]_vars

-----------------------------------------------------------------------------
(* Properties.                                                             *)

Accessing == {"local", "check", "push", "recheck", "drop", "release"}
Probing == {"reclaim", "probe", "unlink"}

\* The control block, the lists and the threads of fixed_block_pool.h:80-115.
TypeOK ==
  /\ retired \in BOOLEAN /\ refs \in Nat /\ deleted \in BOOLEAN
  /\ chunks \subseteq Chunk /\ freed \subseteq Chunk /\ chunks \cap freed = {}
  /\ live \in [Chunk -> 0 .. PerChunk + Cardinality(Thread)]
  /\ local \subseteq Block /\ remote \in Seq(Block) /\ out \subseteq Block
  /\ pc \in [Thread -> {"idle", "exchange", "walk", "sweep", "unref"} \cup Accessing \cup Probing]
  /\ \A t \in Thread : blk[t] \in Block \cup {NoBlock}
  /\ walk \in Seq(Block) /\ sweep \subseteq Chunk /\ mutex \subseteq {Owner}

\* The threads that are returning a block of c and have not given up its count.
Returning(c) == {t \in Thread : pc[t] \in Accessing /\ blk[t][1] = c}

\* live_count counts the blocks callers hold or are returning, so that nobody
\* frees a chunk under them and somebody finds it 0 (fixed_block_pool.h:68-75).
LiveCounted ==
  \A c \in Chunk :
    /\ live[c] = Cardinality(out \cap BlocksOf(c)) + Cardinality(Returning(c))
    /\ live[c] > 0 => c \in chunks

\* A block is in one place: it is never handed out while it is free, or twice,
\* however its return interleaves with the owner draining the remote list.
OnePlace ==
  LET InFlight == {blk[t] : t \in {u \in Thread : pc[u] \in {"local", "check", "push"}}} IN
  /\ local \cap ToSet(remote) = {}
  /\ out \cap (local \cup ToSet(remote) \cup InFlight) = {}
  /\ InFlight \cap (local \cup ToSet(remote)) = {}
  /\ IsInjective(remote)
  /\ ~retired => \A c \in chunks :
       BlocksOf(c) \subseteq local \cup ToSet(remote) \cup out \cup InFlight

\* Whoever comes last gives everything back, and nobody before: the control block is
\* gone exactly when shutdown() is over, the blocks are returned and nobody is in a
\* call, and it leaves no chunk behind (fixed_block_pool.h:16-20, 83-88).
FreedByTheLast ==
  /\ deleted <=> retired /\ out = {} /\ \A t \in Thread : pc[t] = "idle"
  /\ deleted => chunks = {}

\* Nobody reads freed memory: neither shutdown(), which follows the next pointers
\* of the blocks it took, nor the thread that looks at live_count once more after
\* it has given up its own count.
ReadsLiveChunk ==
  /\ pc[Owner] = "walk" /\ walk # <<>> => Head(walk)[1] \notin freed
  /\ \A t \in Thread : pc[t] \in {"probe", "unlink"} => blk[t][1] \notin freed

\* What callers see of the pool (fixed_block_pool.h:16-20, 76-88): free lists, counters
\* and the threads that race each other to the last block are invisible to them.
Abstract == INSTANCE BlockPool WITH spent <- freed, open <- ~retired, gone <- deleted
ImplementsBlockPool == Abstract!Spec

=============================================================================
