------------------------ MODULE FixedBlockPoolProofs ------------------------
(***************************************************************************)
(* Proofs about FixedBlockPool: for any number of chunks, blocks and       *)
(* threads, a block is in one place, live_count and ref_count count what   *)
(* they should, and the last reference gives everything back.              *)
(***************************************************************************)
EXTENDS FixedBlockPool, FiniteSetTheorems, TLAPS

-----------------------------------------------------------------------------
(* The inductive invariant.                                                *)

Busy == {t \in Thread : pc[t] # "idle"}
Carrying == {"local", "check", "push"}
Closing == {"exchange", "walk", "sweep"}

\* TypeOK without the bound on live_count, which follows from LiveCounted.
Typed ==
  /\ retired \in BOOLEAN /\ refs \in Nat /\ deleted \in BOOLEAN
  /\ chunks \subseteq Chunk /\ freed \subseteq Chunk /\ chunks \cap freed = {}
  /\ live \in [Chunk -> Nat]
  /\ local \subseteq Block /\ remote \in Seq(Block) /\ out \subseteq Block
  /\ pc \in [Thread -> {"idle", "unref"} \cup Closing \cup Accessing \cup Probing]
  /\ blk \in [Thread -> Block \cup {NoBlock}]
  /\ walk \in Seq(Block) /\ sweep \subseteq Chunk /\ mutex \subseteq {Owner}

\* A thread inside deallocate has a block; only shutdown() closes, and a block is
\* dropped or a chunk looked at again only after it has begun.
PcSound ==
  \A t \in Thread :
    /\ pc[t] \in Accessing \cup Probing => blk[t] \in Block
    /\ pc[t] \in Closing => t = Owner
    /\ pc[t] \in Closing \cup {"drop", "probe", "unlink"} => retired

\* Two threads never carry the same block to a free list.
CarriedOnce ==
  \A t, u \in Thread : pc[t] \in Carrying /\ pc[u] \in Carrying /\ blk[t] = blk[u] => t = u

\* Until the pool is retired, no chunk has gone and free blocks are of chunks it has.
FreeIsThere ==
  ~retired => freed = {} /\ \A b \in local \cup ToSet(remote) : b[1] \in chunks

\* ref_count is the pool's own reference, until shutdown() gives it up, one for each
\* block that is out, and one for each thread inside a call.
RefsCounted ==
  refs = Cardinality(out) + Cardinality(Busy) + (IF retired THEN 0 ELSE 1)

\* Of a retired pool, every chunk has somebody who will free it: a holder of one of
\* its blocks, shutdown(), or a thread that is looking whether it came last.
ChunksHaveKeepers ==
  retired => \A c \in chunks :
    \/ live[c] > 0
    \/ pc[Owner] \in {"exchange", "walk"}
    \/ pc[Owner] = "sweep" /\ c \in sweep
    \/ \E t \in Thread : pc[t] \in Probing /\ blk[t][1] = c

IInv ==
  /\ Typed /\ PcSound /\ LiveCounted /\ OnePlace /\ CarriedOnce /\ FreeIsThere
  /\ RefsCounted /\ ChunksHaveKeepers /\ FreedByTheLast

-----------------------------------------------------------------------------
(* The lists, as sets.                                                     *)

\* A block in front of the remote list.
LEMMA PushedElems ==
  ASSUME NEW S, NEW s \in Seq(S), NEW x \in S
  PROVE  /\ <<x>> \o s \in Seq(S)
         /\ ToSet(<<x>> \o s) = {x} \cup ToSet(s)
         /\ IsInjective(s) /\ x \notin ToSet(s) => IsInjective(<<x>> \o s)
  <1> DEFINE r == <<x>> \o s
  <1>1. /\ Len(s) \in Nat /\ DOMAIN s = 1 .. Len(s)
        /\ r \in Seq(S) /\ Len(r) = Len(s) + 1 /\ DOMAIN r = 1 .. Len(s) + 1
        /\ r[1] = x /\ \A i \in 1 .. Len(s) : r[i + 1] = s[i]
    OBVIOUS
  <1> HIDE DEF r
  <1>2. \A i \in DOMAIN r : i = 1 \/ (i - 1 \in DOMAIN s /\ r[i] = s[i - 1])
    BY <1>1
  <1>3. \A i \in DOMAIN s : i + 1 \in DOMAIN r
    BY <1>1
  <1>4. 1 \in DOMAIN r
    BY <1>1
  <1>5. ToSet(r) = {x} \cup ToSet(s)
    BY <1>1, <1>2, <1>3, <1>4 DEF ToSet
  <1>6. ASSUME IsInjective(s), x \notin ToSet(s)
        PROVE  IsInjective(r)
    <2>1. \A i \in DOMAIN s : s[i] # x
      BY <1>6 DEF ToSet
    <2> QED
      BY <1>1, <1>2, <1>6, <2>1 DEF IsInjective
  <1> QED
    BY <1>1, <1>5, <1>6 DEF r

\* Clearing a next pointer shortens a list.
LEMMA CutElems ==
  ASSUME NEW S, NEW s \in Seq(S), NEW b
  PROVE  /\ CutAfter(s, b) \in Seq(S)
         /\ ToSet(CutAfter(s, b)) \subseteq ToSet(s)
         /\ IsInjective(s) => IsInjective(CutAfter(s, b))
  <1>1. CASE b \notin ToSet(s)
    BY <1>1 DEF CutAfter
  <1>2. CASE b \in ToSet(s)
    <2> DEFINE i == CHOOSE j \in DOMAIN s : s[j] = b
               r == SubSeq(s, 1, i)
    <2>1. i \in DOMAIN s
      BY <1>2 DEF ToSet
    <2>2. CutAfter(s, b) = r
      BY <1>2 DEF CutAfter
    <2>3. i \in 1 .. Len(s) /\ Len(s) \in Nat /\ DOMAIN s = 1 .. Len(s)
      BY <2>1
    <2> HIDE DEF i
    <2>4. /\ r \in Seq(S) /\ DOMAIN r = 1 .. i
          /\ \A j \in 1 .. i : r[j] = s[j] /\ j \in DOMAIN s
      BY <2>3
    <2> HIDE DEF r
    <2> QED
      BY <2>2, <2>4 DEF ToSet, IsInjective
  <1> QED
    BY <1>1, <1>2

-----------------------------------------------------------------------------
(* The sets that are counted.                                              *)

LEMMA FiniteParts ==
  ASSUME Typed
  PROVE  /\ IsFiniteSet(Block) /\ IsFiniteSet(out) /\ IsFiniteSet(Thread) /\ IsFiniteSet(Busy)
         /\ \A c : IsFiniteSet(out \cap BlocksOf(c)) /\ IsFiniteSet(Returning(c))
  <1>1. IsFiniteSet(1 .. PerChunk)
    BY PoolAssumption, FS_Interval
  <1>2. IsFiniteSet(Block)
    BY <1>1, PoolAssumption, FS_Product DEF Block
  <1>3. IsFiniteSet(Thread)
    BY PoolAssumption, FS_Singleton, FS_Union DEF Thread
  <1>4. out \in SUBSET Block /\ Busy \in SUBSET Thread
        /\ \A c : out \cap BlocksOf(c) \in SUBSET Block /\ Returning(c) \in SUBSET Thread
    BY DEF Typed, Busy, Returning
  <1> QED
    BY <1>2, <1>3, <1>4, FS_Subset

LEMMA BlockParts ==
  ASSUME NEW b \in Block
  PROVE  b[1] \in Chunk /\ \A c : b \in BlocksOf(c) <=> b[1] = c
  BY DEF Block, BlocksOf

LEMMA BlocksOfChunk ==
  ASSUME NEW c \in Chunk, NEW b \in BlocksOf(c)
  PROVE  b \in Block /\ b[1] = c
  <1>1. \E i \in 1 .. PerChunk : b = <<c, i>>
    BY DEF BlocksOf
  <1> QED
    BY <1>1 DEF Block

\* The chunk of a block that is being returned is not freed: the block counts.
LEMMA ReturnedIsThere ==
  ASSUME Typed, PcSound, LiveCounted, NEW t \in Thread, pc[t] \in Accessing
  PROVE  /\ blk[t] \in Block /\ blk[t][1] \in Chunk /\ blk[t][1] \in chunks
         /\ live[blk[t][1]] \in Nat \ {0}
  <1> DEFINE c == blk[t][1]
  <1>1. blk[t] \in Block /\ c \in Chunk
    BY BlockParts DEF PcSound
  <1>2. t \in Returning(c)
    BY DEF Returning
  <1>3. Cardinality(Returning(c)) \in Nat \ {0} /\ Cardinality(out \cap BlocksOf(c)) \in Nat
    BY <1>2, FiniteParts, FS_EmptySet, FS_CardinalityType
  <1>4. live[c] > 0 /\ live[c] \in Nat
    BY <1>1, <1>3 DEF LiveCounted, Typed
  <1>5. c \in chunks
    BY <1>1, <1>4 DEF LiveCounted
  <1> QED
    BY <1>1, <1>4, <1>5

-----------------------------------------------------------------------------
(* Types, and who may be where.                                            *)

LEMMA TypedInit == Init => Typed /\ PcSound
  <1> SUFFICES ASSUME Init PROVE Typed /\ PcSound
    OBVIOUS
  <1>1. \A t \in Thread : pc[t] = "idle"
    BY DEF Init
  <1>2. PcSound
    BY <1>1 DEF PcSound, Accessing, Probing, Closing
  <1>3. live \in [Chunk -> Nat] /\ blk \in [Thread -> Block \cup {NoBlock}]
    BY DEF Init
  <1>4. remote \in Seq(Block) /\ walk \in Seq(Block)
    BY DEF Init
  <1>5. pc \in [Thread -> {"idle", "unref"} \cup Closing \cup Accessing \cup Probing]
    BY DEF Init
  <1> QED
    BY <1>2, <1>3, <1>4, <1>5 DEF Init, Typed

LEMMA TypedStep ==
  ASSUME Typed, PcSound, LiveCounted, RefsCounted, [Next]_vars
  PROVE  Typed' /\ PcSound'
  <1> USE PoolAssumption DEF Typed, PcSound, control, lists, closing, Goto,
            Accessing, Probing, Closing, Thread
  <1>0. \A b \in Block : b[1] \in Chunk
    BY DEF Block
  <1>1. ASSUME AllocateLocal PROVE Typed' /\ PcSound'
    BY <1>0, <1>1 DEF AllocateLocal, Take, MayAllocate
  <1>2. ASSUME AllocateDrained PROVE Typed' /\ PcSound'
    BY <1>0, <1>2 DEF AllocateDrained, Take, MayAllocate, ToSet
  <1>3. ASSUME AllocateFresh PROVE Typed' /\ PcSound'
    BY <1>0, <1>3 DEF AllocateFresh, Take, MayAllocate, Made, BlocksOf, Block
  <1>4. ASSUME Retire PROVE Typed' /\ PcSound'
    BY <1>4 DEF Retire, MayAllocate
  <1>5. ASSUME Exchange PROVE Typed' /\ PcSound'
    BY <1>5 DEF Exchange
  <1>6. ASSUME Walk PROVE Typed' /\ PcSound'
    BY <1>6 DEF Walk
  <1>7. ASSUME Lock PROVE Typed' /\ PcSound'
    BY <1>7 DEF Lock
  <1>8. ASSUME Sweep PROVE Typed' /\ PcSound'
    BY <1>8 DEF Sweep
  <1>9. ASSUME Unlock PROVE Typed' /\ PcSound'
    BY <1>9 DEF Unlock
  <1>10. ASSUME NEW t \in Thread, Free(t) PROVE Typed' /\ PcSound'
    BY <1>10 DEF Free
  <1>11. ASSUME NEW t \in Thread, PushLocal(t) PROVE Typed' /\ PcSound'
    BY <1>11 DEF PushLocal
  <1>12. ASSUME NEW t \in Thread, Check(t) PROVE Typed' /\ PcSound'
    BY <1>12 DEF Check
  <1>13. ASSUME NEW t \in Thread, PushRemote(t) PROVE Typed' /\ PcSound'
    <2>1. blk[t] \in Block /\ remote' \in Seq(Block)
      BY <1>13, PushedElems DEF PushRemote
    <2> QED
      BY <1>13, <2>1 DEF PushRemote
  <1>14. ASSUME NEW t \in Thread, RecheckRetired(t) PROVE Typed' /\ PcSound'
    BY <1>14 DEF RecheckRetired
  <1>15. ASSUME NEW t \in Thread, Drop(t) PROVE Typed' /\ PcSound'
    <2>1. remote' \in Seq(Block) /\ walk' \in Seq(Block)
      BY <1>15, CutElems DEF Drop
    <2> QED
      BY <1>15, <2>1 DEF Drop
  <1>16. ASSUME NEW t \in Thread, Release(t) PROVE Typed' /\ PcSound'
    <2> DEFINE c == blk[t][1]
    <2>1. c \in Chunk /\ live[c] \in Nat \ {0}
      BY <1>16, ReturnedIsThere DEF Release
    <2> QED
      BY <1>16, <2>1 DEF Release
  <1>17. ASSUME NEW t \in Thread, Reclaim(t) PROVE Typed' /\ PcSound'
    BY <1>17 DEF Reclaim
  <1>18. ASSUME NEW t \in Thread, Probe(t) PROVE Typed' /\ PcSound'
    BY <1>18 DEF Probe
  <1>19. ASSUME NEW t \in Thread, Unlink(t) PROVE Typed' /\ PcSound'
    BY <1>19 DEF Unlink
  <1>20. ASSUME NEW t \in Thread, Unref(t) PROVE Typed' /\ PcSound'
    <2>1. t \in Busy
      BY <1>20 DEF Unref, Busy
    <2>2. Cardinality(Busy) \in Nat \ {0} /\ Cardinality(out) \in Nat
      BY <2>1, FiniteParts, FS_EmptySet, FS_CardinalityType
    <2>3. refs # 0
      BY <2>2 DEF RefsCounted
    <2> QED
      BY <1>20, <2>3 DEF Unref
  <1>21. ASSUME UNCHANGED vars PROVE Typed' /\ PcSound'
    BY <1>21 DEF vars
  <1> QED
    BY <1>1, <1>2, <1>3, <1>4, <1>5, <1>6, <1>7, <1>8, <1>9, <1>10, <1>11, <1>12, <1>13,
       <1>14, <1>15, <1>16, <1>17, <1>18, <1>19, <1>20, <1>21 DEF Next, Close, Continue

-----------------------------------------------------------------------------
(* live_count.                                                             *)

\* A block that is handed out adds one to the count of its chunk, ...
LEMMA TakeCounts ==
  ASSUME Typed, LiveCounted, NEW b \in Block, b \notin out, out' = out \cup {b},
         live' = [live EXCEPT ![b[1]] = @ + 1], pc' = pc, blk' = blk,
         chunks \subseteq chunks', b[1] \in chunks'
  PROVE  LiveCounted'
  <1> SUFFICES ASSUME NEW c \in Chunk
               PROVE  /\ live'[c] = Cardinality(out' \cap BlocksOf(c)) + Cardinality(Returning(c)')
                      /\ live'[c] > 0 => c \in chunks'
    BY DEF LiveCounted, BlocksOf
  <1> DEFINE H == out \cap BlocksOf(c)
  <1>1. Returning(c)' = Returning(c)
    BY DEF Returning
  <1>2. IsFiniteSet(H) /\ Cardinality(H) \in Nat /\ Cardinality(Returning(c)) \in Nat
    BY FiniteParts, FS_CardinalityType
  <1>3. live[c] = Cardinality(H) + Cardinality(Returning(c)) /\ (live[c] > 0 => c \in chunks)
    BY DEF LiveCounted
  <1>4. CASE b[1] = c
    <2>1. out' \cap BlocksOf(c) = H \cup {b} /\ b \notin H
      BY <1>4, BlockParts
    <2>2. Cardinality(out' \cap BlocksOf(c)) = Cardinality(H) + 1
      <3>1. Cardinality(H \cup {b}) = Cardinality(H) + 1
        BY <1>2, <2>1, FS_AddElement
      <3> QED
        BY <2>1, <3>1, Zenon
    <2>3. live'[c] = live[c] + 1
      BY <1>4 DEF Typed
    <2> QED
      BY <1>1, <1>2, <1>3, <1>4, <2>2, <2>3
  <1>5. CASE b[1] # c
    <2>1. out' \cap BlocksOf(c) = H
      BY <1>5, BlockParts
    <2>2. live'[c] = live[c]
      BY <1>5, BlockParts DEF Typed
    <2> QED
      BY <1>1, <1>3, <2>1, <2>2
  <1> QED
    BY <1>4, <1>5

\* ... one that comes back passes its count to the thread that returns it, ...
LEMMA FreeCounts ==
  ASSUME Typed, LiveCounted, NEW b \in out, NEW t \in Thread, pc[t] = "idle",
         NEW p \in Accessing, pc' = [pc EXCEPT ![t] = p], blk' = [blk EXCEPT ![t] = b],
         out' = out \ {b}, live' = live, chunks' = chunks
  PROVE  LiveCounted'
  <1> SUFFICES ASSUME NEW c \in Chunk
               PROVE  live[c] = Cardinality(out' \cap BlocksOf(c)) + Cardinality(Returning(c)')
    BY DEF LiveCounted, BlocksOf
  <1> DEFINE H == out \cap BlocksOf(c)
  <1>1. b \in Block /\ pc \in [Thread -> {"idle", "unref"} \cup Closing \cup Accessing \cup Probing]
        /\ blk \in [Thread -> Block \cup {NoBlock}]
    BY DEF Typed
  <1>2. /\ IsFiniteSet(H) /\ Cardinality(H) \in Nat
        /\ IsFiniteSet(Returning(c)) /\ Cardinality(Returning(c)) \in Nat
    BY FiniteParts, FS_CardinalityType
  <1>3. live[c] = Cardinality(H) + Cardinality(Returning(c))
    BY DEF LiveCounted
  <1>4. pc[t] \notin Accessing
    BY DEF Accessing
  <1>5. \A u \in Thread \ {t} : pc'[u] = pc[u] /\ blk'[u] = blk[u]
    BY <1>1
  <1>6. pc'[t] = p /\ blk'[t] = b
    BY <1>1
  <1>7. CASE b[1] = c
    <2>1. out' \cap BlocksOf(c) = H \ {b} /\ b \in H
      BY <1>1, <1>7, BlockParts
    <2>2. Returning(c)' = Returning(c) \cup {t} /\ t \notin Returning(c)
      BY <1>4, <1>5, <1>6, <1>7 DEF Returning
    <2>3. Cardinality(out' \cap BlocksOf(c)) = Cardinality(H) - 1
      <3>1. Cardinality(H \ {b}) = Cardinality(H) - 1
        BY <1>2, <2>1, FS_RemoveElement
      <3> QED
        BY <2>1, <3>1, Zenon
    <2>4. Cardinality(Returning(c)') = Cardinality(Returning(c)) + 1
      <3>1. Cardinality(Returning(c) \cup {t}) = Cardinality(Returning(c)) + 1
        BY <1>2, <2>2, FS_AddElement
      <3> QED
        BY <2>2, <3>1, Zenon
    <2> QED
      BY <1>2, <1>3, <2>3, <2>4
  <1>8. CASE b[1] # c
    <2>1. out' \cap BlocksOf(c) = H
      BY <1>1, <1>8, BlockParts
    <2>2. Returning(c)' = Returning(c)
      BY <1>4, <1>5, <1>6, <1>8 DEF Returning
    <2> QED
      BY <1>3, <2>1, <2>2
  <1> QED
    BY <1>7, <1>8

\* ... and that thread takes it off.
LEMMA ReleaseCounts ==
  ASSUME Typed, PcSound, LiveCounted, NEW t \in Thread, Release(t)
  PROVE  LiveCounted'
  <1> SUFFICES ASSUME NEW c \in Chunk
               PROVE  /\ live'[c] = Cardinality(out' \cap BlocksOf(c)) + Cardinality(Returning(c)')
                      /\ live'[c] > 0 => c \in chunks'
    BY DEF LiveCounted, BlocksOf
  <1> DEFINE d == blk[t][1]
             q == IF live[d] = 1 THEN "reclaim" ELSE "unref"
  <1>1. /\ pc[t] = "release" /\ pc' = [pc EXCEPT ![t] = q]
        /\ live' = [live EXCEPT ![d] = @ - 1]
        /\ out' = out /\ blk' = blk /\ chunks' = chunks
    BY DEF Release, Goto, lists
  <1>2. blk[t] \in Block /\ d \in Chunk
    BY <1>1, BlockParts DEF PcSound, Accessing
  <1>3. pc[t] \in Accessing /\ q \notin Accessing
    BY <1>1 DEF Accessing
  <1> HIDE DEF q
  <1>4. pc'[t] = q /\ \A u \in Thread \ {t} : pc'[u] = pc[u]
    BY <1>1 DEF Typed
  <1>5. IsFiniteSet(Returning(c)) /\ Cardinality(Returning(c)) \in Nat
        /\ Cardinality(out \cap BlocksOf(c)) \in Nat
    BY FiniteParts, FS_CardinalityType
  <1>6. live[c] = Cardinality(out \cap BlocksOf(c)) + Cardinality(Returning(c))
        /\ (live[c] > 0 => c \in chunks)
    BY DEF LiveCounted
  <1>7. CASE d = c
    <2>1. Returning(c)' = Returning(c) \ {t} /\ t \in Returning(c)
      BY <1>1, <1>3, <1>4, <1>7 DEF Returning
    <2>2. Cardinality(Returning(c) \ {t}) = Cardinality(Returning(c)) - 1
      BY <1>5, <2>1, FS_RemoveElement
    <2>3. live'[c] = live[c] - 1
      BY <1>1, <1>7 DEF Typed
    <2> QED
      BY <1>1, <1>5, <1>6, <2>1, <2>2, <2>3
  <1>8. CASE d # c
    <2>1. Returning(c)' = Returning(c)
      BY <1>1, <1>3, <1>4, <1>8 DEF Returning
    <2>2. live'[c] = live[c]
      BY <1>1, <1>8 DEF Typed
    <2> QED
      BY <1>1, <1>6, <2>1, <2>2
  <1> QED
    BY <1>7, <1>8

\* Every other step leaves the counts alone, and loses only chunks that count 0.
LEMMA CountsStay ==
  ASSUME Typed, LiveCounted, out' = out, live' = live, blk' = blk,
         \A t \in Thread : pc'[t] \in Accessing <=> pc[t] \in Accessing,
         \A c \in chunks : c \in chunks' \/ live[c] = 0
  PROVE  LiveCounted'
  <1>1. \A c : Returning(c)' = Returning(c)
    BY DEF Returning
  <1> QED
    BY <1>1 DEF LiveCounted, BlocksOf, Typed

\* Of a chunk that is not made yet, no block is out or on its way.
LEMMA UnmadeIsUnused ==
  ASSUME Typed, LiveCounted, NEW c \in Chunk \ chunks
  PROVE  /\ out \cap BlocksOf(c) = {} /\ Returning(c) = {}
         /\ \A b \in BlocksOf(c) : b \notin out /\ b \in Block /\ b[1] = c
  <1>1. live[c] = 0
    <2>1. live[c] \in Nat /\ (live[c] > 0 => c \in chunks)
      BY DEF LiveCounted, Typed
    <2> QED
      BY <2>1
  <1>2. /\ IsFiniteSet(out \cap BlocksOf(c)) /\ Cardinality(out \cap BlocksOf(c)) \in Nat
        /\ IsFiniteSet(Returning(c)) /\ Cardinality(Returning(c)) \in Nat
    BY FiniteParts, FS_CardinalityType
  <1>3. Cardinality(out \cap BlocksOf(c)) = 0 /\ Cardinality(Returning(c)) = 0
    BY <1>1, <1>2 DEF LiveCounted
  <1>4. out \cap BlocksOf(c) = {} /\ Returning(c) = {}
    BY <1>2, <1>3, FS_EmptySet
  <1> QED
    BY <1>4, BlocksOfChunk

LEMMA LiveCountedStep ==
  ASSUME Typed, PcSound, LiveCounted, OnePlace, FreeIsThere, [Next]_vars
  PROVE  LiveCounted'
  <1> USE DEF control, lists, closing, Goto
  <1>1. ASSUME AllocateLocal PROVE LiveCounted'
    <2>1. PICK b \in local : /\ out' = out \cup {b} /\ live' = [live EXCEPT ![b[1]] = @ + 1]
                             /\ pc' = pc /\ blk' = blk /\ chunks' = chunks
      BY <1>1 DEF AllocateLocal, Take
    <2>2. b \in Block /\ b \notin out /\ b[1] \in chunks
      BY <1>1 DEF Typed, OnePlace, FreeIsThere, AllocateLocal, MayAllocate
    <2> QED
      BY <2>1, <2>2, TakeCounts
  <1>2. ASSUME AllocateDrained PROVE LiveCounted'
    <2>1. PICK b \in ToSet(remote) : /\ out' = out \cup {b} /\ live' = [live EXCEPT ![b[1]] = @ + 1]
                                     /\ pc' = pc /\ blk' = blk /\ chunks' = chunks
      BY <1>2 DEF AllocateDrained, Take
    <2>2. b \notin out /\ b[1] \in chunks
      BY <1>2 DEF OnePlace, FreeIsThere, AllocateDrained, MayAllocate
    <2>3. b \in Block
      BY DEF Typed, ToSet
    <2> QED
      BY <2>1, <2>2, <2>3, TakeCounts
  <1>3. ASSUME AllocateFresh PROVE LiveCounted'
    <2>1. PICK c \in Chunk \ Made : chunks' = chunks \cup {c} /\ Take(BlocksOf(c))
      BY <1>3 DEF AllocateFresh
    <2>2. PICK b \in BlocksOf(c) : /\ out' = out \cup {b} /\ live' = [live EXCEPT ![b[1]] = @ + 1]
                                   /\ pc' = pc /\ blk' = blk
      BY <1>3, <2>1 DEF AllocateFresh, Take
    <2>3. b \in Block /\ b[1] = c /\ b \notin out
      BY <2>1, <2>2, UnmadeIsUnused DEF Made
    <2> QED
      BY <2>1, <2>2, <2>3, TakeCounts
  <1>4. ASSUME Retire PROVE LiveCounted'
    BY <1>4, CountsStay DEF Retire, MayAllocate, Typed, Accessing
  <1>5. ASSUME Exchange PROVE LiveCounted'
    BY <1>5, CountsStay DEF Exchange, Typed, Accessing
  <1>6. ASSUME Walk PROVE LiveCounted'
    BY <1>6, CountsStay DEF Walk, Typed, Accessing
  <1>7. ASSUME Lock PROVE LiveCounted'
    BY <1>7, CountsStay DEF Lock, Typed, Accessing
  <1>8. ASSUME Sweep PROVE LiveCounted'
    BY <1>8, CountsStay DEF Sweep, Typed, Accessing
  <1>9. ASSUME Unlock PROVE LiveCounted'
    BY <1>9, CountsStay DEF Unlock, Typed, Accessing
  <1>10. ASSUME NEW t \in Thread, Free(t) PROVE LiveCounted'
    <2> DEFINE p == IF retired THEN "drop" ELSE IF t = Owner THEN "local" ELSE "check"
    <2>1. PICK b \in out : out' = out \ {b} /\ blk' = [blk EXCEPT ![t] = b]
      BY <1>10 DEF Free
    <2>2. p \in Accessing
      BY DEF Accessing
    <2>3. pc[t] = "idle" /\ pc' = [pc EXCEPT ![t] = p] /\ live' = live /\ chunks' = chunks
      BY <1>10 DEF Free
    <2> HIDE DEF p
    <2> QED
      BY <2>1, <2>2, <2>3, FreeCounts
  <1>11. ASSUME NEW t \in Thread, PushLocal(t) PROVE LiveCounted'
    BY <1>11, CountsStay DEF PushLocal, Typed, Accessing
  <1>12. ASSUME NEW t \in Thread, Check(t) PROVE LiveCounted'
    BY <1>12, CountsStay DEF Check, Typed, Accessing
  <1>13. ASSUME NEW t \in Thread, PushRemote(t) PROVE LiveCounted'
    BY <1>13, CountsStay DEF PushRemote, Typed, Accessing
  <1>14. ASSUME NEW t \in Thread, RecheckRetired(t) PROVE LiveCounted'
    BY <1>14, CountsStay DEF RecheckRetired, Typed, Accessing
  <1>15. ASSUME NEW t \in Thread, Drop(t) PROVE LiveCounted'
    BY <1>15, CountsStay DEF Drop, Typed, Accessing
  <1>16. ASSUME NEW t \in Thread, Release(t) PROVE LiveCounted'
    BY <1>16, ReleaseCounts
  <1>17. ASSUME NEW t \in Thread, Reclaim(t) PROVE LiveCounted'
    BY <1>17, CountsStay DEF Reclaim, Typed, Accessing
  <1>18. ASSUME NEW t \in Thread, Probe(t) PROVE LiveCounted'
    BY <1>18, CountsStay DEF Probe, Typed, Accessing
  <1>19. ASSUME NEW t \in Thread, Unlink(t) PROVE LiveCounted'
    BY <1>19, CountsStay DEF Unlink, Typed, Accessing
  <1>20. ASSUME NEW t \in Thread, Unref(t) PROVE LiveCounted'
    <2>1. \A c : Returning(c)' = Returning(c)
      BY <1>20 DEF Unref, Returning, Typed, Accessing
    <2> QED
      BY <1>20, <2>1 DEF Unref, LiveCounted, BlocksOf
  <1>21. ASSUME UNCHANGED vars PROVE LiveCounted'
    BY <1>21, CountsStay DEF vars
  <1> QED
    BY <1>1, <1>2, <1>3, <1>4, <1>5, <1>6, <1>7, <1>8, <1>9, <1>10, <1>11, <1>12, <1>13,
       <1>14, <1>15, <1>16, <1>17, <1>18, <1>19, <1>20, <1>21 DEF Next, Close, Continue

-----------------------------------------------------------------------------
(* Where blocks are.                                                       *)

\* OnePlace, block by block.
Placed ==
  /\ \A b \in local : b \notin ToSet(remote)
  /\ \A b \in out : b \notin local /\ b \notin ToSet(remote)
  /\ \A t \in Thread : pc[t] \in Carrying =>
       blk[t] \notin local /\ blk[t] \notin ToSet(remote) /\ blk[t] \notin out
  /\ IsInjective(remote)
  /\ ~retired => \A b \in Block : b[1] \in chunks =>
       \/ b \in local \/ b \in ToSet(remote) \/ b \in out
       \/ \E t \in Thread : pc[t] \in Carrying /\ blk[t] = b

LEMMA PlacedIsOnePlace ==
  /\ chunks \subseteq Chunk => (OnePlace <=> Placed)
  /\ chunks' \subseteq Chunk => (OnePlace' <=> Placed')
  <1>1. /\ \A c \in Chunk : \A b \in BlocksOf(c) : b \in Block /\ b[1] = c
        /\ \A b \in Block : b \in BlocksOf(b[1])
    BY BlocksOfChunk, BlockParts
  <1>2. chunks \subseteq Chunk => (OnePlace <=> Placed)
    BY <1>1 DEF OnePlace, Placed, Carrying
  <1>3. chunks' \subseteq Chunk => (OnePlace' <=> Placed')
    BY <1>1 DEF OnePlace, Placed, Carrying
  <1> QED
    BY <1>2, <1>3

\* A free block goes to a caller, and a remote list that was taken becomes local.
LEMMA TakePlaces ==
  ASSUME Typed, Placed, CarriedOnce, FreeIsThere, ~retired, local' \subseteq local \cup ToSet(remote),
         NEW b \in local \cup ToSet(remote), b \notin local', out' = out \cup {b},
         local \cup ToSet(remote) = local' \cup ToSet(remote') \cup {b}, remote' \in {remote, <<>>},
         local' \cap ToSet(remote') = {}, b \notin ToSet(remote'),
         pc' = pc, blk' = blk, retired' = retired, freed' = freed, chunks' = chunks
  PROVE  Placed' /\ CarriedOnce' /\ FreeIsThere'
  <1>1. IsInjective(remote') /\ ToSet(remote') \subseteq ToSet(remote)
    BY DEF Placed, IsInjective, ToSet
  <1>2. Placed'
    BY <1>1 DEF Placed
  <1> QED
    BY <1>2 DEF CarriedOnce, FreeIsThere

LEMMA PlacedStep ==
  ASSUME Typed, PcSound, LiveCounted, Placed, CarriedOnce, FreeIsThere, [Next]_vars
  PROVE  Placed' /\ CarriedOnce' /\ FreeIsThere'
  <1> DEFINE P == Placed' /\ CarriedOnce' /\ FreeIsThere'
  <1> USE DEF control, lists, closing, Goto, Carrying, MayAllocate
  <1>0. ToSet(<<>>) = {}
    BY DEF ToSet
  <1>1. ASSUME AllocateLocal PROVE P
    <2>1. PICK b \in local : local' = local \ {b} /\ out' = out \cup {b}
      BY <1>1 DEF AllocateLocal, Take
    <2>2. b \notin ToSet(remote) /\ local \cap ToSet(remote) = {}
      BY DEF Placed
    <2> QED
      BY <1>1, <2>1, <2>2, TakePlaces DEF AllocateLocal
  <1>2. ASSUME AllocateDrained PROVE P
    <2>1. PICK b \in ToSet(remote) : local' = ToSet(remote) \ {b} /\ out' = out \cup {b}
      BY <1>2 DEF AllocateDrained, Take
    <2>2. local = {} /\ remote' = <<>>
      BY <1>2 DEF AllocateDrained
    <2> QED
      BY <1>0, <1>2, <2>1, <2>2, TakePlaces DEF AllocateDrained
  <1>3. ASSUME AllocateFresh PROVE P
    <2>1. PICK c \in Chunk \ Made : chunks' = chunks \cup {c} /\ Take(BlocksOf(c))
      BY <1>3 DEF AllocateFresh
    <2>2. PICK b \in BlocksOf(c) : local' = BlocksOf(c) \ {b} /\ out' = out \cup {b}
      BY <2>1 DEF Take
    <2>3. local = {} /\ remote = <<>> /\ remote' = <<>> /\ ~retired /\ ToSet(remote) = {}
          /\ UNCHANGED <<retired, freed, pc, blk>>
      BY <1>0, <1>3 DEF AllocateFresh
    <2>4. /\ \A x \in BlocksOf(c) : x \in Block /\ x[1] = c
          /\ out \cap BlocksOf(c) = {} /\ Returning(c) = {}
      BY <2>1, UnmadeIsUnused DEF Made
    <2>5. \A t \in Thread : pc[t] \in Carrying => blk[t] \notin BlocksOf(c)
      BY <2>4 DEF Returning, Accessing
    <2>6. \A x \in Block : x[1] = c => x \in BlocksOf(c)
      BY BlockParts
    <2>7. Placed'
      BY <2>1, <2>2, <2>3, <2>4, <2>5, <2>6 DEF Placed
    <2> QED
      BY <2>1, <2>2, <2>3, <2>4, <2>7 DEF CarriedOnce, FreeIsThere
  <1>4. ASSUME Retire PROVE P
    BY <1>4 DEF Retire, Typed, Placed, CarriedOnce, FreeIsThere
  <1>5. ASSUME Exchange PROVE P
    <2>1. retired /\ retired' /\ remote' = <<>> /\ local' = {} /\ out' = out /\ blk' = blk
      BY <1>5 DEF Exchange, PcSound, Closing, Typed, Thread
    <2>2. \A t \in Thread : pc'[t] \in Carrying => pc[t] \in Carrying
      BY <1>5 DEF Exchange, Typed
    <2>3. IsInjective(remote')
      BY <2>1 DEF IsInjective
    <2> QED
      BY <1>0, <2>1, <2>2, <2>3 DEF Placed, CarriedOnce, FreeIsThere
  <1>6. ASSUME Walk PROVE P
    BY <1>6 DEF Walk, Typed, Placed, CarriedOnce, FreeIsThere
  <1>7. ASSUME Lock PROVE P
    BY <1>7 DEF Lock, Typed, Placed, CarriedOnce, FreeIsThere
  <1>8. ASSUME Sweep PROVE P
    <2>1. retired /\ retired'
      BY <1>8 DEF Sweep, PcSound, Closing, Typed, Thread
    <2> QED
      BY <1>8, <2>1 DEF Sweep, Typed, Placed, CarriedOnce, FreeIsThere
  <1>9. ASSUME Unlock PROVE P
    BY <1>9 DEF Unlock, Typed, Placed, CarriedOnce, FreeIsThere
  <1>10. ASSUME NEW t \in Thread, Free(t) PROVE P
    <2>1. PICK b \in out : out' = out \ {b} /\ blk' = [blk EXCEPT ![t] = b]
      BY <1>10 DEF Free
    <2>2. /\ pc[t] = "idle" /\ \A u \in Thread \ {t} : pc'[u] = pc[u] /\ blk'[u] = blk[u]
          /\ blk'[t] = b /\ b \in Block /\ pc'[t] \in Carrying \cup {"drop"}
          /\ ~retired => pc'[t] \in Carrying
      BY <1>10, <2>1 DEF Free, Typed
    <2>3. UNCHANGED <<retired, local, remote, chunks, freed>>
      BY <1>10 DEF Free
    <2>4. Placed'
      <3>1. ~retired => \A x \in Block : x[1] \in chunks =>
              \/ x \in local \/ x \in ToSet(remote) \/ x \in out'
              \/ \E u \in Thread : pc'[u] \in Carrying /\ blk'[u] = x
        <4> SUFFICES ASSUME ~retired, NEW x \in Block, x[1] \in chunks,
                            x \notin local, x \notin ToSet(remote), x \notin out'
                     PROVE  \E u \in Thread : pc'[u] \in Carrying /\ blk'[u] = x
          OBVIOUS
        <4>1. CASE x = b
          BY <2>2, <4>1
        <4>2. CASE x # b
          <5>1. PICK u \in Thread : pc[u] \in Carrying /\ blk[u] = x
            BY <2>1, <4>2 DEF Placed
          <5>2. u # t
            BY <2>2, <5>1
          <5> QED
            BY <2>2, <5>1, <5>2
        <4> QED
          BY <4>1, <4>2
      <3>2. \A u \in Thread : pc'[u] \in Carrying =>
              blk'[u] \notin local /\ blk'[u] \notin ToSet(remote) /\ blk'[u] \notin out'
        BY <2>1, <2>2 DEF Placed
      <3> QED
        BY <2>1, <2>3, <3>1, <3>2 DEF Placed
    <2>5. CarriedOnce'
      BY <2>1, <2>2 DEF Placed, CarriedOnce
    <2> QED
      BY <2>3, <2>4, <2>5 DEF FreeIsThere
  <1>11. ASSUME NEW t \in Thread, PushLocal(t) PROVE P
    <2>1. /\ pc[t] = "local" /\ local' = local \cup {blk[t]} /\ pc'[t] = "release" /\ blk' = blk
          /\ \A u \in Thread \ {t} : pc'[u] = pc[u]
          /\ UNCHANGED <<retired, chunks, freed, remote, out>>
      BY <1>11 DEF PushLocal, Typed
    <2>2. blk[t] \in Block /\ blk[t][1] \in chunks
      BY <2>1, ReturnedIsThere DEF Accessing
    <2>3. Placed'
      BY <2>1 DEF Placed, CarriedOnce
    <2> QED
      BY <2>1, <2>2, <2>3 DEF CarriedOnce, FreeIsThere
  <1>12. ASSUME NEW t \in Thread, Check(t) PROVE P
    <2>1. /\ pc[t] = "check" /\ pc'[t] = (IF retired THEN "drop" ELSE "push") /\ blk' = blk
          /\ \A u \in Thread \ {t} : pc'[u] = pc[u]
          /\ UNCHANGED <<retired, chunks, freed, local, remote, out>>
      BY <1>12 DEF Check, Typed
    <2> QED
      BY <2>1 DEF Placed, CarriedOnce, FreeIsThere
  <1>13. ASSUME NEW t \in Thread, PushRemote(t) PROVE P
    <2>1. /\ pc[t] = "push" /\ remote' = <<blk[t]>> \o remote /\ pc'[t] = "recheck" /\ blk' = blk
          /\ \A u \in Thread \ {t} : pc'[u] = pc[u]
          /\ UNCHANGED <<retired, chunks, freed, local, out>>
      BY <1>13 DEF PushRemote, Typed
    <2>2. blk[t] \in Block /\ blk[t][1] \in chunks
      BY <2>1, ReturnedIsThere DEF Accessing
    <2>3. ToSet(remote') = {blk[t]} \cup ToSet(remote) /\ IsInjective(remote')
      <3>1. remote \in Seq(Block) /\ IsInjective(remote) /\ blk[t] \notin ToSet(remote)
        BY <2>1 DEF Placed, Typed
      <3>2. /\ ToSet(<<blk[t]>> \o remote) = {blk[t]} \cup ToSet(remote)
            /\ IsInjective(<<blk[t]>> \o remote)
        BY <2>2, <3>1, PushedElems, Zenon
      <3> QED
        BY <2>1, <3>2, Zenon
    <2>4. Placed'
      <3>1. \A x : x \in ToSet(remote') <=> x = blk[t] \/ x \in ToSet(remote)
        BY <2>3, Zenon
      <3>2. \A u \in Thread : pc'[u] \in Carrying => u # t /\ pc[u] \in Carrying /\ blk[u] # blk[t]
        BY <2>1 DEF CarriedOnce
      <3>3. /\ \A b \in local : b \notin ToSet(remote')
            /\ \A b \in out : b \notin local /\ b \notin ToSet(remote')
        BY <2>1, <3>1 DEF Placed
      <3>4. \A u \in Thread : pc'[u] \in Carrying =>
              blk[u] \notin local /\ blk[u] \notin ToSet(remote') /\ blk[u] \notin out
        BY <3>1, <3>2 DEF Placed
      <3>5. ~retired => \A b \in Block : b[1] \in chunks =>
              \/ b \in local \/ b \in ToSet(remote') \/ b \in out
              \/ \E u \in Thread : pc'[u] \in Carrying /\ blk[u] = b
        BY <2>1, <3>1 DEF Placed
      <3> QED
        BY <2>1, <2>3, <3>3, <3>4, <3>5 DEF Placed
    <2> QED
      BY <2>1, <2>2, <2>3, <2>4 DEF CarriedOnce, FreeIsThere
  <1>14. ASSUME NEW t \in Thread, RecheckRetired(t) PROVE P
    BY <1>14 DEF RecheckRetired, Typed, Placed, CarriedOnce, FreeIsThere
  <1>15. ASSUME NEW t \in Thread, Drop(t) PROVE P
    <2>1. /\ pc[t] = "drop" /\ remote' = CutAfter(remote, blk[t]) /\ pc'[t] = "release"
          /\ blk' = blk /\ \A u \in Thread \ {t} : pc'[u] = pc[u]
          /\ UNCHANGED <<retired, chunks, freed, local, out>>
      BY <1>15 DEF Drop, Typed
    <2>2. retired
      BY <2>1 DEF PcSound
    <2>3. ToSet(remote') \subseteq ToSet(remote) /\ IsInjective(remote')
      BY <2>1, CutElems DEF Placed, Typed
    <2> QED
      BY <2>1, <2>2, <2>3 DEF Placed, CarriedOnce, FreeIsThere
  <1>16. ASSUME NEW t \in Thread, Release(t) PROVE P
    BY <1>16 DEF Release, Typed, Placed, CarriedOnce, FreeIsThere
  <1>17. ASSUME NEW t \in Thread, Reclaim(t) PROVE P
    BY <1>17 DEF Reclaim, Typed, Placed, CarriedOnce, FreeIsThere
  <1>18. ASSUME NEW t \in Thread, Probe(t) PROVE P
    <2>1. /\ pc[t] = "probe" /\ pc'[t] \in {"unlink", "unref"} /\ blk' = blk
          /\ \A u \in Thread \ {t} : pc'[u] = pc[u]
          /\ UNCHANGED <<retired, chunks, freed, local, remote, out>>
      BY <1>18 DEF Probe, Typed
    <2> QED
      BY <2>1 DEF Placed, CarriedOnce, FreeIsThere
  <1>19. ASSUME NEW t \in Thread, Unlink(t) PROVE P
    <2>1. retired /\ retired'
      BY <1>19 DEF Unlink, PcSound
    <2> QED
      BY <1>19, <2>1 DEF Unlink, Typed, Placed, CarriedOnce, FreeIsThere
  <1>20. ASSUME NEW t \in Thread, Unref(t) PROVE P
    <2>1. /\ pc[t] = "unref" /\ pc'[t] = "idle"
          /\ \A u \in Thread \ {t} : pc'[u] = pc[u] /\ blk'[u] = blk[u]
          /\ UNCHANGED <<retired, chunks, freed, local, remote, out>>
      BY <1>20 DEF Unref, Typed
    <2> QED
      BY <2>1 DEF Placed, CarriedOnce, FreeIsThere
  <1>21. ASSUME UNCHANGED vars PROVE P
    BY <1>21 DEF vars, Placed, CarriedOnce, FreeIsThere
  <1> QED
    BY <1>1, <1>2, <1>3, <1>4, <1>5, <1>6, <1>7, <1>8, <1>9, <1>10, <1>11, <1>12, <1>13,
       <1>14, <1>15, <1>16, <1>17, <1>18, <1>19, <1>20, <1>21 DEF Next, Close, Continue

-----------------------------------------------------------------------------
(* ref_count, and who frees what.                                          *)

\* A step that hands out a block b takes one reference.
LEMMA TakeRefs ==
  ASSUME Typed, RefsCounted, NEW b, b \notin out, out' = out \cup {b}, refs' = refs + 1,
         pc' = pc, retired' = retired
  PROVE  RefsCounted'
  <1>1. IsFiniteSet(out) /\ Cardinality(out) \in Nat /\ Cardinality(Busy) \in Nat
    BY FiniteParts, FS_CardinalityType
  <1>2. Cardinality(out') = Cardinality(out) + 1
    BY <1>1, FS_AddElement
  <1>3. Busy' = Busy
    BY DEF Busy
  <1> QED
    BY <1>1, <1>2, <1>3 DEF RefsCounted, Typed

\* Steps inside a call move no reference.
LEMMA RefsStay ==
  ASSUME RefsCounted, refs' = refs, out' = out, retired' = retired,
         \A t \in Thread : pc'[t] = "idle" <=> pc[t] = "idle"
  PROVE  RefsCounted'
  <1>1. Busy' = Busy
    BY DEF Busy
  <1> QED
    BY <1>1 DEF RefsCounted

LEMMA RefsCountedStep ==
  ASSUME Typed, PcSound, Placed, LiveCounted, RefsCounted, [Next]_vars
  PROVE  RefsCounted'
  <1> USE DEF control, lists, closing, Goto, MayAllocate
  <1>0. /\ IsFiniteSet(out) /\ Cardinality(out) \in Nat
        /\ IsFiniteSet(Busy) /\ Cardinality(Busy) \in Nat /\ refs \in Nat
    BY FiniteParts, FS_CardinalityType DEF Typed
  <1>1. ASSUME AllocateLocal PROVE RefsCounted'
    <2>1. PICK b \in local : out' = out \cup {b} /\ refs' = refs + 1
      BY <1>1 DEF AllocateLocal, Take
    <2>2. b \notin out
      BY DEF Placed
    <2> QED
      BY <1>1, <2>1, <2>2, TakeRefs DEF AllocateLocal
  <1>2. ASSUME AllocateDrained PROVE RefsCounted'
    <2>1. PICK b \in ToSet(remote) : out' = out \cup {b} /\ refs' = refs + 1
      BY <1>2 DEF AllocateDrained, Take
    <2>2. b \notin out
      BY DEF Placed
    <2> QED
      BY <1>2, <2>1, <2>2, TakeRefs DEF AllocateDrained
  <1>3. ASSUME AllocateFresh PROVE RefsCounted'
    <2>1. PICK c \in Chunk \ Made : Take(BlocksOf(c))
      BY <1>3 DEF AllocateFresh
    <2>2. PICK b \in BlocksOf(c) : out' = out \cup {b} /\ refs' = refs + 1
      BY <2>1 DEF Take
    <2>3. b \notin out
      BY <2>1, <2>2, UnmadeIsUnused DEF Made
    <2> QED
      BY <1>3, <2>2, <2>3, TakeRefs DEF AllocateFresh
  <1>4. ASSUME Retire PROVE RefsCounted'
    <2>1. pc[Owner] = "idle" /\ pc' = [pc EXCEPT ![Owner] = "exchange"] /\ Owner \in Thread
          /\ ~retired /\ retired' /\ refs' = refs /\ out' = out
      BY <1>4 DEF Retire, Thread
    <2>2. Busy' = Busy \cup {Owner} /\ Owner \notin Busy
      BY <2>1 DEF Busy, Typed
    <2>3. Cardinality(Busy') = Cardinality(Busy) + 1
      BY <1>0, <2>2, FS_AddElement, Zenon
    <2> QED
      BY <1>0, <2>1, <2>3 DEF RefsCounted
  <1>5. ASSUME Exchange PROVE RefsCounted'
    BY <1>5, RefsStay DEF Exchange, Typed
  <1>6. ASSUME Walk PROVE RefsCounted'
    BY <1>6, RefsStay DEF Walk, Typed
  <1>7. ASSUME Lock PROVE RefsCounted'
    BY <1>7, RefsStay DEF Lock, Typed
  <1>8. ASSUME Sweep PROVE RefsCounted'
    BY <1>8, RefsStay DEF Sweep, Typed
  <1>9. ASSUME Unlock PROVE RefsCounted'
    BY <1>9, RefsStay DEF Unlock, Typed
  <1>10. ASSUME NEW t \in Thread, Free(t) PROVE RefsCounted'
    <2>1. PICK b \in out : out' = out \ {b}
      BY <1>10 DEF Free
    <2>2. refs' = refs /\ retired' = retired
      BY <1>10 DEF Free
    <2>3. Busy' = Busy \cup {t} /\ t \notin Busy
      BY <1>10 DEF Free, Busy, Typed
    <2>4. Cardinality(Busy') = Cardinality(Busy) + 1
      BY <1>0, <2>3, FS_AddElement, Zenon
    <2>5. Cardinality(out') = Cardinality(out) - 1
      BY <1>0, <2>1, FS_RemoveElement, Zenon
    <2> QED
      BY <1>0, <2>2, <2>4, <2>5 DEF RefsCounted
  <1>11. ASSUME NEW t \in Thread, PushLocal(t) PROVE RefsCounted'
    BY <1>11, RefsStay DEF PushLocal, Typed
  <1>12. ASSUME NEW t \in Thread, Check(t) PROVE RefsCounted'
    BY <1>12, RefsStay DEF Check, Typed
  <1>13. ASSUME NEW t \in Thread, PushRemote(t) PROVE RefsCounted'
    BY <1>13, RefsStay DEF PushRemote, Typed
  <1>14. ASSUME NEW t \in Thread, RecheckRetired(t) PROVE RefsCounted'
    BY <1>14, RefsStay DEF RecheckRetired, Typed
  <1>15. ASSUME NEW t \in Thread, Drop(t) PROVE RefsCounted'
    BY <1>15, RefsStay DEF Drop, Typed
  <1>16. ASSUME NEW t \in Thread, Release(t) PROVE RefsCounted'
    BY <1>16, RefsStay DEF Release, Typed
  <1>17. ASSUME NEW t \in Thread, Reclaim(t) PROVE RefsCounted'
    BY <1>17, RefsStay DEF Reclaim, Typed
  <1>18. ASSUME NEW t \in Thread, Probe(t) PROVE RefsCounted'
    BY <1>18, RefsStay DEF Probe, Typed
  <1>19. ASSUME NEW t \in Thread, Unlink(t) PROVE RefsCounted'
    BY <1>19, RefsStay DEF Unlink, Typed
  <1>20. ASSUME NEW t \in Thread, Unref(t) PROVE RefsCounted'
    <2>1. refs' = refs - 1 /\ retired' = retired /\ out' = out
      BY <1>20 DEF Unref
    <2>2. Busy' = Busy \ {t} /\ t \in Busy
      BY <1>20 DEF Unref, Busy, Typed
    <2>3. Cardinality(Busy') = Cardinality(Busy) - 1
      BY <1>0, <2>2, FS_RemoveElement, Zenon
    <2> QED
      BY <1>0, <2>1, <2>3 DEF RefsCounted
  <1>21. ASSUME UNCHANGED vars PROVE RefsCounted'
    BY <1>21, RefsStay DEF vars
  <1> QED
    BY <1>1, <1>2, <1>3, <1>4, <1>5, <1>6, <1>7, <1>8, <1>9, <1>10, <1>11, <1>12, <1>13,
       <1>14, <1>15, <1>16, <1>17, <1>18, <1>19, <1>20, <1>21 DEF Next, Close, Continue

\* A step that frees no chunk and leaves its counts alone keeps every keeper that it
\* does not move.
LEMMA KeepersStay ==
  ASSUME ChunksHaveKeepers, retired' = retired, chunks' = chunks, live' = live, sweep' = sweep,
         blk' = blk, pc'[Owner] \in Closing \/ pc[Owner] \in Closing => pc'[Owner] = pc[Owner],
         \A t \in Thread : pc[t] \in Probing => pc'[t] \in Probing
  PROVE  ChunksHaveKeepers'
  BY DEF ChunksHaveKeepers, Closing

LEMMA KeepersStep ==
  ASSUME Typed, PcSound, LiveCounted, ChunksHaveKeepers, [Next]_vars
  PROVE  ChunksHaveKeepers'
  <1> USE DEF control, lists, closing, Goto, MayAllocate, Probing, Closing
  <1>1. ASSUME AllocateLocal PROVE ChunksHaveKeepers'
    BY <1>1 DEF AllocateLocal, ChunksHaveKeepers
  <1>2. ASSUME AllocateDrained PROVE ChunksHaveKeepers'
    BY <1>2 DEF AllocateDrained, ChunksHaveKeepers
  <1>3. ASSUME AllocateFresh PROVE ChunksHaveKeepers'
    BY <1>3 DEF AllocateFresh, ChunksHaveKeepers
  <1>4. ASSUME Retire PROVE ChunksHaveKeepers'
    BY <1>4 DEF Retire, ChunksHaveKeepers, Typed, Thread
  <1>5. ASSUME Exchange PROVE ChunksHaveKeepers'
    BY <1>5 DEF Exchange, ChunksHaveKeepers, Typed, Thread
  <1>6. ASSUME Walk PROVE ChunksHaveKeepers'
    BY <1>6, KeepersStay DEF Walk, Typed, Thread
  <1>7. ASSUME Lock PROVE ChunksHaveKeepers'
    BY <1>7 DEF Lock, ChunksHaveKeepers, Typed, Thread
  <1>8. ASSUME Sweep PROVE ChunksHaveKeepers'
    <2>1. PICK c \in sweep :
            /\ sweep' = sweep \ {c}
            /\ IF live[c] = 0 THEN chunks' = chunks \ {c} ELSE chunks' = chunks
      BY <1>8 DEF Sweep
    <2>2. pc[Owner] = "sweep" /\ pc' = pc /\ live' = live /\ blk' = blk /\ retired' = retired
      BY <1>8 DEF Sweep, Typed, Thread
    <2>3. c \in chunks' => live[c] > 0
      BY <2>1 DEF Typed
    <2> QED
      BY <2>1, <2>2, <2>3 DEF ChunksHaveKeepers
  <1>9. ASSUME Unlock PROVE ChunksHaveKeepers'
    <2>1. /\ sweep = {} /\ pc[Owner] = "sweep" /\ blk' = blk
          /\ \A t \in Thread \ {Owner} : pc'[t] = pc[t]
          /\ UNCHANGED <<retired, chunks, live, sweep>>
      BY <1>9 DEF Unlock, Typed
    <2> QED
      BY <2>1 DEF ChunksHaveKeepers, Thread
  <1>10. ASSUME NEW t \in Thread, Free(t) PROVE ChunksHaveKeepers'
    <2>1. /\ pc[t] = "idle" /\ UNCHANGED <<retired, chunks, live, sweep>>
          /\ \A u \in Thread \ {t} : pc'[u] = pc[u] /\ blk'[u] = blk[u]
      BY <1>10 DEF Free, Typed
    <2>2. pc[Owner] # "idle" => pc'[Owner] = pc[Owner]
      BY <2>1 DEF Thread
    <2> QED
      BY <2>1, <2>2 DEF ChunksHaveKeepers
  <1>11. ASSUME NEW t \in Thread, PushLocal(t) PROVE ChunksHaveKeepers'
    BY <1>11, KeepersStay DEF PushLocal, Typed, Thread
  <1>12. ASSUME NEW t \in Thread, Check(t) PROVE ChunksHaveKeepers'
    BY <1>12, KeepersStay DEF Check, Typed, Thread
  <1>13. ASSUME NEW t \in Thread, PushRemote(t) PROVE ChunksHaveKeepers'
    BY <1>13, KeepersStay DEF PushRemote, Typed, Thread
  <1>14. ASSUME NEW t \in Thread, RecheckRetired(t) PROVE ChunksHaveKeepers'
    BY <1>14, KeepersStay DEF RecheckRetired, Typed, Thread
  <1>15. ASSUME NEW t \in Thread, Drop(t) PROVE ChunksHaveKeepers'
    BY <1>15, KeepersStay DEF Drop, Typed, Thread
  <1>16. ASSUME NEW t \in Thread, Release(t) PROVE ChunksHaveKeepers'
    <2> DEFINE d == blk[t][1]
    <2>1. /\ pc[t] = "release" /\ pc'[t] = (IF live[d] = 1 THEN "reclaim" ELSE "unref")
          /\ live' = [live EXCEPT ![d] = @ - 1]
          /\ \A u \in Thread \ {t} : pc'[u] = pc[u]
          /\ blk' = blk /\ UNCHANGED <<retired, chunks, sweep>>
      BY <1>16 DEF Release, Typed
    <2>2. d \in Chunk
      BY <2>1, BlockParts DEF PcSound, Accessing
    <2>3. live[d] \in Nat \ {0}
      BY <2>1, ReturnedIsThere DEF Accessing
    <2>4. live'[d] > 0 \/ pc'[t] = "reclaim"
      <3>1. live'[d] = live[d] - 1
        BY <2>1, <2>2 DEF Typed
      <3> QED
        BY <2>1, <2>3, <3>1
    <2>5. \A c \in Chunk \ {d} : live'[c] = live[c]
      BY <2>1 DEF Typed
    <2>6. pc[Owner] \in Closing => pc'[Owner] = pc[Owner]
      BY <2>1 DEF Thread
    <2> QED
      BY <2>1, <2>3, <2>4, <2>5, <2>6, ZenonT(30) DEF ChunksHaveKeepers, Typed
  <1>17. ASSUME NEW t \in Thread, Reclaim(t) PROVE ChunksHaveKeepers'
    <2>1. CASE retired
      BY <1>17, <2>1, KeepersStay DEF Reclaim, Typed, Thread
    <2>2. CASE ~retired
      BY <1>17, <2>2 DEF Reclaim, ChunksHaveKeepers
    <2> QED
      BY <2>1, <2>2
  <1>18. ASSUME NEW t \in Thread, Probe(t) PROVE ChunksHaveKeepers'
    <2>1. /\ pc[t] = "probe" /\ blk' = blk /\ UNCHANGED <<retired, chunks, freed, live, sweep>>
          /\ \A u \in Thread \ {t} : pc'[u] = pc[u]
          /\ \/ pc'[t] = "unlink"
             \/ live[blk[t][1]] # 0 \/ blk[t][1] \in freed
      BY <1>18 DEF Probe, Typed
    <2>2. pc[Owner] \in Closing => pc'[Owner] = pc[Owner]
      BY <2>1 DEF Thread
    <2>3. \A c \in chunks : c \notin freed /\ live[c] \in Nat
      BY DEF Typed
    <2> QED
      BY <2>1, <2>2, <2>3 DEF ChunksHaveKeepers
  <1>19. ASSUME NEW t \in Thread, Unlink(t) PROVE ChunksHaveKeepers'
    <2> DEFINE d == blk[t][1]
    <2>1. /\ pc[t] = "unlink" /\ blk' = blk /\ UNCHANGED <<retired, live, sweep>>
          /\ \A u \in Thread \ {t} : pc'[u] = pc[u]
          /\ chunks' \subseteq chunks /\ (d \in chunks' => live[d] # 0)
      BY <1>19 DEF Unlink, Typed
    <2>2. pc[Owner] \in Closing => pc'[Owner] = pc[Owner]
      BY <2>1 DEF Thread
    <2>3. \A c \in chunks : live[c] \in Nat
      BY DEF Typed
    <2> QED
      BY <2>1, <2>2, <2>3 DEF ChunksHaveKeepers
  <1>20. ASSUME NEW t \in Thread, Unref(t) PROVE ChunksHaveKeepers'
    <2>1. /\ pc[t] = "unref" /\ UNCHANGED <<retired, chunks, live, sweep>>
          /\ \A u \in Thread \ {t} : pc'[u] = pc[u] /\ blk'[u] = blk[u]
      BY <1>20 DEF Unref, Typed
    <2>2. pc[Owner] \in Closing => pc'[Owner] = pc[Owner]
      BY <2>1 DEF Thread
    <2> QED
      BY <2>1, <2>2 DEF ChunksHaveKeepers
  <1>21. ASSUME UNCHANGED vars PROVE ChunksHaveKeepers'
    BY <1>21 DEF vars, ChunksHaveKeepers
  <1> QED
    BY <1>1, <1>2, <1>3, <1>4, <1>5, <1>6, <1>7, <1>8, <1>9, <1>10, <1>11, <1>12, <1>13,
       <1>14, <1>15, <1>16, <1>17, <1>18, <1>19, <1>20, <1>21 DEF Next, Close, Continue

\* Giving up one reference finds it the last exactly when nobody else has one, and
\* then every chunk is gone.
LEMMA LastReference ==
  ASSUME Typed, LiveCounted, RefsCounted, ChunksHaveKeepers, NEW t \in Thread, Unref(t)
  PROVE  /\ refs = 1 <=> retired /\ out = {} /\ Busy = {t}
         /\ refs = 1 => chunks = {}
  <1>1. pc[t] = "unref" /\ t \in Busy
    BY DEF Unref, Goto, Busy
  <1>2. /\ IsFiniteSet(out) /\ Cardinality(out) \in Nat
        /\ IsFiniteSet(Busy \ {t}) /\ Cardinality(Busy \ {t}) \in Nat
        /\ Cardinality(Busy \ {t}) = Cardinality(Busy) - 1
    BY <1>1, FiniteParts, FS_CardinalityType, FS_RemoveElement
  <1>3. /\ Cardinality(out) = 0 <=> out = {}
        /\ Cardinality(Busy \ {t}) = 0 <=> Busy \ {t} = {}
    BY <1>2, FS_EmptySet
  <1>4. refs = 1 <=> retired /\ out = {} /\ Busy \ {t} = {}
    <2>1. Cardinality(Busy) \in Nat
      BY FiniteParts, FS_CardinalityType
    <2> QED
      BY <1>2, <1>3, <2>1 DEF RefsCounted
  <1>5. ASSUME refs = 1, NEW c \in chunks PROVE FALSE
    <2>1. out = {} /\ \A u \in Thread : pc[u] \in {"idle", "unref"}
      BY <1>1, <1>4, <1>5 DEF Busy
    <2>2. Returning(c) = {} /\ out \cap BlocksOf(c) = {}
      BY <2>1 DEF Returning, Accessing
    <2>3. live[c] = 0
      <3>1. c \in Chunk
        BY DEF Typed
      <3>2. live[c] = Cardinality({}) + Cardinality({})
        BY <2>2, <3>1 DEF LiveCounted
      <3> QED
        BY <3>2, FS_EmptySet
    <2> QED
      BY <1>4, <1>5, <2>1, <2>3 DEF ChunksHaveKeepers, Probing, Thread
  <1> QED
    BY <1>1, <1>4, <1>5

\* Once the control block is gone nothing is left to do.
LEMMA FreedStep ==
  ASSUME Typed, LiveCounted, RefsCounted, ChunksHaveKeepers, FreedByTheLast, Placed, PcSound,
         [Next]_vars
  PROVE  FreedByTheLast'
  <1> USE DEF control, lists, closing, Goto, MayAllocate
  <1>1. ASSUME NEW t \in Thread, Unref(t) PROVE FreedByTheLast'
    <2>1. /\ deleted' = (refs = 1) /\ UNCHANGED <<retired, out, chunks>>
          /\ pc[t] = "unref" /\ pc'[t] = "idle" /\ \A u \in Thread \ {t} : pc'[u] = pc[u]
      BY <1>1 DEF Unref, Typed
    <2>2. (\A u \in Thread : pc'[u] = "idle") <=> Busy = {t}
      BY <2>1 DEF Busy
    <2>3. refs = 1 <=> retired /\ out = {} /\ Busy = {t}
      BY <1>1, LastReference
    <2>4. refs = 1 => chunks = {}
      BY <1>1, LastReference
    <2> QED
      BY <2>1, <2>2, <2>3, <2>4 DEF FreedByTheLast
  <1>2. ASSUME NEW t \in Thread, Free(t) PROVE FreedByTheLast'
    <2>1. /\ out # {} /\ pc'[t] # "idle" /\ deleted' = deleted
      BY <1>2 DEF Free, Typed
    <2> QED
      BY <2>1 DEF FreedByTheLast
  <1>3. ASSUME AllocateLocal \/ AllocateDrained \/ AllocateFresh PROVE FreedByTheLast'
    BY <1>3 DEF AllocateLocal, AllocateDrained, AllocateFresh, FreedByTheLast
  <1>4. ASSUME Retire PROVE FreedByTheLast'
    BY <1>4 DEF Retire, FreedByTheLast, Typed, Thread
  <1>5. ASSUME Close \/ \E t \in Thread : Continue(t) /\ ~Unref(t) PROVE FreedByTheLast'
    <2>1. \E t \in Thread : pc[t] # "idle"
      BY <1>5 DEF Close, Exchange, Walk, Lock, Sweep, Unlock, Continue, PushLocal, Check,
           PushRemote, RecheckRetired, Drop, Release, Reclaim, Probe, Unlink, Thread
    <2>2. /\ UNCHANGED <<retired, deleted, out>>
          /\ \A t \in Thread : pc'[t] = "idle" <=> pc[t] = "idle"
      BY <1>5 DEF Close, Exchange, Walk, Lock, Sweep, Unlock, Continue, PushLocal, Check,
           PushRemote, RecheckRetired, Drop, Release, Reclaim, Probe, Unlink, Thread,
           Typed
    <2> QED
      BY <2>1, <2>2 DEF FreedByTheLast
  <1>6. ASSUME UNCHANGED vars PROVE FreedByTheLast'
    BY <1>6 DEF vars, FreedByTheLast
  <1> QED
    BY <1>1, <1>2, <1>3, <1>4, <1>5, <1>6 DEF Next, Continue

-----------------------------------------------------------------------------
(* The theorems.                                                           *)

LEMMA Start == Init => IInv
  <1> SUFFICES ASSUME Init PROVE IInv
    OBVIOUS
  <1>1. Typed /\ PcSound
    BY TypedInit
  <1>2. /\ \A t \in Thread : pc[t] = "idle"
        /\ out = {} /\ local = {} /\ ToSet(remote) = {} /\ IsInjective(remote)
        /\ ~retired /\ refs = 1 /\ ~deleted /\ chunks = {} /\ freed = {}
        /\ \A c \in Chunk : live[c] = 0
    BY DEF Init, ToSet, IsInjective
  <1>3. Busy = {} /\ \A c : Returning(c) = {} /\ out \cap BlocksOf(c) = {}
    BY <1>2 DEF Busy, Returning, Accessing
  <1>4. LiveCounted
    <2>1. \A c \in Chunk : Cardinality(out \cap BlocksOf(c)) = 0 /\ Cardinality(Returning(c)) = 0
      BY <1>3, FS_EmptySet, Zenon
    <2> QED
      BY <1>2, <2>1 DEF LiveCounted
  <1>5. RefsCounted
    <2>1. Cardinality(out) = 0 /\ Cardinality(Busy) = 0
      BY <1>2, <1>3, FS_EmptySet, Zenon
    <2> QED
      BY <1>2, <2>1 DEF RefsCounted
  <1>6. Placed
    BY <1>2 DEF Placed, Carrying
  <1>7. OnePlace
    BY <1>1, <1>6, PlacedIsOnePlace DEF Typed
  <1>8. CarriedOnce /\ FreeIsThere /\ ChunksHaveKeepers /\ FreedByTheLast
    BY <1>2 DEF CarriedOnce, Carrying, FreeIsThere, ChunksHaveKeepers, FreedByTheLast
  <1> QED
    BY <1>1, <1>4, <1>5, <1>7, <1>8 DEF IInv

LEMMA Step ==
  ASSUME IInv, [Next]_vars
  PROVE  IInv'
  <1>1. /\ Typed /\ PcSound /\ LiveCounted /\ OnePlace /\ CarriedOnce /\ FreeIsThere
        /\ RefsCounted /\ ChunksHaveKeepers /\ FreedByTheLast
    BY DEF IInv
  <1>2. Typed' /\ PcSound'
    BY <1>1, TypedStep
  <1>3. LiveCounted'
    BY <1>1, LiveCountedStep
  <1>4. Placed
    BY <1>1, PlacedIsOnePlace DEF Typed
  <1>5. Placed' /\ CarriedOnce' /\ FreeIsThere'
    BY <1>1, <1>4, PlacedStep
  <1>6. OnePlace'
    <2>1. chunks' \subseteq Chunk
      BY <1>2 DEF Typed
    <2> QED
      BY <1>5, <2>1, PlacedIsOnePlace
  <1>7. RefsCounted' /\ ChunksHaveKeepers' /\ FreedByTheLast'
    BY <1>1, <1>4, RefsCountedStep, KeepersStep, FreedStep
  <1> QED
    BY <1>2, <1>3, <1>5, <1>6, <1>7 DEF IInv

\* The invariant the other theorems rest on.
THEOREM InvariantHolds == Spec => []IInv
  BY Start, Step, PTL DEF Spec

\* TypeOK bounds live_count, which LiveCounted gives: at most all blocks are out and all
\* threads return one.
LEMMA TypeFollows == IInv => TypeOK
  <1> SUFFICES ASSUME IInv PROVE TypeOK
    OBVIOUS
  <1>1. Typed /\ LiveCounted
    BY DEF IInv
  <1>2. ASSUME NEW c \in Chunk
        PROVE  live[c] \in 0 .. PerChunk + Cardinality(Thread)
    <2>1. /\ IsFiniteSet(1 .. PerChunk) /\ Cardinality(1 .. PerChunk) = PerChunk
          /\ IsFiniteSet({c}) /\ Cardinality({c}) = 1 /\ PerChunk \in Nat
      <3>1. PerChunk \in Nat /\ PerChunk > 0 /\ PerChunk \in Int /\ 1 \in Int
        BY PoolAssumption
      <3>2. IsFiniteSet(1 .. PerChunk) /\ Cardinality(1 .. PerChunk) = PerChunk
        BY <3>1, FS_Interval
      <3> QED
        BY <3>1, <3>2, FS_Singleton
    <2>2. IsFiniteSet(BlocksOf(c)) /\ Cardinality(BlocksOf(c)) = 1 * PerChunk
      BY <2>1, FS_Product, ZenonT(30) DEF BlocksOf
    <2>3. Cardinality(out \cap BlocksOf(c)) <= PerChunk
      <3>1. Cardinality(out \cap BlocksOf(c)) <= Cardinality(BlocksOf(c))
        BY <2>2, FS_Subset
      <3> QED
        BY <2>1, <2>2, <3>1
    <2>4. Cardinality(Returning(c)) <= Cardinality(Thread)
      <3>1. Returning(c) \in SUBSET Thread
        BY DEF Returning
      <3> QED
        BY <1>1, <3>1, FiniteParts, FS_Subset
    <2>5. /\ Cardinality(out \cap BlocksOf(c)) \in Nat /\ Cardinality(Returning(c)) \in Nat
          /\ Cardinality(Thread) \in Nat
      BY <1>1, FiniteParts, FS_CardinalityType
    <2> QED
      BY <1>1, <2>1, <2>3, <2>4, <2>5 DEF LiveCounted
  <1>3. live \in [Chunk -> 0 .. PerChunk + Cardinality(Thread)]
    BY <1>1, <1>2 DEF Typed
  <1>4. \A t \in Thread : blk[t] \in Block \cup {NoBlock}
    BY <1>1 DEF Typed
  <1>5. pc \in [Thread -> {"idle", "exchange", "walk", "sweep", "unref"} \cup Accessing \cup Probing]
    BY <1>1 DEF Typed, Closing
  <1> QED
    BY <1>1, <1>3, <1>4, <1>5 DEF Typed, TypeOK

\* The pool's state is well typed, and live_count stays within 32 bits if the blocks of a
\* chunk and the threads do (fixed_block_pool.h:68-75).
THEOREM TypeCorrect == Spec => []TypeOK
  BY InvariantHolds, TypeFollows, PTL

\* live_count is exactly the number of blocks of a chunk that are out or on their way back,
\* and a chunk some block of which is, is not freed.
THEOREM LiveCountIsExact == Spec => []LiveCounted
  <1>1. IInv => LiveCounted
    BY DEF IInv
  <1> QED
    BY <1>1, InvariantHolds, PTL

\* No block is handed out twice, however its return interleaves with the owner draining the
\* remote list and with shutdown().
THEOREM BlocksAreInOnePlace == Spec => []OnePlace
  <1>1. IInv => OnePlace
    BY DEF IInv
  <1> QED
    BY <1>1, InvariantHolds, PTL

\* The control block is deleted with the last reference and not before, and no chunk is left.
THEOREM LastReferenceFrees == Spec => []FreedByTheLast
  <1>1. IInv => FreedByTheLast
    BY DEF IInv
  <1> QED
    BY <1>1, InvariantHolds, PTL

-----------------------------------------------------------------------------
(* The pool implements BlockPool.                                          *)

\* The sweep looks only at chunks that were made; some may have gone since.
SweepIsMade == sweep \subseteq Made

LEMMA SweepStep ==
  ASSUME SweepIsMade, [Next]_vars
  PROVE  SweepIsMade'
  <1> USE DEF SweepIsMade, Made, control, lists, closing
  <1>1. ASSUME AllocateLocal \/ AllocateDrained \/ AllocateFresh \/ Retire
        PROVE  SweepIsMade'
    BY <1>1 DEF AllocateLocal, AllocateDrained, AllocateFresh, Retire
  <1>2. ASSUME Close PROVE SweepIsMade'
    BY <1>2 DEF Close, Exchange, Walk, Lock, Sweep, Unlock
  <1>3. ASSUME NEW t \in Thread, Free(t) \/ Continue(t) PROVE SweepIsMade'
    BY <1>3 DEF Free, Continue, PushLocal, Check, PushRemote, RecheckRetired, Drop,
         Release, Reclaim, Probe, Unlink, Unref
  <1>4. CASE UNCHANGED vars
    BY <1>4 DEF vars
  <1> QED
    BY <1>1, <1>2, <1>3, <1>4 DEF Next

LEMMA NothingIsOut ==
  ASSUME Typed, LiveCounted, NEW c \in Chunk, live[c] = 0
  PROVE  out \cap BlocksOf(c) = {}
  <1>1. /\ IsFiniteSet(out \cap BlocksOf(c)) /\ Cardinality(out \cap BlocksOf(c)) \in Nat
        /\ Cardinality(Returning(c)) \in Nat
    BY FiniteParts, FS_CardinalityType
  <1>2. Cardinality(out \cap BlocksOf(c)) = 0
    BY <1>1 DEF LiveCounted
  <1> QED
    BY <1>1, <1>2, FS_EmptySet

Visible == <<out, chunks, freed, ~retired, deleted>>

\* A block that no caller holds, of a chunk that is there or new.
LEMMA TakeAllocates ==
  ASSUME Typed, NEW b \in Block, b \notin out, b[1] \notin freed, ~retired,
         out' = out \cup {b}, chunks' = chunks \cup {b[1]},
         UNCHANGED <<retired, deleted, freed>>
  PROVE  Abstract!Allocate
  <1>1. b[1] \in Chunk \ freed /\ b \in Abstract!BlocksOf(b[1]) \ out
    BY BlockParts DEF BlocksOf, Abstract!BlocksOf
  <1> QED
    BY <1>1 DEF Abstract!Allocate

\* Memory of a retired pool that is given back has no block out.
LEMMA FreeingIsSafe ==
  ASSUME Typed, LiveCounted, retired, NEW c \in chunks, live[c] = 0,
         chunks' = chunks \ {c}, freed' = freed \cup {c},
         UNCHANGED <<retired, deleted, out>>
  PROVE  Abstract!FreeChunk
  <1>1. c \in Chunk
    BY DEF Typed
  <1>2. Abstract!BlocksOf(c) \cap out = {}
    BY <1>1, NothingIsOut DEF BlocksOf, Abstract!BlocksOf
  <1> QED
    BY <1>2 DEF Abstract!FreeChunk

LEMMA BlockPoolStep ==
  ASSUME IInv, IInv', SweepIsMade, [Next]_vars
  PROVE  [Abstract!Next]_(Abstract!vars)
  <1> DEFINE G == Abstract!Next \/ UNCHANGED Visible
  <1> SUFFICES G
    BY DEF Visible, Abstract!vars
  <1>0. /\ Typed /\ PcSound /\ LiveCounted /\ OnePlace /\ FreeIsThere /\ FreedByTheLast
        /\ FreedByTheLast'
    BY DEF IInv
  <1>1. ASSUME NEW free \in SUBSET Block, ~retired, Take(free),
               \A b \in free : b \notin out /\ b[1] \notin freed /\ chunks' = chunks \cup {b[1]},
               UNCHANGED <<retired, deleted, freed>>
        PROVE  G
    <2>1. PICK b \in free : out' = out \cup {b}
      BY <1>1 DEF Take
    <2> QED
      BY <1>0, <1>1, <2>1, TakeAllocates DEF Abstract!Next
  <1>2. ASSUME AllocateLocal PROVE G
    <2>1. ~retired /\ Take(local) /\ UNCHANGED <<retired, deleted, freed, chunks>>
      BY <1>2 DEF AllocateLocal, MayAllocate
    <2>2. \A b \in local : b \in Block /\ b \notin out /\ b[1] \notin freed /\ b[1] \in chunks
      BY <1>0, <2>1 DEF Typed, OnePlace, FreeIsThere
    <2> QED
      BY <1>1, <2>1, <2>2
  <1>3. ASSUME AllocateDrained PROVE G
    <2>1. ~retired /\ Take(ToSet(remote)) /\ UNCHANGED <<retired, deleted, freed, chunks>>
      BY <1>3 DEF AllocateDrained, MayAllocate
    <2>2. \A b \in ToSet(remote) : b \in Block
      BY <1>0 DEF Typed, ToSet
    <2>3. \A b \in ToSet(remote) : b \notin out /\ b[1] \notin freed /\ b[1] \in chunks
      BY <1>0, <2>1 DEF OnePlace, FreeIsThere
    <2> QED
      BY <1>1, <2>1, <2>2, <2>3
  <1>4. ASSUME AllocateFresh PROVE G
    <2>1. PICK c \in Chunk \ Made : chunks' = chunks \cup {c} /\ Take(BlocksOf(c))
      BY <1>4 DEF AllocateFresh
    <2>2. ~retired /\ UNCHANGED <<retired, deleted, freed>>
      BY <1>4 DEF AllocateFresh, MayAllocate
    <2>3. \A b \in BlocksOf(c) : b \in Block /\ b \notin out /\ b[1] = c
      BY <1>0, <2>1, UnmadeIsUnused DEF Made
    <2> QED
      BY <1>1, <2>1, <2>2, <2>3 DEF Made
  <1>5. ASSUME Retire PROVE G
    BY <1>5 DEF Retire, MayAllocate, lists, closing, Abstract!Next, Abstract!Close
  <1>6. ASSUME Sweep PROVE G
    <2>1. PICK c \in sweep :
            IF live[c] = 0 THEN chunks' = chunks \ {c} /\ freed' = freed \cup {c}
            ELSE UNCHANGED <<chunks, freed>>
      BY <1>6 DEF Sweep
    <2>2. retired /\ UNCHANGED <<retired, deleted, out>>
      BY <1>0, <1>6 DEF Sweep, Goto, PcSound, Closing, Thread, control, lists
    <2>3. CASE c \in chunks /\ live[c] = 0
      BY <1>0, <2>1, <2>2, <2>3, FreeingIsSafe DEF Abstract!Next
    <2>4. CASE c \in freed \/ live[c] # 0
      BY <1>0, <2>1, <2>2, <2>4 DEF Visible, Typed
    <2> QED
      BY <2>3, <2>4 DEF SweepIsMade, Made
  <1>7. ASSUME Exchange \/ Walk \/ Lock \/ Unlock PROVE G
    BY <1>7 DEF Exchange, Walk, Lock, Unlock, control, lists, Visible
  <1>8. ASSUME NEW t \in Thread, Free(t) PROVE G
    <2>1. Abstract!Return
      BY <1>8 DEF Free, control, Abstract!Return
    <2> QED
      BY <2>1 DEF Abstract!Next
  <1>9. ASSUME NEW t \in Thread, Unlink(t) PROVE G
    <2> DEFINE c == blk[t][1]
    <2>1. retired /\ UNCHANGED <<retired, deleted, out>>
      BY <1>0, <1>9 DEF Unlink, Goto, PcSound, control, lists
    <2>2. CASE c \in chunks /\ live[c] = 0
      BY <1>0, <1>9, <2>1, <2>2, FreeingIsSafe DEF Unlink, Abstract!Next
    <2>3. CASE ~(c \in chunks /\ live[c] = 0)
      BY <1>9, <2>1, <2>3 DEF Unlink, Visible
    <2> QED
      BY <2>2, <2>3
  <1>10. ASSUME NEW t \in Thread, Unref(t) PROVE G
    <2>1. pc[t] = "unref" /\ UNCHANGED <<retired, chunks, freed, out>>
      BY <1>10 DEF Unref, Goto, lists
    <2>2. ~deleted
      BY <1>0, <2>1 DEF FreedByTheLast
    <2>3. CASE deleted'
      <3>1. retired /\ out = {} /\ chunks = {} /\ deleted' = TRUE
        BY <1>0, <2>1, <2>3 DEF FreedByTheLast, IInv, Typed
      <3> QED
        BY <2>1, <2>2, <3>1 DEF Abstract!Next, Abstract!Vanish
    <2>4. CASE ~deleted'
      <3>1. deleted' = deleted
        BY <1>0, <2>2, <2>4 DEF IInv, Typed
      <3> QED
        BY <2>1, <3>1 DEF Visible
    <2> QED
      BY <2>3, <2>4
  <1>11. ASSUME NEW t \in Thread,
                \/ PushLocal(t) \/ Check(t) \/ PushRemote(t) \/ RecheckRetired(t)
                \/ Drop(t) \/ Release(t) \/ Reclaim(t) \/ Probe(t)
         PROVE  G
    BY <1>11 DEF PushLocal, Check, PushRemote, RecheckRetired, Drop, Release, Reclaim,
         Probe, control, lists, Visible
  <1>12. CASE UNCHANGED vars
    BY <1>12 DEF vars, control, lists, Visible
  <1> QED
    BY <1>2, <1>3, <1>4, <1>5, <1>6, <1>7, <1>8, <1>9, <1>10, <1>11, <1>12
       DEF Next, Close, Continue

\* Free lists, counters and races to the last block are invisible to the callers: they
\* share no block, the chunk of a block they hold is there, and when shutdown() has been
\* called and everything returned, nothing is left (fixed_block_pool.h:16-20, 76-88).
THEOREM PoolImplementsBlockPool == Spec => ImplementsBlockPool
  <1>1. Init => Abstract!Init /\ SweepIsMade
    BY DEF Init, Abstract!Init, SweepIsMade
  <1>2. IInv /\ IInv' /\ SweepIsMade /\ [Next]_vars =>
          SweepIsMade' /\ [Abstract!Next]_(Abstract!vars)
    BY SweepStep, BlockPoolStep
  <1> QED
    BY <1>1, <1>2, InvariantHolds, PTL DEF Spec, ImplementsBlockPool, Abstract!Spec

=============================================================================
