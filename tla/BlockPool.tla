----------------------------- MODULE BlockPool -----------------------------
(***************************************************************************)
(* What FixedBlockPool promises whoever uses it                            *)
(* (memory/fixed_block_pool.h:16-20, 76-88): a block has one holder, its   *)
(* chunk is there as long as it has one, and after shutdown() everything   *)
(* goes as soon as nothing is held.  No lists, counters or threads.        *)
(***************************************************************************)
EXTENDS Naturals

CONSTANTS Chunk, PerChunk

VARIABLES
  out,     \* the blocks that are held
  chunks,  \* the chunks that are there
  spent,   \* those that were, and never come back
  open,    \* allocate() may be called
  gone     \* the pool itself has gone

vars == <<out, chunks, spent, open, gone>>

BlocksOf(c) == {c} \X (1 .. PerChunk)

Init == out = {} /\ chunks = {} /\ spent = {} /\ open = TRUE /\ gone = FALSE

\* A block nobody holds, of a chunk that is there or new.
Allocate ==
  /\ open
  /\ \E c \in Chunk \ spent : \E b \in BlocksOf(c) \ out :
       out' = out \cup {b} /\ chunks' = chunks \cup {c}
  /\ UNCHANGED <<spent, open, gone>>

Return ==
  /\ \E b \in out : out' = out \ {b}
  /\ UNCHANGED <<chunks, spent, open, gone>>

Close ==
  /\ open /\ open' = FALSE
  /\ UNCHANGED <<out, chunks, spent, gone>>

\* Only a closed pool gives memory back, and none of which a block is held.
FreeChunk ==
  /\ ~open
  /\ \E c \in chunks :
       /\ BlocksOf(c) \cap out = {}
       /\ chunks' = chunks \ {c} /\ spent' = spent \cup {c}
  /\ UNCHANGED <<out, open, gone>>

\* The last thing to go.
Vanish ==
  /\ ~open /\ ~gone /\ gone' = TRUE
  /\ out = {} /\ chunks = {}
  /\ UNCHANGED <<out, chunks, spent, open>>

Next == Allocate \/ Return \/ Close \/ FreeChunk \/ Vanish

Spec == Init /\ [][Next]_vars

=============================================================================
