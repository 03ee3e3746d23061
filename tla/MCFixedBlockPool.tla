-------------------------- MODULE MCFixedBlockPool --------------------------
EXTENDS FixedBlockPool, TLC

Symmetric == Permutations(Chunk) \cup Permutations(Remote)

=============================================================================
