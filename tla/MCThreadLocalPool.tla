-------------------------- MODULE MCThreadLocalPool --------------------------
(* The instance of ThreadLocalPool for TLC: blocks of 80 and 96 bytes, and  *)
(* requests of size 0, for either class, over-aligned, and too large.      *)
EXTENDS ThreadLocalPool

Classes == <<16, 32>>
PerChunk == <<2, 1>>
Requests == {[size |-> 0, align |-> 16], [size |-> 20, align |-> 8],
             [size |-> 16, align |-> 64], [size |-> 40, align |-> 4]}

=============================================================================
