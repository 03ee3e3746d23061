------------------------------- MODULE Layout -------------------------------
(***************************************************************************)
(* Addresses and sizes, as numbers of bytes.                               *)
(***************************************************************************)
EXTENDS Naturals

Multiple(x, a) == \E k \in 0 .. x : x = k * a

\* The m bytes at p and the n bytes at q have none in common.
Apart(p, m, q, n) == p + m <= q \/ q + n <= p

\* The m bytes at p are among the n bytes at q.
Within(p, m, q, n) == q <= p /\ p + m <= q + n

\* align_up of fixed_block_pool.h, for a power of two.
AlignUp(v, a) == ((v + (a - 1)) \div a) * a

=============================================================================
