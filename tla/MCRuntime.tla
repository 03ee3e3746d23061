------------------------------ MODULE MCRuntime ------------------------------
(* Instances of Runtime for TLC.                                           *)
EXTENDS RuntimeExecutor, TLC

CoroSymmetry == Permutations(Coro)
FullSymmetry == Permutations(Coro) \cup Permutations(Thread)

=============================================================================
