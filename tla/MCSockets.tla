------------------------------ MODULE MCSockets ------------------------------
(* Instances of Sockets for TLC.                                           *)
EXTENDS Sockets, TLC

Symmetric == Permutations(Stream) \cup Permutations(Operation)
               \cup Permutations(Fd) \cup Permutations(File)

=============================================================================
