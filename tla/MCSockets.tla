------------------------------ MODULE MCSockets ------------------------------
(* Instances of Sockets for TLC. *)
EXTENDS Sockets, TLC

\* Addresses are interchangeable (in the runs without liveness properties).
Symmetry == Permutations(Socks)
=============================================================================
