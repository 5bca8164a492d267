------------------------------ MODULE MCDaemon ------------------------------
(* Symmetry for model checking Daemon: all its constant sets but the names.  *)
EXTENDS Daemon, TLC

Symmetry ==
  Permutations(Socks) \cup Permutations(Addrs) \cup Permutations(Values)
=============================================================================
