---- MODULE MCReactor ----
(* Descriptors and producers are interchangeable: no action or invariant  *)
(* names one.  The symmetry is used for the safety run only.              *)
EXTENDS Reactor, TLC

Symmetry == Permutations(Fds) \cup Permutations(Producers)
==========================
