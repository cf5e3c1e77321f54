---- MODULE MCSseChannel ----
(* Subscribers and application threads are interchangeable.  The symmetry  *)
(* is used for the safety run only.                                        *)
EXTENDS SseChannel, TLC

Symmetry == Permutations(Subs) \cup Permutations(Callers)
=============================
