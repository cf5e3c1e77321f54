------------------------------ MODULE SlotPool ------------------------------
(***************************************************************************)
(* What connection admission promises the process: a pool of slots, never  *)
(* more than Limit of them held and never more than PerSource by holders   *)
(* of one source, whoever asks at the same time.  A slot is granted and    *)
(* returned in one step; nothing else changes it.  Holders without a       *)
(* source, the peers of a Unix-domain listener, count to the limit only.   *)
(***************************************************************************)
EXTENDS Integers, FiniteSets

CONSTANTS Holders, Sources, Anonymous, Limit, PerSource

VARIABLE held   \* the source of every holder of a slot

HeldBy(s) == {x \in DOMAIN held : held[x] = s}

Init == held = [x \in {} |-> Anonymous]

Grant(x, s) ==
  /\ x \notin DOMAIN held
  /\ Cardinality(DOMAIN held) < Limit
  /\ s = Anonymous \/ Cardinality(HeldBy(s)) < PerSource
  /\ held' = [y \in DOMAIN held \cup {x} |-> IF y = x THEN s ELSE held[y]]

Return(x) ==
  /\ x \in DOMAIN held
  /\ held' = [y \in DOMAIN held \ {x} |-> held[y]]

Next ==
  \E x \in Holders :
    \/ Return(x)
    \/ \E s \in Sources \cup {Anonymous} : Grant(x, s)

Spec == Init /\ [][Next]_held
=============================================================================
