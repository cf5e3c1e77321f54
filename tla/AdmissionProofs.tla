-------------------------- MODULE AdmissionProofs --------------------------
(***************************************************************************)
(* Proofs about Admission, for any number of reactors, descriptors and     *)
(* sources and any limits.                                                 *)
(*                                                                         *)
(* The counters are exact only because every slot has one owner and every  *)
(* owner is let go of once; so the ownership invariant is proved first and *)
(* the arithmetic rests on it.                                             *)
(*                                                                         *)
(* What the allow list lets in is a matter of bits: the bytes and masks    *)
(* that CidrAllowList compares are reduced to the bits an entry is about,  *)
(* for every list of entries and every address.                            *)
(***************************************************************************)
EXTENDS FilteredAdmission, SequenceFacts, FiniteSetTheorems, SequenceTheorems,
        TLAPS

Holding == {"accepted", "admitted"}

(* A reactor has a descriptor in hand exactly inside Reactor::admit, and   *)
(* whatever is in a hand or a table is open.                               *)
HandsOpen ==
  \A r \in Reactors :
    /\ inHand[r] # None <=> pc[r] \in Holding
    /\ inHand[r] # None => peer[inHand[r]] # None
    /\ \A f \in connections[r] : peer[f] # None

Ownership == TypeOK /\ SlotsOwned /\ OneOwner /\ HandsOpen

-----------------------------------------------------------------------------
(* Types *)

(* GrantSlot keeps the types of what it changes.                           *)
LEMMA GrantType ==
  ASSUME TypeOK, NEW f \in Fds, peer[f] # None, GrantSlot(f)
  PROVE  /\ active' \in Nat
         /\ slots' \in SUBSET Fds
         /\ DOMAIN source_connections' \subseteq Sources
         /\ source_connections' \in [DOMAIN source_connections' -> Nat]
<1>1. peer[f] \in Sources \cup {Unix}
  BY DEF TypeOK, Peers
<1>2. CASE peer[f] = Unix
  BY <1>2 DEF TypeOK, GrantSlot
<1>3. CASE peer[f] \in Sources
  <2>1. SourceCount(peer[f]) \in Nat
    BY DEF TypeOK, SourceCount
  <2>2. peer[f] # Unix
    BY <1>3, AdmissionAssumption
  <2> QED
    BY <1>3, <2>1, <2>2 DEF TypeOK, GrantSlot, SetSourceCount
<1> QED
  BY <1>1, <1>2, <1>3

(* ReleaseSlot keeps the types of what it changes; the guards against      *)
(* underflow are what keeps the counters natural numbers.                  *)
LEMMA ReleaseType ==
  ASSUME TypeOK, NEW f \in Fds, ReleaseSlot(f)
  PROVE  /\ active' \in Nat
         /\ slots' \in SUBSET Fds
         /\ DOMAIN source_connections' \subseteq Sources
         /\ source_connections' \in [DOMAIN source_connections' -> Nat]
<1>1. active' \in Nat /\ slots' \in SUBSET Fds
  BY DEF TypeOK, ReleaseSlot
<1>2. CASE peer[f] = Unix \/ peer[f] \notin DOMAIN source_connections
  BY <1>1, <1>2 DEF TypeOK, ReleaseSlot
<1>3. CASE /\ peer[f] # Unix /\ peer[f] \in DOMAIN source_connections
           /\ source_connections[peer[f]] <= 1
  BY <1>1, <1>3 DEF TypeOK, ReleaseSlot, EraseSource
<1>4. CASE /\ peer[f] # Unix /\ peer[f] \in DOMAIN source_connections
           /\ ~(source_connections[peer[f]] <= 1)
  <2>1. source_connections[peer[f]] \in Nat /\ source_connections[peer[f]] > 1
    BY <1>4 DEF TypeOK
  <2> DEFINE n == source_connections[peer[f]] - 1
  <2>2. n \in Nat
    BY <2>1
  <2>3. source_connections' = SetSourceCount(peer[f], n)
    BY <1>4 DEF ReleaseSlot
  <2> HIDE DEF n
  <2> QED
    BY <1>1, <1>4, <2>2, <2>3 DEF TypeOK, SetSourceCount
<1> QED
  BY <1>2, <1>3, <1>4

(* Every step keeps the types.                                             *)
LEMMA TypeStep ==
  ASSUME Ownership, [Next]_vars
  PROVE  TypeOK'
<1> USE AdmissionAssumption DEF Ownership
<1>1. CASE UNCHANGED vars
  BY <1>1 DEF TypeOK, vars, counters
<1>2. CASE RequestStop
  BY <1>2 DEF TypeOK, RequestStop, counters
<1>3. ASSUME NEW r \in Reactors, ReactorStep(r) \/ Teardown(r)
      PROVE  TypeOK'
  <2>0. /\ connections[r] \in SUBSET Fds
        /\ Cardinality(connections[r]) \in Nat
    <3>1. connections[r] \in SUBSET Fds
      BY DEF TypeOK
    <3> QED
      BY <3>1, FS_Subset, FS_CardinalityType
  <2>1. ASSUME NEW f \in Fds, NEW p \in Peers, Accept(r, f, p)
        PROVE  TypeOK'
    BY <2>1 DEF TypeOK, Accept, Goto, Stages, counters
  <2>2. ASSUME pc[r] \in Holding
        PROVE  inHand[r] \in Fds /\ peer[inHand[r]] # None
    BY <2>2 DEF TypeOK, HandsOpen, Holding
  <2>3. CASE RejectCidr(r) \/ RejectLimit(r)
    BY <2>2, <2>3 DEF TypeOK, RejectCidr, RejectLimit, DropInHand, Goto,
                      Stages, counters, Holding
  <2>4. CASE AdmitSlot(r)
    <3>1. GrantSlot(inHand[r]) /\ pc[r] \in Holding
      BY <2>4 DEF AdmitSlot, Holding
    <3>2. /\ active' \in Nat
          /\ slots' \in SUBSET Fds
          /\ DOMAIN source_connections' \subseteq Sources
          /\ source_connections' \in [DOMAIN source_connections' -> Nat]
      BY <2>2, <3>1, GrantType
    <3> QED
      BY <2>4, <3>2 DEF TypeOK, AdmitSlot, Goto, Stages
  <2>5. CASE DropAdmitted(r)
    <3>1. ReleaseSlot(inHand[r]) /\ pc[r] \in Holding
      BY <2>5 DEF DropAdmitted, Holding
    <3>2. /\ active' \in Nat
          /\ slots' \in SUBSET Fds
          /\ DOMAIN source_connections' \subseteq Sources
          /\ source_connections' \in [DOMAIN source_connections' -> Nat]
      BY <2>2, <3>1, ReleaseType
    <3> QED
      BY <2>2, <2>5, <3>1, <3>2 DEF TypeOK, DropAdmitted, DropInHand, Goto,
                                    Stages
  <2>6. CASE InsertConnection(r)
    BY <2>2, <2>6 DEF TypeOK, InsertConnection, Goto, Stages, counters,
                      Holding
  <2>7. CASE RaiseGauge(r) \/ LowerGauge(r)
    BY <2>7 DEF TypeOK, RaiseGauge, LowerGauge, Goto, Stages, counters
  <2>8. ASSUME NEW f \in Fds, EraseConnection(r, f) \/ ClearOne(r, f)
        PROVE  TypeOK'
    <3>1. ReleaseSlot(f)
      BY <2>8 DEF EraseConnection, ClearOne
    <3>2. /\ active' \in Nat
          /\ slots' \in SUBSET Fds
          /\ DOMAIN source_connections' \subseteq Sources
          /\ source_connections' \in [DOMAIN source_connections' -> Nat]
      BY <3>1, ReleaseType
    <3> QED
      BY <2>8, <3>2 DEF TypeOK, EraseConnection, ClearOne, Goto, Stages
  <2>9. CASE FailInAdmit(r)
    <3>1. pc[r] \in Holding
      BY <2>9 DEF FailInAdmit, Holding
    <3>2. /\ active' \in Nat
          /\ slots' \in SUBSET Fds
          /\ DOMAIN source_connections' \subseteq Sources
          /\ source_connections' \in [DOMAIN source_connections' -> Nat]
      <4>1. CASE pc[r] = "admitted"
        BY <2>2, <2>9, <3>1, <4>1, ReleaseType DEF FailInAdmit
      <4>2. CASE pc[r] # "admitted"
        BY <2>9, <4>2 DEF TypeOK, FailInAdmit, counters
      <4> QED
        BY <4>1, <4>2
    <3> QED
      BY <2>2, <2>9, <3>1, <3>2 DEF TypeOK, FailInAdmit, DropInHand, Goto,
                                    Stages
  <2>10. CASE ExitLoop(r)
    BY <2>10 DEF TypeOK, ExitLoop, Goto, Stages, counters
  <2>11. CASE LowerGaugeByTable(r)
    BY <2>0, <2>11 DEF TypeOK, LowerGaugeByTable, Goto, Stages, counters
  <2> QED
    BY <1>3, <2>1, <2>3, <2>4, <2>5, <2>6, <2>7, <2>8, <2>9, <2>10, <2>11
       DEF ReactorStep, Teardown
<1>4. CASE Finished
  BY <1>4 DEF TypeOK, Finished, vars, counters
<1> QED
  BY <1>1, <1>2, <1>3, <1>4 DEF Next

-----------------------------------------------------------------------------
(* Ownership *)

(* A reactor's own descriptor is in no table and in no other hand, so a    *)
(* descriptor that is accepted but not admitted has no slot, and the slot  *)
(* of a connection belongs to nobody else.                                 *)
LEMMA OwnFacts ==
  ASSUME Ownership, NEW r \in Reactors
  PROVE  /\ pc[r] \in Holding => inHand[r] \in Fds /\ peer[inHand[r]] # None
         /\ pc[r] = "accepted" => inHand[r] \notin slots
         /\ pc[r] = "admitted" => inHand[r] \in slots
         /\ \A f \in connections[r] : f \in slots
         /\ \A f \in slots : peer[f] # None
<1>1. pc[r] \in Holding => inHand[r] \in Fds /\ peer[inHand[r]] # None
  BY DEF Ownership, TypeOK, HandsOpen
<1>2. pc[r] = "accepted" => inHand[r] \notin slots
  BY DEF Ownership, HandsOpen, Holding, SlotsOwned, OneOwner
<1>3. pc[r] = "admitted" => inHand[r] \in slots
  BY DEF Ownership, SlotsOwned
<1>4. \A f \in connections[r] : f \in slots
  BY DEF Ownership, SlotsOwned
<1>5. \A f \in slots : peer[f] # None
  BY DEF Ownership, SlotsOwned, HandsOpen, Holding
<1> QED
  BY <1>1, <1>2, <1>3, <1>4, <1>5

(* Every step keeps each slot in one pair of hands: what leaves a hand or  *)
(* a table releases its slot, and only a closed descriptor is accepted.    *)
LEMMA OwnershipStep ==
  ASSUME Ownership, [Next]_vars
  PROVE  Ownership'
<1> USE AdmissionAssumption
<1>0. TypeOK' /\ TypeOK
  BY TypeStep DEF Ownership
<1>1. CASE UNCHANGED vars
  BY <1>0, <1>1 DEF Ownership, SlotsOwned, OneOwner, HandsOpen, vars, counters
<1>2. CASE RequestStop
  BY <1>0, <1>2 DEF Ownership, SlotsOwned, OneOwner, HandsOpen, RequestStop,
                    counters
<1>3. ASSUME NEW r \in Reactors, ReactorStep(r) \/ Teardown(r)
      PROVE  SlotsOwned' /\ OneOwner' /\ HandsOpen'
  <2>0. /\ SlotsOwned /\ OneOwner /\ HandsOpen
        /\ pc[r] \in Holding => inHand[r] \in Fds
        /\ pc[r] = "accepted" => inHand[r] \notin slots
    BY OwnFacts DEF Ownership
  <2>1. ASSUME NEW f \in Fds, NEW p \in Peers, Accept(r, f, p)
        PROVE  SlotsOwned' /\ OneOwner' /\ HandsOpen'
    <3>1. SlotsOwned'
      BY <1>0, <2>0, <2>1 DEF TypeOK, SlotsOwned, Accept, Goto, counters
    <3>2. OneOwner'
      BY <1>0, <2>0, <2>1 DEF TypeOK, OneOwner, HandsOpen, Accept, Goto
    <3>3. HandsOpen'
      BY <1>0, <2>0, <2>1 DEF TypeOK, HandsOpen, Holding, Accept, Goto, Peers
    <3> QED
      BY <3>1, <3>2, <3>3
  <2>2. CASE RejectCidr(r) \/ RejectLimit(r)
    <3>1. SlotsOwned'
      BY <1>0, <2>0, <2>2 DEF TypeOK, SlotsOwned, RejectCidr, RejectLimit,
                              DropInHand, Goto, counters
    <3>2. OneOwner'
      BY <1>0, <2>0, <2>2 DEF TypeOK, OneOwner, RejectCidr, RejectLimit,
                              DropInHand
    <3>3. HandsOpen'
      BY <1>0, <2>0, <2>2 DEF TypeOK, OneOwner, HandsOpen, Holding,
                              RejectCidr, RejectLimit, DropInHand, Goto
    <3> QED
      BY <3>1, <3>2, <3>3
  <2>3. CASE AdmitSlot(r)
    <3>1. SlotsOwned'
      BY <1>0, <2>0, <2>3 DEF TypeOK, SlotsOwned, AdmitSlot, GrantSlot, Goto
    <3>2. OneOwner' /\ HandsOpen'
      BY <1>0, <2>0, <2>3 DEF TypeOK, OneOwner, HandsOpen, Holding, AdmitSlot,
                              Goto
    <3> QED
      BY <3>1, <3>2
  <2>4. CASE DropAdmitted(r) \/ (FailInAdmit(r) /\ pc[r] = "admitted")
    <3>0. /\ pc[r] = "admitted" /\ ReleaseSlot(inHand[r]) /\ DropInHand(r)
          /\ \E stage \in {"poll", "exited"} : Goto(r, stage)
          /\ UNCHANGED connections
      BY <2>4 DEF DropAdmitted, FailInAdmit
    <3>1. SlotsOwned'
      BY <1>0, <2>0, <3>0 DEF TypeOK, SlotsOwned, OneOwner, HandsOpen,
                              Holding, ReleaseSlot, DropInHand, Goto
    <3>2. OneOwner'
      BY <1>0, <2>0, <3>0 DEF TypeOK, OneOwner, DropInHand
    <3>3. HandsOpen'
      BY <1>0, <2>0, <3>0 DEF TypeOK, OneOwner, HandsOpen, Holding,
                              DropInHand, Goto
    <3> QED
      BY <3>1, <3>2, <3>3
  <2>5. CASE InsertConnection(r)
    <3>1. SlotsOwned'
      BY <1>0, <2>0, <2>5 DEF TypeOK, SlotsOwned, InsertConnection, Goto
    <3>2. OneOwner'
      BY <1>0, <2>0, <2>5 DEF TypeOK, OneOwner, HandsOpen, Holding,
                              InsertConnection
    <3>3. HandsOpen'
      BY <1>0, <2>0, <2>5 DEF TypeOK, HandsOpen, Holding, InsertConnection,
                              Goto
    <3> QED
      BY <3>1, <3>2, <3>3
  <2>6. CASE RaiseGauge(r) \/ LowerGauge(r) \/ ExitLoop(r)
               \/ LowerGaugeByTable(r)
    BY <1>0, <2>0, <2>6 DEF TypeOK, SlotsOwned, OneOwner, HandsOpen, Holding,
                            RaiseGauge, LowerGauge, ExitLoop,
                            LowerGaugeByTable, Goto
  <2>7. ASSUME NEW f \in Fds, EraseConnection(r, f) \/ ClearOne(r, f)
        PROVE  SlotsOwned' /\ OneOwner' /\ HandsOpen'
    <3>0. /\ f \in connections[r] /\ ReleaseSlot(f)
          /\ connections' = [connections EXCEPT ![r] = @ \ {f}]
          /\ peer' = [peer EXCEPT ![f] = None]
          /\ inHand' = inHand
          /\ pc[r] \in {"poll", "destroyed"}
          /\ pc' = pc \/ pc' = [pc EXCEPT ![r] = "erased"]
      BY <2>7 DEF EraseConnection, ClearOne, Goto
    <3>1. SlotsOwned'
      BY <1>0, <2>0, <3>0 DEF TypeOK, SlotsOwned, OneOwner, ReleaseSlot
    <3>2. OneOwner'
      BY <1>0, <2>0, <3>0 DEF TypeOK, OneOwner
    <3>3. HandsOpen'
      BY <1>0, <2>0, <3>0 DEF TypeOK, OneOwner, HandsOpen, Holding
    <3> QED
      BY <3>1, <3>2, <3>3
  <2>8. CASE FailInAdmit(r) /\ pc[r] # "admitted"
    <3>0. /\ pc[r] = "accepted" /\ DropInHand(r) /\ Goto(r, "exited")
          /\ UNCHANGED <<slots, connections>>
      BY <2>8 DEF FailInAdmit
    <3>1. SlotsOwned'
      BY <1>0, <2>0, <3>0 DEF TypeOK, SlotsOwned, DropInHand, Goto
    <3>2. OneOwner'
      BY <1>0, <2>0, <3>0 DEF TypeOK, OneOwner, DropInHand
    <3>3. HandsOpen'
      BY <1>0, <2>0, <3>0 DEF TypeOK, OneOwner, HandsOpen, Holding,
                              DropInHand, Goto
    <3> QED
      BY <3>1, <3>2, <3>3
  <2> QED
    BY <1>3, <2>1, <2>2, <2>3, <2>4, <2>5, <2>6, <2>7, <2>8
       DEF ReactorStep, Teardown
<1>4. CASE Finished
  BY <1>0, <1>4 DEF Ownership, SlotsOwned, OneOwner, HandsOpen, Finished,
                    vars, counters
<1> QED
  BY <1>0, <1>1, <1>2, <1>3, <1>4 DEF Next, Ownership

-----------------------------------------------------------------------------
(* Counters *)

(* The slots, all of them and those of one source, are finite sets.        *)
LEMMA SlotsFinite ==
  ASSUME TypeOK
  PROVE  /\ IsFiniteSet(slots) /\ Cardinality(slots) \in Nat
         /\ \A s : /\ IsFiniteSet(SlotsOf(s))
                   /\ Cardinality(SlotsOf(s)) \in Nat
                   /\ SlotsOf(s) = {} <=> Cardinality(SlotsOf(s)) = 0
<1>1. IsFiniteSet(slots)
  BY AdmissionAssumption, FS_Subset DEF TypeOK
<1>2. ASSUME NEW s
      PROVE  IsFiniteSet(SlotsOf(s))
  BY <1>1, FS_Subset DEF SlotsOf
<1> QED
  BY <1>1, <1>2, FS_CardinalityType, FS_EmptySet

(* A change that leaves the slots and their peers alone leaves the counts  *)
(* exact.                                                                  *)
LEMMA SameCounts ==
  ASSUME CountsExact, UNCHANGED <<active, source_connections, slots>>,
         \A f \in slots : peer'[f] = peer[f]
  PROVE  CountsExact'
<1>1. ASSUME NEW s
      PROVE  SlotsOf(s)' = SlotsOf(s)
  BY DEF SlotsOf
<1> QED
  BY <1>1 DEF CountsExact, SourceCount

(* Granting a slot to a descriptor without one keeps the counts exact.     *)
LEMMA GrantCounts ==
  ASSUME TypeOK, CountsExact, NEW f \in Fds, f \notin slots,
         peer[f] \in Peers, GrantSlot(f), peer' = peer
  PROVE  CountsExact'
<1>1. active' = Cardinality(slots')
  BY SlotsFinite, FS_AddElement DEF CountsExact, GrantSlot
<1>2. CASE peer[f] = Unix
  <2>1. ASSUME NEW s \in Sources
        PROVE  SlotsOf(s)' = SlotsOf(s)
    BY <1>2, AdmissionAssumption DEF SlotsOf, GrantSlot
  <2> QED
    BY <1>1, <1>2, <2>1 DEF CountsExact, GrantSlot, SourceCount
<1>3. CASE peer[f] \in Sources
  <2> DEFINE p == peer[f]
  <2>1. p # Unix /\ p \in Sources
    BY <1>3, AdmissionAssumption
  <2>2. SlotsOf(p)' = SlotsOf(p) \cup {f} /\ f \notin SlotsOf(p)
    BY DEF SlotsOf, GrantSlot
  <2>3. Cardinality(SlotsOf(p)') = Cardinality(SlotsOf(p)) + 1
    BY <2>2, SlotsFinite, FS_AddElement
  <2>4. ASSUME NEW s \in Sources, s # p
        PROVE  SlotsOf(s)' = SlotsOf(s)
    BY <2>4 DEF SlotsOf, GrantSlot
  <2>5. source_connections' = SetSourceCount(p, SourceCount(p) + 1)
    BY <2>1 DEF GrantSlot
  <2>6. SourceCount(p)' = SourceCount(p) + 1
    BY <2>5 DEF SetSourceCount, SourceCount
  <2>7. ASSUME NEW s \in Sources, s # p
        PROVE  SourceCount(s)' = SourceCount(s)
    BY <2>5, <2>7 DEF SetSourceCount, SourceCount
  <2>8. DOMAIN source_connections' = DOMAIN source_connections \cup {p}
    BY <2>5 DEF SetSourceCount
  <2>9. \A s \in Sources : SourceCount(s)' = Cardinality(SlotsOf(s)')
    BY <2>1, <2>3, <2>4, <2>6, <2>7 DEF CountsExact
  <2>10. DOMAIN source_connections' = {s \in Sources : SlotsOf(s)' # {}}
    BY <2>1, <2>2, <2>4, <2>8 DEF CountsExact
  <2> QED
    BY <1>1, <2>9, <2>10 DEF CountsExact
<1> QED
  BY <1>2, <1>3 DEF Peers

(* Releasing a live slot as its descriptor closes keeps the counts exact:  *)
(* the guards of release() never bite, and the entry of a source goes with *)
(* its last slot.                                                          *)
LEMMA ReleaseCounts ==
  ASSUME TypeOK, CountsExact, NEW f \in slots,
         peer[f] \in Peers, ReleaseSlot(f),
         peer' = [peer EXCEPT ![f] = None]
  PROVE  CountsExact'
<1>0. f \in Fds /\ slots' = slots \ {f}
  BY DEF TypeOK, ReleaseSlot
<1>1. active' = Cardinality(slots')
  <2>1. Cardinality(slots \ {f}) = Cardinality(slots) - 1
    BY SlotsFinite, FS_RemoveElement
  <2>2. Cardinality(slots) # 0
    BY SlotsFinite, FS_EmptySet
  <2> QED
    BY <1>0, <2>1, <2>2, SlotsFinite DEF CountsExact, ReleaseSlot
<1>2. ASSUME NEW s \in Sources, s # peer[f]
      PROVE  SlotsOf(s)' = SlotsOf(s)
  BY <1>0, <1>2, AdmissionAssumption DEF SlotsOf, TypeOK
<1>3. CASE peer[f] = Unix
  BY <1>1, <1>2, <1>3, AdmissionAssumption
     DEF CountsExact, ReleaseSlot, SourceCount
<1>4. CASE peer[f] \in Sources
  <2>0. PICK p : p = peer[f]
    OBVIOUS
  <2>1. p = peer[f] /\ p # Unix /\ p \in Sources /\ p # None
    BY <1>4, <2>0, AdmissionAssumption DEF Peers
  <2>2. SlotsOf(p)' = SlotsOf(p) \ {f} /\ f \in SlotsOf(p)
    BY <1>0, <2>1 DEF SlotsOf, TypeOK
  <2>3. Cardinality(SlotsOf(p)') = Cardinality(SlotsOf(p)) - 1
    BY <2>2, SlotsFinite, FS_RemoveElement
  <2>4. /\ p \in DOMAIN source_connections
        /\ source_connections[p] = Cardinality(SlotsOf(p))
        /\ source_connections[p] \in Nat
        /\ source_connections[p] # 0
    BY <2>1, <2>2, SlotsFinite DEF CountsExact, SourceCount
  <2>5. CASE source_connections[p] <= 1
    <3>1. source_connections' = EraseSource(p)
      BY <2>1, <2>4, <2>5 DEF ReleaseSlot
    <3>2. Cardinality(SlotsOf(p)') = 0
      BY <2>3, <2>4, <2>5
    <3>3. IsFiniteSet(SlotsOf(p)')
      BY <2>2, SlotsFinite, FS_Subset
    <3>4. SlotsOf(p)' = {}
      BY <3>2, <3>3, FS_EmptySet
    <3>5. /\ DOMAIN source_connections' = DOMAIN source_connections \ {p}
          /\ SourceCount(p)' = 0
          /\ \A s \in Sources \ {p} : SourceCount(s)' = SourceCount(s)
      BY <3>1 DEF EraseSource, SourceCount
    <3>6. \A s \in Sources : SourceCount(s)' = Cardinality(SlotsOf(s)')
      BY <1>2, <2>1, <3>2, <3>5 DEF CountsExact
    <3>7. DOMAIN source_connections' = {s \in Sources : SlotsOf(s)' # {}}
      BY <1>2, <2>1, <3>4, <3>5 DEF CountsExact
    <3> QED
      BY <1>1, <3>6, <3>7 DEF CountsExact
  <2>6. CASE ~(source_connections[p] <= 1)
    <3>1. source_connections' = SetSourceCount(p, source_connections[p] - 1)
      BY <2>1, <2>4, <2>6 DEF ReleaseSlot
    <3>2. Cardinality(SlotsOf(p)') # 0
      BY <2>3, <2>4, <2>6
    <3>3. SlotsOf(p)' # {}
      BY <3>2, FS_EmptySet
    <3>4. /\ DOMAIN source_connections' = DOMAIN source_connections \cup {p}
          /\ SourceCount(p)' = source_connections[p] - 1
          /\ \A s \in Sources \ {p} : SourceCount(s)' = SourceCount(s)
      BY <3>1 DEF SetSourceCount, SourceCount
    <3>5. \A s \in Sources : SourceCount(s)' = Cardinality(SlotsOf(s)')
      BY <1>2, <2>1, <2>3, <2>4, <3>4 DEF CountsExact
    <3>6. DOMAIN source_connections' = {s \in Sources : SlotsOf(s)' # {}}
      BY <1>2, <2>1, <3>3, <3>4 DEF CountsExact
    <3> QED
      BY <1>1, <3>5, <3>6 DEF CountsExact
  <2> QED
    BY <2>5, <2>6
<1> QED
  BY <1>3, <1>4 DEF Peers

(* Every step keeps the counts exact.                                      *)
LEMMA CountsStep ==
  ASSUME Ownership, CountsExact, [Next]_vars
  PROVE  CountsExact'
<1>0. TypeOK
  BY DEF Ownership
<1>1. CASE UNCHANGED vars \/ RequestStop \/ Finished
  BY <1>1, SameCounts DEF vars, counters, RequestStop, Finished
<1>2. ASSUME NEW r \in Reactors, ReactorStep(r) \/ Teardown(r)
      PROVE  CountsExact'
  <2>0. /\ pc[r] \in Holding => inHand[r] \in Fds /\ peer[inHand[r]] # None
        /\ pc[r] = "accepted" => inHand[r] \notin slots
        /\ pc[r] = "admitted" => inHand[r] \in slots
        /\ \A f \in connections[r] : f \in slots
        /\ \A f \in slots : f \in Fds /\ peer[f] # None
    BY <1>0, OwnFacts DEF TypeOK
  <2>1. ASSUME NEW f \in Fds, NEW p \in Peers, Accept(r, f, p)
        PROVE  CountsExact'
    <3>1. \A g \in slots : peer'[g] = peer[g]
      BY <1>0, <2>0, <2>1 DEF TypeOK, Accept
    <3> QED
      BY <2>1, <3>1, SameCounts DEF Accept, counters
  <2>2. CASE \/ RejectCidr(r) \/ RejectLimit(r)
             \/ FailInAdmit(r) /\ pc[r] # "admitted"
    <3>1. /\ pc[r] = "accepted" /\ DropInHand(r)
          /\ UNCHANGED <<active, source_connections, slots>>
      BY <2>2 DEF RejectCidr, RejectLimit, FailInAdmit, counters
    <3>2. \A g \in slots : peer'[g] = peer[g]
      BY <1>0, <2>0, <3>1 DEF TypeOK, DropInHand
    <3> QED
      BY <3>1, <3>2, SameCounts
  <2>3. CASE AdmitSlot(r)
    <3>1. /\ pc[r] = "accepted" /\ GrantSlot(inHand[r]) /\ peer' = peer
          /\ inHand[r] \in Fds /\ peer[inHand[r]] # None
      BY <2>0, <2>3 DEF AdmitSlot, Holding
    <3>2. peer[inHand[r]] \in Peers
      BY <1>0, <3>1 DEF TypeOK
    <3> QED
      BY <1>0, <2>0, <3>1, <3>2, GrantCounts
  <2>4. CASE DropAdmitted(r) \/ (FailInAdmit(r) /\ pc[r] = "admitted")
    <3>1. /\ inHand[r] \in slots /\ ReleaseSlot(inHand[r])
          /\ peer' = [peer EXCEPT ![inHand[r]] = None]
      BY <2>0, <2>4 DEF DropAdmitted, FailInAdmit, DropInHand
    <3>2. peer[inHand[r]] \in Peers
      BY <1>0, <2>0, <3>1 DEF TypeOK
    <3> QED
      BY <1>0, <3>1, <3>2, ReleaseCounts
  <2>5. CASE \/ InsertConnection(r) \/ RaiseGauge(r) \/ LowerGauge(r)
             \/ ExitLoop(r) \/ LowerGaugeByTable(r)
    <3>1. UNCHANGED <<active, source_connections, slots, peer>>
      BY <2>5 DEF InsertConnection, RaiseGauge, LowerGauge, ExitLoop,
                  LowerGaugeByTable, counters
    <3> QED
      BY <3>1, SameCounts
  <2>6. ASSUME NEW f \in Fds, EraseConnection(r, f) \/ ClearOne(r, f)
        PROVE  CountsExact'
    <3>1. /\ f \in slots /\ ReleaseSlot(f)
          /\ peer' = [peer EXCEPT ![f] = None]
      BY <2>0, <2>6 DEF EraseConnection, ClearOne
    <3>2. peer[f] \in Peers
      BY <1>0, <2>0, <3>1 DEF TypeOK
    <3> QED
      BY <1>0, <3>1, <3>2, ReleaseCounts
  <2> QED
    BY <1>2, <2>1, <2>2, <2>3, <2>4, <2>5, <2>6 DEF ReactorStep, Teardown
<1> QED
  BY <1>1, <1>2 DEF Next

(* Only AdmitSlot raises a counter, below its limit and under the mutex.   *)
LEMMA LimitsStep ==
  ASSUME Ownership, LimitsHold, [Next]_vars
  PROVE  LimitsHold'
<1> USE AdmissionAssumption
<1>0. TypeOK
  BY DEF Ownership
<1>1. ASSUME UNCHANGED counters
      PROVE  LimitsHold'
  BY <1>1 DEF LimitsHold, SourceCount, counters
<1>2. ASSUME NEW f \in Fds, ReleaseSlot(f)
      PROVE  LimitsHold'
  <2>1. active' <= MaxConnections
    BY <1>0, <1>2 DEF TypeOK, LimitsHold, ReleaseSlot
  <2>2. ASSUME NEW s \in Sources
        PROVE  SourceCount(s)' <= MaxPerSource
    <3>0. SourceCount(s) <= MaxPerSource /\ SourceCount(s) \in Nat
      BY <1>0 DEF LimitsHold, TypeOK, SourceCount
    <3>1. CASE peer[f] = Unix \/ peer[f] \notin DOMAIN source_connections
      BY <1>2, <3>0, <3>1 DEF ReleaseSlot, SourceCount
    <3>2. CASE /\ peer[f] # Unix /\ peer[f] \in DOMAIN source_connections
               /\ source_connections[peer[f]] <= 1
      BY <1>2, <3>0, <3>2 DEF ReleaseSlot, SourceCount, EraseSource
    <3>3. CASE /\ peer[f] # Unix /\ peer[f] \in DOMAIN source_connections
               /\ ~(source_connections[peer[f]] <= 1)
      BY <1>0, <1>2, <3>0, <3>3
         DEF ReleaseSlot, SourceCount, SetSourceCount, TypeOK
    <3> QED
      BY <3>1, <3>2, <3>3
  <2> QED
    BY <2>1, <2>2 DEF LimitsHold
<1>3. ASSUME NEW r \in Reactors, AdmitSlot(r)
      PROVE  LimitsHold'
  <2>0. PICK f : f = inHand[r]
    OBVIOUS
  <2>1. /\ GrantSlot(f) /\ f \in Fds
        /\ active < MaxConnections /\ active \in Nat
        /\ peer[f] # Unix => SourceCount(peer[f]) < MaxPerSource
        /\ SourceCount(peer[f]) \in Nat
    BY <1>0, <1>3, <2>0, OwnFacts
       DEF AdmitSlot, GlobalLimitReached, SourceLimitReached, TypeOK,
           SourceCount, Holding
  <2>2. active' <= MaxConnections
    BY <2>1 DEF GrantSlot
  <2>3. ASSUME NEW s \in Sources
        PROVE  SourceCount(s)' <= MaxPerSource
    <3>0. SourceCount(s) <= MaxPerSource
      BY DEF LimitsHold
    <3>1. CASE peer[f] = Unix
      BY <2>1, <3>0, <3>1 DEF GrantSlot, SourceCount
    <3>2. CASE peer[f] # Unix
      BY <2>1, <3>0, <3>2 DEF GrantSlot, SourceCount, SetSourceCount
    <3> QED
      BY <3>1, <3>2
  <2> QED
    BY <2>2, <2>3 DEF LimitsHold
<1>4. ASSUME NEW r \in Reactors, ReactorStep(r) \/ Teardown(r)
      PROVE  LimitsHold'
  <2>1. ASSUME ~AdmitSlot(r)
        PROVE  UNCHANGED counters \/ \E f \in Fds : ReleaseSlot(f)
    <3>1. pc[r] \in Holding => inHand[r] \in Fds
      BY OwnFacts
    <3> QED
      BY <1>4, <2>1, <3>1
         DEF ReactorStep, Teardown, Accept, RejectCidr, RejectLimit,
             DropAdmitted, InsertConnection, RaiseGauge, EraseConnection,
             LowerGauge, FailInAdmit, ExitLoop, LowerGaugeByTable, ClearOne,
             counters, Holding
  <2> QED
    BY <1>1, <1>2, <1>3, <2>1
<1> QED
  BY <1>1, <1>4 DEF Next, RequestStop, Finished, vars, counters

-----------------------------------------------------------------------------
(* The gauge *)

Tabled == UNION {connections[r] : r \in {q \in Reactors : pc[q] # "destroyed"}}
At(stage) == {r \in Reactors : pc[r] = stage}

(* The gauge lags behind the tables by one for every reactor that stands   *)
(* between a table and the gauge.                                          *)
GaugeLag ==
  gauge = Cardinality(Tabled) + Cardinality(At("erased"))
                              - Cardinality(At("inserted"))

(* The sets GaugeLag counts are finite.                                    *)
LEMMA GaugeFinite ==
  ASSUME TypeOK
  PROVE  /\ IsFiniteSet(Tabled) /\ Cardinality(Tabled) \in Nat
         /\ \A t : IsFiniteSet(At(t)) /\ Cardinality(At(t)) \in Nat
<1>1. Tabled \in SUBSET Fds
  BY DEF TypeOK, Tabled
<1>2. ASSUME NEW t
      PROVE  At(t) \in SUBSET Reactors
  BY DEF At
<1> QED
  BY <1>1, <1>2, AdmissionAssumption, FS_Subset, FS_CardinalityType

(* Every step keeps the lag.                                               *)
LEMMA GaugeStep ==
  ASSUME Ownership, GaugeLag, [Next]_vars
  PROVE  GaugeLag'
<1> USE AdmissionAssumption
<1>0. TypeOK /\ TypeOK' /\ OneOwner
  BY TypeStep DEF Ownership
<1>1. ASSUME UNCHANGED <<gauge, connections>>, NEW r \in Reactors,
             NEW t \in Stages, Goto(r, t),
             {t, pc[r]} \cap {"erased", "inserted", "destroyed"} = {}
      PROVE  GaugeLag'
  <2>1. Tabled' = Tabled
    BY <1>0, <1>1 DEF TypeOK, Tabled, Goto
  <2>2. At("erased")' = At("erased") /\ At("inserted")' = At("inserted")
    BY <1>0, <1>1 DEF TypeOK, At, Goto
  <2> QED
    BY <1>1, <2>1, <2>2 DEF GaugeLag
<1>2. CASE UNCHANGED vars \/ RequestStop \/ Finished
  BY <1>2 DEF GaugeLag, Tabled, At, vars, RequestStop, Finished
<1>3. ASSUME NEW r \in Reactors, ReactorStep(r) \/ Teardown(r)
      PROVE  GaugeLag'
  <2>1. CASE \/ \E f \in Fds, p \in Peers : Accept(r, f, p)
             \/ RejectCidr(r) \/ RejectLimit(r) \/ AdmitSlot(r)
             \/ DropAdmitted(r) \/ FailInAdmit(r) \/ ExitLoop(r)
    <3>1. /\ UNCHANGED <<gauge, connections>>
          /\ pc[r] \in {"poll", "accepted", "admitted"}
          /\ \E t \in {"poll", "accepted", "admitted", "exited"} : Goto(r, t)
      BY <2>1 DEF Accept, RejectCidr, RejectLimit, AdmitSlot, DropAdmitted,
                  FailInAdmit, ExitLoop
    <3> QED
      BY <1>1, <3>1 DEF Stages
  <2>2. CASE InsertConnection(r)
    <3>0. PICK f : f = inHand[r]
      OBVIOUS
    <3>1. f \notin Tabled
      BY <1>0, <3>0 DEF Tabled, OneOwner
    <3>2. Tabled' = Tabled \cup {f}
      BY <1>0, <2>2, <3>0 DEF TypeOK, Tabled, InsertConnection, Goto
    <3>3. At("inserted")' = At("inserted") \cup {r} /\ r \notin At("inserted")
      BY <1>0, <2>2 DEF TypeOK, At, InsertConnection, Goto
    <3>4. At("erased")' = At("erased")
      BY <1>0, <2>2 DEF TypeOK, At, InsertConnection, Goto
    <3>5. /\ Cardinality(Tabled') = Cardinality(Tabled) + 1
          /\ Cardinality(At("inserted")') = Cardinality(At("inserted")) + 1
      BY <1>0, <3>1, <3>2, <3>3, GaugeFinite, FS_AddElement
    <3> QED
      BY <1>0, <2>2, <3>4, <3>5, GaugeFinite DEF GaugeLag, InsertConnection
  <2>3. CASE RaiseGauge(r)
    <3>1. Tabled' = Tabled /\ At("erased")' = At("erased")
      BY <1>0, <2>3 DEF TypeOK, Tabled, At, RaiseGauge, Goto
    <3>2. At("inserted")' = At("inserted") \ {r} /\ r \in At("inserted")
      BY <1>0, <2>3 DEF TypeOK, At, RaiseGauge, Goto
    <3>3. Cardinality(At("inserted")') = Cardinality(At("inserted")) - 1
      BY <1>0, <3>2, GaugeFinite, FS_RemoveElement
    <3> QED
      BY <1>0, <2>3, <3>1, <3>3, GaugeFinite DEF GaugeLag, RaiseGauge
  <2>4. ASSUME NEW f \in Fds, EraseConnection(r, f)
        PROVE  GaugeLag'
    <3>1. f \in Tabled
      BY <2>4 DEF Tabled, EraseConnection
    <3>2. Tabled' = Tabled \ {f}
      BY <1>0, <2>4 DEF TypeOK, Tabled, OneOwner, EraseConnection, Goto
    <3>3. At("erased")' = At("erased") \cup {r} /\ r \notin At("erased")
      BY <1>0, <2>4 DEF TypeOK, At, EraseConnection, Goto
    <3>4. At("inserted")' = At("inserted")
      BY <1>0, <2>4 DEF TypeOK, At, EraseConnection, Goto
    <3>5. /\ Cardinality(Tabled') = Cardinality(Tabled) - 1
          /\ Cardinality(At("erased")') = Cardinality(At("erased")) + 1
      BY <1>0, <3>1, <3>2, <3>3, GaugeFinite, FS_AddElement, FS_RemoveElement, ZenonT(40)
    <3> QED
      BY <1>0, <2>4, <3>4, <3>5, GaugeFinite DEF GaugeLag, EraseConnection
  <2>5. CASE LowerGauge(r)
    <3>1. Tabled' = Tabled /\ At("inserted")' = At("inserted")
      BY <1>0, <2>5 DEF TypeOK, Tabled, At, LowerGauge, Goto
    <3>2. At("erased")' = At("erased") \ {r} /\ r \in At("erased")
      BY <1>0, <2>5 DEF TypeOK, At, LowerGauge, Goto
    <3>3. Cardinality(At("erased")') = Cardinality(At("erased")) - 1
      BY <1>0, <3>2, GaugeFinite, FS_RemoveElement
    <3> QED
      BY <1>0, <2>5, <3>1, <3>3, GaugeFinite DEF GaugeLag, LowerGauge
  <2>6. CASE LowerGaugeByTable(r)
    <3>0. PICK table : table = connections[r]
      OBVIOUS
    <3>1. Tabled' = Tabled \ table
      BY <1>0, <2>6, <3>0 DEF TypeOK, Tabled, OneOwner, LowerGaugeByTable, Goto
    <3>2. Tabled \cap table = table
      BY <2>6, <3>0 DEF Tabled, LowerGaugeByTable
    <3>3. Cardinality(Tabled') = Cardinality(Tabled) - Cardinality(table)
      BY <1>0, <3>1, <3>2, GaugeFinite, FS_Difference
    <3>4. At("erased")' = At("erased") /\ At("inserted")' = At("inserted")
      BY <1>0, <2>6 DEF TypeOK, At, LowerGaugeByTable, Goto
    <3>5. Cardinality(table) \in Nat
      BY <1>0, <3>0, FS_Subset, FS_CardinalityType DEF TypeOK
    <3> QED
      BY <1>0, <2>6, <3>0, <3>3, <3>4, <3>5, GaugeFinite
         DEF GaugeLag, LowerGaugeByTable
  <2>7. ASSUME NEW f \in Fds, ClearOne(r, f)
        PROVE  GaugeLag'
    <3>1. Tabled' = Tabled
      BY <1>0, <2>7 DEF TypeOK, Tabled, ClearOne
    <3>2. At("erased")' = At("erased") /\ At("inserted")' = At("inserted")
      BY <2>7 DEF At, ClearOne
    <3> QED
      BY <2>7, <3>1, <3>2 DEF GaugeLag, ClearOne
  <2> QED
    BY <1>3, <2>1, <2>2, <2>3, <2>4, <2>5, <2>6, <2>7 DEF ReactorStep, Teardown
<1> QED
  BY <1>2, <1>3 DEF Next

-----------------------------------------------------------------------------
(* The refinement *)

(* A step that leaves the slots and their peers alone leaves the pool      *)
(* alone.                                                                  *)
LEMMA SamePool ==
  ASSUME slots' = slots, \A f \in slots : peer'[f] = peer[f]
  PROVE  Held' = Held
BY DEF Held

(* A granted slot is a grant of the pool: the counters that were tested    *)
(* are the number of holders.                                              *)
LEMMA PoolGrants ==
  ASSUME Ownership, CountsExact, NEW r \in Reactors, AdmitSlot(r)
  PROVE  Pool!Next
<1> USE AdmissionAssumption
<1> DEFINE f == inHand[r]
<1>1. /\ pc[r] = "accepted" /\ f \in Fds /\ peer[f] # None /\ f \notin slots
  BY OwnFacts DEF AdmitSlot, Holding
<1>2. peer[f] \in Sources \cup {Unix}
  BY <1>1 DEF Ownership, TypeOK, Peers
<1>3. DOMAIN Held = slots
  BY DEF Held
<1>4. Cardinality(DOMAIN Held) < MaxConnections
  BY <1>3 DEF AdmitSlot, GlobalLimitReached, CountsExact, Ownership, TypeOK
<1>5. peer[f] = Unix \/ Cardinality(Pool!HeldBy(peer[f])) < MaxPerSource
  <2> SUFFICES ASSUME peer[f] # Unix
               PROVE  Cardinality(Pool!HeldBy(peer[f])) < MaxPerSource
    OBVIOUS
  <2>1. Pool!HeldBy(peer[f]) = SlotsOf(peer[f])
    BY DEF Pool!HeldBy, Held, SlotsOf
  <2>2. SourceCount(peer[f]) = Cardinality(SlotsOf(peer[f]))
    BY <1>2 DEF CountsExact
  <2>3. Cardinality(SlotsOf(peer[f])) \in Nat
    BY SlotsFinite DEF Ownership
  <2>4. ~(SourceCount(peer[f]) >= MaxPerSource)
    BY DEF AdmitSlot, SourceLimitReached
  <2> QED
    BY <2>1, <2>2, <2>3, <2>4
<1>6. Held' = [y \in DOMAIN Held \cup {f} |->
                 IF y = f THEN peer[f] ELSE Held[y]]
  <2>1. slots' = slots \cup {f} /\ peer' = peer
    BY DEF AdmitSlot, GrantSlot
  <2> QED
    BY <1>1, <1>3, <2>1 DEF Held
<1>7. \A S : Pool!Cardinality(S) = Cardinality(S)
  BY Zenon DEF Pool!Cardinality, Cardinality
<1>8. Pool!Grant(f, peer[f])
  BY <1>1, <1>3, <1>4, <1>5, <1>6, <1>7 DEF Pool!Grant
<1> QED
  BY <1>1, <1>2, <1>8 DEF Pool!Next

(* A released slot is returned to the pool, and no other one.              *)
LEMMA PoolReturns ==
  ASSUME Ownership, NEW f \in slots, ReleaseSlot(f),
         peer' = [peer EXCEPT ![f] = None]
  PROVE  Pool!Next
<1>1. f \in Fds /\ DOMAIN Held = slots
  BY DEF Ownership, TypeOK, Held
<1>2. slots' = slots \ {f} /\ \A g \in slots \ {f} : peer'[g] = peer[g]
  BY DEF Ownership, TypeOK, ReleaseSlot
<1>3. Held' = [y \in DOMAIN Held \ {f} |-> Held[y]]
  BY <1>1, <1>2 DEF Held
<1>4. Pool!Return(f)
  BY <1>1, <1>3 DEF Pool!Return
<1> QED
  BY <1>1, <1>4 DEF Pool!Next

(* Every step of a reactor is one grant, one return or no step of the      *)
(* pool.                                                                   *)
LEMMA PoolStep ==
  ASSUME Ownership, CountsExact, [Next]_vars
  PROVE  [Pool!Next]_Held
<1>0. TypeOK
  BY DEF Ownership
<1>1. CASE UNCHANGED vars \/ RequestStop \/ Finished
  BY <1>1, SamePool DEF vars, counters, RequestStop, Finished
<1>2. ASSUME NEW r \in Reactors, ReactorStep(r) \/ Teardown(r)
      PROVE  [Pool!Next]_Held
  <2>0. /\ pc[r] = "accepted" => inHand[r] \notin slots
        /\ pc[r] = "admitted" => inHand[r] \in slots
        /\ \A f \in connections[r] : f \in slots
        /\ \A f \in slots : f \in Fds /\ peer[f] # None
    BY <1>0, OwnFacts DEF TypeOK
  <2>1. ASSUME NEW f \in Fds, NEW p \in Peers, Accept(r, f, p)
        PROVE  Held' = Held
    <3>1. slots' = slots /\ \A g \in slots : peer'[g] = peer[g]
      BY <1>0, <2>0, <2>1 DEF TypeOK, Accept
    <3> QED
      BY <3>1, SamePool
  <2>2. CASE \/ RejectCidr(r) \/ RejectLimit(r)
             \/ FailInAdmit(r) /\ pc[r] # "admitted"
    <3>1. pc[r] = "accepted" /\ DropInHand(r) /\ slots' = slots
      BY <2>2 DEF RejectCidr, RejectLimit, FailInAdmit
    <3>2. \A g \in slots : peer'[g] = peer[g]
      BY <1>0, <2>0, <3>1 DEF TypeOK, DropInHand
    <3> QED
      BY <3>1, <3>2, SamePool
  <2>3. CASE AdmitSlot(r)
    BY <2>3, PoolGrants
  <2>4. CASE DropAdmitted(r) \/ (FailInAdmit(r) /\ pc[r] = "admitted")
    <3>1. /\ inHand[r] \in slots /\ ReleaseSlot(inHand[r])
          /\ peer' = [peer EXCEPT ![inHand[r]] = None]
      BY <2>0, <2>4 DEF DropAdmitted, FailInAdmit, DropInHand
    <3> QED
      BY <3>1, PoolReturns
  <2>5. CASE \/ InsertConnection(r) \/ RaiseGauge(r) \/ LowerGauge(r)
             \/ ExitLoop(r) \/ LowerGaugeByTable(r)
    <3>1. UNCHANGED <<slots, peer>>
      BY <2>5 DEF InsertConnection, RaiseGauge, LowerGauge, ExitLoop,
                  LowerGaugeByTable
    <3> QED
      BY <3>1, SamePool
  <2>6. ASSUME NEW f \in Fds, EraseConnection(r, f) \/ ClearOne(r, f)
        PROVE  Pool!Next
    <3>1. /\ f \in slots /\ ReleaseSlot(f)
          /\ peer' = [peer EXCEPT ![f] = None]
      BY <2>0, <2>6 DEF EraseConnection, ClearOne
    <3> QED
      BY <3>1, PoolReturns
  <2> QED
    BY <1>2, <2>1, <2>2, <2>3, <2>4, <2>5, <2>6 DEF ReactorStep, Teardown
<1> QED
  BY <1>1, <1>2 DEF Next

-----------------------------------------------------------------------------
(* The allow list *)

(* The weights of the bits of a byte. *)
LEMMA WeightsAre ==
  /\ Weights[1] = 128 /\ Weights[2] = 64 /\ Weights[3] = 32 /\ Weights[4] = 16
  /\ Weights[5] = 8 /\ Weights[6] = 4 /\ Weights[7] = 2 /\ Weights[8] = 1
BY DEF Weights

(* The bits of a byte, each above its weight. *)
LEMMA BitsWeighed ==
  ASSUME NEW x \in 0 .. 255
  PROVE  /\ BitOf(x, 1) = (x \div 128) % 2 /\ BitOf(x, 2) = (x \div 64) % 2
         /\ BitOf(x, 3) = (x \div 32) % 2 /\ BitOf(x, 4) = (x \div 16) % 2
         /\ BitOf(x, 5) = (x \div 8) % 2 /\ BitOf(x, 6) = (x \div 4) % 2
         /\ BitOf(x, 7) = (x \div 2) % 2 /\ BitOf(x, 8) = x % 2
<1>1. BitOf(x, 1) = (x \div 128) % 2
  BY WeightsAre DEF BitOf
<1>2. BitOf(x, 2) = (x \div 64) % 2
  BY WeightsAre DEF BitOf
<1>3. BitOf(x, 3) = (x \div 32) % 2
  BY WeightsAre DEF BitOf
<1>4. BitOf(x, 4) = (x \div 16) % 2
  BY WeightsAre DEF BitOf
<1>5. BitOf(x, 5) = (x \div 8) % 2
  BY WeightsAre DEF BitOf
<1>6. BitOf(x, 6) = (x \div 4) % 2
  BY WeightsAre DEF BitOf
<1>7. BitOf(x, 7) = (x \div 2) % 2
  BY WeightsAre DEF BitOf
<1>8. BitOf(x, 8) = x % 2
  BY WeightsAre DEF BitOf
<1> QED
  BY <1>1, <1>2, <1>3, <1>4, <1>5, <1>6, <1>7, <1>8

(* A masked byte is the bits above the weight of the mask. *)
LEMMA Masked ==
  ASSUME NEW a \in 0 .. 255, NEW b \in 0 .. 255, NEW w \in Nat \ {0},
         w \in {128, 64, 32, 16, 8, 4, 2}
  PROVE  /\ a - (a % w) = b - (b % w) <=> a \div w = b \div w
         /\ a - (a % w) \in 0 .. 255
         /\ (a - (a % w)) - ((a - (a % w)) % w) = a - (a % w)
<1>1. CASE w = 128 BY <1>1
<1>2. CASE w = 64 BY <1>2
<1>3. CASE w = 32 BY <1>3
<1>4. CASE w = 16 BY <1>4
<1>5. CASE w = 8 BY <1>5
<1>6. CASE w = 4 BY <1>6
<1>7. CASE w = 2 BY <1>7
<1> QED
  BY <1>1, <1>2, <1>3, <1>4, <1>5, <1>6, <1>7

(* The first bits of two bytes agree; so do the first bits of two addresses, *)
(* counted byte by byte.                                                     *)
SameFirst(x, y, r) == \A j \in 1 .. r : BitOf(x, j) = BitOf(y, j)
SameByBytes(a, b, width, n) ==
  \A i \in 1 .. width, j \in 1 .. 8 :
    8 * (i - 1) + j <= n => BitOf(a[i], j) = BitOf(b[i], j)

(* A prefix compared as CidrAllowList compares it: whole bytes, then the     *)
(* masked byte in which it ends.                                             *)
SameMasked(a, b, n) ==
  /\ \A i \in 1 .. (n \div 8) : a[i] = b[i]
  /\ \/ n % 8 = 0
     \/ Mask(a[n \div 8 + 1], n % 8) = Mask(b[n \div 8 + 1], n % 8)

(* Masking a byte twice is masking it once. *)
LEMMA MaskTwice ==
  ASSUME NEW a \in 0 .. 255, NEW r \in 1 .. 7
  PROVE  Mask(a, r) \in 0 .. 255 /\ Mask(Mask(a, r), r) = Mask(a, r)
<1> DEFINE w == Weights[r]
<1>1. w \in {128, 64, 32, 16, 8, 4, 2} /\ w \in Nat \ {0}
  BY WeightsAre
<1>2. \A x : Mask(x, r) = x - (x % w)
  BY Zenon DEF Mask
<1> HIDE DEF w
<1>3. /\ a - (a % w) \in 0 .. 255
      /\ (a - (a % w)) - ((a - (a % w)) % w) = a - (a % w)
  BY <1>1, Masked, ZenonT(30)
<1> QED
  BY <1>2, <1>3, Zenon

(* A function on the first positions is a sequence. *)
LEMMA FixedSeq ==
  ASSUME NEW S, NEW k \in Nat, NEW f \in [1 .. k -> S]
  PROVE  f \in Seq(S) /\ Len(f) = k
OBVIOUS

(* Two bytes agree in their first bits exactly if the masks agree, and are *)
(* equal exactly if all bits are.                                          *)
LEMMA BitsOfByte ==
  ASSUME NEW a \in 0 .. 255, NEW b \in 0 .. 255
  PROVE  /\ a = b <=> SameFirst(a, b, 8)
         /\ \A r \in 1 .. 7 : Mask(a, r) = Mask(b, r) <=> SameFirst(a, b, r)
<1> DEFINE Same(j) == BitOf(a, j) = BitOf(b, j)
           Over(x, w) == x \div w
<1>1. /\ Over(a, 128) = Over(b, 128) <=> Same(1)
      /\ Over(a, 64) = Over(b, 64) <=> Over(a, 128) = Over(b, 128) /\ Same(2)
      /\ Over(a, 32) = Over(b, 32) <=> Over(a, 64) = Over(b, 64) /\ Same(3)
      /\ Over(a, 16) = Over(b, 16) <=> Over(a, 32) = Over(b, 32) /\ Same(4)
      /\ Over(a, 8) = Over(b, 8) <=> Over(a, 16) = Over(b, 16) /\ Same(5)
      /\ Over(a, 4) = Over(b, 4) <=> Over(a, 8) = Over(b, 8) /\ Same(6)
      /\ Over(a, 2) = Over(b, 2) <=> Over(a, 4) = Over(b, 4) /\ Same(7)
      /\ a = b <=> Over(a, 2) = Over(b, 2) /\ Same(8)
  <2>1. Over(a, 128) = Over(b, 128) <=> Same(1)
    <3>1. BitOf(a, 1) = (a \div 128) % 2 /\ BitOf(b, 1) = (b \div 128) % 2
      BY BitsWeighed
    <3> QED
      BY <3>1, SMTT(40)
  <2>2. Over(a, 64) = Over(b, 64) <=> Over(a, 128) = Over(b, 128) /\ Same(2)
    <3>1. BitOf(a, 2) = (a \div 64) % 2 /\ BitOf(b, 2) = (b \div 64) % 2
      BY BitsWeighed
    <3> QED
      BY <3>1, SMTT(40)
  <2>3. Over(a, 32) = Over(b, 32) <=> Over(a, 64) = Over(b, 64) /\ Same(3)
    <3>1. BitOf(a, 3) = (a \div 32) % 2 /\ BitOf(b, 3) = (b \div 32) % 2
      BY BitsWeighed
    <3> QED
      BY <3>1, SMTT(40)
  <2>4. Over(a, 16) = Over(b, 16) <=> Over(a, 32) = Over(b, 32) /\ Same(4)
    <3>1. BitOf(a, 4) = (a \div 16) % 2 /\ BitOf(b, 4) = (b \div 16) % 2
      BY BitsWeighed
    <3> QED
      BY <3>1, SMTT(40)
  <2>5. Over(a, 8) = Over(b, 8) <=> Over(a, 16) = Over(b, 16) /\ Same(5)
    <3>1. BitOf(a, 5) = (a \div 8) % 2 /\ BitOf(b, 5) = (b \div 8) % 2
      BY BitsWeighed
    <3> QED
      BY <3>1, SMTT(40)
  <2>6. Over(a, 4) = Over(b, 4) <=> Over(a, 8) = Over(b, 8) /\ Same(6)
    <3>1. BitOf(a, 6) = (a \div 4) % 2 /\ BitOf(b, 6) = (b \div 4) % 2
      BY BitsWeighed
    <3> QED
      BY <3>1, SMTT(40)
  <2>7. Over(a, 2) = Over(b, 2) <=> Over(a, 4) = Over(b, 4) /\ Same(7)
    <3>1. BitOf(a, 7) = (a \div 2) % 2 /\ BitOf(b, 7) = (b \div 2) % 2
      BY BitsWeighed
    <3> QED
      BY <3>1, SMTT(40)
  <2>8. a = b <=> Over(a, 2) = Over(b, 2) /\ Same(8)
    <3>1. BitOf(a, 8) = a % 2 /\ BitOf(b, 8) = b % 2
      BY BitsWeighed
    <3> QED
      BY <3>1, SMTT(40)
  <2> QED
    BY <2>1, <2>2, <2>3, <2>4, <2>5, <2>6, <2>7, <2>8, Zenon
<1>2. ASSUME NEW r \in 1 .. 7
      PROVE  /\ Weights[r] \in {128, 64, 32, 16, 8, 4, 2}
             /\ Weights[r] \in Nat \ {0}
  BY WeightsAre
<1>3. ASSUME NEW r \in 1 .. 7
      PROVE  Mask(a, r) = Mask(b, r) <=> Over(a, Weights[r]) = Over(b, Weights[r])
  <2> DEFINE w == Weights[r]
  <2>1. w \in {128, 64, 32, 16, 8, 4, 2} /\ w \in Nat \ {0}
    BY <1>2
  <2>2. Mask(a, r) = a - (a % w) /\ Mask(b, r) = b - (b % w)
    BY Zenon DEF Mask
  <2> HIDE DEF w
  <2>3. a - (a % w) = b - (b % w) <=> a \div w = b \div w
    BY <2>1, Masked, ZenonT(30)
  <2> QED
    BY <2>2, <2>3, Zenon DEF w
<1> HIDE DEF Over
<1> HIDE DEF Same
<1>4. ASSUME NEW r \in 1 .. 7
      PROVE  Over(a, Weights[r]) = Over(b, Weights[r]) <=> \A j \in 1 .. r : Same(j)
  <2>1. CASE r = 1 BY <1>1, <2>1, WeightsAre
  <2>2. CASE r = 2 BY <1>1, <2>2, WeightsAre
  <2>3. CASE r = 3 BY <1>1, <2>3, WeightsAre
  <2>4. CASE r = 4 BY <1>1, <2>4, WeightsAre
  <2>5. CASE r = 5 BY <1>1, <2>5, WeightsAre
  <2>6. CASE r = 6 BY <1>1, <2>6, WeightsAre
  <2>7. CASE r = 7 BY <1>1, <2>7, WeightsAre
  <2> QED
    BY <2>1, <2>2, <2>3, <2>4, <2>5, <2>6, <2>7
<1>5. a = b <=> \A j \in 1 .. 8 : Same(j)
  BY <1>1
<1>6. \A r \in 1 .. 8 : SameFirst(a, b, r) <=> \A j \in 1 .. r : Same(j)
  BY DEF Same, SameFirst
<1> QED
  BY <1>3, <1>4, <1>5, <1>6

(* Bits counted through an address are bits counted in its bytes. *)
LEMMA BitsInBytes ==
  ASSUME NEW width \in Nat, NEW a, NEW b, NEW n \in 0 .. (8 * width)
  PROVE  SameBits(a, b, n) <=> SameByBytes(a, b, width, n)
<1>1. ASSUME SameBits(a, b, n), NEW i \in 1 .. width, NEW j \in 1 .. 8,
             8 * (i - 1) + j <= n
      PROVE  BitOf(a[i], j) = BitOf(b[i], j)
  <2> DEFINE k == 8 * (i - 1) + j
  <2>1. k \in 1 .. n /\ (k - 1) \div 8 + 1 = i /\ ((k - 1) % 8) + 1 = j
    BY <1>1
  <2>2. Bit(a, k) = Bit(b, k)
    BY <1>1, <2>1 DEF SameBits
  <2> HIDE DEF k
  <2> QED
    BY <2>1, <2>2 DEF Bit
<1>2. ASSUME \A i \in 1 .. width, j \in 1 .. 8 :
               8 * (i - 1) + j <= n => BitOf(a[i], j) = BitOf(b[i], j),
             NEW k \in 1 .. n
      PROVE  Bit(a, k) = Bit(b, k)
  <2> DEFINE i == (k - 1) \div 8 + 1
             j == ((k - 1) % 8) + 1
  <2>1. i \in 1 .. width /\ j \in 1 .. 8 /\ 8 * (i - 1) + j <= n
    OBVIOUS
  <2>2. Bit(a, k) = BitOf(a[i], j) /\ Bit(b, k) = BitOf(b[i], j)
    BY DEF Bit
  <2> HIDE DEF i, j
  <2> QED
    BY <1>2, <2>1, <2>2
<1> QED
  BY <1>1, <1>2 DEF SameBits, SameByBytes

(* The first bits of two addresses agree exactly if the whole bytes do and *)
(* the bits of the byte in which the prefix ends.                          *)
LEMMA BytesAndRest ==
  ASSUME NEW width \in Nat, NEW n \in 0 .. (8 * width),
         NEW a \in [1 .. width -> 0 .. 255], NEW b \in [1 .. width -> 0 .. 255]
  PROVE  /\ n \div 8 \in 0 .. width /\ n % 8 \in 0 .. 7
         /\ n % 8 # 0 => n \div 8 + 1 \in 1 .. width
         /\ SameBits(a, b, n) <=> SameMasked(a, b, n)
<1> DEFINE whole == n \div 8
           rest == n % 8
           Same(i, j) == BitOf(a[i], j) = BitOf(b[i], j)
<1>1. /\ n = 8 * whole + rest /\ whole \in 0 .. width /\ rest \in 0 .. 7
      /\ rest # 0 => whole + 1 \in 1 .. width
  <2>1. n = 8 * whole + rest /\ whole \in Int /\ rest \in 0 .. 7
    <3>1. n \in Int
      OBVIOUS
    <3> QED
      BY <3>1
  <2>2. n \in Nat /\ n <= 8 * width
    OBVIOUS
  <2> HIDE DEF whole, rest
  <2> QED
    BY <2>1, <2>2
<1> HIDE DEF whole, rest
<1>2. SameBits(a, b, n) <=> SameByBytes(a, b, width, n)
  BY BitsInBytes
<1>3. ASSUME NEW i \in 1 .. width
      PROVE  a[i] = b[i] <=> SameFirst(a[i], b[i], 8)
  <2>1. a[i] \in 0 .. 255 /\ b[i] \in 0 .. 255
    OBVIOUS
  <2> QED
    BY <2>1, BitsOfByte
<1>4. rest # 0 =>
        (Mask(a[whole + 1], rest) = Mask(b[whole + 1], rest)
           <=> SameFirst(a[whole + 1], b[whole + 1], rest))
  <2> SUFFICES ASSUME rest # 0
               PROVE  Mask(a[whole + 1], rest) = Mask(b[whole + 1], rest)
                        <=> SameFirst(a[whole + 1], b[whole + 1], rest)
    OBVIOUS
  <2>0. whole + 1 \in 1 .. width /\ rest \in 1 .. 7
    BY <1>1
  <2>1. a[whole + 1] \in 0 .. 255 /\ b[whole + 1] \in 0 .. 255
    BY <2>0
  <2>2. \A x, y \in 0 .. 255, r \in 1 .. 7 :
          Mask(x, r) = Mask(y, r) <=> SameFirst(x, y, r)
    BY BitsOfByte
  <2> QED
    BY <2>0, <2>1, <2>2
<1>8. /\ \A i \in 1 .. width : SameFirst(a[i], b[i], 8) <=> \A j \in 1 .. 8 : Same(i, j)
      /\ SameFirst(a[whole + 1], b[whole + 1], rest)
           <=> \A j \in 1 .. rest : Same(whole + 1, j)
      /\ SameByBytes(a, b, width, n) <=>
           \A i \in 1 .. width, j \in 1 .. 8 : 8 * (i - 1) + j <= n => Same(i, j)
  BY DEF SameFirst, SameByBytes
<1> HIDE DEF Same
<1>5. (\A i \in 1 .. width, j \in 1 .. 8 : 8 * (i - 1) + j <= n => Same(i, j))
        <=> /\ \A i \in 1 .. whole, j \in 1 .. 8 : Same(i, j)
            /\ \A j \in 1 .. rest : Same(whole + 1, j)
  <2>1. ASSUME NEW i \in 1 .. width, NEW j \in 1 .. 8
        PROVE  8 * (i - 1) + j <= n <=>
                 i \in 1 .. whole \/ (i = whole + 1 /\ j \in 1 .. rest)
    BY <1>1
  <2>2. /\ \A i \in 1 .. whole : i \in 1 .. width
        /\ \A j \in 1 .. rest : j \in 1 .. 8 /\ whole + 1 \in 1 .. width
    BY <1>1
  <2> QED
    BY <2>1, <2>2
<1>6. (\A i \in 1 .. whole : a[i] = b[i])
        <=> \A i \in 1 .. whole, j \in 1 .. 8 : Same(i, j)
  BY <1>1, <1>3, <1>8
<1>7. rest = 0 => \A j \in 1 .. rest : Same(whole + 1, j)
  OBVIOUS
<1> QED
  BY <1>1, <1>2, <1>4, <1>5, <1>6, <1>7, <1>8 DEF SameMasked, whole, rest

(* Clearing the host bits of a network changes nothing of what a rule       *)
(* compares.                                                               *)
LEMMA RuleMatches ==
  ASSUME NEW net \in Addresses, NEW addr \in Addresses, NEW n \in 0 .. 128
  PROVE  Matches([network |-> ClearHostBits(net, n), prefixBits |-> n], addr)
           <=> SameBits(net, addr, n)
<1> DEFINE whole == n \div 8
           rest == n % 8
           cleared == ClearHostBits(net, n)
<1>1. /\ whole \in 0 .. 16 /\ rest \in 0 .. 7 /\ (rest # 0 => whole + 1 \in 1 .. 16)
      /\ SameBits(net, addr, n) <=>
           /\ \A i \in 1 .. whole : net[i] = addr[i]
           /\ \/ rest = 0
              \/ Mask(net[whole + 1], rest) = Mask(addr[whole + 1], rest)
  <2> DEFINE k == 16
  <2>0. k \in Nat /\ n \in 0 .. (8 * k)
    OBVIOUS
  <2>1. net \in [1 .. k -> 0 .. 255] /\ addr \in [1 .. k -> 0 .. 255]
    BY Zenon DEF Addresses
  <2> HIDE DEF k, whole, rest
  <2>2. /\ n \div 8 \in 0 .. k /\ n % 8 \in 0 .. 7
        /\ n % 8 # 0 => n \div 8 + 1 \in 1 .. k
        /\ SameBits(net, addr, n) <=> SameMasked(net, addr, n)
    BY <2>0, <2>1, BytesAndRest
  <2> QED
    BY <2>2, Zenon DEF k, whole, rest, SameMasked
<1>2. cleared = [i \in 1 .. 16 |->
                   IF i <= whole THEN net[i]
                   ELSE IF i = whole + 1 /\ rest # 0 THEN Mask(net[i], rest)
                   ELSE 0]
  BY Zenon DEF ClearHostBits, ByteCount
<1>3. Matches([network |-> cleared, prefixBits |-> n], addr) <=>
        /\ \A i \in 1 .. whole : addr[i] = cleared[i]
        /\ \/ rest = 0
           \/ Mask(addr[whole + 1], rest) = Mask(cleared[whole + 1], rest)
  BY DEF Matches
<1> HIDE DEF whole, rest, cleared
<1>4. \A i \in 1 .. whole : cleared[i] = net[i]
  BY <1>1, <1>2
<1>5. rest # 0 => Mask(cleared[whole + 1], rest) = Mask(net[whole + 1], rest)
  <2> SUFFICES ASSUME rest # 0
               PROVE  Mask(cleared[whole + 1], rest) = Mask(net[whole + 1], rest)
    OBVIOUS
  <2>1. whole + 1 \in 1 .. 16 /\ ~(whole + 1 <= whole) /\ rest \in 1 .. 7
    BY <1>1
  <2>2. net[whole + 1] \in 0 .. 255
    BY <2>1 DEF Addresses
  <2>3. cleared[whole + 1] = Mask(net[whole + 1], rest)
    BY <1>2, <2>1
  <2>4. \A x \in 0 .. 255, r \in 1 .. 7 : Mask(Mask(x, r), r) = Mask(x, r)
    BY MaskTwice
  <2> QED
    BY <2>1, <2>2, <2>3, <2>4
<1>6. Matches([network |-> cleared, prefixBits |-> n], addr) <=> SameBits(net, addr, n)
  <2>1. (\A i \in 1 .. whole : addr[i] = cleared[i])
          <=> \A i \in 1 .. whole : net[i] = addr[i]
    BY <1>4
  <2> QED
    BY <1>1, <1>3, <1>5, <2>1
<1> QED
  BY <1>6 DEF cleared

(* The mapped form of an IPv4 address, byte by byte. *)
LEMMA MappedBytes ==
  ASSUME NEW q \in Quads
  PROVE  /\ Mapped(q) \in Addresses
         /\ \A i \in 1 .. 12 : Mapped(q)[i] = MappedMarker[i]
         /\ \A i \in 1 .. 4 : Mapped(q)[i + 12] = q[i]
<1>1. MappedMarker \in Seq(0 .. 255) /\ Len(MappedMarker) = 12
  <2> DEFINE k == 12
  <2>1. k \in Nat /\ MappedMarker \in [1 .. k -> 0 .. 255]
    BY DEF MappedMarker
  <2> HIDE DEF k
  <2>2. MappedMarker \in Seq(0 .. 255) /\ Len(MappedMarker) = k
    BY <2>1, FixedSeq
  <2> QED
    BY <2>2 DEF k
<1>2. q \in Seq(0 .. 255) /\ Len(q) = 4
  <2> DEFINE k == 4
  <2>1. k \in Nat /\ q \in [1 .. k -> 0 .. 255]
    BY DEF Quads
  <2> HIDE DEF k
  <2>2. q \in Seq(0 .. 255) /\ Len(q) = k
    BY <2>1, FixedSeq
  <2> QED
    BY <2>2 DEF k
<1>3. /\ Mapped(q) \in Seq(0 .. 255) /\ Len(Mapped(q)) = 16
      /\ \A i \in 1 .. 16 : Mapped(q)[i] = IF i <= 12 THEN MappedMarker[i] ELSE q[i - 12]
  <2>1. /\ MappedMarker \o q \in Seq(0 .. 255)
        /\ Len(MappedMarker \o q) = Len(MappedMarker) + Len(q)
        /\ \A i \in 1 .. Len(MappedMarker) + Len(q) : (MappedMarker \o q)[i] =
             IF i <= Len(MappedMarker) THEN MappedMarker[i]
             ELSE q[i - Len(MappedMarker)]
    BY <1>1, <1>2, ConcatProperties, Zenon
  <2>2. Len(MappedMarker) + Len(q) = 16
    BY <1>1, <1>2
  <2> QED
    BY <1>1, <2>1, <2>2, Zenon DEF Mapped
<1>4. Mapped(q) \in Addresses
  <2>1. Mapped(q) \in [1 .. Len(Mapped(q)) -> 0 .. 255]
    BY <1>3, LenProperties
  <2> QED
    BY <1>3, <2>1 DEF Addresses
<1>5. \A i \in 1 .. 12 : Mapped(q)[i] = MappedMarker[i]
  BY <1>3
<1>6. \A i \in 1 .. 4 : Mapped(q)[i + 12] = q[i]
  <2> TAKE i \in 1 .. 4
  <2>1. i + 12 \in 1 .. 16 /\ ~(i + 12 <= 12) /\ (i + 12) - 12 = i
    OBVIOUS
  <2> QED
    BY <1>3, <2>1
<1> QED
  BY <1>4, <1>5, <1>6

(* The two parts of an address that is_ipv4_mapped tells apart. *)
LEMMA Halves ==
  ASSUME NEW addr \in Addresses
  PROVE  /\ SubSeq(addr, 13, 16) \in Quads
         /\ \A i \in 1 .. 4 : SubSeq(addr, 13, 16)[i] = addr[i + 12]
         /\ IsIpv4Mapped(addr) <=> \A i \in 1 .. 12 : addr[i] = MappedMarker[i]
<1> DEFINE low == SubSeq(addr, 13, 16)
           high == SubSeq(addr, 1, 12)
<1>1. \A i \in 1 .. 16 : addr[i] \in 0 .. 255
  BY DEF Addresses
<1>2. /\ low \in Seq(0 .. 255) /\ Len(low) = 4
      /\ \A i \in 1 .. 4 : low[i] = addr[13 + i - 1]
  <2>1. \A i \in 13 .. 16 : addr[i] \in 0 .. 255
    BY <1>1
  <2> QED
    BY <2>1, SubSeqProperties
<1>3. /\ high \in Seq(0 .. 255) /\ Len(high) = 12
      /\ \A i \in 1 .. 12 : high[i] = addr[1 + i - 1]
  <2>1. \A i \in 1 .. 12 : addr[i] \in 0 .. 255
    BY <1>1
  <2> QED
    BY <2>1, SubSeqProperties
<1> HIDE DEF low, high
<1>4. low \in Quads /\ \A i \in 1 .. 4 : low[i] = addr[i + 12]
  <2>1. low \in Quads
    <3>1. low \in [1 .. Len(low) -> 0 .. 255]
      BY <1>2, LenProperties
    <3> QED
      BY <1>2, <3>1 DEF Quads
  <2> QED
    BY <1>2, <2>1
<1>5. \A i \in 1 .. 12 : high[i] = addr[i]
  BY <1>3
<1>6. high = MappedMarker <=> \A i \in 1 .. 12 : high[i] = MappedMarker[i]
  <2>1. high = [i \in 1 .. 12 |-> high[i]]
    BY <1>3
  <2>2. MappedMarker = [i \in 1 .. 12 |-> MappedMarker[i]]
    BY DEF MappedMarker
  <2> QED
    BY <2>1, <2>2, Zenon
<1> QED
  BY <1>4, <1>5, <1>6 DEF low, high, IsIpv4Mapped

(* A rule made of an IPv4 entry is about the last four bytes of an address *)
(* in the mapped form, and about no other address.                         *)
LEMMA MappedRule ==
  ASSUME NEW q \in Quads, NEW addr \in Addresses, NEW n \in 0 .. 32
  PROVE  SameBits(Mapped(q), addr, n + 96) <=>
           IsIpv4Mapped(addr) /\ SameBits(q, SubSeq(addr, 13, 16), n)
<1> DEFINE whole == n \div 8
           rest == n % 8
           net == Mapped(q)
           low == SubSeq(addr, 13, 16)
<1>1. /\ net \in Addresses
      /\ \A i \in 1 .. 12 : net[i] = MappedMarker[i]
      /\ \A i \in 1 .. 4 : net[i + 12] = q[i]
  BY MappedBytes
<1>2. /\ low \in Quads
      /\ \A i \in 1 .. 4 : low[i] = addr[i + 12]
      /\ IsIpv4Mapped(addr) <=> \A i \in 1 .. 12 : addr[i] = MappedMarker[i]
  BY Halves
<1> HIDE DEF net, low
<1>3. /\ whole \in 0 .. 4 /\ rest \in 0 .. 7 /\ (rest # 0 => whole + 1 \in 1 .. 4)
      /\ SameBits(q, low, n) <=>
           /\ \A i \in 1 .. whole : q[i] = low[i]
           /\ \/ rest = 0
              \/ Mask(q[whole + 1], rest) = Mask(low[whole + 1], rest)
  <2>1. n \in 0 .. (8 * 4)
    OBVIOUS
  <2> QED
    <3>1. /\ whole \in 0 .. 4 /\ rest \in 0 .. 7 /\ (rest # 0 => whole + 1 \in 1 .. 4)
          /\ SameBits(q, low, n) <=> SameMasked(q, low, n)
      <4> DEFINE k == 4
      <4>1. /\ k \in Nat /\ n \in 0 .. (8 * k)
            /\ q \in [1 .. k -> 0 .. 255] /\ low \in [1 .. k -> 0 .. 255]
        BY <1>2, <2>1 DEF Quads
      <4> HIDE DEF k, whole, rest
      <4>2. /\ n \div 8 \in 0 .. k /\ n % 8 \in 0 .. 7
            /\ n % 8 # 0 => n \div 8 + 1 \in 1 .. k
            /\ SameBits(q, low, n) <=> SameMasked(q, low, n)
        BY <4>1, BytesAndRest
      <4> QED
        BY <4>2, Zenon DEF k, whole, rest
    <3> QED
      BY <3>1 DEF SameMasked
<1>4. (n + 96) \div 8 = whole + 12 /\ (n + 96) % 8 = rest
  OBVIOUS
<1> HIDE DEF whole, rest
<1>5. SameBits(net, addr, n + 96) <=>
        /\ \A i \in 1 .. (whole + 12) : net[i] = addr[i]
        /\ \/ rest = 0
           \/ Mask(net[whole + 12 + 1], rest) = Mask(addr[whole + 12 + 1], rest)
  <2> DEFINE k == 16
             long == n + 96
  <2>0. k \in Nat /\ long \in 0 .. (8 * k)
    OBVIOUS
  <2>1. net \in [1 .. k -> 0 .. 255] /\ addr \in [1 .. k -> 0 .. 255]
    BY <1>1, Zenon DEF Addresses
  <2>2. SameBits(net, addr, n + 96) <=>
          /\ \A i \in 1 .. ((n + 96) \div 8) : net[i] = addr[i]
          /\ \/ (n + 96) % 8 = 0
             \/ Mask(net[(n + 96) \div 8 + 1], (n + 96) % 8) =
                  Mask(addr[(n + 96) \div 8 + 1], (n + 96) % 8)
    <3> HIDE DEF k, long
    <3>1. SameBits(net, addr, long) <=> SameMasked(net, addr, long)
      BY <2>0, <2>1, BytesAndRest
    <3> QED
      BY <3>1, Zenon DEF SameMasked, long
  <2> QED
    BY <1>4, <2>2
<1>6. (\A i \in 1 .. (whole + 12) : net[i] = addr[i])
        <=> /\ \A i \in 1 .. 12 : net[i] = addr[i]
            /\ \A i \in 1 .. whole : net[i + 12] = addr[i + 12]
  <2>1. ASSUME \A i \in 1 .. 12 : net[i] = addr[i],
               \A i \in 1 .. whole : net[i + 12] = addr[i + 12],
               NEW k \in 1 .. (whole + 12)
        PROVE  net[k] = addr[k]
    <3>1. CASE k <= 12
      BY <1>3, <2>1, <3>1
    <3>2. CASE k > 12
      <4>1. k - 12 \in 1 .. whole /\ (k - 12) + 12 = k
        BY <1>3, <3>2
      <4> QED
        BY <2>1, <4>1
    <3> QED
      BY <1>3, <3>1, <3>2
  <2>2. /\ \A i \in 1 .. 12 : i \in 1 .. (whole + 12)
        /\ \A i \in 1 .. whole : i + 12 \in 1 .. (whole + 12)
    BY <1>3
  <2> QED
    BY <2>1, <2>2
<1>7. (\A i \in 1 .. whole : net[i + 12] = addr[i + 12])
        <=> \A i \in 1 .. whole : q[i] = low[i]
  <2>1. \A i \in 1 .. whole : net[i + 12] = q[i] /\ addr[i + 12] = low[i]
    BY <1>1, <1>2, <1>3
  <2> QED
    BY <2>1
<1>8. rest # 0 => net[whole + 12 + 1] = q[whole + 1] /\ addr[whole + 12 + 1] = low[whole + 1]
  <2>1. rest # 0 => whole + 1 \in 1 .. 4 /\ whole + 12 + 1 = (whole + 1) + 12
    BY <1>3
  <2> QED
    BY <1>1, <1>2, <2>1
<1>9. (\A i \in 1 .. 12 : net[i] = addr[i]) <=> IsIpv4Mapped(addr)
  BY <1>1, <1>2
<1>10. SameBits(net, addr, n + 96) <=> IsIpv4Mapped(addr) /\ SameBits(q, low, n)
  BY <1>3, <1>5, <1>6, <1>7, <1>8, <1>9
<1> QED
  BY <1>10 DEF net, low

(* The parser refuses an entry exactly if it is not well formed. *)
LEMMA EntryRead ==
  ASSUME NEW entry, IsEntry(entry)
  PROVE  EntryError(entry) = "none" <=> WellFormed(entry)
<1> DEFINE family == entry.family
           slashes == entry.slashes
           prefix == entry.prefix
           limit == IF family = "inet" THEN 32 ELSE 128
<1>1. /\ family \in {"empty", "none", "inet", "inet6"} /\ slashes \in Nat
      /\ prefix # <<>> => prefix[1] \in Nat
  BY DEF IsEntry
<1>2. EntryError(entry) = "none" <=>
        ~Malformed(entry) /\ family # "none" /\ ~BadPrefix(entry)
  BY DEF EntryError
<1>3. Malformed(entry) <=> family = "empty" \/ slashes > 1
  BY DEF Malformed
<1>4. BadPrefix(entry) <=> slashes = 1 /\ (prefix = <<>> \/ prefix[1] > limit)
  BY DEF BadPrefix, NotANumber, ByteCount, MappedBits
<1>5. WellFormed(entry) <=>
        /\ family \in {"inet", "inet6"}
        /\ slashes = 0 \/ (slashes = 1 /\ prefix # <<>> /\ prefix[1] \in 0 .. limit)
  BY DEF WellFormed, NotANumber
<1>6. limit \in Nat
  OBVIOUS
<1> HIDE DEF family, slashes, prefix, limit
<1>7. prefix # <<>> => (prefix[1] \in 0 .. limit <=> ~(prefix[1] > limit))
  BY <1>1, <1>6
<1>8. ~(slashes > 1) <=> slashes = 0 \/ slashes = 1
  BY <1>1
<1> QED
  BY <1>1, <1>2, <1>3, <1>4, <1>5, <1>7, <1>8

(* The address of a network peer in the form the rules are over. *)
LEMMA PeerBytes ==
  ASSUME NEW socket, IsSocket(socket), socket.family # "unix"
  PROVE  /\ PeerAddressFrom(socket).bytes \in Addresses
         /\ ~PeerAddressFrom(socket).isUnix
         /\ socket.family = "inet" =>
              /\ socket.bytes \in Quads
              /\ PeerAddressFrom(socket).bytes = Mapped(socket.bytes)
         /\ socket.family # "inet" =>
              /\ socket.bytes \in Addresses
              /\ PeerAddressFrom(socket).bytes = socket.bytes
<1>1. CASE socket.family = "inet"
  <2>1. socket.bytes \in Quads /\ PeerAddressFrom(socket).bytes = Mapped(socket.bytes)
    BY <1>1 DEF IsSocket, PeerAddressFrom
  <2>2. Mapped(socket.bytes) \in Addresses
    BY <2>1, MappedBytes
  <2> QED
    BY <1>1, <2>1, <2>2 DEF PeerAddressFrom
<1>2. CASE socket.family = "inet6"
  BY <1>2 DEF IsSocket, PeerAddressFrom
<1> QED
  BY <1>1, <1>2 DEF IsSocket

(* The IPv4 address of a network peer of either family, read from the bytes *)
(* the rules are over.                                                      *)
LEMMA PeerQuad ==
  ASSUME NEW socket, IsSocket(socket), socket.family # "unix"
  PROVE  LET addr == PeerAddressFrom(socket).bytes
             quad == IF socket.family = "inet" THEN socket.bytes
                     ELSE SubSeq(socket.bytes, 13, 16)
         IN  /\ IsIpv4Mapped(addr)
                  <=> socket.family = "inet" \/ IsIpv4Mapped(socket.bytes)
             /\ SubSeq(addr, 13, 16) = quad
<1>1. CASE socket.family = "inet"
  <2> DEFINE q == socket.bytes
             addr == Mapped(q)
             low == SubSeq(addr, 13, 16)
  <2>1. q \in Quads /\ PeerAddressFrom(socket).bytes = addr
    BY <1>1, PeerBytes
  <2>2. /\ addr \in Addresses
        /\ \A i \in 1 .. 12 : addr[i] = MappedMarker[i]
        /\ \A i \in 1 .. 4 : addr[i + 12] = q[i]
    BY <2>1, MappedBytes
  <2>3. /\ low \in Quads
        /\ \A i \in 1 .. 4 : low[i] = addr[i + 12]
        /\ IsIpv4Mapped(addr) <=> \A i \in 1 .. 12 : addr[i] = MappedMarker[i]
    BY <2>2, Halves
  <2> HIDE DEF q, addr, low
  <2>4. IsIpv4Mapped(addr) /\ \A i \in 1 .. 4 : low[i] = q[i]
    BY <2>2, <2>3
  <2>5. low = q
    BY <2>1, <2>3, <2>4 DEF Quads
  <2> QED
    BY <1>1, <2>1, <2>4, <2>5 DEF q, low
<1>2. CASE socket.family # "inet"
  BY <1>2, PeerBytes
<1> QED
  BY <1>1, <1>2

(* A rule the parser made matches exactly the peers its entry covers. *)
LEMMA PeerJudged ==
  ASSUME NEW entry, IsEntry(entry), WellFormed(entry),
         NEW socket, IsSocket(socket), socket.family # "unix"
  PROVE  Matches(Rule(entry), PeerAddressFrom(socket).bytes)
           <=> Covers(entry, socket)
<1> DEFINE addr == PeerAddressFrom(socket).bytes
           n == PrefixBits(entry)
           m == IF entry.slashes = 0 THEN 32 ELSE entry.prefix[1]
           net == Mapped(entry.bytes)
           quad == IF socket.family = "inet" THEN socket.bytes
                   ELSE SubSeq(socket.bytes, 13, 16)
           isIpv4 == socket.family = "inet" \/ IsIpv4Mapped(socket.bytes)
<1>1. addr \in Addresses
  BY PeerBytes
<1>2. (IsIpv4Mapped(addr) <=> isIpv4) /\ SubSeq(addr, 13, 16) = quad
  BY PeerQuad
<1>3. CASE entry.family = "inet"
  <2>1. entry.bytes \in Quads
    BY <1>3 DEF IsEntry
  <2>2. m \in 0 .. 32 /\ n = m + 96 /\ n \in 0 .. 128
    BY <1>3 DEF WellFormed, PrefixBits, ByteCount, MappedBits
  <2>3. Covers(entry, socket) <=> isIpv4 /\ SameBits(entry.bytes, quad, m)
    BY <1>3, Zenon DEF Covers
  <2>4. Rule(entry) = [network |-> ClearHostBits(net, n), prefixBits |-> n]
    BY <1>3, Zenon DEF Rule
  <2> HIDE DEF addr, n, m, net, quad, isIpv4
  <2>5. net \in Addresses
    BY <2>1, MappedBytes DEF net
  <2>6. Matches(Rule(entry), addr) <=> SameBits(net, addr, n)
    <3>1. Matches([network |-> ClearHostBits(net, n), prefixBits |-> n], addr)
            <=> SameBits(net, addr, n)
      BY <1>1, <2>2, <2>5, RuleMatches
    <3> QED
      BY <2>4, <3>1, Zenon
  <2>7. SameBits(net, addr, m + 96) <=>
          IsIpv4Mapped(addr) /\ SameBits(entry.bytes, SubSeq(addr, 13, 16), m)
    BY <1>1, <2>1, <2>2, MappedRule DEF net
  <2>8. Matches(Rule(entry), addr) <=> Covers(entry, socket)
    BY <1>2, <2>2, <2>3, <2>6, <2>7
  <2> QED
    BY <2>8 DEF addr
<1>4. CASE entry.family # "inet"
  <2>1. entry.bytes \in Addresses
    BY <1>4 DEF IsEntry, WellFormed
  <2>2. n \in 0 .. 128 /\ n = IF entry.slashes = 0 THEN 128 ELSE entry.prefix[1]
    BY <1>4 DEF WellFormed, PrefixBits, ByteCount, MappedBits
  <2>3. Covers(entry, socket) <=> SameBits(entry.bytes, addr, n)
    BY <1>4, <2>2, Zenon DEF Covers
  <2>4. Rule(entry) = [network |-> ClearHostBits(entry.bytes, n), prefixBits |-> n]
    BY <1>4, Zenon DEF Rule
  <2> HIDE DEF addr, n
  <2>6. n \in 0 .. 128
    BY <2>2
  <2>5. Matches(Rule(entry), addr) <=> SameBits(entry.bytes, addr, n)
    <3>1. Matches([network |-> ClearHostBits(entry.bytes, n), prefixBits |-> n], addr)
            <=> SameBits(entry.bytes, addr, n)
      BY <1>1, <2>1, <2>6, RuleMatches
    <3> QED
      BY <2>4, <3>1, Zenon
  <2> QED
    BY <2>3, <2>5 DEF addr
<1> QED
  BY <1>3, <1>4

(* What the parser makes of a list. *)
LEMMA ListParsed ==
  ASSUME NEW entries \in EntryLists
  PROVE  /\ Parse(entries).error = "none" <=>
              \A i \in 1 .. Len(entries) : WellFormed(entries[i])
         /\ Parse(entries).error = "none" =>
              Parse(entries).rules = [i \in 1 .. Len(entries) |-> Rule(entries[i])]
<1> DEFINE wrong == {i \in 1 .. Len(entries) : EntryError(entries[i]) # "none"}
           first == CHOOSE i \in wrong : \A j \in wrong : i <= j
<1>1. Len(entries) \in Nat /\ \A i \in 1 .. Len(entries) : IsEntry(entries[i])
  BY CidrAssumption
<1>2. wrong = {} <=> \A i \in 1 .. Len(entries) : WellFormed(entries[i])
  BY <1>1, EntryRead
<1>3. wrong # {} => first \in wrong
  <2>1. wrong \in SUBSET Nat
    BY <1>1
  <2> HIDE DEF wrong
  <2>2. wrong # {} => \E i \in wrong : \A j \in wrong : i <= j
    BY <2>1, Least
  <2> QED
    BY <2>2
<1>4. wrong # {} => EntryError(entries[first]) # "none"
  BY <1>3
<1>5. Parse(entries) =
        IF wrong = {}
        THEN [error |-> "none",
              rules |-> [i \in 1 .. Len(entries) |-> Rule(entries[i])]]
        ELSE [error |-> EntryError(entries[first]), rules |-> <<>>]
  BY Zenon DEF Parse
<1> HIDE DEF wrong, first
<1> QED
  BY <1>2, <1>4, <1>5

(* Every list is read as written. *)
LEMMA ListsRead == ListsReadAsWritten
BY ListParsed DEF ListsReadAsWritten

(* Every peer is judged as the list says. *)
LEMMA PeersAreJudged == PeersJudgedAsWritten
<1> SUFFICES ASSUME NEW entries \in EntryLists, Parse(entries).error = "none",
                    NEW socket \in Sockets
             PROVE  Allows(Parse(entries).rules, PeerAddressFrom(socket)) <=>
                      \/ entries = <<>> \/ socket.family = "unix"
                      \/ \E i \in 1 .. Len(entries) : Covers(entries[i], socket)
  BY DEF PeersJudgedAsWritten
<1> DEFINE rules == Parse(entries).rules
           from == PeerAddressFrom(socket)
<1>1. /\ Len(entries) \in Nat /\ entries = [i \in 1 .. Len(entries) |-> entries[i]]
      /\ \A i \in 1 .. Len(entries) : IsEntry(entries[i]) /\ WellFormed(entries[i])
      /\ rules = [i \in 1 .. Len(entries) |-> Rule(entries[i])]
      /\ IsSocket(socket)
  BY CidrAssumption, ListParsed
<1>2. from.isUnix <=> socket.family = "unix"
  BY DEF PeerAddressFrom
<1>3. CASE socket.family = "unix"
  BY <1>2, <1>3 DEF Allows
<1>4. CASE socket.family # "unix"
  <2>1. \A i \in 1 .. Len(entries) : Matches(rules[i], from.bytes) <=> Covers(entries[i], socket)
    <3> TAKE i \in 1 .. Len(entries)
    <3>1. Matches(Rule(entries[i]), from.bytes) <=> Covers(entries[i], socket)
      BY <1>1, <1>4, PeerJudged
    <3> QED
      BY <1>1, <3>1
  <2> HIDE DEF rules, from
  <2>2. Len(rules) = Len(entries) /\ (rules = <<>> <=> entries = <<>>)
    BY <1>1
  <2>3. Allows(rules, from) <=>
          rules = <<>> \/ \E i \in 1 .. Len(entries) : Matches(rules[i], from.bytes)
    BY <1>2, <1>4, <2>2 DEF Allows
  <2>4. Allows(rules, from) <=>
          entries = <<>> \/ \E i \in 1 .. Len(entries) : Covers(entries[i], socket)
    BY <2>1, <2>2, <2>3
  <2> QED
    BY <1>4, <2>4 DEF rules, from
<1> QED
  BY <1>3, <1>4

(* A source that holds a slot is one the list lets in.                     *)
OnlyAllowed == \A f \in slots : peer[f] \in Sources => peer[f] \in AllowList

(* Only AdmitSlot hands out a slot, after the list was asked; the peer of  *)
(* a descriptor with a slot stays what it was.                             *)
LEMMA OnlyAllowedStep ==
  ASSUME Ownership, OnlyAllowed, [Next]_vars
  PROVE  OnlyAllowed'
<1> USE AdmissionAssumption
<1>0. TypeOK
  BY DEF Ownership
<1>1. ASSUME UNCHANGED <<slots, peer>>
      PROVE  OnlyAllowed'
  BY <1>1 DEF OnlyAllowed
<1>2. ASSUME NEW f \in Fds, slots' = slots \ {f}, peer' = [peer EXCEPT ![f] = None]
      PROVE  OnlyAllowed'
  BY <1>0, <1>2 DEF OnlyAllowed, TypeOK
<1>3. ASSUME NEW r \in Reactors, ReactorStep(r) \/ Teardown(r)
      PROVE  OnlyAllowed'
  <2>0. /\ pc[r] \in Holding => inHand[r] \in Fds
        /\ pc[r] = "accepted" => inHand[r] \notin slots
        /\ \A f \in slots : peer[f] # None
    BY OwnFacts
  <2>1. ASSUME NEW f \in Fds, NEW p \in Peers, Accept(r, f, p)
        PROVE  OnlyAllowed'
    <3>1. f \notin slots /\ slots' = slots /\ peer' = [peer EXCEPT ![f] = p]
      BY <2>0, <2>1 DEF Accept
    <3> QED
      BY <1>0, <3>1 DEF OnlyAllowed, TypeOK
  <2>2. CASE RejectCidr(r) \/ RejectLimit(r) \/ (FailInAdmit(r) /\ pc[r] # "admitted")
    <3>1. /\ inHand[r] \in Fds /\ inHand[r] \notin slots /\ slots' = slots
          /\ peer' = [peer EXCEPT ![inHand[r]] = None]
      BY <2>0, <2>2 DEF RejectCidr, RejectLimit, FailInAdmit, DropInHand, Holding
    <3> QED
      BY <1>0, <3>1 DEF OnlyAllowed, TypeOK
  <2>3. CASE AdmitSlot(r)
    <3>1. /\ slots' = slots \cup {inHand[r]} /\ peer' = peer
          /\ peer[inHand[r]] \in Sources => peer[inHand[r]] \in AllowList
      BY <2>3 DEF AdmitSlot, GrantSlot, CidrRejects
    <3> QED
      BY <3>1 DEF OnlyAllowed
  <2>4. CASE DropAdmitted(r) \/ (FailInAdmit(r) /\ pc[r] = "admitted")
    <3>1. /\ inHand[r] \in Fds /\ slots' = slots \ {inHand[r]}
          /\ peer' = [peer EXCEPT ![inHand[r]] = None]
      BY <2>0, <2>4 DEF DropAdmitted, FailInAdmit, DropInHand, ReleaseSlot, Holding
    <3> QED
      BY <1>2, <3>1
  <2>5. CASE InsertConnection(r) \/ RaiseGauge(r) \/ LowerGauge(r) \/ ExitLoop(r)
               \/ LowerGaugeByTable(r)
    BY <1>1, <2>5 DEF InsertConnection, RaiseGauge, LowerGauge, ExitLoop,
                      LowerGaugeByTable
  <2>6. ASSUME NEW f \in Fds, EraseConnection(r, f) \/ ClearOne(r, f)
        PROVE  OnlyAllowed'
    BY <1>2, <2>6 DEF EraseConnection, ClearOne, ReleaseSlot
  <2> QED
    BY <1>3, <2>1, <2>2, <2>3, <2>4, <2>5, <2>6 DEF ReactorStep, Teardown
<1> QED
  BY <1>1, <1>3 DEF Next, RequestStop, Finished, vars

-----------------------------------------------------------------------------
(* The theorems *)

(* The initial state satisfies every part of the invariant.                *)
LEMMA InitAll ==
  ASSUME Init
  PROVE  Ownership /\ CountsExact /\ LimitsHold /\ GaugeLag
<1> USE AdmissionAssumption
<1>1. Ownership
  <2>0. /\ DOMAIN source_connections = {}
        /\ source_connections \in [{} -> Nat]
    BY DEF Init
  <2>1. TypeOK
    <3>0. stopping \in BOOLEAN
      BY Zenon DEF Init
    <3>1. active \in Nat /\ gauge \in Int /\ slots \in SUBSET Fds
      BY DEF Init
    <3>2. /\ DOMAIN source_connections \subseteq Sources
          /\ source_connections \in [DOMAIN source_connections -> Nat]
      BY <2>0
    <3>3. /\ pc \in [Reactors -> Stages]
          /\ inHand \in [Reactors -> Fds \cup {None}]
          /\ peer \in [Fds -> Peers \cup {None}]
          /\ connections \in [Reactors -> SUBSET Fds]
      BY DEF Init, Stages
    <3> QED
      BY <3>0, <3>1, <3>2, <3>3 DEF TypeOK
  <2>2. SlotsOwned
    BY DEF Init, SlotsOwned
  <2>3. OneOwner /\ HandsOpen
    BY DEF Init, OneOwner, HandsOpen, Holding
  <2> QED
    BY <2>1, <2>2, <2>3 DEF Ownership
<1>2. CountsExact
  <2>1. \A s : SlotsOf(s) = {}
    BY DEF Init, SlotsOf
  <2> QED
    BY <2>1, FS_EmptySet DEF Init, CountsExact, SourceCount
<1>3. LimitsHold
  BY DEF Init, LimitsHold, SourceCount
<1>4. GaugeLag
  <2>1. Tabled = {} /\ At("erased") = {} /\ At("inserted") = {}
    BY DEF Init, Tabled, At
  <2>2. gauge = 0 /\ Cardinality({}) = 0
    BY FS_EmptySet DEF Init
  <2> QED
    BY <2>1, <2>2 DEF GaugeLag
<1> QED
  BY <1>1, <1>2, <1>3, <1>4

(* The ownership invariant, the strengthening the others rest on.          *)
THEOREM OwnershipInvariant == Spec => []Ownership
<1>1. Init => Ownership
  BY InitAll
<1>2. Ownership /\ [Next]_vars => Ownership'
  BY OwnershipStep
<1> QED
  BY <1>1, <1>2, PTL DEF Spec

(* Type correctness of the counters, tables and thread states.             *)
THEOREM TypeCorrect == Spec => []TypeOK
<1>1. Ownership => TypeOK
  BY DEF Ownership
<1> QED
  BY <1>1, OwnershipInvariant, PTL

(* Every live slot has its owner and every owner its slot: no path through *)
(* Reactor::admit, close_connection or ~Reactor leaks a slot or releases   *)
(* one twice.                                                              *)
THEOREM NoSlotLeaks == Spec => []SlotsOwned
<1>1. Ownership => SlotsOwned
  BY DEF Ownership
<1> QED
  BY <1>1, OwnershipInvariant, PTL

(* The counters of ServerState are exact in every reachable state.         *)
THEOREM CountersExact == Spec => []CountsExact
<1>1. Init => CountsExact
  BY InitAll
<1>2. Ownership /\ CountsExact /\ [Next]_vars => CountsExact'
  BY CountsStep
<1> QED
  BY <1>1, <1>2, OwnershipInvariant, PTL DEF Spec

(* The process-wide limit and the limit per source are never exceeded.     *)
THEOREM LimitsRespected == Spec => []LimitsHold
<1>1. Init => LimitsHold
  BY InitAll
<1>2. Ownership /\ LimitsHold /\ [Next]_vars => LimitsHold'
  BY LimitsStep
<1> QED
  BY <1>1, <1>2, OwnershipInvariant, PTL DEF Spec

(* The connections_active gauge is the number of connections whenever no   *)
(* reactor is between its table and the gauge.                             *)
THEOREM GaugeCorrect == Spec => []GaugeExact
<1>1. Init => GaugeLag
  BY InitAll
<1>2. Ownership /\ GaugeLag /\ [Next]_vars => GaugeLag'
  BY GaugeStep
<1>3. Ownership /\ GaugeLag => GaugeExact
  <2> SUFFICES ASSUME Ownership, GaugeLag,
                      \A r \in Reactors :
                        pc[r] \notin {"inserted", "erased", "destroyed"}
               PROVE  gauge = Cardinality(UNION {connections[r] :
                                                   r \in Reactors})
    BY DEF GaugeExact
  <2>1. At("erased") = {} /\ At("inserted") = {}
    BY DEF At
  <2>2. Tabled = UNION {connections[r] : r \in Reactors}
    BY DEF Tabled
  <2>3. Cardinality(Tabled) \in Nat
    BY GaugeFinite DEF Ownership
  <2> QED
    BY <2>1, <2>2, <2>3, FS_EmptySet DEF GaugeLag
<1> QED
  BY <1>1, <1>2, <1>3, OwnershipInvariant, PTL DEF Spec

(* Admission implements the abstract pool: whatever the reactors do at the *)
(* same time, slots are granted and returned one by one, within the limit  *)
(* of the process and the limit of each source.                            *)
THEOREM AdmissionIsAPool == Spec => ImplementsSlotPool
<1>1. Init => Pool!Init
  BY DEF Init, Held, Pool!Init
<1>2. Ownership /\ CountsExact /\ [Next]_vars => [Pool!Next]_Held
  BY PoolStep
<1> QED
  BY <1>1, <1>2, OwnershipInvariant, CountersExact, PTL
     DEF Spec, ImplementsSlotPool, Pool!Spec

(* Whoever holds a slot was let in by the configured list as it is written: *)
(* for every list of entries and every address, the parser takes exactly    *)
(* the well-formed lists, and the comparison of masked bytes over 128 bits  *)
(* is the comparison of the bits each entry names.                          *)
THEOREM AllowListHonoured == Spec => []AllowListAsWritten
<1>1. Init => OnlyAllowed
  BY DEF Init, OnlyAllowed
<1>2. Ownership /\ OnlyAllowed /\ [Next]_vars => OnlyAllowed'
  BY OnlyAllowedStep
<1>3. OnlyAllowed => AllowListAsWritten
  <2> SUFFICES ASSUME NEW s \in AllowList
               PROVE  \/ Configured = <<>>
                      \/ \E i \in 1 .. Len(Configured) : Covers(Configured[i], SocketOf[s])
    BY ListsRead, PeersAreJudged, Zenon DEF OnlyAllowed, AllowListAsWritten
  <2>1. /\ Configured \in EntryLists /\ Parse(Configured).error = "none"
        /\ SocketOf[s] \in Sockets /\ SocketOf[s].family # "unix"
        /\ LetIn(s)
    BY FilterAssumption
  <2>2. Allows(Parse(Configured).rules, PeerAddressFrom(SocketOf[s])) <=>
          \/ Configured = <<>> \/ SocketOf[s].family = "unix"
          \/ \E i \in 1 .. Len(Configured) : Covers(Configured[i], SocketOf[s])
    BY <2>1, PeersAreJudged, Zenon DEF PeersJudgedAsWritten
  <2> QED
    BY <2>1, <2>2, Zenon DEF LetIn
<1> QED
  BY <1>1, <1>2, <1>3, OwnershipInvariant, PTL DEF Spec

=============================================================================
