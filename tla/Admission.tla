----------------------------- MODULE Admission -----------------------------
(***************************************************************************)
(* Connection admission: the process-wide and per-source limits that every *)
(* reactor thread shares through ServerState (src/src/server_state.cpp),   *)
(* and the life of an admission slot inside a reactor                      *)
(* (src/src/reactor.cpp: accept_ready, admit, close_connection, ~Reactor). *)
(*                                                                         *)
(* A reactor thread takes an accepted descriptor through the early returns *)
(* of Reactor::admit.  The slot it takes from ServerState is a move-only   *)
(* object, released when the object that owns it dies: the local variable  *)
(* of Reactor::admit, later the Connection.  Each action below is one      *)
(* stretch of a reactor thread between two points where another thread can *)
(* see the shared counters; the mutex makes admit and release atomic.      *)
(***************************************************************************)
EXTENDS Integers, FiniteSets

CONSTANTS
  Reactors,       \* the reactor threads
  Fds,            \* descriptors the process can have open at the same time
  Sources,        \* TCP source addresses
  Unix,           \* the peer of a Unix-domain connection, not a source
  AllowList,      \* sources the CIDR allow list lets in; all if it is empty
  MaxConnections, \* ServerOptions::max_connections
  MaxPerSource,   \* ServerOptions::max_connections_per_source
  None            \* no descriptor in hand; no peer: the descriptor is closed

Peers == Sources \cup {Unix}

ASSUME AdmissionAssumption ==
  /\ IsFiniteSet(Reactors)
  /\ IsFiniteSet(Fds)
  /\ None \notin Fds \cup Peers
  /\ Unix \notin Sources
  /\ AllowList \subseteq Sources
  /\ MaxConnections \in Nat
  /\ MaxPerSource \in Nat

VARIABLES
  active,             \* ServerState::active_connections_
  source_connections, \* ServerState::source_connections_, a map
  pc,                 \* where each reactor thread stands
  inHand,             \* the accepted descriptor inside Reactor::admit
  peer,               \* the peer of every open descriptor
  slots,              \* descriptors whose owner holds a ConnectionAdmission
  connections,        \* Reactor::connections_ of each reactor
  gauge,              \* the connections_active gauge
  stopping            \* the stop token has been signalled

counters == <<active, source_connections>>
vars == <<counters, pc, inHand, peer, slots, connections, gauge, stopping>>

(* poll: in the event loop, between two callbacks.  accepted: inside       *)
(* Reactor::admit, before ServerState::admit.  admitted: slot in hand.     *)
(* inserted and erased: the connection table has changed and the gauge has *)
(* not followed yet.  exited: Reactor::run has returned.                   *)
Stages == {"poll", "accepted", "admitted", "inserted", "erased", "exited",
           "destroyed"}

TypeOK ==
  /\ active \in Nat
  /\ DOMAIN source_connections \subseteq Sources
  /\ source_connections \in [DOMAIN source_connections -> Nat]
  /\ pc \in [Reactors -> Stages]
  /\ inHand \in [Reactors -> Fds \cup {None}]
  /\ peer \in [Fds -> Peers \cup {None}]
  /\ slots \in SUBSET Fds
  /\ connections \in [Reactors -> SUBSET Fds]
  /\ gauge \in Int
  /\ stopping \in BOOLEAN

Init ==
  /\ active = 0
  /\ source_connections = [s \in {} |-> 0]
  /\ pc = [r \in Reactors |-> "poll"]
  /\ inHand = [r \in Reactors |-> None]
  /\ peer = [f \in Fds |-> None]
  /\ slots = {}
  /\ connections = [r \in Reactors |-> {}]
  /\ gauge = 0
  /\ stopping = FALSE

-----------------------------------------------------------------------------
(* ServerState *)

SourceCount(s) ==
  IF s \in DOMAIN source_connections THEN source_connections[s] ELSE 0

SetSourceCount(s, n) ==
  [t \in DOMAIN source_connections \cup {s} |->
     IF t = s THEN n ELSE source_connections[t]]

EraseSource(s) ==
  [t \in DOMAIN source_connections \ {s} |-> source_connections[t]]

GlobalLimitReached == active >= MaxConnections

(* Fault: a source that reached the limit gets one more. *)
SourceLimitLate(p) == p # Unix /\ SourceCount(p) > MaxPerSource

SourceLimitReached(p) == p # Unix /\ SourceCount(p) >= MaxPerSource

(* ServerState::admit on the path that grants a slot. *)
GrantSlot(f) ==
  /\ slots' = slots \cup {f}
  /\ active' = active + 1
  /\ source_connections' =
       IF peer[f] = Unix THEN source_connections
       ELSE SetSourceCount(peer[f], SourceCount(peer[f]) + 1)

(* Fault: the entry of a source stays in the map at zero. *)
ReleaseSlotKeepsEntry(f) ==
  /\ slots' = slots \ {f}
  /\ active' = IF active > 0 THEN active - 1 ELSE active
  /\ source_connections' =
       IF peer[f] = Unix \/ peer[f] \notin DOMAIN source_connections
         THEN source_connections
       ELSE SetSourceCount(peer[f], source_connections[peer[f]] - 1)

(* ServerState::release, with its guards against underflow and against a   *)
(* source that is not in the map.                                          *)
ReleaseSlot(f) ==
  /\ slots' = slots \ {f}
  /\ active' = IF active > 0 THEN active - 1 ELSE active
  /\ source_connections' =
       IF peer[f] = Unix \/ peer[f] \notin DOMAIN source_connections
         THEN source_connections
       ELSE IF source_connections[peer[f]] <= 1
         THEN EraseSource(peer[f])
       ELSE SetSourceCount(peer[f], source_connections[peer[f]] - 1)

-----------------------------------------------------------------------------
(* Reactor *)

Goto(r, stage) == pc' = [pc EXCEPT ![r] = stage]

(* The descriptor closes and the thread returns to its loop. *)
DropInHand(r) ==
  /\ peer' = [peer EXCEPT ![inHand[r]] = None]
  /\ inHand' = [inHand EXCEPT ![r] = None]

(* accept_connection() returned a descriptor. *)
Accept(r, f, p) ==
  /\ pc[r] = "poll"
  /\ peer[f] = None
  /\ peer' = [peer EXCEPT ![f] = p]
  /\ inHand' = [inHand EXCEPT ![r] = f]
  /\ Goto(r, "accepted")
  /\ UNCHANGED <<counters, slots, connections, gauge, stopping>>

CidrRejects(p) == p # Unix /\ p \notin AllowList

RejectCidr(r) ==
  /\ pc[r] = "accepted"
  /\ CidrRejects(peer[inHand[r]])
  /\ DropInHand(r)
  /\ Goto(r, "poll")
  /\ UNCHANGED <<counters, slots, connections, gauge, stopping>>

(* ServerState::admit refused: the process-wide limit first, then the      *)
(* limit of the source.                                                    *)
RejectLimit(r) ==
  /\ pc[r] = "accepted"
  /\ ~CidrRejects(peer[inHand[r]])
  /\ GlobalLimitReached \/ SourceLimitReached(peer[inHand[r]])
  /\ DropInHand(r)
  /\ Goto(r, "poll")
  /\ UNCHANGED <<counters, slots, connections, gauge, stopping>>

AdmitSlot(r) ==
  /\ pc[r] = "accepted"
  /\ ~CidrRejects(peer[inHand[r]])
  /\ ~GlobalLimitReached
  /\ ~SourceLimitReached(peer[inHand[r]])
  /\ GrantSlot(inHand[r])
  /\ Goto(r, "admitted")
  /\ UNCHANGED <<inHand, peer, connections, gauge, stopping>>

(* Fault: an early return that keeps the slot. *)
DropAdmittedKeepsSlot(r) ==
  /\ pc[r] = "admitted"
  /\ DropInHand(r)
  /\ Goto(r, "poll")
  /\ UNCHANGED <<counters, slots, connections, gauge, stopping>>

(* Fault: an early return that lowers a gauge it has not raised. *)
DropAdmittedLowersGauge(r) ==
  /\ pc[r] = "admitted"
  /\ ReleaseSlot(inHand[r])
  /\ DropInHand(r)
  /\ gauge' = gauge - 1
  /\ Goto(r, "poll")
  /\ UNCHANGED <<connections, stopping>>

(* No TLS transport, or EPOLL_CTL_ADD failed: Reactor::admit returns and   *)
(* the admission dies with the local that owns it.                         *)
DropAdmitted(r) ==
  /\ pc[r] = "admitted"
  /\ ReleaseSlot(inHand[r])
  /\ DropInHand(r)
  /\ Goto(r, "poll")
  /\ UNCHANGED <<connections, gauge, stopping>>

InsertConnection(r) ==
  /\ pc[r] = "admitted"
  /\ connections' = [connections EXCEPT ![r] = @ \cup {inHand[r]}]
  /\ inHand' = [inHand EXCEPT ![r] = None]
  /\ Goto(r, "inserted")
  /\ UNCHANGED <<counters, peer, slots, gauge, stopping>>

RaiseGauge(r) ==
  /\ pc[r] = "inserted"
  /\ gauge' = gauge + 1
  /\ Goto(r, "poll")
  /\ UNCHANGED <<counters, inHand, peer, slots, connections, stopping>>

(* Reactor::close_connection: connections_.erase destroys the Connection,  *)
(* which releases the slot and then closes the descriptor.                 *)
EraseConnection(r, f) ==
  /\ pc[r] = "poll"
  /\ f \in connections[r]
  /\ connections' = [connections EXCEPT ![r] = @ \ {f}]
  /\ ReleaseSlot(f)
  /\ peer' = [peer EXCEPT ![f] = None]
  /\ Goto(r, "erased")
  /\ UNCHANGED <<inHand, gauge, stopping>>

LowerGauge(r) ==
  /\ pc[r] = "erased"
  /\ gauge' = gauge - 1
  /\ Goto(r, "poll")
  /\ UNCHANGED <<counters, inHand, peer, slots, connections, stopping>>

(* An allocation inside Reactor::admit throws: nothing between accept_ready *)
(* and run catches it, so unwinding drops what the thread holds and         *)
(* ServerState::fail stops the whole server.                                *)
FailInAdmit(r) ==
  /\ pc[r] \in {"accepted", "admitted"}
  /\ IF pc[r] = "admitted" THEN ReleaseSlot(inHand[r])
                           ELSE UNCHANGED <<counters, slots>>
  /\ DropInHand(r)
  /\ stopping' = TRUE
  /\ Goto(r, "exited")
  /\ UNCHANGED <<connections, gauge>>

(* Server::stop, or the failure of another reactor. *)
RequestStop ==
  /\ ~stopping
  /\ stopping' = TRUE
  /\ UNCHANGED <<counters, pc, inHand, peer, slots, connections, gauge>>

(* The loop tests the token once per turn, after all of its callbacks; the *)
(* connections stay in the table, closing but alive.                       *)
ExitLoop(r) ==
  /\ pc[r] = "poll"
  /\ stopping
  /\ Goto(r, "exited")
  /\ UNCHANGED <<counters, inHand, peer, slots, connections, gauge, stopping>>

(* Fault: the gauge is lowered by the size of the cleared table. *)
LowerGaugeAfterClear(r) ==
  /\ pc[r] = "exited"
  /\ \A q \in Reactors : pc[q] \in {"exited", "destroyed"}
  /\ Goto(r, "destroyed")
  /\ UNCHANGED <<counters, inHand, peer, slots, connections, gauge, stopping>>

(* ~Reactor, in Server::wait after every worker thread has been joined:    *)
(* the gauge drops by the size of the table, then the table is cleared one *)
(* connection at a time.                                                   *)
LowerGaugeByTable(r) ==
  /\ pc[r] = "exited"
  /\ \A q \in Reactors : pc[q] \in {"exited", "destroyed"}
  /\ gauge' = gauge - Cardinality(connections[r])
  /\ Goto(r, "destroyed")
  /\ UNCHANGED <<counters, inHand, peer, slots, connections, stopping>>

ClearOne(r, f) ==
  /\ pc[r] = "destroyed"
  /\ f \in connections[r]
  /\ connections' = [connections EXCEPT ![r] = @ \ {f}]
  /\ ReleaseSlot(f)
  /\ peer' = [peer EXCEPT ![f] = None]
  /\ UNCHANGED <<pc, inHand, gauge, stopping>>

ReactorStep(r) ==
  \/ \E f \in Fds, p \in Peers : Accept(r, f, p)
  \/ RejectCidr(r)
  \/ RejectLimit(r)
  \/ AdmitSlot(r)
  \/ DropAdmitted(r)
  \/ InsertConnection(r)
  \/ RaiseGauge(r)
  \/ \E f \in Fds : EraseConnection(r, f)
  \/ LowerGauge(r)
  \/ FailInAdmit(r)
  \/ ExitLoop(r)

Teardown(r) == LowerGaugeByTable(r) \/ \E f \in Fds : ClearOne(r, f)

(* Server::wait has returned. *)
Finished ==
  /\ \A r \in Reactors : pc[r] = "destroyed" /\ connections[r] = {}
  /\ UNCHANGED vars

Next ==
  \/ \E r \in Reactors : ReactorStep(r) \/ Teardown(r)
  \/ RequestStop
  \/ Finished

(* A reactor thread keeps running, and a turn of its loop is finite: it    *)
(* comes back to the test of the stop token again and again.               *)
Fairness ==
  \A r \in Reactors :
    /\ WF_vars(ReactorStep(r))
    /\ SF_vars(ExitLoop(r))
    /\ WF_vars(Teardown(r))

Spec == Init /\ [][Next]_vars /\ Fairness

-----------------------------------------------------------------------------
(* Properties *)

(* The counters never pass the configured limits, whatever the reactors do *)
(* at the same time.                                                       *)
LimitsHold ==
  /\ active <= MaxConnections
  /\ \A s \in Sources : SourceCount(s) <= MaxPerSource

SlotsOf(s) == {f \in slots : peer[f] = s}

(* The two counters count the same thing: the live slots, all of them and  *)
(* per source.  A source without a live slot has no entry, so the map does *)
(* not grow with the addresses ever seen.                                  *)
CountsExact ==
  /\ active = Cardinality(slots)
  /\ \A s \in Sources : SourceCount(s) = Cardinality(SlotsOf(s))
  /\ DOMAIN source_connections = {s \in Sources : SlotsOf(s) # {}}

(* Every live slot has an owner, a Connection in one table or a thread in  *)
(* the middle of Reactor::admit, and every such owner has its slot: no     *)
(* early return, exception or teardown leaks a slot or frees one twice.    *)
SlotsOwned ==
  slots = (UNION {connections[r] : r \in Reactors})
            \cup {inHand[r] : r \in {q \in Reactors : pc[q] = "admitted"}}

(* A descriptor is in the hands of one reactor only.                       *)
OneOwner ==
  \A q, r \in Reactors :
    /\ q # r => connections[q] \cap connections[r] = {}
    /\ q # r /\ inHand[q] # None => inHand[q] # inHand[r]
    /\ inHand[q] \notin connections[r]

(* Whenever no thread stands between a table and the gauge, the gauge is   *)
(* the number of connections in the tables.                                *)
GaugeExact ==
  (\A r \in Reactors : pc[r] \notin {"inserted", "erased", "destroyed"})
    => gauge = Cardinality(UNION {connections[r] : r \in Reactors})

(* Once a stop is requested, every slot comes back and the gauge returns   *)
(* to zero.                                                                *)
StopReleasesEverything ==
  stopping ~> (active = 0 /\ DOMAIN source_connections = {} /\ gauge = 0)

Held == [f \in slots |-> peer[f]]

Pool == INSTANCE SlotPool
          WITH Holders <- Fds, Anonymous <- Unix, Limit <- MaxConnections,
               PerSource <- MaxPerSource, held <- Held

(* The counters, the move-only admissions and the reactors' early returns, *)
(* exceptions and teardown implement a pool that grants and returns one    *)
(* slot at a time within both limits: a slot never changes its source      *)
(* while it is held, and no step of a reactor moves two.                   *)
ImplementsSlotPool == Pool!Spec
=============================================================================
