--------------------------- MODULE ReactorProofs ---------------------------
(***************************************************************************)
(* Proofs about Reactor, for any number of descriptors and producers and   *)
(* any length of behaviour (the bounds MaxStreams and MaxConns are any     *)
(* naturals).                                                              *)
(*                                                                         *)
(* The table of streams is proved consistent first.  That a wakeup is      *)
(* never lost rests on it: an id found in the list of notifications must   *)
(* lead to the one stream it was issued for.                               *)
(***************************************************************************)
EXTENDS Reactor, TLAPS

(* A callback of the reactor on one connection, as the table sees it.      *)
Callback(f) ==
  \/ CloseConnection(f) \/ StayBusy(f)
  \/ DriveStream(f) \/ MakeNotifierAndAttach(f)
  \/ UNCHANGED <<table, attached, backlog>>

(* The lists of a turn are empty outside the phase that works them off,    *)
(* and a producer inside notify() has its id.                              *)
Phases ==
  /\ connEvents # {} => rpc = "pass1"
  /\ expired # {} => rpc = "scan"
  /\ todo # <<>> => rpc = "wakeups"
  /\ \A p \in Producers : ppc[p] # "idle" => target[p] \in StreamIds

Feeding == {"parked", "blocked"}

(* A stream belongs to one live connection and is found from its id.       *)
StreamTable ==
  /\ \A f \in Fds :
       /\ mode[f] \in {"closed", "busy"} => stream[f] = 0
       /\ mode[f] \in Feeding \cup {"draining"} => stream[f] \in StreamIds
       /\ stream[f] < next_stream_id
       /\ \A i \in StreamIds :
            /\ streaming[i] = f <=> stream[f] = i
            /\ streaming[i] = f => owner[i] = gen[f]

Inv ==
  /\ TypeOK /\ Phases /\ StreamTable
  /\ AttachedWhileStreaming /\ EventsReachTheirConnection
  /\ OnePendingEntry /\ NoLostWakeup

-----------------------------------------------------------------------------
(* Types *)

TableTyped ==
  /\ mode \in [Fds -> Modes]
  /\ stream \in [Fds -> 0..MaxStreams]
  /\ streaming \in [StreamIds -> Fds \cup {NoFd}]
  /\ next_stream_id \in 1..(MaxStreams + 1)
  /\ gen \in [Fds -> 0..MaxConns]
  /\ owner \in [StreamIds -> 0..MaxConns]
  /\ attached \subseteq StreamIds
  /\ backlog \subseteq StreamIds

(* A callback keeps the types of the table.                                *)
LEMMA CallbackType ==
  ASSUME TypeOK, StreamTable, NEW f \in Fds, Callback(f)
  PROVE  TableTyped'
<1> USE ReactorAssumption DEF TypeOK, TableTyped, StreamIds, Modes
<1>1. CASE CloseConnection(f)
  <2>1. /\ mode' \in [Fds -> Modes]
        /\ streaming' \in [StreamIds -> Fds \cup {NoFd}]
    BY <1>1 DEF CloseConnection
  <2>2. stream' \in [Fds -> 0..MaxStreams] /\ gen' \in [Fds -> 0..MaxConns]
    BY <1>1 DEF CloseConnection
  <2> QED
    BY <1>1, <2>1, <2>2 DEF CloseConnection
<1>2. CASE StayBusy(f) \/ UNCHANGED <<table, attached, backlog>>
  BY <1>2 DEF StayBusy, table
<1>3. CASE DriveStream(f)
  BY <1>3 DEF DriveStream, StreamOutcome, PulledDry, SocketFull,
              SourceFinished
<1>4. CASE MakeNotifierAndAttach(f)
  <2>1. mode' \in [Fds -> Modes] /\ backlog' \subseteq StreamIds
    BY <1>4 DEF MakeNotifierAndAttach, StreamOutcome, PulledDry, SocketFull,
                SourceFinished
  <2>2. attached' \subseteq attached \cup {next_stream_id}
    BY <1>4 DEF MakeNotifierAndAttach, StreamOutcome, PulledDry, SocketFull,
                SourceFinished
  <2>3. /\ next_stream_id \in StreamIds /\ gen' = gen
        /\ next_stream_id' = next_stream_id + 1
        /\ streaming' = [streaming EXCEPT ![next_stream_id] = f]
        /\ stream' = [stream EXCEPT ![f] = next_stream_id]
        /\ owner' = [owner EXCEPT ![next_stream_id] = gen[f]]
    BY <1>4 DEF MakeNotifierAndAttach
  <2>4. next_stream_id' \in 1..(MaxStreams + 1)
    BY <2>3
  <2> QED
    BY <2>1, <2>2, <2>3, <2>4, SMTT(30)
<1> QED
  BY <1>1, <1>2, <1>3, <1>4 DEF Callback

(* A callback keeps the table of streams and the set of attached sources.  *)
LEMMA CallbackTable ==
  ASSUME TypeOK, StreamTable, AttachedWhileStreaming, NEW f \in Fds,
         Callback(f)
  PROVE  StreamTable' /\ AttachedWhileStreaming'
<1> USE ReactorAssumption
<1>0. TableTyped' /\ TableTyped
  BY CallbackType DEF TypeOK, TableTyped
<1>1. CASE CloseConnection(f)
  <2>1. StreamTable'
    BY <1>0, <1>1 DEF CloseConnection, StreamTable, TableTyped, StreamIds,
                      Feeding
  <2>2. \A g \in Fds : g # f /\ mode[g] \in Feeding => stream[g] # stream[f]
    BY <1>0 DEF StreamTable, TableTyped, Feeding
  <2>3. AttachedWhileStreaming'
    BY <1>0, <1>1, <2>2 DEF CloseConnection, AttachedWhileStreaming,
                            TableTyped, Feeding
  <2> QED
    BY <2>1, <2>3
<1>2. CASE StayBusy(f) \/ UNCHANGED <<table, attached, backlog>>
  BY <1>2 DEF StayBusy, table, StreamTable, AttachedWhileStreaming
<1>3. CASE DriveStream(f)
  <2>1. StreamTable'
    BY <1>0, <1>3 DEF DriveStream, StreamOutcome, PulledDry, SocketFull,
                      SourceFinished, StreamTable, TableTyped, Feeding
  <2>2. \A g \in Fds : g # f /\ mode[g] \in Feeding => stream[g] # stream[f]
    BY <1>0 DEF StreamTable, TableTyped, Feeding
  <2>3. AttachedWhileStreaming'
    BY <1>0, <1>3, <2>2
       DEF DriveStream, StreamOutcome, PulledDry, SocketFull, SourceFinished,
           AttachedWhileStreaming, TableTyped, Feeding
  <2> QED
    BY <2>1, <2>3
<1>4. CASE MakeNotifierAndAttach(f)
  <2>0. PICK i \in StreamIds : i = next_stream_id
    BY <1>4 DEF MakeNotifierAndAttach
  <2>1. /\ mode[f] = "busy" /\ stream[f] = 0
        /\ \A g \in Fds : stream[g] # i
        /\ \A j \in StreamIds : streaming[j] # f
        /\ i \in Nat \ {0} /\ i = next_stream_id
    BY <1>0, <1>4, <2>0 DEF MakeNotifierAndAttach, StreamTable, TableTyped,
                            StreamIds
  <2>2. /\ streaming' = [streaming EXCEPT ![i] = f]
        /\ stream' = [stream EXCEPT ![f] = i]
        /\ owner' = [owner EXCEPT ![i] = gen[f]]
        /\ next_stream_id' = i + 1 /\ gen' = gen
        /\ \E m \in Feeding \cup {"draining"} :
             /\ mode' = [mode EXCEPT ![f] = m]
             /\ attached' = IF m = "draining" THEN (attached \cup {i}) \ {i}
                                              ELSE attached \cup {i}
    BY <1>4, <2>0 DEF MakeNotifierAndAttach, StreamOutcome, PulledDry,
                      SocketFull, SourceFinished, Feeding
  <2>3. StreamTable'
    BY <1>0, <2>1, <2>2 DEF StreamTable, TableTyped, StreamIds, Feeding
  <2>4. AttachedWhileStreaming'
    BY <1>0, <2>1, <2>2 DEF AttachedWhileStreaming, TableTyped, Feeding
  <2> QED
    BY <2>3, <2>4
<1> QED
  BY <1>1, <1>2, <1>3, <1>4 DEF Callback

(* A producer's step keeps the types.                                      *)
LEMMA ProducerType ==
  ASSUME TypeOK, Phases, NEW p \in Producers,
         Notify(p) \/ \E i \in StreamIds : Produce(p, i)
  PROVE  TypeOK'
<1> USE ReactorAssumption DEF TypeOK, loop, table, wake
<1>0. 0 \in 0..MaxStreams /\ StreamIds \subseteq 0..MaxStreams
  BY DEF StreamIds
<1>1. ASSUME NEW i \in StreamIds, Produce(p, i)
      PROVE  TypeOK'
  BY <1>0, <1>1 DEF Produce
<1>2. ASSUME Return(p)
      PROVE  /\ ppc' \in [Producers -> {"idle", "notify", "push", "signal"}]
             /\ target' \in [Producers -> 0..MaxStreams]
  BY <1>0, <1>2 DEF Return
<1>3. CASE CheckAlive(p)
  <2>1. CASE alive
    BY <1>3, <2>1 DEF CheckAlive
  <2>2. CASE ~alive
    BY <1>2, <1>3, <2>2 DEF CheckAlive
  <2> QED
    BY <2>1, <2>2
<1>4. CASE PushPending(p)
  <2>1. target[p] \in StreamIds
    BY <1>4 DEF PushPending, Phases
  <2>2. pending_streams' \in Seq(StreamIds)
    BY <1>4, <2>1 DEF PushPending
  <2> QED
    BY <1>4, <2>2 DEF PushPending
<1>5. CASE SignalEventFd(p)
  <2>1. eventfd' \in BOOLEAN
    BY <1>5, Zenon DEF SignalEventFd
  <2> QED
    BY <1>2, <1>5, <2>1 DEF SignalEventFd
<1> QED
  BY <1>1, <1>3, <1>4, <1>5 DEF Notify

(* A step of the reactor keeps the types.                                  *)
LEMMA ReactorType ==
  ASSUME TypeOK, StreamTable, ReactorStep
  PROVE  TypeOK'
<1> USE ReactorAssumption DEF TypeOK, loop, table, wake, producer
<1>1. ASSUME NEW C \in SUBSET Fds, NEW O \in SUBSET {"eventfd", "listener"},
             EpollWait(C, O)
      PROVE  TypeOK'
  BY <1>1 DEF EpollWait
<1>2. ASSUME NEW f \in Fds, HandleConnectionEvent(f) \/ ExpireOne(f)
      PROVE  TypeOK'
  <2>1. Callback(f)
    BY <1>2 DEF HandleConnectionEvent, ExpireOne, Callback
  <2>2. TableTyped'
    BY <2>1, CallbackType
  <2> QED
    BY <1>2, <2>2 DEF HandleConnectionEvent, ExpireOne, TableTyped
<1>3. CASE EndFirstPass \/ EndScan
  <2>1. listed' \in [Fds -> 0..MaxConns]
    BY <1>3 DEF EndFirstPass, EndScan, Forget
  <2> QED
    BY <1>3, <2>1 DEF EndFirstPass, EndScan
<1>4. CASE DrainEventFd
  <2>1. eventfd' \in BOOLEAN
    BY <1>4, Zenon DEF DrainEventFd
  <2> QED
    BY <1>4, <2>1 DEF DrainEventFd
<1>5. CASE SwapPending
  BY <1>5 DEF SwapPending
<1>6. CASE HandleWakeup
  <2>1. todo' \in Seq(StreamIds)
    BY <1>6 DEF HandleWakeup
  <2>2. TableTyped'
    <3>1. streaming[Head(todo)] \in Fds \cup {NoFd}
      BY <1>6 DEF HandleWakeup
    <3>2. CASE streaming[Head(todo)] = NoFd
      BY <1>6, <3>2 DEF HandleWakeup, TableTyped
    <3>3. CASE streaming[Head(todo)] \in Fds
      BY <1>6, <3>3, CallbackType DEF HandleWakeup, Callback
    <3> QED
      BY <3>1, <3>2, <3>3
  <2> QED
    BY <1>6, <2>1, <2>2 DEF HandleWakeup, TableTyped
<1>7. CASE EndWakeups \/ BeginAccept \/ EndAccept
  <2>1. accepts' \in 0..MaxAccepts
    BY <1>7 DEF EndWakeups, BeginAccept, EndAccept
  <2> QED
    BY <1>7, <2>1 DEF EndWakeups, BeginAccept, EndAccept
<1>8. ASSUME NEW f \in Fds, AdmitConnection(f)
      PROVE  TypeOK'
  <2>1. accepted' \in 0..MaxConns /\ accepts' \in 0..MaxAccepts
    BY <1>8 DEF AdmitConnection
  <2>2. gen' \in [Fds -> 0..MaxConns] /\ mode' \in [Fds -> Modes]
    BY <1>8, <2>1 DEF AdmitConnection, Modes
  <2> QED
    BY <1>8, <2>1, <2>2 DEF AdmitConnection
<1>9. ASSUME NEW E \in SUBSET Fds, BeginScan(E)
      PROVE  TypeOK'
  BY <1>9 DEF BeginScan
<1>10. CASE LeaveLoop
  <2>1. stop' \in BOOLEAN /\ alive' \in BOOLEAN
    BY <1>10, Zenon DEF LeaveLoop
  <2>2. todo' \in Seq(StreamIds) /\ accepts' \in 0..MaxAccepts
    BY <1>10 DEF LeaveLoop
  <2>3. listed' \in [Fds -> 0..MaxConns]
    BY <1>10 DEF LeaveLoop, Forget
  <2> QED
    BY <1>10, <2>1, <2>2, <2>3 DEF LeaveLoop
<1>11. ASSUME NEW f \in Fds, ShutdownConnection(f)
       PROVE  TypeOK'
  BY <1>11 DEF ShutdownConnection, Modes
<1>12. CASE Exit
  BY <1>12 DEF Exit
<1> QED
  BY <1>1, <1>2, <1>3, <1>4, <1>5, <1>6, <1>7, <1>8, <1>9, <1>10, <1>11, <1>12
     DEF ReactorStep

(* Every step keeps the types.                                             *)
LEMMA TypeStep ==
  ASSUME TypeOK, Phases, StreamTable, [Next]_vars
  PROVE  TypeOK'
<1>1. CASE UNCHANGED vars
  BY <1>1 DEF TypeOK, vars, loop, table, wake, producer
<1>2. CASE RequestStop
  <2>1. stop' \in BOOLEAN /\ eventfd' \in BOOLEAN
    BY <1>2, Zenon DEF RequestStop
  <2> QED
    BY <1>2, <2>1 DEF TypeOK, RequestStop, loop, table, producer
<1> QED
  BY <1>1, <1>2, ReactorType, ProducerType DEF Next

-----------------------------------------------------------------------------
(* The tables *)

(* A step is a callback on one connection, an accept, a begin_close() at   *)
(* shutdown, or leaves the tables alone.                                   *)
LEMMA TableSteps ==
  ASSUME TypeOK, [Next]_vars
  PROVE  \/ \E f \in Fds : Callback(f)
         \/ \E f \in Fds : AdmitConnection(f)
         \/ \E f \in Fds : ShutdownConnection(f)
         \/ UNCHANGED <<table, attached>>
<1>1. CASE UNCHANGED vars \/ RequestStop
  BY <1>1 DEF vars, RequestStop
<1>2. ASSUME NEW p \in Producers,
             Notify(p) \/ \E i \in StreamIds : Produce(p, i)
      PROVE  UNCHANGED <<table, attached>>
  BY <1>2 DEF Notify, Produce, CheckAlive, PushPending, SignalEventFd
<1>3. ASSUME NEW f \in Fds, HandleConnectionEvent(f) \/ ExpireOne(f)
      PROVE  Callback(f)
  BY <1>3 DEF HandleConnectionEvent, ExpireOne, Callback
<1>4. CASE HandleWakeup
  <2>1. streaming[Head(todo)] \in Fds \cup {NoFd}
    BY <1>4 DEF TypeOK, HandleWakeup
  <2> QED
    BY <1>4, <2>1 DEF HandleWakeup, Callback
<1>5. CASE \/ \E C \in SUBSET Fds, O \in SUBSET {"eventfd", "listener"} :
                EpollWait(C, O)
           \/ EndFirstPass \/ DrainEventFd \/ SwapPending \/ EndWakeups
           \/ BeginAccept \/ EndAccept \/ EndScan \/ LeaveLoop \/ Exit
           \/ \E E \in SUBSET Fds : BeginScan(E)
  BY <1>5 DEF EpollWait, EndFirstPass, DrainEventFd, SwapPending, EndWakeups,
              BeginAccept, EndAccept, EndScan, LeaveLoop, Exit, BeginScan
<1> QED
  BY <1>1, <1>2, <1>3, <1>4, <1>5 DEF Next, ReactorStep

(* Every step keeps the table of streams and the set of attached sources.  *)
LEMMA StreamTableStep ==
  ASSUME TypeOK, StreamTable, AttachedWhileStreaming, [Next]_vars
  PROVE  StreamTable' /\ AttachedWhileStreaming'
<1> USE ReactorAssumption
<1>1. ASSUME NEW f \in Fds, Callback(f)
      PROVE  StreamTable' /\ AttachedWhileStreaming'
  BY <1>1, CallbackTable
<1>2. ASSUME NEW f \in Fds, AdmitConnection(f)
      PROVE  StreamTable' /\ AttachedWhileStreaming'
  <2>1. /\ mode[f] = "closed" /\ stream[f] = 0
        /\ \A i \in StreamIds : streaming[i] # f
    BY <1>2 DEF AdmitConnection, Open, StreamTable, StreamIds
  <2>2. StreamTable'
    BY <1>2, <2>1 DEF AdmitConnection, StreamTable, TypeOK, Feeding
  <2>3. AttachedWhileStreaming'
    BY <1>2, <2>1 DEF AdmitConnection, AttachedWhileStreaming, TypeOK
  <2> QED
    BY <2>2, <2>3
<1>3. ASSUME NEW f \in Fds, ShutdownConnection(f)
      PROVE  StreamTable' /\ AttachedWhileStreaming'
  <2>1. StreamTable'
    BY <1>3 DEF ShutdownConnection, StreamTable, TypeOK, Feeding
  <2>2. \A g \in Fds : g # f /\ mode[g] \in Feeding => stream[g] # stream[f]
    BY DEF StreamTable, TypeOK, Feeding
  <2>3. AttachedWhileStreaming'
    BY <1>3, <2>2 DEF ShutdownConnection, AttachedWhileStreaming, TypeOK,
                      Feeding
  <2> QED
    BY <2>1, <2>3
<1>4. CASE UNCHANGED <<table, attached>>
  BY <1>4 DEF StreamTable, AttachedWhileStreaming, table
<1> QED
  BY <1>1, <1>2, <1>3, <1>4, TableSteps

(* Every step empties a list before it leaves the list's phase.            *)
LEMMA PhasesStep ==
  ASSUME TypeOK, Phases, [Next]_vars
  PROVE  Phases'
<1> USE DEF Phases, TypeOK, loop, producer
<1>1. CASE UNCHANGED vars \/ RequestStop
  BY <1>1 DEF vars, RequestStop
<1>2. ASSUME NEW p \in Producers,
             Notify(p) \/ \E i \in StreamIds : Produce(p, i)
      PROVE  Phases'
  <2>1. ASSUME NEW i \in StreamIds, Produce(p, i)
        PROVE  Phases'
    BY <2>1 DEF Produce
  <2>2. CASE CheckAlive(p)
    BY <2>2 DEF CheckAlive, Return
  <2>3. CASE PushPending(p)
    BY <2>3 DEF PushPending
  <2>4. CASE SignalEventFd(p)
    BY <2>4 DEF SignalEventFd, Return
  <2> QED
    BY <1>2, <2>1, <2>2, <2>3, <2>4 DEF Notify
<1>3. ASSUME NEW f \in Fds, \/ HandleConnectionEvent(f) \/ ExpireOne(f)
                           \/ AdmitConnection(f) \/ ShutdownConnection(f)
      PROVE  Phases'
  BY <1>3 DEF HandleConnectionEvent, ExpireOne, AdmitConnection,
              ShutdownConnection
<1>4. CASE HandleWakeup \/ EndWakeups \/ BeginAccept \/ EndAccept
  BY <1>4 DEF HandleWakeup, EndWakeups, BeginAccept, EndAccept
<1>5. CASE EndFirstPass \/ DrainEventFd \/ SwapPending \/ EndScan
  BY <1>5 DEF EndFirstPass, DrainEventFd, SwapPending, EndScan
<1>6. CASE LeaveLoop \/ Exit
  BY <1>6 DEF LeaveLoop, Exit
<1>7. ASSUME NEW C \in SUBSET Fds, NEW O \in SUBSET {"eventfd", "listener"},
             EpollWait(C, O)
      PROVE  Phases'
  BY <1>7 DEF EpollWait
<1>8. ASSUME NEW E \in SUBSET Fds, BeginScan(E)
      PROVE  Phases'
  BY <1>8 DEF BeginScan
<1> QED
  BY <1>1, <1>2, <1>3, <1>4, <1>5, <1>6, <1>7, <1>8 DEF Next, ReactorStep

(* While a list is worked off connections close but none is accepted, so   *)
(* what is listed and open is the connection that was listed.              *)
LEMMA EventsStep ==
  ASSUME TypeOK, Phases, EventsReachTheirConnection, [Next]_vars
  PROVE  EventsReachTheirConnection'
<1> USE DEF EventsReachTheirConnection, Open
<1>1. ASSUME NEW f \in Fds, HandleConnectionEvent(f) \/ ExpireOne(f)
      PROVE  EventsReachTheirConnection'
  <2>1. /\ connEvents' \cup expired' \subseteq connEvents \cup expired
        /\ listed' = listed /\ f \notin connEvents' \cup expired'
        /\ connEvents \subseteq Fds /\ expired \subseteq Fds
    BY <1>1 DEF HandleConnectionEvent, ExpireOne, Phases, TypeOK
  <2>2. \A g \in Fds \ {f} : mode'[g] = mode[g] /\ gen'[g] = gen[g]
    BY <1>1 DEF HandleConnectionEvent, ExpireOne, CloseConnection, StayBusy,
                DriveStream, StreamOutcome, PulledDry, SocketFull,
                SourceFinished, MakeNotifierAndAttach, table, TypeOK
  <2> QED
    BY <2>1, <2>2
<1>2. ASSUME connEvents' = {}, expired' = {}
      PROVE  EventsReachTheirConnection'
  BY <1>2
<1>3. CASE HandleWakeup \/ EndWakeups \/ BeginAccept \/ EndAccept
  BY <1>2, <1>3 DEF HandleWakeup, EndWakeups, BeginAccept, EndAccept, Phases
<1>4. ASSUME NEW f \in Fds, AdmitConnection(f) \/ ShutdownConnection(f)
      PROVE  EventsReachTheirConnection'
  BY <1>2, <1>4 DEF AdmitConnection, ShutdownConnection, Phases, loop
<1>5. CASE EndFirstPass \/ DrainEventFd \/ SwapPending \/ EndScan \/ LeaveLoop
             \/ Exit
  BY <1>2, <1>5 DEF EndFirstPass, DrainEventFd, SwapPending, EndScan,
                    LeaveLoop, Exit, Phases
<1>6. ASSUME NEW C \in SUBSET Fds, NEW O \in SUBSET {"eventfd", "listener"},
             EpollWait(C, O)
      PROVE  EventsReachTheirConnection'
  BY <1>6 DEF EpollWait, table
<1>7. ASSUME NEW E \in SUBSET Fds, BeginScan(E)
      PROVE  EventsReachTheirConnection'
  BY <1>7 DEF BeginScan, table, Phases
<1>8. ASSUME UNCHANGED <<loop, table>>
      PROVE  EventsReachTheirConnection'
  BY <1>8 DEF loop, table
<1>9. CASE UNCHANGED vars \/ RequestStop
  BY <1>8, <1>9 DEF vars, RequestStop
<1>10. ASSUME NEW p \in Producers,
              Notify(p) \/ \E i \in StreamIds : Produce(p, i)
       PROVE  EventsReachTheirConnection'
  BY <1>8, <1>10 DEF Notify, Produce, CheckAlive, PushPending, SignalEventFd
<1> QED
  BY <1>1, <1>3, <1>4, <1>5, <1>6, <1>7, <1>9, <1>10 DEF Next, ReactorStep

-----------------------------------------------------------------------------
(* Wakeups *)

(* Only PushPending adds to the list, and only an id that is not in it.    *)
LEMMA PendingStep ==
  ASSUME TypeOK, Phases, OnePendingEntry, [Next]_vars
  PROVE  OnePendingEntry'
<1>1. ASSUME NEW p \in Producers, PushPending(p)
      PROVE  OnePendingEntry'
  <2>1. CASE IsPending(target[p])
    BY <1>1, <2>1 DEF PushPending, OnePendingEntry
  <2>2. CASE ~IsPending(target[p])
    <3>1. /\ target[p] \in StreamIds
          /\ pending_streams' = Append(pending_streams, target[p])
          /\ pending_streams \in Seq(StreamIds)
      BY <1>1, <2>2 DEF PushPending, Phases, TypeOK
    <3>2. /\ Len(pending_streams') = Len(pending_streams) + 1
          /\ Len(pending_streams) \in Nat
          /\ pending_streams'[Len(pending_streams) + 1] = target[p]
          /\ \A k \in 1..Len(pending_streams) :
               /\ pending_streams'[k] = pending_streams[k]
               /\ pending_streams[k] # target[p]
      BY <2>2, <3>1 DEF IsPending
    <3> QED
      BY <3>2 DEF OnePendingEntry
  <2> QED
    BY <2>1, <2>2
<1>2. CASE SwapPending
  BY <1>2 DEF SwapPending, OnePendingEntry
<1>3. ASSUME UNCHANGED pending_streams
      PROVE  OnePendingEntry'
  BY <1>3 DEF OnePendingEntry
<1>4. ASSUME NEW p \in Producers, ~PushPending(p),
             Notify(p) \/ \E i \in StreamIds : Produce(p, i)
      PROVE  UNCHANGED pending_streams
  BY <1>4 DEF Notify, Produce, CheckAlive, SignalEventFd, wake
<1>5. ASSUME ReactorStep, ~SwapPending
      PROVE  UNCHANGED pending_streams
  BY <1>5 DEF ReactorStep, EpollWait, HandleConnectionEvent, EndFirstPass,
              DrainEventFd, HandleWakeup, EndWakeups, BeginAccept,
              AdmitConnection, EndAccept, BeginScan, ExpireOne, EndScan,
              LeaveLoop, ShutdownConnection, Exit, wake
<1> QED
  BY <1>1, <1>2, <1>3, <1>4, <1>5 DEF Next, RequestStop, vars, wake

Wanted(f) == mode[f] = "parked" /\ stream[f] \in backlog

(* A callback parks no stream whose source has data: what was parked with  *)
(* data and still is, is another connection's, or nothing has happened.    *)
LEMMA CallbackWanted ==
  ASSUME TypeOK, StreamTable, NEW f \in Fds, Callback(f),
         NEW g \in Fds, Wanted(g)'
  PROVE  /\ Wanted(g) /\ stream'[g] = stream[g]
         /\ g = f => ~CloseConnection(f) /\ ~DriveStream(f)
<1>1. CASE CloseConnection(f)
  BY <1>1 DEF CloseConnection, Wanted, TypeOK
<1>2. CASE StayBusy(f)
  BY <1>2 DEF StayBusy, Wanted, CloseConnection, DriveStream, TypeOK, table
<1>3. CASE DriveStream(f)
  <2>1. /\ stream' = stream
        /\ backlog' \subseteq backlog
        /\ \A x \in Fds \ {f} : mode'[x] = mode[x]
        /\ mode'[f] = "parked" => stream[f] \notin backlog'
    BY <1>3 DEF DriveStream, StreamOutcome, PulledDry, SocketFull,
                SourceFinished, TypeOK
  <2> QED
    BY <2>1 DEF Wanted
<1>4. CASE MakeNotifierAndAttach(f)
  <2>1. /\ backlog' \subseteq backlog
        /\ \A x \in Fds \ {f} : mode'[x] = mode[x] /\ stream'[x] = stream[x]
        /\ mode'[f] = "parked" => stream'[f] \notin backlog'
    BY <1>4 DEF MakeNotifierAndAttach, StreamOutcome, PulledDry, SocketFull,
                SourceFinished, TypeOK
  <2> QED
    BY <2>1 DEF Wanted
<1>5. CASE UNCHANGED <<table, attached, backlog>>
  <2>1. /\ Wanted(g) /\ stream'[g] = stream[g]
        /\ mode' = mode /\ mode[g] = "parked"
    BY <1>5 DEF Wanted, table
  <2>2. ~CloseConnection(g)
    BY <2>1 DEF CloseConnection, TypeOK
  <2>3. ~DriveStream(g)
    BY <1>5, <2>1 DEF DriveStream, StreamOutcome, PulledDry, SocketFull,
                      SourceFinished, TypeOK, Wanted
  <2> QED
    BY <2>1, <2>2, <2>3
<1> QED
  BY <1>1, <1>2, <1>3, <1>4, <1>5 DEF Callback

(* A step that leaves the wakeups under way alone keeps a wakeup coming.   *)
LEMMA SameWakeups ==
  ASSUME NEW i, WakeComing(i),
         UNCHANGED <<pending_streams, eventfd, todo, ppc, target>>,
         rpc \notin {"swap", "wakeups"} \/ rpc' = rpc
  PROVE  WakeComing(i)'
BY DEF WakeComing, IsPending, IsTodo

(* A producer moves its own wakeup on and disturbs no other.               *)
LEMMA ProducerWakeups ==
  ASSUME TypeOK, Phases, alive, NEW p \in Producers, Notify(p),
         NEW i \in StreamIds, WakeComing(i)
  PROVE  WakeComing(i)'
<1>1. CASE CheckAlive(p)
  <2>1. /\ ppc' = [ppc EXCEPT ![p] = "push"] /\ ppc[p] = "notify"
        /\ UNCHANGED <<target, pending_streams, eventfd, rpc, todo>>
    BY <1>1 DEF CheckAlive, loop, wake
  <2> QED
    BY <2>1 DEF WakeComing, IsPending, IsTodo, TypeOK
<1>2. CASE PushPending(p)
  <2>1. /\ ppc' = [ppc EXCEPT ![p] = "signal"] /\ ppc[p] = "push"
        /\ ppc'[p] = "signal"
        /\ UNCHANGED <<target, eventfd, rpc, todo>>
        /\ target[p] \in StreamIds
    BY <1>2 DEF PushPending, loop, TypeOK, Phases
  <2>2. ASSUME IsPending(i)
        PROVE  IsPending(i)'
    <3>1. PICK k \in 1..Len(pending_streams) : pending_streams[k] = i
      BY <2>2 DEF IsPending
    <3>2. pending_streams \in Seq(StreamIds)
      BY DEF TypeOK
    <3>3. k \in 1..Len(pending_streams') /\ pending_streams'[k] = i
      BY <1>2, <2>1, <3>1, <3>2 DEF PushPending
    <3> QED
      BY <3>3 DEF IsPending
  <2>3. IsPending(target[p])'
    <3>1. CASE IsPending(target[p])
      BY <1>2, <2>1, <3>1 DEF PushPending, IsPending
    <3>2. CASE ~IsPending(target[p])
      <4>1. /\ pending_streams' = Append(pending_streams, target[p])
            /\ pending_streams \in Seq(StreamIds)
        BY <1>2, <3>2 DEF PushPending, TypeOK
      <4>2. /\ Len(pending_streams') \in Nat \ {0}
            /\ pending_streams'[Len(pending_streams')] = target[p]
        BY <2>1, <4>1
      <4> QED
        BY <2>1, <4>2 DEF IsPending
    <3> QED
      BY <3>1, <3>2
  <2> QED
    BY <2>1, <2>2, <2>3 DEF WakeComing, IsTodo, TypeOK
<1>3. CASE SignalEventFd(p)
  <2>1. /\ ppc' = [ppc EXCEPT ![p] = "idle"] /\ ppc[p] = "signal"
        /\ target' = [target EXCEPT ![p] = 0]
        /\ eventfd'
        /\ UNCHANGED <<pending_streams, rpc, todo>>
    BY <1>3 DEF SignalEventFd, Return, loop
  <2> QED
    BY <2>1 DEF WakeComing, IsPending, IsTodo, TypeOK
<1> QED
  BY <1>1, <1>2, <1>3 DEF Notify

(* Every step keeps a wakeup coming for every parked stream with data.     *)
LEMMA WakeStep ==
  ASSUME TypeOK, Phases, StreamTable, NoLostWakeup, [Next]_vars
  PROVE  NoLostWakeup'
<1> USE ReactorAssumption
<1>a. TypeOK'
  BY TypeStep
<1> SUFFICES ASSUME alive', NEW g \in Fds, Wanted(g)',
                    NEW i \in StreamIds, i = stream'[g]
             PROVE  WakeComing(i)'
  BY <1>a DEF NoLostWakeup, Wanted, TypeOK
<1>0. alive
  BY DEF Next, vars, ReactorStep, Notify, Produce, CheckAlive, PushPending,
         SignalEventFd, RequestStop, EpollWait, HandleConnectionEvent,
         EndFirstPass, DrainEventFd, SwapPending, HandleWakeup, EndWakeups,
         BeginAccept, AdmitConnection, EndAccept, BeginScan, ExpireOne,
         EndScan, LeaveLoop, ShutdownConnection, Exit, wake
<1>1. ASSUME Wanted(g), stream'[g] = stream[g]
      PROVE  WakeComing(i) /\ i = stream[g]
  BY <1>0, <1>1 DEF NoLostWakeup, Wanted
<1>2. ASSUME UNCHANGED <<mode, stream, backlog>>
      PROVE  WakeComing(i) /\ i = stream[g]
  BY <1>1, <1>2 DEF Wanted
<1>3. CASE UNCHANGED vars \/ RequestStop
  <2>1. /\ UNCHANGED <<mode, stream, backlog, pending_streams, todo, ppc,
                       target, rpc>>
        /\ eventfd' \/ eventfd' = eventfd
    BY <1>3 DEF vars, RequestStop, table, loop, wake, producer
  <2> QED
    BY <1>2, <2>1 DEF WakeComing, IsPending, IsTodo
<1>4. ASSUME NEW p \in Producers, NEW j \in StreamIds, Produce(p, j)
      PROVE  WakeComing(i)'
  <2>1. /\ UNCHANGED <<mode, stream, pending_streams, todo, eventfd, rpc>>
        /\ backlog' = backlog \cup {j}
        /\ ppc[p] = "idle" /\ ppc' = [ppc EXCEPT ![p] = "notify"]
        /\ target' = [target EXCEPT ![p] = j]
        /\ ppc'[p] = "notify" /\ target'[p] = j
    BY <1>4 DEF Produce, table, loop, wake, TypeOK
  <2>2. CASE i = j
    BY <2>1, <2>2 DEF WakeComing
  <2>3. CASE i # j
    <3>1. WakeComing(i)
      BY <1>1, <2>1, <2>3 DEF Wanted
    <3> QED
      BY <2>1, <3>1 DEF WakeComing, IsPending, IsTodo, TypeOK
  <2> QED
    BY <2>2, <2>3
<1>5. ASSUME NEW p \in Producers, Notify(p)
      PROVE  WakeComing(i)'
  <2>1. UNCHANGED <<mode, stream, backlog>>
    BY <1>5 DEF Notify, CheckAlive, PushPending, SignalEventFd, table
  <2> QED
    BY <1>0, <1>2, <1>5, <2>1, ProducerWakeups
<1>6. ASSUME NEW f \in Fds, HandleConnectionEvent(f) \/ ExpireOne(f)
      PROVE  WakeComing(i)'
  <2>1. /\ Callback(f)
        /\ UNCHANGED <<pending_streams, eventfd, todo, ppc, target, rpc>>
    BY <1>6 DEF HandleConnectionEvent, ExpireOne, Callback, wake, producer
  <2>2. Wanted(g) /\ stream'[g] = stream[g]
    BY <2>1, CallbackWanted
  <2> QED
    BY <1>1, <2>1, <2>2, SameWakeups
<1>7. CASE \/ \E C \in SUBSET Fds, O \in SUBSET {"eventfd", "listener"} :
                EpollWait(C, O)
           \/ EndFirstPass \/ BeginAccept \/ EndAccept \/ EndScan \/ Exit
           \/ \E E \in SUBSET Fds : BeginScan(E)
  <2>1. /\ UNCHANGED <<mode, stream, backlog>>
        /\ UNCHANGED <<pending_streams, eventfd, todo, ppc, target>>
        /\ rpc \notin {"swap", "wakeups"}
    BY <1>7 DEF EpollWait, EndFirstPass, BeginAccept, EndAccept, EndScan,
                Exit, BeginScan, table, wake, producer
  <2> QED
    BY <1>2, <2>1, SameWakeups
<1>8. ASSUME NEW f \in Fds, AdmitConnection(f) \/ ShutdownConnection(f)
      PROVE  WakeComing(i)'
  <2>1. /\ Wanted(g) /\ stream' = stream
        /\ UNCHANGED <<pending_streams, eventfd, todo, ppc, target, rpc>>
    BY <1>8 DEF AdmitConnection, ShutdownConnection, Wanted, loop, wake,
                producer, TypeOK
  <2> QED
    BY <1>1, <2>1, SameWakeups
<1>9. CASE DrainEventFd
  <2>1. /\ UNCHANGED <<mode, stream, backlog, pending_streams, todo, ppc,
                       target>>
        /\ rpc = "pass2" /\ rpc' = "swap"
    BY <1>9 DEF DrainEventFd, table, producer
  <2> QED
    BY <1>2, <2>1 DEF WakeComing, IsPending, IsTodo
<1>10. CASE SwapPending
  <2>1. /\ UNCHANGED <<mode, stream, backlog, eventfd, ppc, target>>
        /\ todo' = pending_streams /\ rpc = "swap" /\ rpc' = "wakeups"
    BY <1>10 DEF SwapPending, table, producer
  <2> QED
    BY <1>2, <2>1 DEF WakeComing, IsPending, IsTodo
<1>11. CASE HandleWakeup
  <2>0. PICK j \in StreamIds, f \in Fds \cup {NoFd} :
           j = Head(todo) /\ f = streaming[j]
    BY <1>11 DEF HandleWakeup, TypeOK
  <2>1. /\ UNCHANGED <<pending_streams, eventfd, ppc, target, rpc>>
        /\ todo # <<>> /\ todo' = Tail(todo) /\ rpc = "wakeups"
    BY <1>11 DEF HandleWakeup, wake, producer
  <2>2. Wanted(g) /\ stream'[g] = stream[g] /\ stream[g] # j
    <3>1. CASE f = NoFd
      <4>1. UNCHANGED <<mode, stream, backlog>>
        BY <1>11, <2>0, <3>1 DEF HandleWakeup, table
      <4> QED
        BY <2>0, <3>1, <4>1 DEF Wanted, StreamTable
    <3>2. CASE f \in Fds
      <4>1. CloseConnection(f) \/ DriveStream(f)
        BY <1>11, <2>0, <3>2 DEF HandleWakeup
      <4>2. Callback(f)
        BY <4>1 DEF Callback
      <4>3. Wanted(g) /\ stream'[g] = stream[g] /\ g # f
        BY <3>2, <4>1, <4>2, CallbackWanted
      <4> QED
        BY <2>0, <4>3 DEF StreamTable
    <3> QED
      BY <2>0, <3>1, <3>2
  <2>3. ASSUME IsTodo(i)
        PROVE  IsTodo(i)'
    <3>1. PICK k \in 1..Len(todo) : todo[k] = i
      BY <2>3 DEF IsTodo
    <3>2. todo \in Seq(StreamIds) /\ k # 1
      BY <2>0, <2>1, <2>2, <3>1, SMTT(30) DEF TypeOK
    <3>3. k - 1 \in 1..Len(todo') /\ todo'[k - 1] = i
      BY <2>1, <3>1, <3>2
    <3> QED
      BY <3>3 DEF IsTodo
  <2>4. WakeComing(i)
    BY <1>1, <2>2
  <2> QED
    BY <2>1, <2>3, <2>4 DEF WakeComing, IsPending
<1>12. CASE EndWakeups
  <2>1. /\ UNCHANGED <<mode, stream, backlog, pending_streams, eventfd, ppc,
                       target>>
        /\ rpc = "wakeups" /\ todo = <<>>
    BY <1>12 DEF EndWakeups, table, wake, producer
  <2> QED
    BY <1>2, <2>1 DEF WakeComing, IsPending, IsTodo
<1>13. ~LeaveLoop
  BY DEF LeaveLoop
<1> QED
  BY <1>3, <1>4, <1>5, <1>6, <1>7, <1>8, <1>9, <1>10, <1>11, <1>12, <1>13
     DEF Next, ReactorStep

-----------------------------------------------------------------------------
(* The theorems *)

(* The inductive invariant.                                                *)
THEOREM Invariance == Spec => []Inv
<1>1. Init => Inv
  <2> SUFFICES ASSUME Init
               PROVE  Inv
    OBVIOUS
  <2> USE ReactorAssumption
  <2>1. TypeOK
    <3>1. eventfd \in BOOLEAN /\ alive \in BOOLEAN /\ stop \in BOOLEAN
      BY Zenon DEF Init
    <3>2. /\ todo \in Seq(StreamIds) /\ pending_streams \in Seq(StreamIds)
          /\ next_stream_id \in 1..(MaxStreams + 1)
          /\ accepts \in 0..MaxAccepts /\ accepted \in 0..MaxConns
      BY DEF Init
    <3>3. /\ mode \in [Fds -> Modes]
          /\ stream \in [Fds -> 0..MaxStreams]
          /\ streaming \in [StreamIds -> Fds \cup {NoFd}]
          /\ gen \in [Fds -> 0..MaxConns] /\ listed \in [Fds -> 0..MaxConns]
          /\ owner \in [StreamIds -> 0..MaxConns]
      BY DEF Init, Modes
    <3>4. /\ ppc \in [Producers -> {"idle", "notify", "push", "signal"}]
          /\ target \in [Producers -> 0..MaxStreams]
      BY DEF Init
    <3> QED
      BY <3>1, <3>2, <3>3, <3>4 DEF Init, TypeOK
  <2>2. Phases /\ EventsReachTheirConnection /\ OnePendingEntry
    BY DEF Init, Phases, EventsReachTheirConnection, OnePendingEntry
  <2>3. StreamTable
    BY DEF Init, StreamTable, StreamIds, Feeding
  <2>4. AttachedWhileStreaming /\ NoLostWakeup
    BY DEF Init, AttachedWhileStreaming, NoLostWakeup
  <2> QED
    BY <2>1, <2>2, <2>3, <2>4 DEF Inv
<1>2. Inv /\ [Next]_vars => Inv'
  BY TypeStep, PhasesStep, StreamTableStep, EventsStep, PendingStep, WakeStep
     DEF Inv
<1> QED
  BY <1>1, <1>2, PTL DEF Spec

(* Type correctness of the loop, the tables and WakeState.                 *)
THEOREM TypeCorrect == Spec => []TypeOK
<1>1. Inv => TypeOK
  BY DEF Inv
<1> QED
  BY <1>1, Invariance, PTL

(* The order push, signal against drain, swap loses no wakeup, however     *)
(* producers and reactor interleave.                                       *)
THEOREM WakeupsNotLost == Spec => []NoLostWakeup
<1>1. Inv => NoLostWakeup
  BY DEF Inv
<1> QED
  BY <1>1, Invariance, PTL

(* An id in streaming_ leads to the connection that attached it, never to  *)
(* the next one on the same descriptor.                                    *)
THEOREM StreamIdsExact == Spec => []StreamMapExact
<1>1. Inv => StreamMapExact
  BY DEF Inv, TypeOK, StreamTable, StreamMapExact, Open, StreamIds
<1> QED
  BY <1>1, Invariance, PTL

(* The two passes and the collected scan keep an event from reaching a     *)
(* connection accepted after the event was collected.                      *)
THEOREM EventsNotMisdelivered == Spec => []EventsReachTheirConnection
<1>1. Inv => EventsReachTheirConnection
  BY DEF Inv
<1> QED
  BY <1>1, Invariance, PTL

(* Sources hold their notifiers exactly while their connections stream.    *)
THEOREM SourcesDetached == Spec => []AttachedWhileStreaming
<1>1. Inv => AttachedWhileStreaming
  BY DEF Inv
<1> QED
  BY <1>1, Invariance, PTL

(* The list of notifications holds each stream once at most.               *)
THEOREM PendingListDistinct == Spec => []OnePendingEntry
<1>1. Inv => OnePendingEntry
  BY DEF Inv
<1> QED
  BY <1>1, Invariance, PTL

-----------------------------------------------------------------------------
(* The reactor implements StreamHost *)

(* Notifications are refused only once the loop is left. *)
AliveInLoop == alive \/ rpc \in {"shutdown", "exited"}

(* A reactor that takes notifications took them before. *)
LEMMA AliveStep ==
  ASSUME AliveInLoop, [Next]_vars
  PROVE  AliveInLoop' /\ (alive' => alive)
BY DEF AliveInLoop, Next, vars, ReactorStep, Notify, Produce, CheckAlive, PushPending,
       SignalEventFd, RequestStop, EpollWait, HandleConnectionEvent,
       EndFirstPass, DrainEventFd, SwapPending, HandleWakeup, EndWakeups,
       BeginAccept, AdmitConnection, EndAccept, BeginScan, ExpireOne,
       EndScan, LeaveLoop, ShutdownConnection, Exit, wake, loop

(* An attached stream is found from its id, on a connection that streams.  *)
LEMMA Seated ==
  ASSUME Inv
  PROVE  /\ \A i \in attached :
              /\ i \in StreamIds /\ i < next_stream_id
              /\ streaming[i] \in Fds /\ stream[streaming[i]] = i
              /\ mode[streaming[i]] \in Feeding
         /\ \A f \in Fds : mode[f] \in Feeding => stream[f] \in attached
         /\ \A f \in Fds : mode[f] \notin Feeding => stream[f] \notin attached
<1>1. /\ attached = {stream[f] : f \in {g \in Fds : mode[g] \in Feeding}}
      /\ StreamTable /\ attached \subseteq StreamIds /\ stream \in [Fds -> 0..MaxStreams]
  BY DEF Inv, TypeOK, AttachedWhileStreaming, Feeding
<1>2. ASSUME NEW i \in attached
      PROVE  /\ i \in StreamIds /\ i < next_stream_id
             /\ streaming[i] \in Fds /\ stream[streaming[i]] = i
             /\ mode[streaming[i]] \in Feeding
  <2>1. PICK f \in Fds : mode[f] \in Feeding /\ stream[f] = i
    BY <1>1
  <2> QED
    BY <1>1, <2>1 DEF StreamTable
<1>3. ASSUME NEW f \in Fds, mode[f] \notin Feeding, stream[f] \in attached
      PROVE  FALSE
  <2>1. PICK g \in Fds : mode[g] \in Feeding /\ stream[g] = stream[f]
    BY <1>1, <1>3
  <2>2. stream[f] \in StreamIds /\ streaming[stream[f]] = f /\ streaming[stream[f]] = g
    BY <1>1, <1>3, <2>1 DEF StreamTable
  <2> QED
    BY <1>3, <2>1, <2>2
<1> QED
  BY <1>1, <1>2, <1>3

(* What a step leaves alone of a stream's host. *)
LEMMA HostStays ==
  ASSUME NEW j \in StreamIds, j \in attached' <=> j \in attached,
         j < next_stream_id' <=> j < next_stream_id,
         j \in attached => mode'[streaming'[j]] = mode[streaming[j]]
  PROVE  HostOf(j)' = HostOf(j)
BY DEF HostOf

(* The mapping changes only where the host of some stream does. *)
LEMMA HostsStay ==
  ASSUME \A j \in StreamIds : HostOf(j)' = HostOf(j)
  PROVE  Hosts' = Hosts
BY DEF Hosts

(* Only stream i moves. *)
Turns(i, h) ==
  /\ Hosts' = [Hosts EXCEPT ![i] = h]
  /\ attached' \ {i} = attached \ {i}
  /\ backlog' \ {i} = backlog \ {i}
  /\ h = "parked" => i \notin backlog'
  /\ h = "over" => i \notin attached'

(* A step that changes what there is to know of stream i alone. *)
LEMMA HostTurns ==
  ASSUME NEW i \in StreamIds, NEW h, HostOf(i)' = h,
         \A j \in StreamIds : j # i => HostOf(j)' = HostOf(j),
         attached' \ {i} = attached \ {i}, backlog' \ {i} = backlog \ {i},
         h = "parked" => i \notin backlog',
         h = "over" => i \notin attached'
  PROVE  Turns(i, h)
<1>1. Hosts' = [Hosts EXCEPT ![i] = h]
  BY DEF Hosts
<1> QED
  BY <1>1 DEF Turns

(* close_connection and begin_close end the stream of a connection. *)
LEMMA CloseTurns ==
  ASSUME Inv, NEW f \in Fds, attached' = attached \ {stream[f]}, backlog' = backlog,
         next_stream_id' = next_stream_id,
         \A g \in Fds : g # f => mode'[g] = mode[g],
         \A j \in StreamIds : streaming[j] # f => streaming'[j] = streaming[j]
  PROVE  \/ Hosts' = Hosts /\ attached' = attached
         \/ /\ mode[f] \in Feeding /\ stream[f] \in StreamIds /\ stream[f] \in attached
            /\ Turns(stream[f], "over")
<1> DEFINE i == stream[f]
<1>0. TypeOK /\ StreamTable
  BY DEF Inv
<1>1. ASSUME NEW j \in StreamIds, j # stream[f]
      PROVE  HostOf(j)' = HostOf(j)
  <2>1. j \in attached => streaming[j] \in Fds /\ stream[streaming[j]] = j
    BY Seated
  <2>2. j \in attached => streaming[j] # f /\ streaming'[j] = streaming[j]
    BY <1>1, <2>1
  <2>3. j \in attached => mode'[streaming'[j]] = mode[streaming[j]]
    BY <2>1, <2>2
  <2> QED
    BY <1>1, <2>3, HostStays
<1>2. CASE mode[f] \in Feeding
  <2>1. i \in StreamIds /\ i \in attached /\ i < next_stream_id
    BY <1>2, Seated
  <2>2. PICK k \in StreamIds : k = stream[f]
    BY <2>1
  <2>3. HostOf(k)' = "over"
    BY <2>1, <2>2 DEF HostOf
  <2>4. Turns(k, "over")
    BY <1>1, <2>2, <2>3, HostTurns
  <2> QED
    BY <1>2, <2>1, <2>2, <2>4
<1>3. CASE mode[f] \notin Feeding
  <2>1. i \notin attached
    BY <1>3, Seated
  <2>2. attached' = attached
    BY <2>1
  <2>3. ASSUME NEW j \in StreamIds
        PROVE  HostOf(j)' = HostOf(j)
    <3>1. CASE j # i
      BY <1>1, <3>1
    <3>2. CASE j = i
      BY <2>1, <2>2, <3>2, HostStays
    <3> QED
      BY <3>1, <3>2
  <2> QED
    BY <2>2, <2>3, HostsStay
<1> QED
  BY <1>2, <1>3

(* A turn of a stream that a connection has, or the first one. *)
LEMMA OutcomeTurns ==
  ASSUME Inv, NEW f \in Fds, NEW i \in StreamIds, NEW sources,
         sources \ {i} = attached \ {i}, i \in sources,
         StreamOutcome(f, i, sources),
         streaming'[i] = f, i < next_stream_id',
         \A j \in StreamIds : j # i => /\ streaming'[j] = streaming[j]
                                       /\ j \in attached => streaming[j] # f
                                       /\ j < next_stream_id' <=> j < next_stream_id
  PROVE  /\ \E h \in {"parked", "blocked", "over"} : Turns(i, h)
         /\ i \in backlog' => i \in backlog
<1>0. mode \in [Fds -> Modes]
  BY DEF Inv, TypeOK
<1>1. /\ \A g \in Fds : g # f => mode'[g] = mode[g]
      /\ attached' \ {i} = attached \ {i} /\ backlog' \ {i} = backlog \ {i}
      /\ backlog' \subseteq backlog
      /\ \/ mode'[f] = "parked" /\ i \in attached' /\ i \notin backlog'
         \/ mode'[f] = "blocked" /\ i \in attached'
         \/ i \notin attached'
  BY <1>0 DEF StreamOutcome, PulledDry, SocketFull, SourceFinished
<1>2. ASSUME NEW j \in StreamIds, j # i
      PROVE  HostOf(j)' = HostOf(j)
  <2>1. j \in attached => mode'[streaming'[j]] = mode[streaming[j]]
    BY <1>1, <1>2, Seated
  <2>2. j \in attached' <=> j \in attached
    BY <1>1, <1>2
  <2> QED
    BY <1>2, <2>1, <2>2, HostStays
<1>3. HostOf(i)' = IF i \in attached' THEN mode'[f] ELSE "over"
  BY DEF HostOf
<1>4. PICK h \in {"parked", "blocked", "over"} :
        /\ HostOf(i)' = h /\ (h = "parked" => i \notin backlog')
        /\ (h = "over" => i \notin attached')
  BY <1>1, <1>3
<1>5. Turns(i, h)
  BY <1>1, <1>2, <1>4, HostTurns
<1> QED
  BY <1>1, <1>5

(* Whether a wakeup is coming for j is as before. *)
SameBell(j) == WakeComing(j)' <=> WakeComing(j)

Still == UNCHANGED <<Hosts, Waiting, Ringing, alive>>

(* The moves of the contract. *)
LEMMA TurnsMove ==
  ASSUME NEW i \in StreamIds, NEW h, Turns(i, h), alive' = alive,
         attached \subseteq StreamIds,
         \A j \in StreamIds : j # i => SameBell(j)
  PROVE  Host!Moves(i, h)
<1>1. Waiting' \ {i} = Waiting \ {i}
  BY DEF Turns, Waiting
<1>2. Ringing' \ {i} = Ringing \ {i}
  BY DEF Turns, Ringing, SameBell
<1>3. /\ h = "parked" => i \notin Waiting'
      /\ h = "over" => i \notin Waiting' /\ i \notin Ringing'
  BY DEF Turns, Waiting, Ringing
<1> QED
  BY <1>1, <1>2, <1>3 DEF Turns, Host!Moves, Host!Others

(* An attached stream is hosted as its connection is parked. *)
LEMMA AtHost ==
  ASSUME Inv, NEW i \in attached
  PROVE  i \in StreamIds /\ Hosts[i] = mode[streaming[i]] /\ i \in Host!Hosted
<1>1. i \in StreamIds /\ mode[streaming[i]] \in Feeding
  BY Seated
<1>2. Hosts[i] = mode[streaming[i]]
  BY <1>1 DEF Hosts, HostOf
<1> QED
  BY <1>1, <1>2 DEF Host!Hosted, Feeding

(* Nothing moves, and no wakeup is lost. *)
LEMMA OnlyRings ==
  ASSUME Inv, Hosts' = Hosts, attached' = attached, backlog' = backlog, alive' = alive,
         alive => \A j \in StreamIds : WakeComing(j) => WakeComing(j)'
  PROVE  Host!Ring \/ Still
<1>1. attached \subseteq Host!Hosted /\ attached \subseteq StreamIds
  BY AtHost
<1>2. Waiting' = Waiting
  BY DEF Waiting
<1>3. CASE alive
  <2>1. Ringing \subseteq Ringing' /\ Ringing' \subseteq Host!Hosted
    BY <1>1, <1>3 DEF Ringing
  <2> QED
    BY <1>2, <1>3, <2>1 DEF Host!Ring
<1>4. CASE ~alive
  <2>1. Ringing = {} /\ Ringing' = {}
    BY <1>4 DEF Ringing
  <2> QED
    BY <1>2, <2>1 DEF Still
<1> QED
  BY <1>3, <1>4

(* A connection that ends takes its stream away. *)
LEMMA CloseLeaves ==
  ASSUME Inv, NEW f \in Fds, attached' = attached \ {stream[f]}, backlog' = backlog,
         next_stream_id' = next_stream_id, alive' = alive,
         \A g \in Fds : g # f => mode'[g] = mode[g],
         \A j \in StreamIds : streaming[j] # f => streaming'[j] = streaming[j],
         \A j \in StreamIds : j # stream[f] => SameBell(j)
  PROVE  Still \/ \E i \in StreamIds : Host!Leave(i)
<1>0. attached \subseteq StreamIds
  BY DEF Inv, TypeOK
<1>1. \/ Hosts' = Hosts /\ attached' = attached
      \/ /\ mode[f] \in Feeding /\ stream[f] \in StreamIds /\ stream[f] \in attached
         /\ Turns(stream[f], "over")
  BY CloseTurns
<1>2. CASE Hosts' = Hosts /\ attached' = attached
  <2>1. stream[f] \notin attached
    BY <1>2
  <2>2. Ringing' = Ringing
    BY <1>0, <1>2, <2>1 DEF Ringing, SameBell
  <2>3. Waiting' = Waiting
    BY <1>2 DEF Waiting
  <2> QED
    BY <1>2, <2>2, <2>3 DEF Still
<1>3. CASE stream[f] \in StreamIds /\ stream[f] \in attached /\ Turns(stream[f], "over")
  <2>1. PICK i \in StreamIds : i = stream[f]
    BY <1>3
  <2>2. i \in attached /\ Turns(i, "over")
    BY <1>3, <2>1
  <2> DEFINE h == "over"
  <2>3. Turns(i, h) /\ \A j \in StreamIds : j # i => SameBell(j)
    BY <2>1, <2>2
  <2> HIDE DEF h
  <2>4. Host!Moves(i, h)
    BY <1>0, <2>3, TurnsMove
  <2>5. Host!Leave(i)
    BY <2>2, <2>4, AtHost DEF Host!Leave, h
  <2> QED
    BY <2>5
<1> QED
  BY <1>1, <1>2, <1>3

(* drive_stream is a turn of the stream, or finishes what was pulled. *)
LEMMA DriveRuns ==
  ASSUME Inv, NEW f \in Fds, DriveStream(f), alive' = alive,
         \A j \in StreamIds : j # stream[f] => SameBell(j),
         mode[f] = "parked" => stream[f] \in Ringing
  PROVE  Still \/ \E i \in StreamIds : Host!Run(i)
<1>0. StreamTable /\ attached \subseteq StreamIds
  BY DEF Inv, TypeOK
<1>1. streaming' = streaming /\ next_stream_id' = next_stream_id
  BY DEF DriveStream
<1>2. CASE mode[f] = "draining" /\ UNCHANGED <<mode, attached, backlog>>
  <2>1. Hosts' = Hosts
    BY <1>1, <1>2, HostStays, HostsStay
  <2>2. stream[f] \notin attached
    BY <1>2, Seated DEF Feeding
  <2>3. Ringing' = Ringing /\ Waiting' = Waiting
    BY <1>0, <1>2, <2>2 DEF Ringing, Waiting, SameBell
  <2> QED
    BY <2>1, <2>3 DEF Still
<1>3. CASE mode[f] \in Feeding /\ StreamOutcome(f, stream[f], attached)
  <2>1. stream[f] \in StreamIds /\ stream[f] \in attached /\ stream[f] < next_stream_id
    BY <1>3, Seated
  <2>2. PICK i \in StreamIds : i = stream[f]
    BY <2>1
  <2>3. /\ i \in attached /\ streaming'[i] = f /\ i < next_stream_id'
        /\ streaming[i] = f /\ StreamOutcome(f, i, attached)
    BY <1>0, <1>1, <1>3, <2>1, <2>2 DEF StreamTable
  <2>4. ASSUME NEW j \in StreamIds, j # i
        PROVE  /\ streaming'[j] = streaming[j]
               /\ j \in attached => streaming[j] # f
               /\ j < next_stream_id' <=> j < next_stream_id
    BY <1>1, <2>2, <2>4, Seated
  <2>5. /\ \E h \in {"parked", "blocked", "over"} : Turns(i, h)
        /\ i \in backlog' => i \in backlog
    BY <2>3, <2>4, OutcomeTurns
  <2>6. PICK h \in {"parked", "blocked", "over"} : Turns(i, h)
    BY <2>5
  <2>7. Host!Moves(i, h)
    BY <1>0, <2>2, <2>6, TurnsMove
  <2>8. i \in Host!Hosted /\ Hosts[i] = mode[f]
    BY <2>3, AtHost
  <2>9. i \in Waiting' => i \in Waiting
    BY <2>3, <2>5 DEF Waiting
  <2>10. Host!Run(i)
    BY <2>2, <2>7, <2>8, <2>9 DEF Host!Run
  <2> QED
    BY <2>10
<1> QED
  BY <1>2, <1>3 DEF DriveStream, Feeding

(* The end of a stream's head attaches a source to a fresh id. *)
LEMMA AttachAttaches ==
  ASSUME Inv, NEW f \in Fds, MakeNotifierAndAttach(f), alive' = alive,
         \A j \in StreamIds : SameBell(j)
  PROVE  \E i \in StreamIds : Host!Attach(i)
<1>a. /\ streaming \in [StreamIds -> Fds \cup {NoFd}]
      /\ next_stream_id \in 1..(MaxStreams + 1) /\ attached \subseteq StreamIds
  BY DEF Inv, TypeOK
<1>0. PICK i \in StreamIds : i = next_stream_id
  BY DEF MakeNotifierAndAttach
<1>1. /\ mode[f] = "busy" /\ next_stream_id' = i + 1
      /\ streaming' = [streaming EXCEPT ![i] = f]
      /\ StreamOutcome(f, i, attached \cup {i})
  BY <1>0 DEF MakeNotifierAndAttach
<1>2. i \in Nat /\ next_stream_id \in Nat /\ StreamIds \subseteq Nat
  BY <1>a, <1>0, ReactorAssumption DEF StreamIds
<1>3. i \notin attached
  BY <1>0, <1>2, Seated
<1>4. Hosts[i] = "unused"
  BY <1>0, <1>2, <1>3 DEF Hosts, HostOf
<1>5. ASSUME NEW j \in StreamIds, j # i
      PROVE  /\ streaming'[j] = streaming[j]
             /\ j \in attached => streaming[j] # f
             /\ j < next_stream_id' <=> j < next_stream_id
  <2>1. j \in attached => mode[streaming[j]] \in Feeding
    BY Seated
  <2>2. j \in attached => streaming[j] # f
    BY <1>1, <2>1 DEF Feeding
  <2>3. j < i + 1 <=> j < i
    BY <1>2, <1>5
  <2> QED
    BY <1>a, <1>0, <1>1, <1>5, <2>2, <2>3
<1>6. /\ (attached \cup {i}) \ {i} = attached \ {i} /\ i \in attached \cup {i}
      /\ streaming'[i] = f /\ i < next_stream_id'
  BY <1>a, <1>1, <1>2
<1>7. PICK h \in {"parked", "blocked", "over"} : Turns(i, h)
  BY <1>1, <1>5, <1>6, OutcomeTurns
<1>8. Host!Moves(i, h)
  BY <1>a, <1>7, TurnsMove
<1> QED
  BY <1>4, <1>8 DEF Host!Attach

(* What leaves the wakeups under way alone. *)
LEMMA BellsSame ==
  ASSUME UNCHANGED <<pending_streams, eventfd, todo, ppc, target, rpc>>, NEW j
  PROVE  SameBell(j)
BY DEF SameBell, WakeComing, IsPending, IsTodo

(* close_connection. *)
LEMMA ConnectionLeaves ==
  ASSUME Inv, NEW f \in Fds, CloseConnection(f), alive' = alive,
         \A j \in StreamIds : j # stream[f] => SameBell(j)
  PROVE  Still \/ \E i \in StreamIds : Host!Leave(i)
<1>0. mode \in [Fds -> Modes]
  BY DEF Inv, TypeOK
<1>1. /\ attached' = attached \ {stream[f]} /\ backlog' = backlog
      /\ next_stream_id' = next_stream_id
      /\ \A g \in Fds : g # f => mode'[g] = mode[g]
      /\ \A j \in StreamIds : streaming[j] # f => streaming'[j] = streaming[j]
  BY <1>0 DEF CloseConnection
<1> QED
  BY <1>1, CloseLeaves

(* The table is left alone. *)
LEMMA TableStill ==
  ASSUME Inv, UNCHANGED <<mode, streaming, next_stream_id, attached, backlog, alive>>,
         alive => \A j \in StreamIds : WakeComing(j) => WakeComing(j)'
  PROVE  Host!Ring \/ Still
<1>1. Hosts' = Hosts
  BY HostStays, HostsStay
<1> QED
  BY <1>1, OnlyRings

(* The events of connections and the scan of the deadlines. *)
LEMMA EventsHost ==
  ASSUME Inv, NEW f \in Fds, HandleConnectionEvent(f) \/ ExpireOne(f)
  PROVE  Host!Next \/ Still
<1>1. /\ alive' = alive
      /\ UNCHANGED <<pending_streams, eventfd, todo, ppc, target, rpc>>
  BY DEF HandleConnectionEvent, ExpireOne, wake, producer
<1>2. \A j \in StreamIds : SameBell(j)
  BY <1>1, BellsSame
<1>3. CASE CloseConnection(f)
  BY <1>1, <1>2, <1>3, ConnectionLeaves DEF Host!Next
<1>4. CASE StayBusy(f) \/ UNCHANGED <<table, attached, backlog>>
  <2>1. UNCHANGED <<mode, streaming, next_stream_id, attached, backlog, alive>>
    BY <1>1, <1>4 DEF StayBusy, table
  <2> QED
    BY <1>2, <2>1, TableStill DEF Host!Next, SameBell
<1>5. CASE mode[f] \in {"blocked", "draining"} /\ DriveStream(f)
  BY <1>1, <1>2, <1>5, DriveRuns DEF Host!Next
<1>6. CASE MakeNotifierAndAttach(f)
  BY <1>1, <1>2, <1>6, AttachAttaches DEF Host!Next
<1> QED
  BY <1>3, <1>4, <1>5, <1>6 DEF HandleConnectionEvent, ExpireOne

(* One id of the list of notifications: its stream has a turn.             *)
LEMMA WakeupHost ==
  ASSUME Inv, AliveInLoop, HandleWakeup
  PROVE  Host!Next \/ Still
<1>0. /\ todo \in Seq(StreamIds) /\ StreamTable
      /\ streaming \in [StreamIds -> Fds \cup {NoFd}] /\ OnePendingEntry
  BY DEF Inv, TypeOK
<1>1. /\ UNCHANGED <<pending_streams, eventfd, ppc, target, rpc, alive>>
      /\ todo # <<>> /\ todo' = Tail(todo) /\ rpc = "wakeups"
  BY DEF HandleWakeup, wake, producer
<1>2. PICK i \in StreamIds, f \in Fds \cup {NoFd} :
         i = Head(todo) /\ f = streaming[i] /\ i = todo[1] /\ 1 \in 1..Len(todo)
  BY <1>0, <1>1
<1>3. alive /\ WakeComing(i)
  BY <1>1, <1>2 DEF AliveInLoop, WakeComing, IsTodo
<1>4. ASSUME NEW j \in StreamIds, j # i
      PROVE  SameBell(j)
  <2>1. IsTodo(j)' <=> IsTodo(j)
    <3>1. ASSUME IsTodo(j) PROVE IsTodo(j)'
      <4>1. PICK k \in 1..Len(todo) : todo[k] = j
        BY <3>1 DEF IsTodo
      <4>2. k # 1
        BY <1>2, <1>4, <4>1
      <4>3. k - 1 \in 1..Len(todo') /\ todo'[k - 1] = j
        BY <1>0, <1>1, <4>1, <4>2
      <4> QED
        BY <4>3 DEF IsTodo
    <3>2. ASSUME IsTodo(j)' PROVE IsTodo(j)
      <4>1. PICK k \in 1..Len(todo') : todo'[k] = j
        BY <3>2 DEF IsTodo
      <4>2. k + 1 \in 1..Len(todo) /\ todo[k + 1] = j
        BY <1>0, <1>1, <4>1
      <4> QED
        BY <4>2 DEF IsTodo
    <3> QED
      BY <3>1, <3>2
  <2>2. IsPending(j)' <=> IsPending(j)
    BY <1>1 DEF IsPending
  <2> QED
    BY <1>1, <2>1, <2>2 DEF SameBell, WakeComing
<1>5. CASE f = NoFd
  <2>1. UNCHANGED <<mode, streaming, next_stream_id, attached, backlog>>
    BY <1>2, <1>5 DEF HandleWakeup, table
  <2>2. i \notin attached
    <3>1. ASSUME i \in attached PROVE FALSE
      <4>1. streaming[i] \in Fds
        BY <3>1, Seated
      <4>2. streaming[i] = NoFd
        BY <1>2, <1>5
      <4> QED
        BY <4>1, <4>2, ReactorAssumption
    <3> QED
      BY <3>1
  <2>3. Hosts' = Hosts
    BY <2>1, HostStays, HostsStay
  <2>4. Waiting' = Waiting /\ Ringing' = Ringing
    <3>1. attached \subseteq StreamIds
      BY DEF Inv, TypeOK
    <3> QED
      BY <1>1, <1>4, <2>1, <2>2, <3>1 DEF Waiting, Ringing, SameBell
  <2> QED
    BY <1>1, <2>3, <2>4 DEF Still
<1>6. CASE f \in Fds
  <2>1. CloseConnection(f) \/ DriveStream(f)
    BY <1>2, <1>6, ReactorAssumption DEF HandleWakeup
  <2>2. stream[f] = i
    BY <1>0, <1>2, <1>6 DEF StreamTable
  <2>3. mode[f] = "parked" => stream[f] \in Ringing
    BY <1>3, <1>6, <2>2, Seated DEF Feeding, Ringing
  <2>4. \A j \in StreamIds : j # stream[f] => SameBell(j)
    BY <1>4, <2>2
  <2>5. CASE CloseConnection(f)
    BY <1>1, <1>6, <2>4, <2>5, ConnectionLeaves DEF Host!Next
  <2>6. CASE DriveStream(f)
    BY <1>1, <1>6, <2>3, <2>4, <2>6, DriveRuns DEF Host!Next
  <2> QED
    BY <2>1, <2>5, <2>6
<1> QED
  BY <1>2, <1>5, <1>6

(* A producer queues data and owes the wakeup. *)
LEMMA ProduceRings ==
  ASSUME Inv, NEW p \in Producers, NEW i \in StreamIds, Produce(p, i)
  PROVE  Host!Produce(i)
<1>1. /\ UNCHANGED <<mode, streaming, next_stream_id, pending_streams, todo, eventfd,
                     rpc, alive, attached>>
      /\ backlog' = backlog \cup {i} /\ i \in attached
      /\ ppc[p] = "idle" /\ ppc' = [ppc EXCEPT ![p] = "notify"]
      /\ target' = [target EXCEPT ![p] = i]
      /\ ppc'[p] = "notify" /\ target'[p] = i
  BY DEF Produce, table, loop, wake, Inv, TypeOK
<1>2. WakeComing(i)'
  BY <1>1 DEF WakeComing
<1>3. ASSUME NEW j \in StreamIds, j # i
      PROVE  SameBell(j)
  <2>1. /\ ppc \in [Producers -> {"idle", "notify", "push", "signal"}]
        /\ target \in [Producers -> 0..MaxStreams]
    BY DEF Inv, TypeOK
  <2>2. /\ IsPending(j)' <=> IsPending(j)
        /\ IsTodo(j)' <=> IsTodo(j)
    BY <1>1 DEF IsPending, IsTodo
  <2>3. (\E q \in Producers : target'[q] = j /\ ppc'[q] \in {"notify", "push"})
          <=> \E q \in Producers : target[q] = j /\ ppc[q] \in {"notify", "push"}
    BY <1>1, <1>3, <2>1
  <2>4. (\E q \in Producers : ppc'[q] = "signal") <=> \E q \in Producers : ppc[q] = "signal"
    BY <1>1, <2>1
  <2> QED
    BY <1>1, <2>2, <2>3, <2>4 DEF SameBell, WakeComing
<1>4. Hosts' = Hosts
  BY <1>1, HostStays, HostsStay
<1>5. Waiting' = Waiting \cup {i}
  BY <1>1 DEF Waiting
<1>6. attached \subseteq StreamIds
  BY DEF Inv, TypeOK
<1>7. CASE alive
  <2>1. Ringing' = Ringing \cup {i}
    BY <1>1, <1>2, <1>3, <1>6, <1>7 DEF Ringing, SameBell
  <2> QED
    BY <1>1, <1>4, <1>5, <1>7, <2>1, AtHost DEF Host!Produce
<1>8. CASE ~alive
  <2>1. Ringing' = Ringing
    BY <1>1, <1>8 DEF Ringing
  <2> QED
    BY <1>1, <1>4, <1>5, <1>8, <2>1, AtHost DEF Host!Produce
<1> QED
  BY <1>7, <1>8

(* Every step keeps the contract. *)
LEMMA HostStep ==
  ASSUME Inv, AliveInLoop, [Next]_vars
  PROVE  Host!Next \/ Still
<1>0. TypeOK /\ Phases
  BY DEF Inv
<1> DEFINE Quiet == UNCHANGED <<mode, streaming, next_stream_id, attached, backlog, alive>>
           Coming == \A j \in StreamIds : WakeComing(j) => WakeComing(j)'
<1>1. ASSUME Quiet, alive => Coming
      PROVE  Host!Next \/ Still
  BY <1>1, TableStill DEF Host!Next
<1> HIDE DEF Coming
<1>2. CASE UNCHANGED vars \/ RequestStop
  <2>1. /\ UNCHANGED <<pending_streams, todo, ppc, target, rpc>> /\ Quiet
        /\ eventfd' \/ eventfd' = eventfd
    BY <1>2 DEF vars, RequestStop, table, loop, wake, producer
  <2>2. Coming
    BY <2>1 DEF WakeComing, IsPending, IsTodo, Coming
  <2> QED
    BY <1>1, <2>1, <2>2
<1>3. ASSUME NEW p \in Producers, NEW i \in StreamIds, Produce(p, i)
      PROVE  Host!Next
  BY <1>3, ProduceRings DEF Host!Next
<1>4. ASSUME NEW p \in Producers, Notify(p)
      PROVE  Host!Next \/ Still
  <2>1. Quiet
    BY <1>4 DEF Notify, CheckAlive, PushPending, SignalEventFd, table, wake
  <2>2. alive => Coming
    BY <1>0, <1>4, ProducerWakeups DEF Coming
  <2> QED
    BY <1>1, <2>1, <2>2
<1>5. CASE \/ \E C \in SUBSET Fds, O \in SUBSET {"eventfd", "listener"} :
                EpollWait(C, O)
           \/ EndFirstPass \/ BeginAccept \/ EndAccept \/ EndScan \/ Exit
           \/ \E E \in SUBSET Fds : BeginScan(E)
  <2>1. /\ Quiet
        /\ UNCHANGED <<pending_streams, eventfd, todo, ppc, target>>
        /\ rpc \notin {"swap", "wakeups"}
    BY <1>5 DEF EpollWait, EndFirstPass, BeginAccept, EndAccept, EndScan,
                Exit, BeginScan, table, wake, producer
  <2>2. Coming
    BY <2>1, SameWakeups DEF Coming
  <2> QED
    BY <1>1, <2>1, <2>2
<1>6. ASSUME NEW f \in Fds, AdmitConnection(f)
      PROVE  Host!Next \/ Still
  <2>1. /\ UNCHANGED <<streaming, next_stream_id, attached, backlog, alive>>
        /\ UNCHANGED <<pending_streams, eventfd, todo, ppc, target, rpc>>
        /\ mode[f] = "closed" /\ mode' = [mode EXCEPT ![f] = "busy"]
    BY <1>6 DEF AdmitConnection, Open, wake, producer
  <2>2. ASSUME NEW j \in StreamIds
        PROVE  HostOf(j)' = HostOf(j)
    <3>1. j \in attached => mode'[streaming'[j]] = mode[streaming[j]]
      BY <1>0, <2>1, Seated DEF TypeOK, Feeding
    <3> QED
      BY <2>1, <3>1, HostStays
  <2>3. \A j \in StreamIds : WakeComing(j) => WakeComing(j)'
    BY <2>1, SameWakeups
  <2>4. Hosts' = Hosts
    BY <2>2, HostsStay
  <2> QED
    BY <2>1, <2>3, <2>4, OnlyRings DEF Host!Next
<1>7. ASSUME NEW f \in Fds, ShutdownConnection(f)
      PROVE  Host!Next \/ Still
  <2>1. /\ UNCHANGED <<pending_streams, eventfd, todo, ppc, target, rpc>>
        /\ attached' = attached \ {stream[f]} /\ backlog' = backlog
        /\ next_stream_id' = next_stream_id /\ alive' = alive /\ streaming' = streaming
        /\ mode' = [mode EXCEPT ![f] = "closing"]
    BY <1>7 DEF ShutdownConnection, loop, wake, producer
  <2>2. \A g \in Fds : g # f => mode'[g] = mode[g]
    BY <1>0, <2>1 DEF TypeOK
  <2>3. \A j \in StreamIds : SameBell(j)
    BY <2>1, BellsSame
  <2>4. Still \/ \E i \in StreamIds : Host!Leave(i)
    BY <2>1, <2>2, <2>3, CloseLeaves
  <2> QED
    BY <2>4 DEF Host!Next
<1>8. CASE DrainEventFd
  <2>1. /\ Quiet /\ UNCHANGED <<pending_streams, todo, ppc, target>>
        /\ rpc = "pass2" /\ rpc' = "swap"
    BY <1>8 DEF DrainEventFd, table, producer
  <2>2. Coming
    BY <2>1 DEF WakeComing, IsPending, IsTodo, Coming
  <2> QED
    BY <1>1, <2>1, <2>2
<1>9. CASE SwapPending
  <2>1. /\ Quiet /\ UNCHANGED <<eventfd, ppc, target>>
        /\ todo' = pending_streams /\ rpc = "swap" /\ rpc' = "wakeups"
    BY <1>9 DEF SwapPending, table, producer
  <2>2. Coming
    BY <2>1 DEF WakeComing, IsPending, IsTodo, Coming
  <2> QED
    BY <1>1, <2>1, <2>2
<1>10. CASE EndWakeups
  <2>1. /\ Quiet /\ UNCHANGED <<pending_streams, eventfd, ppc, target>>
        /\ rpc = "wakeups" /\ todo = <<>>
    BY <1>10 DEF EndWakeups, table, wake, producer
  <2>2. Coming
    BY <2>1 DEF WakeComing, IsPending, IsTodo, Coming
  <2> QED
    BY <1>1, <2>1, <2>2
<1>11. CASE LeaveLoop
  <2>1. /\ UNCHANGED <<mode, streaming, next_stream_id, attached, backlog>>
        /\ alive /\ alive' = FALSE
    BY <1>11 DEF LeaveLoop, AliveInLoop, table
  <2>2. Hosts' = Hosts
    BY <2>1, HostStays, HostsStay
  <2>3. Waiting' = Waiting /\ Ringing' = {}
    BY <2>1 DEF Waiting, Ringing
  <2> QED
    BY <2>1, <2>2, <2>3 DEF Host!Halt, Host!Next
<1> QED
  BY <1>2, <1>3, <1>4, <1>5, <1>6, <1>7, <1>8, <1>9, <1>10, <1>11, EventsHost, WakeupHost
     DEF Next, ReactorStep

(* The reactor keeps its side of the contract with stream sources, for any *)
(* number of connections, streams and producers.                           *)
THEOREM ReactorIsAHost == Spec => HostsStreams
<1>1. Init => AliveInLoop /\ Host!Init
  <2> SUFFICES ASSUME Init PROVE AliveInLoop /\ Host!Init
    OBVIOUS
  <2>1. \A i \in StreamIds : HostOf(i) = "unused"
    BY ReactorAssumption DEF Init, HostOf, StreamIds
  <2>2. Hosts = [i \in StreamIds |-> "unused"]
    BY <2>1 DEF Hosts
  <2>3. Waiting = {} /\ Ringing = {} /\ alive = TRUE
    BY DEF Init, Waiting, Ringing
  <2> QED
    BY <2>2, <2>3 DEF AliveInLoop, Host!Init
<1>2. AliveInLoop /\ [Next]_vars => AliveInLoop'
  BY AliveStep
<1>3. Inv /\ AliveInLoop /\ [Next]_vars => [Host!Next]_<<Hosts, Waiting, Ringing, alive>>
  BY HostStep DEF Still
<1> QED
  BY <1>1, <1>2, <1>3, Invariance, PTL DEF Spec, HostsStreams, Host!Spec
=============================================================================
