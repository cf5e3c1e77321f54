------------------------------ MODULE Reactor ------------------------------
(***************************************************************************)
(* One reactor thread, its connection table and the cross-thread wakeups   *)
(* of streamed responses (src/src/reactor.cpp, the eventfd helpers of      *)
(* src/src/socket.cpp).                                                    *)
(*                                                                         *)
(* A turn of the loop takes one batch of events, handles the events of     *)
(* connections in a first pass, the eventfd and the listeners in a second  *)
(* one, then scans the deadlines.  Producers are the threads that add data *)
(* to a stream source and notify its reactor: they share nothing with the  *)
(* reactor but WakeState (pending_streams, the eventfd, alive).            *)
(*                                                                         *)
(* What a connection does inside a callback is left open here: any outcome *)
(* that Connection::step, on_stream_notified and on_deadline_expired can   *)
(* have for the reactor is a disjunct.  The Connection module has the      *)
(* detail.                                                                 *)
(***************************************************************************)
EXTENDS Naturals, Sequences, FiniteSets

CONSTANTS
  Fds,         \* descriptors of connections
  Producers,   \* threads that write to stream sources
  MaxStreams,  \* bound: stream ids handed out in a behaviour
  MaxAccepts,  \* kMaxAcceptsPerTurn
  MaxConns,    \* bound: connections accepted in a behaviour
  NoFd         \* no descriptor

ASSUME ReactorAssumption ==
  /\ NoFd \notin Fds
  /\ MaxStreams \in Nat /\ MaxAccepts \in Nat /\ MaxConns \in Nat

StreamIds == 1..MaxStreams

VARIABLES
  (* The reactor thread *)
  rpc,            \* where it stands in the loop
  connEvents,     \* events of the batch still to be handled: connections
  otherEvents,    \* and "eventfd", "listener"
  todo,           \* ids swapped out of pending_streams, still to be handled
  expired,        \* descriptors found past their deadline by this scan
  accepts,        \* connections accepted from the listener in this turn
  (* The tables *)
  mode,           \* each descriptor's connection, as the reactor parks it
  stream,         \* id of the stream a connection attached, 0 before
  streaming,      \* Reactor::streaming_: id to descriptor
  next_stream_id,
  (* WakeState *)
  pending_streams, eventfd, alive,
  (* The stream sources and the threads that feed them *)
  attached,       \* ids whose source holds its notifier
  backlog,        \* ids whose source has something to pull
  ppc, target,    \* each producer: where it stands, and the id it notifies
  stop,           \* the stop token
  (* History *)
  accepted,       \* connections accepted so far
  gen,            \* the number, by order of acceptance, of each open one
  listed,         \* gen of each descriptor when the list in use was built
  owner           \* the number of the connection that attached each id

loop == <<rpc, connEvents, otherEvents, todo, expired, accepts, listed>>
table == <<mode, stream, streaming, next_stream_id, owner, gen>>
wake == <<pending_streams, eventfd, alive>>
producer == <<ppc, target>>
vars == <<loop, table, wake, attached, backlog, producer, stop, accepted>>

(* closed: no connection on this descriptor.  busy: a connection that is   *)
(* not streaming.  parked: streaming, with an empty epoll mask.  blocked:  *)
(* streaming, waiting for the socket.  draining: the same for the last     *)
(* piece of a stream whose source is released already.  closing:           *)
(* begin_close() at shutdown.                                              *)
Modes == {"closed", "busy", "parked", "blocked", "draining", "closing"}
Live == {"busy", "parked", "blocked", "draining"}

TypeOK ==
  /\ rpc \in {"wait", "pass1", "pass2", "swap", "wakeups", "accept",
              "scan", "shutdown", "exited"}
  /\ connEvents \subseteq Fds
  /\ otherEvents \subseteq {"eventfd", "listener"}
  /\ todo \in Seq(StreamIds)
  /\ expired \subseteq Fds
  /\ accepts \in 0..MaxAccepts
  /\ mode \in [Fds -> Modes]
  /\ stream \in [Fds -> 0..MaxStreams]
  /\ streaming \in [StreamIds -> Fds \cup {NoFd}]
  /\ next_stream_id \in 1..(MaxStreams + 1)
  /\ pending_streams \in Seq(StreamIds)
  /\ eventfd \in BOOLEAN /\ alive \in BOOLEAN /\ stop \in BOOLEAN
  /\ attached \subseteq StreamIds
  /\ backlog \subseteq StreamIds
  /\ ppc \in [Producers -> {"idle", "notify", "push", "signal"}]
  /\ target \in [Producers -> 0..MaxStreams]
  /\ accepted \in 0..MaxConns
  /\ gen \in [Fds -> 0..MaxConns]
  /\ listed \in [Fds -> 0..MaxConns]
  /\ owner \in [StreamIds -> 0..MaxConns]

Init ==
  /\ rpc = "wait"
  /\ connEvents = {} /\ otherEvents = {} /\ expired = {}
  /\ todo = <<>> /\ accepts = 0
  /\ mode = [f \in Fds |-> "closed"]
  /\ stream = [f \in Fds |-> 0]
  /\ streaming = [i \in StreamIds |-> NoFd]
  /\ next_stream_id = 1
  /\ pending_streams = <<>> /\ eventfd = FALSE /\ alive = TRUE
  /\ attached = {} /\ backlog = {}
  /\ ppc = [p \in Producers |-> "idle"]
  /\ target = [p \in Producers |-> 0]
  /\ stop = FALSE
  /\ accepted = 0
  /\ gen = [f \in Fds |-> 0]
  /\ listed = [f \in Fds |-> 0]
  /\ owner = [i \in StreamIds |-> 0]

Open(f) == mode[f] # "closed"

-----------------------------------------------------------------------------
(* Producers: SseSubscriber::enqueue, begin_close and maybe_heartbeat seen *)
(* from the reactor, then WakeState::notify_stream.                        *)

(* Under the source's own lock: data (or the end of the stream) is queued  *)
(* and the notifier copied.                                                *)
Produce(p, i) ==
  /\ ppc[p] = "idle"
  /\ i \in attached
  /\ backlog' = backlog \cup {i}
  /\ target' = [target EXCEPT ![p] = i]
  /\ ppc' = [ppc EXCEPT ![p] = "notify"]
  /\ UNCHANGED <<loop, table, wake, attached, stop, accepted>>

Return(p) ==
  /\ ppc' = [ppc EXCEPT ![p] = "idle"]
  /\ target' = [target EXCEPT ![p] = 0]

(* The load of alive. *)
CheckAlive(p) ==
  /\ ppc[p] = "notify"
  /\ IF alive
       THEN ppc' = [ppc EXCEPT ![p] = "push"] /\ UNCHANGED target
       ELSE Return(p)
  /\ UNCHANGED <<loop, table, wake, attached, backlog, stop, accepted>>

IsPending(i) == \E k \in 1..Len(pending_streams) : pending_streams[k] = i

(* Fault: an id is listed again for every notification. *)
PushPendingAgain(p) ==
  /\ ppc[p] = "push"
  /\ pending_streams' = Append(pending_streams, target[p])
  /\ ppc' = [ppc EXCEPT ![p] = "signal"]
  /\ UNCHANGED <<loop, table, eventfd, alive, attached, backlog, target, stop,
                 accepted>>

(* Under WakeState::mutex. *)
PushPending(p) ==
  /\ ppc[p] = "push"
  /\ pending_streams' = IF IsPending(target[p]) THEN pending_streams
                        ELSE Append(pending_streams, target[p])
  /\ ppc' = [ppc EXCEPT ![p] = "signal"]
  /\ UNCHANGED <<loop, table, eventfd, alive, attached, backlog, target, stop,
                 accepted>>

SignalEventFd(p) ==
  /\ ppc[p] = "signal"
  /\ eventfd' = TRUE
  /\ Return(p)
  /\ UNCHANGED <<loop, table, pending_streams, alive, attached, backlog,
                 stop, accepted>>

(* Server::stop: the token is set and its callback wakes the reactor. *)
RequestStop ==
  /\ ~stop
  /\ stop' = TRUE
  /\ eventfd' = TRUE
  /\ UNCHANGED <<loop, table, pending_streams, alive, attached, backlog,
                 producer, accepted>>

-----------------------------------------------------------------------------
(* What a callback leaves behind for the descriptor it ran on.             *)

(* Fault: the ids of a closed connection stay in streaming_. *)
CloseConnectionKeepsIds(f) ==
  /\ mode' = [mode EXCEPT ![f] = "closed"]
  /\ stream' = [stream EXCEPT ![f] = 0]
  /\ attached' = attached \ {stream[f]}
  /\ gen' = [gen EXCEPT ![f] = 0]
  /\ UNCHANGED <<streaming, next_stream_id, owner, backlog>>

(* Reactor::close_connection: every id of the descriptor leaves            *)
(* streaming_, and ~Connection detaches the source.                        *)
CloseConnection(f) ==
  /\ mode' = [mode EXCEPT ![f] = "closed"]
  /\ stream' = [stream EXCEPT ![f] = 0]
  /\ streaming' = [i \in StreamIds |->
                     IF streaming[i] = f THEN NoFd ELSE streaming[i]]
  /\ attached' = attached \ {stream[f]}
  /\ gen' = [gen EXCEPT ![f] = 0]
  /\ UNCHANGED <<next_stream_id, owner, backlog>>

(* A request handled, a response still going out, a 408 under way.         *)
StayBusy(f) ==
  /\ mode[f] = "busy"
  /\ UNCHANGED <<table, attached, backlog>>

(* drive_stream returned with the connection alive.  Everything was pulled *)
(* and sent, and the last pull found the source idle; or the socket is     *)
(* full, which stops the pulling, so the source may or may not be empty;   *)
(* or the socket is full with the last piece of a source that has ended.   *)
PulledDry(f, i, sources) ==
  /\ mode' = [mode EXCEPT ![f] = "parked"]
  /\ attached' = sources
  /\ backlog' = backlog \ {i}

SocketFull(f, i, sources) ==
  /\ mode' = [mode EXCEPT ![f] = "blocked"]
  /\ attached' = sources
  /\ backlog' \in {backlog, backlog \ {i}}

SourceFinished(f, i, sources) ==
  /\ mode' = [mode EXCEPT ![f] = "draining"]
  /\ attached' = sources \ {i}
  /\ backlog' = backlog \ {i}

StreamOutcome(f, i, sources) ==
  PulledDry(f, i, sources) \/ SocketFull(f, i, sources)
    \/ SourceFinished(f, i, sources)

DriveStream(f) ==
  /\ \/ /\ mode[f] \in {"parked", "blocked"}
        /\ StreamOutcome(f, stream[f], attached)
     \/ /\ mode[f] = "draining"
        /\ UNCHANGED <<mode, attached, backlog>>
  /\ UNCHANGED <<stream, streaming, next_stream_id, owner, gen>>

(* Connection::drive_write reaches the end of a stream's head: it takes a  *)
(* notifier with a fresh id, attaches the source and drives the stream.    *)
MakeNotifierAndAttach(f) ==
  LET i == next_stream_id
  IN /\ mode[f] = "busy"
     /\ i \in StreamIds
     /\ next_stream_id' = i + 1
     /\ streaming' = [streaming EXCEPT ![i] = f]
     /\ stream' = [stream EXCEPT ![f] = i]
     /\ owner' = [owner EXCEPT ![i] = gen[f]]
     /\ StreamOutcome(f, i, attached \cup {i})
     /\ UNCHANGED gen

-----------------------------------------------------------------------------
(* The loop *)

(* The list built last has been worked off. *)
Forget == listed' = [f \in Fds |-> 0]

(* Fault: the stop token is not tested. *)
EpollWaitIgnoresStop(C, O) ==
  /\ rpc = "wait"
  /\ C \subseteq {f \in Fds : Open(f)}
  /\ O \subseteq {"listener"} \cup {e \in {"eventfd"} : eventfd}
  /\ eventfd => "eventfd" \in O
  /\ connEvents' = C
  /\ otherEvents' = O
  /\ listed' = gen
  /\ rpc' = "pass1"
  /\ UNCHANGED <<todo, expired, accepts, table, wake, attached, backlog,
                 producer, stop, accepted>>

(* epoll_wait: a subset of what is ready, possibly nothing (a timeout).    *)
(* A parked connection has an empty mask: only ERR and HUP reach it.  The  *)
(* eventfd is level-triggered.                                             *)
EpollWait(C, O) ==
  /\ rpc = "wait"
  /\ ~stop
  /\ C \subseteq {f \in Fds : Open(f)}
  /\ O \subseteq {"listener"} \cup {e \in {"eventfd"} : eventfd}
  /\ eventfd => "eventfd" \in O
  /\ connEvents' = C
  /\ otherEvents' = O
  /\ listed' = gen
  /\ rpc' = "pass1"
  /\ UNCHANGED <<todo, expired, accepts, table, wake, attached, backlog,
                 producer, stop, accepted>>

(* Reactor::handle_connection_event and the arm that follows it. *)
HandleConnectionEvent(f) ==
  /\ rpc = "pass1"
  /\ f \in connEvents
  /\ connEvents' = connEvents \ {f}
  /\ IF Open(f)
       THEN \/ CloseConnection(f)
            \/ StayBusy(f)
            \/ mode[f] \in {"blocked", "draining"} /\ DriveStream(f)
            \/ MakeNotifierAndAttach(f)
       ELSE UNCHANGED <<table, attached, backlog>>
  /\ UNCHANGED <<rpc, otherEvents, todo, expired, accepts, listed, wake,
                 producer, stop, accepted>>

(* Fault: one pass, in which a listener may come before a connection. *)
SinglePass ==
  /\ rpc = "pass1"
  /\ rpc' = "pass2"
  /\ UNCHANGED <<connEvents, otherEvents, todo, expired, accepts, listed,
                 table, wake, attached, backlog, producer, stop, accepted>>

EndFirstPass ==
  /\ rpc = "pass1"
  /\ connEvents = {}
  /\ rpc' = "pass2"
  /\ Forget
  /\ UNCHANGED <<connEvents, otherEvents, todo, expired, accepts, table, wake,
                 attached, backlog, producer, stop, accepted>>

(* The event of the eventfd: first the counter is drained ...              *)
DrainEventFd ==
  /\ rpc = "pass2"
  /\ "eventfd" \in otherEvents
  /\ otherEvents' = otherEvents \ {"eventfd"}
  /\ eventfd' = FALSE
  /\ rpc' = "swap"
  /\ UNCHANGED <<connEvents, todo, expired, accepts, listed, table,
                 pending_streams, alive, attached, backlog, producer, stop,
                 accepted>>

(* ... then, under the mutex, the list of ids is taken. *)
SwapPending ==
  /\ rpc = "swap"
  /\ todo' = pending_streams
  /\ pending_streams' = <<>>
  /\ rpc' = "wakeups"
  /\ UNCHANGED <<connEvents, otherEvents, expired, accepts, listed, table,
                 eventfd, alive, attached, backlog, producer, stop, accepted>>

(* Fault: a stale id ends the loop over the ids. *)
HandleWakeupStopsAtStale ==
  LET f == streaming[Head(todo)]
  IN /\ rpc = "wakeups"
     /\ todo # <<>>
     /\ todo' = IF f = NoFd THEN <<>> ELSE Tail(todo)
     /\ IF f # NoFd
          THEN CloseConnection(f) \/ DriveStream(f)
          ELSE UNCHANGED <<table, attached, backlog>>
     /\ UNCHANGED <<rpc, connEvents, otherEvents, expired, accepts, listed,
                    wake, producer, stop, accepted>>

(* One id of drain_stream_wakeups: an id that is not in streaming_ is      *)
(* stale and skipped.                                                      *)
HandleWakeup ==
  LET f == streaming[Head(todo)]
  IN /\ rpc = "wakeups"
     /\ todo # <<>>
     /\ todo' = Tail(todo)
     /\ IF f # NoFd
          THEN CloseConnection(f) \/ DriveStream(f)
          ELSE UNCHANGED <<table, attached, backlog>>
     /\ UNCHANGED <<rpc, connEvents, otherEvents, expired, accepts, listed,
                    wake, producer, stop, accepted>>

(* Fault: the eventfd is drained after the list has been worked off. *)
EndWakeupsDrains ==
  /\ rpc = "wakeups"
  /\ todo = <<>>
  /\ eventfd' = FALSE
  /\ rpc' = "pass2"
  /\ UNCHANGED <<connEvents, otherEvents, todo, expired, accepts, listed,
                 table, pending_streams, alive, attached, backlog, producer,
                 stop, accepted>>

EndWakeups ==
  /\ rpc = "wakeups"
  /\ todo = <<>>
  /\ rpc' = "pass2"
  /\ UNCHANGED <<connEvents, otherEvents, todo, expired, accepts, listed,
                 table, wake, attached, backlog, producer, stop, accepted>>

(* accept_ready on the listener's event. *)
BeginAccept ==
  /\ rpc = "pass2"
  /\ "listener" \in otherEvents
  /\ otherEvents' = otherEvents \ {"listener"}
  /\ rpc' = "accept"
  /\ UNCHANGED <<connEvents, todo, expired, accepts, listed, table, wake,
                 attached, backlog, producer, stop, accepted>>

(* The kernel hands out a descriptor that is closed at this moment. *)
AdmitConnection(f) ==
  /\ rpc = "accept"
  /\ accepts < MaxAccepts
  /\ ~Open(f)
  /\ accepted < MaxConns
  /\ accepts' = accepts + 1
  /\ accepted' = accepted + 1
  /\ gen' = [gen EXCEPT ![f] = accepted + 1]
  /\ mode' = [mode EXCEPT ![f] = "busy"]
  /\ UNCHANGED <<rpc, connEvents, otherEvents, todo, expired, listed, stream,
                 streaming, next_stream_id, owner, wake, attached, backlog,
                 producer, stop>>

(* WouldBlock, a transient error, or the budget of the turn is spent. *)
EndAccept ==
  /\ rpc = "accept"
  /\ rpc' = "pass2"
  /\ accepts' = 0
  /\ UNCHANGED <<connEvents, otherEvents, todo, expired, listed, table, wake,
                 attached, backlog, producer, stop, accepted>>

(* scan_deadlines collects first, then expires one after another. *)
BeginScan(E) ==
  /\ rpc = "pass2"
  /\ otherEvents = {}
  /\ E \subseteq {f \in Fds : Open(f)}
  /\ expired' = E
  /\ listed' = gen
  /\ rpc' = "scan"
  /\ UNCHANGED <<connEvents, otherEvents, todo, accepts, table, wake,
                 attached, backlog, producer, stop, accepted>>

ExpireOne(f) ==
  /\ rpc = "scan"
  /\ f \in expired
  /\ expired' = expired \ {f}
  /\ IF Open(f)
       THEN CloseConnection(f) \/ StayBusy(f)
       ELSE UNCHANGED <<table, attached, backlog>>
  /\ UNCHANGED <<rpc, connEvents, otherEvents, todo, accepts, listed, wake,
                 producer, stop, accepted>>

EndScan ==
  /\ rpc = "scan"
  /\ expired = {}
  /\ rpc' = "wait"
  /\ Forget
  /\ UNCHANGED <<connEvents, otherEvents, todo, expired, accepts, table, wake,
                 attached, backlog, producer, stop, accepted>>

(* The loop ends on the stop token, or on an exception: epoll_wait failed, *)
(* or a throw left accept_ready, drain_stream_wakeups or scan_deadlines.   *)
(* fail() then sets the token too.  Notifications are refused from here.   *)
LeaveLoop ==
  /\ rpc \in {"wait", "wakeups", "accept", "scan"}
  /\ stop' = TRUE
  /\ alive' = FALSE
  /\ rpc' = "shutdown"
  /\ connEvents' = {} /\ otherEvents' = {} /\ todo' = <<>> /\ expired' = {}
  /\ accepts' = 0
  /\ Forget
  /\ UNCHANGED <<table, pending_streams, eventfd, attached, backlog, producer,
                 accepted>>

(* Fault: the source is not detached. *)
ShutdownKeepsSource(f) ==
  /\ rpc = "shutdown"
  /\ mode[f] \in Live
  /\ mode' = [mode EXCEPT ![f] = "closing"]
  /\ UNCHANGED <<loop, stream, streaming, next_stream_id, owner, gen, wake,
                 attached, backlog, producer, stop, accepted>>

(* begin_close() on one connection: the source is detached, the connection *)
(* stays in the table until ~Reactor.                                      *)
ShutdownConnection(f) ==
  /\ rpc = "shutdown"
  /\ mode[f] \in Live
  /\ mode' = [mode EXCEPT ![f] = "closing"]
  /\ attached' = attached \ {stream[f]}
  /\ UNCHANGED <<loop, stream, streaming, next_stream_id, owner, gen, wake,
                 backlog, producer, stop, accepted>>

Exit ==
  /\ rpc = "shutdown"
  /\ \A f \in Fds : mode[f] \in {"closed", "closing"}
  /\ rpc' = "exited"
  /\ UNCHANGED <<connEvents, otherEvents, todo, expired, accepts, listed,
                 table, wake, attached, backlog, producer, stop, accepted>>

ReactorStep ==
  \/ \E C \in SUBSET Fds, O \in SUBSET {"eventfd", "listener"} :
       EpollWait(C, O)
  \/ \E f \in Fds : HandleConnectionEvent(f)
  \/ EndFirstPass
  \/ DrainEventFd \/ SwapPending \/ HandleWakeup \/ EndWakeups
  \/ BeginAccept \/ (\E f \in Fds : AdmitConnection(f)) \/ EndAccept
  \/ \E E \in SUBSET Fds : BeginScan(E)
  \/ \E f \in Fds : ExpireOne(f)
  \/ EndScan
  \/ LeaveLoop \/ (\E f \in Fds : ShutdownConnection(f)) \/ Exit

Notify(p) == CheckAlive(p) \/ PushPending(p) \/ SignalEventFd(p)

Next ==
  \/ ReactorStep
  \/ \E p \in Producers : Notify(p) \/ \E i \in StreamIds : Produce(p, i)
  \/ RequestStop

(* The reactor thread and a thread inside notify() are scheduled.  Nothing *)
(* makes an application produce, a peer connect or a server stop.          *)
Fairness ==
  /\ WF_vars(ReactorStep)
  /\ \A p \in Producers : WF_vars(Notify(p))

Spec == Init /\ [][Next]_vars /\ Fairness

-----------------------------------------------------------------------------
(* Properties *)

(* Every event and every expired deadline reaches the connection it was    *)
(* collected for: no descriptor in a list under way has been closed and    *)
(* accepted anew since the list was built.                                 *)
EventsReachTheirConnection ==
  \A f \in connEvents \cup expired : Open(f) => gen[f] = listed[f]

(* streaming_ leads from an id to the very connection that attached it, as *)
(* long as that connection lives and no longer: a late notification cannot *)
(* reach the next connection on the same descriptor.                       *)
StreamMapExact ==
  \A i \in StreamIds, f \in Fds :
    /\ streaming[i] = f => Open(f) /\ owner[i] = gen[f]
    /\ stream[f] = i => streaming[i] = f

IsTodo(i) == \E k \in 1..Len(todo) : todo[k] = i

(* The notification of a stream is on its way to the reactor. *)
WakeComing(i) ==
  \/ \E p \in Producers : target[p] = i /\ ppc[p] \in {"notify", "push"}
  \/ /\ IsPending(i)
     /\ eventfd \/ rpc = "swap" \/ \E p \in Producers : ppc[p] = "signal"
  \/ rpc = "wakeups" /\ IsTodo(i)

(* No wakeup is lost: a stream that is parked while its source has data    *)
(* has a notification on its way.                                          *)
NoLostWakeup ==
  alive => \A f \in Fds :
             mode[f] = "parked" /\ stream[f] \in backlog
               => WakeComing(stream[f])

(* A busy producer costs one entry per stream, however often it notifies   *)
(* while the reactor is busy.                                              *)
OnePendingEntry ==
  \A j, k \in 1..Len(pending_streams) :
    pending_streams[j] = pending_streams[k] => j = k

(* A source holds its notifier exactly while its connection streams from   *)
(* it; when run() has returned every source has been detached.             *)
AttachedWhileStreaming ==
  attached =
    {stream[f] : f \in {g \in Fds : mode[g] \in {"parked", "blocked"}}}

HostOf(i) ==
  IF i \in attached THEN mode[streaming[i]]
  ELSE IF i < next_stream_id THEN "over" ELSE "unused"

Hosts == [i \in StreamIds |-> HostOf(i)]
Waiting == backlog \cap attached
Ringing == {i \in attached : alive /\ WakeComing(i)}

Host == INSTANCE StreamHost
          WITH Streams <- StreamIds, host <- Hosts, data <- Waiting,
               bell <- Ringing, open <- alive

(* The loop, the eventfd and the list of ids keep the reactor's side of    *)
(* the contract with stream sources: step by step, whatever the producers  *)
(* do in between, a stream parks only without data, data rings, a bell is  *)
(* answered and a stream that has left stays away.                         *)
HostsStreams == Host!Spec

ParkedWithData(i) ==
  i \in backlog /\ \E f \in Fds : mode[f] = "parked" /\ stream[f] = i

(* What a source has for a parked stream is pulled, or the connection      *)
(* closes.                                                                 *)
ParkedDataIsPulled ==
  \A i \in StreamIds : ParkedWithData(i) ~> ~ParkedWithData(i)

(* A stop request ends the loop and detaches every source.                 *)
StopCompletes == stop ~> (rpc = "exited" /\ attached = {})
=============================================================================
