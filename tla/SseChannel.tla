---------------------------- MODULE SseChannel ----------------------------
(***************************************************************************)
(* A server-sent-events channel (src/src/sse.cpp): application threads     *)
(* publish and close, one pump thread adds heartbeats, and every           *)
(* subscriber is a stream source that its reactor attaches, pulls and      *)
(* detaches.                                                               *)
(*                                                                         *)
(* The channel's mutex is held over a whole publish() or close_all(); it   *)
(* is the variable lock.  A subscriber's own mutex covers the smaller      *)
(* steps, which are single actions.  notify() is called after that mutex   *)
(* is released, so it is a step of its own.                                *)
(*                                                                         *)
(* An event is its number in the order of publish() and the size of its    *)
(* frame; retry hints and heartbeats have the number 0.                    *)
(***************************************************************************)
EXTENDS Integers, Sequences, FiniteSets

CONSTANTS
  Subs,            \* subscriber objects
  Callers,         \* application threads
  MaxSubscribers,  \* SseOptions::max_subscribers
  MaxQueued,       \* SseOptions::max_queued_bytes_per_subscriber
  Sizes,           \* sizes of the frames published, within max_event_bytes
  SmallFrame,      \* size of a retry hint and of a heartbeat
  MaxOverflows,    \* kOverflowsBeforeDisconnect
  RetryHint,       \* SseOptions::retry_hint is not zero
  Interval,        \* heartbeat_interval in ticks of the pump, not disabled
  MaxEvents,       \* bound: events published in a behaviour
  Nobody           \* the mutex is free; no subscriber

ASSUME SseAssumption ==
  /\ Nobody \notin Subs \cup Callers
  /\ Sizes \subseteq Nat \ {0}
  /\ {SmallFrame, MaxOverflows, Interval} \subseteq Nat \ {0}
  /\ {MaxSubscribers, MaxQueued, MaxEvents} \subseteq Nat
  /\ RetryHint \in BOOLEAN

VARIABLES
  (* SseSubscriber *)
  queue, queued_bytes, closed, notifier, overflows, quiet,
  phase,        \* of the subscriber's connection
  notified,     \* the reactor has a wakeup for this stream
  (* SseChannel::State *)
  subscribers, accepting, lock,
  (* Application threads: where, what, for whom *)
  cpc, op, todo, target, frame,
  (* HeartbeatPump *)
  pumped, pump, visit, beat, signalled,
  (* History *)
  published,    \* events published so far
  last          \* number of the last event a subscriber was sent

subscriber ==
  <<queue, queued_bytes, closed, notifier, overflows, quiet, last>>
channel == <<subscribers, accepting, lock, published>>
caller == <<cpc, op, todo, target, frame>>
pumping == <<pumped, pump, visit, beat, signalled>>
vars == <<subscriber, phase, notified, channel, caller, pumping>>

(* none: not subscribed.  created, added: subscribe() under way, before    *)
(* and after HeartbeatPump::add has the mutex.  held: the response head is *)
(* going out.  driving: drive_stream runs.  parked: waiting for a wakeup.  *)
(* blocked: the socket is full.  gone: detached.                           *)
Phases == {"none", "created", "added", "held", "driving", "parked",
           "blocked", "gone"}
Attached == {"driving", "parked", "blocked"}

Frames == [id : Nat, size : Nat]
Small == [id |-> 0, size |-> SmallFrame]

TypeOK ==
  /\ queue \in [Subs -> Seq(Frames)]
  /\ queued_bytes \in [Subs -> 0..MaxQueued]
  /\ closed \in [Subs -> BOOLEAN] /\ notifier \in [Subs -> BOOLEAN]
  /\ overflows \in [Subs -> 0..MaxOverflows]
  /\ quiet \in [Subs -> 0..Interval]
  /\ phase \in [Subs -> Phases]
  /\ notified \in [Subs -> BOOLEAN]
  /\ subscribers \in Seq(Subs)
  /\ accepting \in BOOLEAN
  /\ lock \in Callers \cup {Nobody}
  /\ cpc \in [Callers -> {"idle", "each", "notify"}]
  /\ op \in [Callers -> {"publish", "close"}]
  /\ todo \in [Callers -> Seq(Subs)]
  /\ target \in [Callers -> Subs \cup {Nobody}]
  /\ frame \in [Callers -> Frames]
  /\ pumped \subseteq Subs /\ visit \subseteq Subs
  /\ pump \in {"run", "waiting", "tick", "notify"}
  /\ beat \in Subs \cup {Nobody}
  /\ signalled \in BOOLEAN
  /\ published \in 0..MaxEvents
  /\ last \in [Subs -> 0..MaxEvents]

Init ==
  /\ queue = [s \in Subs |-> <<>>]
  /\ queued_bytes = [s \in Subs |-> 0]
  /\ closed = [s \in Subs |-> FALSE] /\ notifier = [s \in Subs |-> FALSE]
  /\ overflows = [s \in Subs |-> 0] /\ quiet = [s \in Subs |-> 0]
  /\ phase = [s \in Subs |-> "none"]
  /\ notified = [s \in Subs |-> FALSE]
  /\ subscribers = <<>> /\ accepting = TRUE /\ lock = Nobody
  /\ cpc = [t \in Callers |-> "idle"] /\ op = [t \in Callers |-> "publish"]
  /\ todo = [t \in Callers |-> <<>>]
  /\ target = [t \in Callers |-> Nobody]
  /\ frame = [t \in Callers |-> Small]
  /\ pumped = {} /\ pump = "run" /\ visit = {} /\ beat = Nobody
  /\ signalled = FALSE
  /\ published = 0 /\ last = [s \in Subs |-> 0]

(* SseSubscriber::alive. *)
Alive(s) == phase[s] # "none" /\ ~closed[s]

(* The elements of q that are in S, in their order. *)
Kept(q, S) ==
  LET kept[n \in 0..Len(q)] ==
        IF n = 0 THEN <<>>
        ELSE IF q[n] \in S THEN Append(kept[n - 1], q[n]) ELSE kept[n - 1]
  IN kept[Len(q)]

(* prune_dead.  A subscriber that dies while the list is walked is one     *)
(* that died after the walk.                                               *)
Pruned == Kept(subscribers, {s \in Subs : Alive(s)})

-----------------------------------------------------------------------------
(* subscribe(), on a reactor thread *)

Subscribe(s) ==
  /\ phase[s] = "none"
  /\ lock = Nobody /\ accepting
  /\ Len(Pruned) < MaxSubscribers
  /\ subscribers' = Append(Pruned, s)
  /\ phase' = [phase EXCEPT ![s] = "created"]
  /\ IF RetryHint /\ SmallFrame <= MaxQueued
       THEN /\ queue' = [queue EXCEPT ![s] = <<Small>>]
            /\ queued_bytes' = [queued_bytes EXCEPT ![s] = SmallFrame]
       ELSE UNCHANGED <<queue, queued_bytes>>
  /\ last' = [last EXCEPT ![s] = published]
  /\ UNCHANGED <<closed, notifier, overflows, quiet, notified, accepting,
                 lock, published, caller, pumping>>

(* 503 to one request more: the limit is reached; the dead have been       *)
(* pruned all the same.                                                    *)
RefuseSubscriber ==
  /\ lock = Nobody /\ accepting
  /\ Len(Pruned) >= MaxSubscribers
  /\ subscribers' = Pruned
  /\ UNCHANGED <<subscriber, phase, notified, accepting, lock, published,
                 caller, pumping>>

(* HeartbeatPump::add: the pump holds its mutex during a tick. *)
AddToPump(s) ==
  /\ phase[s] = "created"
  /\ pump \notin {"tick", "notify"}
  /\ pumped' = pumped \cup {s}
  /\ phase' = [phase EXCEPT ![s] = "added"]
  /\ UNCHANGED <<subscriber, notified, channel, caller, pump, visit, beat,
                 signalled>>

(* Fault: add() does not signal the condition variable. *)
NotifyPumpSilently(s) ==
  /\ phase[s] = "added"
  /\ phase' = [phase EXCEPT ![s] = "held"]
  /\ UNCHANGED <<subscriber, notified, channel, caller, pumping>>

NotifyPump(s) ==
  /\ phase[s] = "added"
  /\ signalled' = TRUE
  /\ phase' = [phase EXCEPT ![s] = "held"]
  /\ UNCHANGED <<subscriber, notified, channel, caller, pumped, pump, visit,
                 beat>>

-----------------------------------------------------------------------------
(* The stream source, on its reactor thread *)

OnAttached(s) ==
  /\ phase[s] = "held"
  /\ notifier' = [notifier EXCEPT ![s] = TRUE]
  /\ phase' = [phase EXCEPT ![s] = "driving"]
  /\ UNCHANGED <<queue, queued_bytes, closed, overflows, quiet, last,
                 notified, channel, caller, pumping>>

(* on_detached, on whatever path ends the connection.  overflows, quiet    *)
(* and last of a detached subscriber are never read again.                 *)
OnDetached(s) ==
  /\ phase[s] \in Attached \cup {"held"}
  /\ phase' = [phase EXCEPT ![s] = "gone"]
  /\ closed' = [closed EXCEPT ![s] = TRUE]
  /\ notifier' = [notifier EXCEPT ![s] = FALSE]
  /\ queue' = [queue EXCEPT ![s] = <<>>]
  /\ queued_bytes' = [queued_bytes EXCEPT ![s] = 0]
  /\ notified' = [notified EXCEPT ![s] = FALSE]
  /\ overflows' = [overflows EXCEPT ![s] = 0]
  /\ quiet' = [quiet EXCEPT ![s] = 0] /\ last' = [last EXCEPT ![s] = 0]
  /\ UNCHANGED <<channel, caller, pumping>>

Events == [id : Nat \ {0}, size : Nat]

(* Fault: pull() does not forget the overflows. *)
PullKeepsOverflows(s) ==
  LET events == Kept(queue[s], Events)
  IN /\ phase[s] = "driving"
     /\ queue[s] # <<>>
     /\ queue' = [queue EXCEPT ![s] = <<>>]
     /\ queued_bytes' = [queued_bytes EXCEPT ![s] = 0]
     /\ quiet' = [quiet EXCEPT ![s] = 0]
     /\ last' = [last EXCEPT ![s] = IF events = <<>> THEN @
                                    ELSE events[Len(events)].id]
     /\ \E ph \in {"driving", "blocked"} : phase' = [phase EXCEPT ![s] = ph]
     /\ UNCHANGED <<overflows, closed, notifier, notified, channel, caller,
                    pumping>>

(* pull() takes the whole queue; its bytes are sent, or fill the socket.   *)
PullWrote(s) ==
  LET events == Kept(queue[s], Events)
  IN /\ phase[s] = "driving"
     /\ queue[s] # <<>>
     /\ queue' = [queue EXCEPT ![s] = <<>>]
     /\ queued_bytes' = [queued_bytes EXCEPT ![s] = 0]
     /\ overflows' = [overflows EXCEPT ![s] = 0]
     /\ quiet' = [quiet EXCEPT ![s] = 0]
     /\ last' = [last EXCEPT ![s] = IF events = <<>> THEN @
                                    ELSE events[Len(events)].id]
     /\ \E ph \in {"driving", "blocked"} : phase' = [phase EXCEPT ![s] = ph]
     /\ UNCHANGED <<closed, notifier, notified, channel, caller, pumping>>

PullIdle(s) ==
  /\ phase[s] = "driving"
  /\ queue[s] = <<>> /\ ~closed[s]
  /\ phase' = [phase EXCEPT ![s] = "parked"]
  /\ UNCHANGED <<subscriber, notified, channel, caller, pumping>>

(* Finished: the connection releases the source and closes. *)
PullFinished(s) ==
  /\ phase[s] = "driving"
  /\ queue[s] = <<>> /\ closed[s]
  /\ OnDetached(s)

(* The reactor handles the wakeup of a stream; a blocked one tries again.  *)
Woken(s) ==
  /\ phase[s] \in {"parked", "blocked"}
  /\ notified[s]
  /\ notified' = [notified EXCEPT ![s] = FALSE]
  /\ \E ph \in {"driving"} \cup {b \in {"blocked"} : phase[s] = b} :
       phase' = [phase EXCEPT ![s] = ph]
  /\ UNCHANGED <<subscriber, channel, caller, pumping>>

Writable(s) ==
  /\ phase[s] = "blocked"
  /\ phase' = [phase EXCEPT ![s] = "driving"]
  /\ UNCHANGED <<subscriber, notified, channel, caller, pumping>>

-----------------------------------------------------------------------------
(* publish() and close_all() *)

Bytes(q) ==
  LET bytes[n \in 0..Len(q)] == IF n = 0 THEN 0 ELSE bytes[n - 1] + q[n].size
  IN bytes[Len(q)]

Fits(s, k, f) ==
  f.size <= MaxQueued - (queued_bytes[s] - Bytes(SubSeq(queue[s], 1, k)))

(* Frames that are dropped, from the front of the queue, until f fits. *)
Dropped(s, f) ==
  CHOOSE k \in 0..Len(queue[s]) :
    /\ k = Len(queue[s]) \/ Fits(s, k, f)
    /\ \A j \in 0..(k - 1) : ~Fits(s, j, f)

(* Fault: close_locked forgets queued_bytes_. *)
CloseLockedKeepsBytes(s) ==
  /\ closed' = [closed EXCEPT ![s] = TRUE]
  /\ queue' = [queue EXCEPT ![s] = <<>>]
  /\ UNCHANGED queued_bytes

(* close_locked. *)
CloseLocked(s) ==
  /\ closed' = [closed EXCEPT ![s] = TRUE]
  /\ queue' = [queue EXCEPT ![s] = <<>>]
  /\ queued_bytes' = [queued_bytes EXCEPT ![s] = 0]

(* push_back_locked behind what is left of the queue. *)
PushBack(s, k, f) ==
  /\ queue' = [queue EXCEPT ![s] =
                 Append(SubSeq(@, k + 1, Len(@)), f)]
  /\ queued_bytes' = [queued_bytes EXCEPT ![s] =
                        @ - Bytes(SubSeq(queue[s], 1, k)) + f.size]

(* SseSubscriber::enqueue up to the release of its mutex. *)
Enqueue(s, f) ==
  LET k == Dropped(s, f)
      overflow == overflows[s] + 1
  IN \/ closed[s] /\ UNCHANGED <<queue, queued_bytes, closed, overflows>>
     \/ /\ ~closed[s] /\ f.size > MaxQueued
        /\ CloseLocked(s) /\ UNCHANGED overflows
     \/ /\ ~closed[s] /\ f.size <= MaxQueued /\ k = 0
        /\ PushBack(s, 0, f) /\ UNCHANGED <<closed, overflows>>
     \/ /\ ~closed[s] /\ f.size <= MaxQueued /\ k > 0
        /\ overflows' = [overflows EXCEPT ![s] = overflow]
        /\ IF overflow >= MaxOverflows
             THEN CloseLocked(s)
             ELSE PushBack(s, k, f) /\ UNCHANGED closed

(* Fault: publish() does not hold the mutex of the channel. *)
BeginUnlocked(t, what) ==
  /\ cpc[t] = "idle"
  /\ accepting
  /\ cpc' = [cpc EXCEPT ![t] = "each"]
  /\ op' = [op EXCEPT ![t] = what]
  /\ UNCHANGED lock

(* The channel dies with its owner: no public call is under way then, and  *)
(* none follows.                                                           *)
Begin(t, what) ==
  /\ cpc[t] = "idle"
  /\ lock = Nobody /\ accepting
  /\ lock' = t
  /\ cpc' = [cpc EXCEPT ![t] = "each"]
  /\ op' = [op EXCEPT ![t] = what]

(* publish() with a frame within max_event_bytes; a larger one throws      *)
(* before the mutex is taken.                                              *)
BeginPublish(t, size) ==
  /\ Begin(t, "publish")
  /\ published < MaxEvents
  /\ published' = published + 1
  /\ frame' = [frame EXCEPT ![t] = [id |-> published + 1, size |-> size]]
  /\ subscribers' = Pruned
  /\ todo' = [todo EXCEPT ![t] = Pruned]
  /\ UNCHANGED <<subscriber, phase, notified, accepting, target, pumping>>

BeginCloseAll(t) ==
  /\ Begin(t, "close")
  /\ todo' = [todo EXCEPT ![t] = subscribers]
  /\ UNCHANGED <<subscriber, phase, notified, subscribers, accepting,
                 published, target, frame, pumping>>

(* ~SseChannel: shutdown(). *)
Shutdown(t) ==
  /\ \A u \in Callers : cpc[u] = "idle"
  /\ Begin(t, "close")
  /\ accepting' = FALSE
  /\ todo' = [todo EXCEPT ![t] = subscribers]
  /\ UNCHANGED <<subscriber, phase, notified, subscribers, published, target,
                 frame, pumping>>

(* After the subscriber's mutex: notify() if there was a notifier. *)
Then(t, s, copied) ==
  /\ todo' = [todo EXCEPT ![t] = Tail(@)]
  /\ IF copied
       THEN /\ cpc' = [cpc EXCEPT ![t] = "notify"]
            /\ target' = [target EXCEPT ![t] = s]
       ELSE UNCHANGED <<cpc, target>>

(* Fault: a subscriber that enqueue() closes is not notified. *)
PublishToSparesClosed(t) ==
  LET s == Head(todo[t])
  IN /\ cpc[t] = "each" /\ op[t] = "publish" /\ todo[t] # <<>>
     /\ Enqueue(s, frame[t])
     /\ Then(t, s, notifier[s] /\ ~closed'[s])
     /\ UNCHANGED <<notifier, quiet, last, phase, notified, channel, op, frame,
                    pumping>>

PublishTo(t) ==
  LET s == Head(todo[t])
  IN /\ cpc[t] = "each" /\ op[t] = "publish" /\ todo[t] # <<>>
     /\ Enqueue(s, frame[t])
     /\ Then(t, s, notifier[s] /\ ~closed[s])
     /\ UNCHANGED <<notifier, quiet, last, phase, notified, channel, op, frame,
                    pumping>>

(* Fault: begin_close() skips a subscriber that is not attached yet. *)
BeginCloseAttached(t) ==
  LET s == Head(todo[t])
  IN /\ cpc[t] = "each" /\ op[t] = "close" /\ todo[t] # <<>>
     /\ closed' = [closed EXCEPT ![s] = @ \/ notifier[s]]
     /\ Then(t, s, notifier[s])
     /\ UNCHANGED <<queue, queued_bytes, notifier, overflows, quiet, last,
                    phase, notified, channel, op, frame, pumping>>

(* Fault: begin_close() does not notify. *)
BeginCloseSilently(t) ==
  LET s == Head(todo[t])
  IN /\ cpc[t] = "each" /\ op[t] = "close" /\ todo[t] # <<>>
     /\ closed' = [closed EXCEPT ![s] = TRUE]
     /\ Then(t, s, FALSE)
     /\ UNCHANGED <<queue, queued_bytes, notifier, overflows, quiet, last,
                    phase, notified, channel, op, frame, pumping>>

(* begin_close(): what is queued may still be pulled. *)
BeginClose(t) ==
  LET s == Head(todo[t])
  IN /\ cpc[t] = "each" /\ op[t] = "close" /\ todo[t] # <<>>
     /\ closed' = [closed EXCEPT ![s] = TRUE]
     /\ Then(t, s, notifier[s])
     /\ UNCHANGED <<queue, queued_bytes, notifier, overflows, quiet, last,
                    phase, notified, channel, op, frame, pumping>>

(* The notifier is a no-op once its stream is gone. *)
Notify(s) ==
  notified' = [notified EXCEPT ![s] = phase[s] \in Attached]

CallNotify(t) ==
  /\ cpc[t] = "notify"
  /\ Notify(target[t])
  /\ cpc' = [cpc EXCEPT ![t] = "each"]
  /\ target' = [target EXCEPT ![t] = Nobody]
  /\ UNCHANGED <<subscriber, phase, channel, op, todo, frame, pumping>>

End(t) ==
  /\ cpc[t] = "each" /\ todo[t] = <<>>
  /\ lock' = Nobody
  /\ subscribers' = IF op[t] = "close" THEN <<>> ELSE subscribers
  /\ cpc' = [cpc EXCEPT ![t] = "idle"]
  /\ op' = [op EXCEPT ![t] = "publish"]
  /\ frame' = [frame EXCEPT ![t] = Small]
  /\ UNCHANGED <<subscriber, phase, notified, accepting, published, todo,
                 target, pumping>>

-----------------------------------------------------------------------------
(* HeartbeatPump::run *)

(* idle_.wait: the predicate is tested under the mutex, before it waits    *)
(* and again whenever it is signalled.                                     *)
PumpWait ==
  /\ pump = "run" /\ pumped = {}
  /\ pump' = "waiting"
  /\ signalled' = FALSE
  /\ UNCHANGED <<subscriber, phase, notified, channel, caller, pumped, visit,
                 beat>>

PumpSignalled ==
  /\ pump = "waiting" /\ signalled
  /\ pump' = "run"
  /\ UNCHANGED <<subscriber, phase, notified, channel, caller, pumped, visit,
                 beat, signalled>>

(* wait_for has slept for one tick. *)
BeginTick ==
  /\ pump = "run" /\ pumped # {}
  /\ pump' = "tick"
  /\ visit' = pumped
  /\ UNCHANGED <<subscriber, phase, notified, channel, caller, pumped, beat,
                 signalled>>

DropDead(s) ==
  /\ pump = "tick" /\ s \in visit
  /\ ~Alive(s)
  /\ visit' = visit \ {s}
  /\ pumped' = pumped \ {s}
  /\ UNCHANGED <<subscriber, phase, notified, channel, caller, pump, beat,
                 signalled>>

(* maybe_heartbeat: too early, or something is queued. *)
NoHeartbeat(s) ==
  /\ pump = "tick" /\ s \in visit
  /\ Alive(s)
  /\ quiet[s] < Interval \/ queue[s] # <<>>
  /\ visit' = visit \ {s}
  /\ quiet' = [quiet EXCEPT ![s] = IF @ < Interval THEN @ + 1 ELSE @]
  /\ UNCHANGED <<queue, queued_bytes, closed, notifier, overflows, last,
                 phase, notified, channel, caller, pumped, pump, beat,
                 signalled>>

Heartbeat(s) ==
  /\ pump = "tick" /\ s \in visit
  /\ Alive(s)
  /\ quiet[s] >= Interval /\ queue[s] = <<>>
  /\ visit' = visit \ {s}
  /\ quiet' = [quiet EXCEPT ![s] = 0]
  /\ IF SmallFrame > MaxQueued
       THEN CloseLocked(s)
       ELSE PushBack(s, 0, Small) /\ UNCHANGED closed
  /\ IF notifier[s] THEN pump' = "notify" /\ beat' = s
                    ELSE UNCHANGED <<pump, beat>>
  /\ UNCHANGED <<notifier, overflows, last, phase, notified, channel, caller,
                 pumped, signalled>>

PumpNotify ==
  /\ pump = "notify"
  /\ Notify(beat)
  /\ pump' = "tick" /\ beat' = Nobody
  /\ UNCHANGED <<subscriber, phase, channel, caller, pumped, visit, signalled>>

EndTick ==
  /\ pump = "tick" /\ visit = {}
  /\ pump' = "run"
  /\ UNCHANGED <<subscriber, phase, notified, channel, caller, pumped, visit,
                 beat, signalled>>

-----------------------------------------------------------------------------
Handle(s) == AddToPump(s) \/ NotifyPump(s) \/ OnAttached(s)

Drive(s) == PullWrote(s) \/ PullIdle(s) \/ PullFinished(s) \/ Woken(s)

CallerStep(t) == PublishTo(t) \/ BeginClose(t) \/ CallNotify(t) \/ End(t)

PumpStep ==
  \/ PumpWait \/ PumpSignalled \/ BeginTick \/ PumpNotify \/ EndTick
  \/ \E s \in Subs : DropDead(s) \/ NoHeartbeat(s) \/ Heartbeat(s)

Next ==
  \/ \E s \in Subs : \/ Subscribe(s) \/ Handle(s) \/ Drive(s)
                     \/ Writable(s) \/ OnDetached(s)
  \/ RefuseSubscriber
  \/ \E t \in Callers : \/ CallerStep(t) \/ BeginCloseAll(t) \/ Shutdown(t)
                        \/ \E z \in Sizes : BeginPublish(t, z)
  \/ PumpStep

(* The threads inside a call, the reactors and the pump run.  A stream     *)
(* that stays blocked is ended by the write timeout of its connection.     *)
Fairness ==
  /\ \A s \in Subs :
       /\ WF_vars(Handle(s)) /\ WF_vars(Drive(s))
       /\ WF_vars(phase[s] = "blocked" /\ OnDetached(s))
  /\ \A t \in Callers : WF_vars(CallerStep(t))
  /\ WF_vars(PumpStep)

Spec == Init /\ [][Next]_vars /\ Fairness

-----------------------------------------------------------------------------
(* Properties *)

(* Every live subscriber is in the channel's list, once, so that publish() *)
(* and close_all() reach it; and the list respects max_subscribers.        *)
LiveAreListed ==
  /\ \A s \in Subs :
       Alive(s) =>
         Cardinality({k \in 1..Len(subscribers) : subscribers[k] = s}) = 1
  /\ Len(subscribers) <= MaxSubscribers

(* queued_bytes_ is the size of what is queued and stays in the budget, so *)
(* the unsigned subtraction in enqueue() cannot wrap around.               *)
BudgetExact ==
  \A s \in Subs :
    queued_bytes[s] = Bytes(queue[s]) /\ queued_bytes[s] <= MaxQueued

(* The number of the last event that a subscriber has been offered. *)
Offered(s) ==
  IF \E t \in Callers :
       /\ cpc[t] # "idle" /\ op[t] = "publish"
       /\ \E k \in 1..Len(todo[t]) : todo[t][k] = s
    THEN published - 1 ELSE published

(* What a live subscriber has queued is the newest events, in the order    *)
(* they were published, without a gap or a duplicate; and without an       *)
(* overflow it continues exactly where the last pull ended.                *)
InOrderNoGap ==
  \A s \in Subs : Alive(s) =>
    LET events == Kept(queue[s], Events)
        before == Offered(s) - Len(events)
    IN /\ \A k \in 1..Len(events) : events[k].id = before + k
       /\ before >= last[s]
       /\ overflows[s] = 0 => before = last[s]

FeedOf(s) ==
  LET pending == Kept(queue[s], Events)
      newest == IF pending = <<>> THEN last[s] ELSE pending[Len(pending)].id
  IN [state |-> IF phase[s] = "none" THEN "out"
                ELSE IF phase[s] = "gone" THEN "over"
                ELSE IF closed[s] THEN "closing" ELSE "open",
      sent |-> last[s], from |-> newest - Len(pending), upto |-> newest,
      skips |-> IF closed[s] THEN 0 ELSE overflows[s]]

Feeds == [s \in Subs |-> FeedOf(s)]

Feed == INSTANCE EventFeed
          WITH MaxSkips <- MaxOverflows, log <- published, feed <- Feeds

(* The queues, their budget and the overflow count implement a feed of     *)
(* events: step by step each subscriber is offered every event after it    *)
(* joined once and in order, loses only the oldest it waits for and only   *)
(* so often between two pulls, is sent exactly what it waits for, and is   *)
(* offered nothing once it is closed.                                      *)
ImplementsEventFeed == Feed!Spec

UsesNotifier(s) == beat = s \/ \E t \in Callers : target[t] = s

(* A parked stream that has something to send, or has to end, has a wakeup *)
(* on its way.                                                             *)
ParkedIsWoken ==
  \A s \in Subs :
    phase[s] = "parked" /\ (queue[s] # <<>> \/ closed[s])
      => notified[s] \/ UsesNotifier(s)

HostOf(s) ==
  CASE phase[s] \in {"none", "created", "added", "held"} -> "unused"
    [] phase[s] = "driving" -> "running"
    [] phase[s] \in {"parked", "blocked"} -> phase[s]
    [] phase[s] = "gone" -> "over"

Hosts == [s \in Subs |-> HostOf(s)]
Waiting ==
  {s \in Subs : phase[s] \in Attached /\ (queue[s] # <<>> \/ closed[s])}
Ringing ==
  {s \in Subs : phase[s] \in Attached /\ (notified[s] \/ UsesNotifier(s))}

Host == INSTANCE StreamHost
          WITH Streams <- Subs, host <- Hosts, data <- Waiting,
               bell <- Ringing, open <- TRUE

(* Subscribers, publishers and the pump keep the source's side of the      *)
(* contract that Reactor keeps as a host: every frame and every end of a   *)
(* stream rings, from whatever thread, and what the reactors do with a     *)
(* subscriber here is no more than a host does.                            *)
FeedsStreams == Host!Spec

(* StreamSource::on_detached: the source has stopped using its notifier    *)
(* when it returns.                                                        *)
NotifierUnusedAfterDetach ==
  \A s \in Subs : phase[s] = "gone" => ~UsesNotifier(s)

(* The destruction of the channel ends every stream.                       *)
ShutdownEndsStreams ==
  ~accepting ~> \A s \in Subs : phase[s] \in {"none", "gone"}

(* A parked stream does not stay silent: the pump wakes it.                *)
HeartbeatsFlow ==
  \A s \in Subs : phase[s] = "parked" ~> phase[s] # "parked"
=============================================================================
