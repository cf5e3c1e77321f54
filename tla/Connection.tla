----------------------------- MODULE Connection -----------------------------
(***************************************************************************)
(* One connection, driven by its reactor (src/src/connection.cpp).         *)
(*                                                                         *)
(* The reactor calls step() when epoll reports the interest it armed last, *)
(* on_stream_notified() after a notification of the stream source, and     *)
(* on_deadline_expired() from its scan.  A call drives the connection      *)
(* until it blocks: here it runs from pc = "idle" through the drive_*      *)
(* functions, one iteration of a loop at a time, back to "idle" with a new *)
(* interest, or to "done".  The peer and the source act in between.        *)
(*                                                                         *)
(* Bytes are abstracted to tokens.  A request is an optional "part" (some  *)
(* of its head), then one token that completes the head and names the kind *)
(* of the request, then "body" if the kind has one; "bad" is anything the  *)
(* parser rejects.  Time is counted in scans of the deadlines: a timer is  *)
(* the number of scans left.                                               *)
(***************************************************************************)
EXTENDS Integers, Sequences

CONSTANTS
  MaxPipelined,     \* kMaxPipelinedRequestsPerStep
  MaxRequests,      \* max_requests_per_connection
  ReadChunk,        \* most tokens one transport_read returns
  HandshakeTimeout, HeaderTimeout, BodyTimeout, WriteTimeout,
  KeepAliveIdle, RequestDeadline, StreamIdle,
  MaxSent,          \* bound: tokens the peer sends in a behaviour
  Off               \* a deadline that is not set (time_point{})

ASSUME ConnectionAssumption ==
  /\ {MaxPipelined, MaxRequests, ReadChunk, HandshakeTimeout, HeaderTimeout,
      BodyTimeout, WriteTimeout, KeepAliveIdle, RequestDeadline, StreamIdle}
       \subseteq Nat \ {0}
  /\ MaxSent \in Nat
  /\ Off \notin Nat

VARIABLES
  c,       \* the Connection, and the call of the reactor under way in it
  secure,  \* the listener has TLS
  hello,   \* the peer's half of the TLS handshake: awaited, sent, used
  wire,    \* sent by the peer, unread in the kernel
  ssl,     \* decrypted by OpenSSL, not handed out yet
  sent,    \* how many tokens the peer has sent, and the last of them
  peer,    \* open; eof: its sending side is closed; reset
  room,    \* the socket takes more
  feed,    \* the stream source: data to pull, end reached, reactor notified
  h        \* history, see below

transport == <<secure, hello, wire, ssl, sent, peer, room>>
vars == <<c, transport, feed, h>>

States == {"Handshaking", "ReadingHeaders", "ReadingBody", "Writing",
           "Streaming", "Closing"}
Reading == {"ReadingHeaders", "ReadingBody"}
Drives == {"handshake", "headers", "body", "write", "stream"}
Interests == {"Quiescent", "Read", "Write", "ReadWrite"}

Streamed == {"stream", "headstream"}  \* a streaming route; by GET, by HEAD
Kinds == {"get", "close", "post"} \cup Streamed
Tokens == Kinds \cup {"part", "body", "bad"}

NoFeed == [data |-> FALSE, ended |-> FALSE, notified |-> FALSE]

Feeds == [data : BOOLEAN, ended : BOOLEAN, notified : BOOLEAN]

Timer == Nat \cup {Off}

Connections ==
  [state : States, pc : Drives \cup {"idle", "done"},
   caller : {"headers", "body", "write", "deadline"},
   pass : 0..(MaxPipelined - 1), interest : Interests,
   read_buffer : Seq(Tokens), request : Kinds \cup {"none", "error"},
   out : 0..2, stream : {"none", "held", "attached"},
   waiting : BOOLEAN, saw_any_bytes : BOOLEAN,
   requests_served : 0..MaxRequests, deadline : Nat, request_deadline : Timer]

Histories ==
  [announced : {"none", "keep-alive", "close"},
   fate : {"none", "kept", "closed"}, age : Nat, stall : Nat,
   taken : Nat, detached : Nat]

TypeOK ==
  /\ c \in Connections
  /\ secure \in BOOLEAN
  /\ hello \in {"awaited", "sent", "used"}
  /\ wire \in Seq(Tokens) /\ ssl \in Seq(Tokens)
  /\ sent \in [count : 0..MaxSent, last : Tokens]
  /\ peer \in {"open", "eof", "reset"} /\ room \in BOOLEAN
  /\ feed \in Feeds
  /\ h \in Histories

-----------------------------------------------------------------------------
(* Deadlines *)

Min2(a, b) == IF a < b THEN a ELSE b

(* Fault: no clamp. *)
ArmDeadlineUnclamped(d, budget) == [d EXCEPT !.deadline = budget]

(* Connection::arm_deadline: the absolute deadline of the request clamps   *)
(* every phase but streaming.                                              *)
ArmDeadline(d, budget) ==
  [d EXCEPT !.deadline =
     IF d.request_deadline # Off /\ d.state # "Streaming"
       THEN Min2(budget, d.request_deadline)
       ELSE budget]

Budget(d) ==
  CASE d.state = "Handshaking" -> HandshakeTimeout
    [] d.state = "ReadingHeaders" ->
         IF ~d.saw_any_bytes /\ d.requests_served > 0 THEN KeepAliveIdle
                                                      ELSE HeaderTimeout
    [] d.state = "ReadingBody" -> BodyTimeout
    [] d.state \in {"Writing", "Closing"} -> WriteTimeout
    [] d.state = "Streaming" -> StreamIdle

EnterState(d, next) ==
  LET e == [d EXCEPT !.state = next] IN ArmDeadline(e, Budget(e))

Init ==
  /\ c = EnterState([state |-> "Handshaking", pc |-> "idle",
                     caller |-> "headers", pass |-> 0, interest |-> "Read",
                     read_buffer |-> <<>>, request |-> "none", out |-> 0,
                     stream |-> "none", waiting |-> FALSE,
                     saw_any_bytes |-> FALSE, requests_served |-> 0,
                     deadline |-> 0, request_deadline |-> Off],
                    "Handshaking")
  /\ secure \in BOOLEAN
  /\ hello = IF secure THEN "awaited" ELSE "used"
  /\ wire = <<>> /\ ssl = <<>>
  /\ sent = [count |-> 0, last |-> "body"]
  /\ peer = "open" /\ room = TRUE
  /\ feed = NoFeed
  /\ h = [announced |-> "none", fate |-> "none", age |-> 0, stall |-> 0,
          taken |-> 0, detached |-> 0]

-----------------------------------------------------------------------------
(* The ends of a call *)

(* The call returns to the reactor, which arms the interest. *)
Return(d, interest) == c' = [d EXCEPT !.pc = "idle", !.interest = interest]

Continue(d, drive) == c' = [d EXCEPT !.pc = drive]

DetachCount == IF c.stream = "none" THEN 0 ELSE 1

(* Fault: the source is kept. *)
ReleaseKeepsSource(d) == [d EXCEPT !.waiting = FALSE]

(* release_stream_source(): idempotent, on_detached once per source. *)
Release(d) == [d EXCEPT !.stream = "none", !.waiting = FALSE]

(* Done: the reactor closes and destroys the connection, with or without a *)
(* begin_close() and drive_close() before it.  Its timers and buffers die  *)
(* with it, and so do the kernel's and OpenSSL's.                          *)
Destroy(d) ==
  /\ c' = [Release(d) EXCEPT !.pc = "done", !.state = "Closing", !.out = 0,
                             !.caller = "headers", !.pass = 0,
                             !.interest = "Quiescent", !.read_buffer = <<>>,
                             !.request = "none", !.saw_any_bytes = FALSE,
                             !.request_deadline = Off, !.deadline = 0]
  /\ wire' = <<>> /\ ssl' = <<>> /\ room' = FALSE
  /\ hello' = "used" /\ peer' = "reset"
  /\ feed' = NoFeed
  /\ UNCHANGED <<secure, sent>>

Finish ==
  /\ Destroy(c)
  /\ h' = [h EXCEPT !.detached = @ + DetachCount, !.age = 0, !.stall = 0]

-----------------------------------------------------------------------------
(* Parsing and dispatch *)

Size(k) == IF k = "post" THEN 2 ELSE 1

(* RequestParser::parse on the whole buffer, and waiting_for_body().       *)
Parse(b) ==
  LET skip == IF b # <<>> /\ Head(b) = "part" THEN 1 ELSE 0
  IN IF Len(b) <= skip THEN "more"
     ELSE IF b[skip + 1] = "bad" THEN "error"
     ELSE IF Len(b) < skip + Size(b[skip + 1]) THEN "body"
     ELSE "ok"

ParsedKind(b) == IF Head(b) = "part" THEN b[2] ELSE b[1]

Consumed(b) == (IF Head(b) = "part" THEN 1 ELSE 0) + Size(ParsedKind(b))

KeepAlive(k) == k \in Kinds \ (Streamed \cup {"close"})

(* dispatch_and_serialize() for a request or an error, then Writing: the   *)
(* Connection header is decided before the response is counted, and the    *)
(* write timeout replaces the budget of the request.                       *)
Serialize(d, k) ==
  LET e == [d EXCEPT !.request = k, !.out = 2, !.request_deadline = Off,
                     !.stream = IF k \in Streamed THEN "held" ELSE @]
  IN EnterState(e, "Writing")

(* Fault: the response about to go out is not counted. *)
AnnounceEarly(k) ==
  h' = [h EXCEPT
          !.announced = IF KeepAlive(k) /\ c.requests_served < MaxRequests
                          THEN "keep-alive" ELSE "close",
          !.fate = "none", !.age = 0,
          !.taken = IF k \in Streamed THEN @ + 1 ELSE @]

Announce(k) ==
  h' = [h EXCEPT
          !.announced = IF KeepAlive(k) /\ c.requests_served + 1 < MaxRequests
                          THEN "keep-alive" ELSE "close",
          !.fate = "none", !.age = 0,
          !.taken = IF k \in Streamed THEN @ + 1 ELSE @]

(* adopt_parsed_request() and dispatch. *)
AnswerRequest ==
  LET k == ParsedKind(c.read_buffer)
      n == Consumed(c.read_buffer)
      d == [c EXCEPT !.read_buffer = SubSeq(@, n + 1, Len(@))]
  IN /\ Continue(Serialize(d, k), "write")
     /\ Announce(k)

(* serialize_error(): the parser and the request are reset, so keep-alive  *)
(* is off; what is buffered stays.                                         *)
AnswerError(caller) ==
  /\ Continue(Serialize([c EXCEPT !.caller = caller], "error"), "write")
  /\ Announce("error")

-----------------------------------------------------------------------------
(* Reading *)

Prefix(q, n) == SubSeq(q, 1, n)
Rest(q, n) == SubSeq(q, n + 1, Len(q))

(* transport_read with data at hand.  Plain: what the kernel has.  TLS: a  *)
(* record is taken from the kernel and decrypted as a whole; what does not *)
(* fit the caller's span stays inside OpenSSL, out of epoll's sight.       *)
Decrypted ==
  IF ssl # <<>> THEN {[record |-> ssl, wire |-> wire]}
  ELSE {[record |-> Prefix(wire, m), wire |-> Rest(wire, m)] :
          m \in 1..Len(wire)}

Deliveries ==
  IF secure
    THEN UNION {{[bytes |-> Prefix(r.record, n), ssl |-> Rest(r.record, n),
                  wire |-> r.wire] : n \in 1..Min2(ReadChunk, Len(r.record))} :
                r \in Decrypted}
    ELSE {[bytes |-> Prefix(wire, n), ssl |-> <<>>, wire |-> Rest(wire, n)] :
            n \in 1..Min2(ReadChunk, Len(wire))}

NothingToRead == wire = <<>> /\ ssl = <<>>

(* The first byte of a request starts its absolute budget. *)
Commit(bytes) ==
  LET d == [c EXCEPT !.read_buffer = @ \o bytes]
  IN IF d.state = "ReadingHeaders" /\ ~d.saw_any_bytes
       THEN ArmDeadline([d EXCEPT !.saw_any_bytes = TRUE,
                                  !.request_deadline = RequestDeadline],
                        HeaderTimeout)
       ELSE d

ReadTransport ==
  \/ \E r \in Deliveries :
       /\ c' = Commit(r.bytes)
       /\ wire' = r.wire /\ ssl' = r.ssl
       /\ UNCHANGED <<secure, hello, sent, peer, room, feed, h>>
  \/ /\ NothingToRead /\ peer = "open"
     /\ \E i \in {"Read"} \cup {w \in {"Write"} : secure} : Return(c, i)
     /\ UNCHANGED <<transport, feed, h>>
  \/ /\ NothingToRead /\ peer # "open"
     /\ Finish

(* One iteration of drive_handshake. *)
DriveHandshake ==
  /\ c.pc = "handshake"
  /\ \/ /\ hello # "awaited"
        /\ hello' = "used"
        /\ Continue([EnterState(c, "ReadingHeaders") EXCEPT
                       !.pass = 0, !.caller = "headers"], "headers")
        /\ UNCHANGED <<secure, wire, ssl, sent, peer, room, feed, h>>
     \/ /\ hello = "awaited" /\ peer = "open"
        /\ \E i \in {"Read", "Write"} : Return(c, i)
        /\ UNCHANGED <<transport, feed, h>>
     \/ /\ secure /\ (hello = "sent" \/ peer # "open")
        /\ Finish

(* One iteration of drive_read_headers. *)
DriveReadHeaders ==
  /\ c.pc = "headers"
  /\ CASE Parse(c.read_buffer) = "ok" ->
            AnswerRequest /\ UNCHANGED <<transport, feed>>
       [] Parse(c.read_buffer) = "error" ->
            AnswerError("headers") /\ UNCHANGED <<transport, feed>>
       [] Parse(c.read_buffer) = "body" ->
            /\ Continue(EnterState(c, "ReadingBody"), "body")
            /\ UNCHANGED <<transport, feed, h>>
       [] OTHER -> ReadTransport

(* One iteration of drive_read_body: the head is complete, so the parser   *)
(* only waits for the body.                                                *)
DriveReadBody ==
  /\ c.pc = "body"
  /\ IF Parse(c.read_buffer) = "ok"
       THEN AnswerRequest /\ UNCHANGED <<transport, feed>>
       ELSE ReadTransport

-----------------------------------------------------------------------------
(* Writing *)

(* transport_writev takes one unit; the socket may be full afterwards. *)
WriteUnit(d) ==
  /\ room
  /\ room' \in BOOLEAN
  /\ c' = d

(* Fault: a request behind a body waits for the next read event. *)
AfterResponseForgetsBuffer(d) ==
  CASE d.caller = "headers" /\ d.pass + 1 < MaxPipelined ->
         Continue([d EXCEPT !.pass = @ + 1], "headers")
    [] d.caller = "headers" /\ d.pass + 1 = MaxPipelined ->
         Return([d EXCEPT !.pass = 0],
                IF d.read_buffer # <<>> THEN "ReadWrite" ELSE "Read")
    [] d.caller = "body" -> Return(d, "Read")
    [] OTHER -> Continue([d EXCEPT !.pass = 0, !.caller = "headers"],
                         "headers")

(* What the caller of drive_write does once the response is out and the    *)
(* connection is back in ReadingHeaders: the rest of step(), or the next   *)
(* pass of drive_read_headers and the end of its budget.                   *)
AfterResponse(d) ==
  CASE d.caller = "headers" /\ d.pass + 1 < MaxPipelined ->
         Continue([d EXCEPT !.pass = @ + 1], "headers")
    [] d.caller = "headers" /\ d.pass + 1 = MaxPipelined ->
         Return([d EXCEPT !.pass = 0],
                IF d.read_buffer # <<>> THEN "ReadWrite" ELSE "Read")
    [] d.caller = "body" /\ d.read_buffer = <<>> -> Return(d, "Read")
    [] OTHER -> Continue([d EXCEPT !.pass = 0, !.caller = "headers"],
                         "headers")

(* Fault: bytes left in the buffer do not start the next request. *)
KeepConnectionFresh ==
  LET n == c.requests_served + 1
      d == [c EXCEPT !.requests_served = n, !.request = "none",
                     !.saw_any_bytes = FALSE, !.request_deadline = Off]
  IN /\ KeepAlive(c.request) /\ n < MaxRequests
     /\ AfterResponse(EnterState(d, "ReadingHeaders"))
     /\ h' = [h EXCEPT !.fate = "kept"]
     /\ UNCHANGED <<transport, feed>>

(* The end of drive_write for a response that keeps the connection. *)
KeepConnection ==
  LET n == c.requests_served + 1
      more == c.read_buffer # <<>>
      d == [c EXCEPT !.requests_served = n, !.request = "none",
                     !.saw_any_bytes = more,
                     !.request_deadline = IF more THEN RequestDeadline
                                                  ELSE Off]
  IN /\ KeepAlive(c.request) /\ n < MaxRequests
     /\ AfterResponse(EnterState(d, "ReadingHeaders"))
     /\ h' = [h EXCEPT !.fate = "kept"]
     /\ UNCHANGED <<transport, feed>>

CloseAfterResponse ==
  LET n == c.requests_served + 1
  IN /\ c.request # "stream"
     /\ ~(KeepAlive(c.request) /\ n < MaxRequests)
     /\ Destroy([c EXCEPT !.requests_served = n])
     /\ h' = [h EXCEPT !.fate = "closed", !.detached = @ + DetachCount]

(* The head of a stream is out: the source is attached, unless             *)
(* on_attached() throws.                                                   *)
AttachStream ==
  /\ c.request = "stream"
  /\ \/ /\ Continue(EnterState([c EXCEPT !.stream = "attached"], "Streaming"),
                    "stream")
        /\ UNCHANGED <<transport, feed, h>>
     \/ Finish

DriveWrite ==
  /\ c.pc = "write"
  /\ \/ /\ c.out > 0 /\ peer # "reset"
        /\ WriteUnit([c EXCEPT !.out = @ - 1])
        /\ UNCHANGED <<secure, hello, wire, ssl, sent, peer, feed, h>>
     \/ /\ c.out > 0 /\ peer # "reset" /\ ~room
        /\ \E i \in {"Write"} \cup {r \in {"Read"} : secure} : Return(c, i)
        /\ UNCHANGED <<transport, feed, h>>
     \/ c.out > 0 /\ peer = "reset" /\ Finish
     \/ c.out = 0 /\ (KeepConnection \/ CloseAfterResponse \/ AttachStream)

-----------------------------------------------------------------------------
(* Streaming *)

(* Progress rearms the write timeout; the last unit rearms the idle timeout *)
FlushUnit ==
  LET d == [c EXCEPT !.out = @ - 1, !.waiting = FALSE]
  IN /\ c.out > 0 /\ peer # "reset"
     /\ WriteUnit(ArmDeadline(d, IF d.out > 0 THEN WriteTimeout
                                              ELSE StreamIdle))
     /\ h' = [h EXCEPT !.stall = 0]
     /\ UNCHANGED <<secure, hello, wire, ssl, sent, peer, feed>>

(* Fault: every blocked flush arms the write timeout. *)
FlushBlockedRearms ==
  /\ c.out > 0 /\ peer # "reset" /\ ~room
  /\ \E i \in {"Write"} \cup {r \in {"Read"} : secure} :
       Return(ArmDeadline([c EXCEPT !.waiting = TRUE], WriteTimeout), i)
  /\ UNCHANGED <<transport, feed, h>>

(* A blocked flush arms the write timeout once, however often the source   *)
(* notifies in the meantime.                                               *)
FlushBlocked ==
  LET d == IF c.waiting THEN c
           ELSE ArmDeadline([c EXCEPT !.waiting = TRUE], WriteTimeout)
  IN /\ c.out > 0 /\ peer # "reset" /\ ~room
     /\ \E i \in {"Write"} \cup {r \in {"Read"} : secure} : Return(d, i)
     /\ UNCHANGED <<transport, feed, h>>

(* pull() with the outcome Wrote: all of the queue at once. *)
PullWrote ==
  /\ c.out = 0 /\ c.stream = "attached" /\ feed.data
  /\ \E n \in 1..2 : Continue([c EXCEPT !.out = n], "stream")
  /\ feed' = [feed EXCEPT !.data = FALSE]
  /\ UNCHANGED <<transport, h>>

(* Idle, or Wrote without a byte. *)
PullIdle ==
  /\ c.out = 0 /\ c.stream = "attached" /\ ~feed.data /\ ~feed.ended
  /\ Return(c, "Quiescent")
  /\ UNCHANGED <<transport, feed, h>>

(* Finished with a last piece: the source is released, the piece flushed.  *)
PullLast ==
  /\ c.out = 0 /\ c.stream = "attached" /\ feed.data /\ feed.ended
  /\ Continue([Release(c) EXCEPT !.out = 1], "stream")
  /\ feed' = [feed EXCEPT !.data = FALSE]
  /\ h' = [h EXCEPT !.detached = @ + DetachCount]
  /\ UNCHANGED transport

(* Finished with nothing, or the piece above has gone out. *)
StreamOver ==
  /\ c.out = 0
  /\ c.stream = "none" \/ (feed.ended /\ ~feed.data)
  /\ Finish

DriveStream ==
  /\ c.pc = "stream"
  /\ \/ FlushUnit \/ FlushBlocked
     \/ c.out > 0 /\ peer = "reset" /\ Finish
     \/ PullWrote \/ PullIdle \/ PullLast \/ StreamOver

-----------------------------------------------------------------------------
(* The reactor *)

Readable == wire # <<>> \/ peer = "eof" \/ hello = "sent"

Ready ==
  \/ c.interest \in {"Read", "ReadWrite"} /\ Readable
  \/ c.interest \in {"Write", "ReadWrite"} /\ room

DriveOf(st) ==
  CASE st = "Handshaking" -> "handshake" [] st = "ReadingHeaders" -> "headers"
    [] st = "ReadingBody" -> "body"      [] st = "Writing" -> "write"
    [] st = "Streaming" -> "stream"

CallerOf(st) ==
  CASE st = "ReadingBody" -> "body" [] st = "Writing" -> "write"
    [] OTHER -> "headers"

(* Reactor::handle_connection_event and Connection::step. *)
Step ==
  /\ c.pc = "idle"
  /\ Ready /\ peer # "reset"
  /\ Continue([c EXCEPT !.caller = CallerOf(c.state), !.pass = 0],
              DriveOf(c.state))
  /\ UNCHANGED <<transport, feed, h>>

(* ERR and HUP are delivered whatever the mask, and are terminal. *)
StepHup ==
  /\ c.pc = "idle"
  /\ peer = "reset"
  /\ Finish

OnStreamNotified ==
  /\ c.pc = "idle"
  /\ c.state = "Streaming" /\ feed.notified
  /\ Continue(c, "stream")
  /\ feed' = [feed EXCEPT !.notified = FALSE]
  /\ UNCHANGED <<transport, h>>

(* Fault: a stream has no deadline. *)
OnDeadlineExpiredSparesStreams ==
  /\ c.pc = "idle"
  /\ c.deadline = 0 /\ c.state # "Streaming"
  /\ IF c.state \in Reading /\ c.saw_any_bytes
       THEN AnswerError("deadline") /\ UNCHANGED <<transport, feed>>
       ELSE Finish

(* on_deadline_expired: a request that has begun is answered 408, anything *)
(* else closes.                                                            *)
OnDeadlineExpired ==
  /\ c.pc = "idle"
  /\ c.deadline = 0
  /\ IF c.state \in Reading /\ c.saw_any_bytes
       THEN AnswerError("deadline") /\ UNCHANGED <<transport, feed>>
       ELSE Finish

(* The time between two scans.  A scan comes at least every kMaxEpollWait, *)
(* so time does not pass over a deadline that is due.                      *)
Tick ==
  /\ c.pc = "idle"
  /\ c.deadline > 0
  /\ c' = [c EXCEPT !.deadline = @ - 1,
                    !.request_deadline = IF @ = Off THEN Off ELSE @ - 1]
  /\ h' = [h EXCEPT !.age = IF c.state \in Reading /\ c.saw_any_bytes
                              THEN @ + 1 ELSE 0,
                    !.stall = IF c.waiting THEN @ + 1 ELSE 0]
  /\ UNCHANGED <<transport, feed>>

-----------------------------------------------------------------------------
(* The peer and the stream source: external.  A step of the peer that only *)
(* commutes with the call under way happens before or after it.            *)

Follows(last, t) ==
  CASE last = "part" -> t \in Kinds \cup {"bad"}
    [] last = "post" -> t = "body"
    [] last = "bad" -> FALSE
    [] OTHER -> t \in Kinds \cup {"part", "bad"}

PeerSends(t) ==
  /\ c.pc \in {"idle", "headers", "body"} /\ hello = "used" /\ peer = "open"
  /\ sent.count < MaxSent
  /\ Follows(sent.last, t)
  /\ sent' = [count |-> sent.count + 1, last |-> t]
  /\ wire' = Append(wire, t)
  /\ UNCHANGED <<c, secure, hello, ssl, peer, room, feed, h>>

PeerHello ==
  /\ c.pc = "idle" /\ hello = "awaited" /\ peer = "open"
  /\ hello' = "sent"
  /\ UNCHANGED <<c, secure, wire, ssl, sent, peer, room, feed, h>>

PeerCloses ==
  /\ c.pc \in {"idle", "headers", "body"} /\ peer = "open"
  /\ peer' = "eof"
  /\ UNCHANGED <<c, secure, hello, wire, ssl, sent, room, feed, h>>

(* The kernel drops what was not read. *)
PeerResets ==
  /\ c.pc # "done" /\ peer # "reset"
  /\ peer' = "reset" /\ wire' = <<>>
  /\ UNCHANGED <<c, secure, hello, ssl, sent, room, feed, h>>

PeerReads ==
  /\ c.pc = "idle" /\ ~room /\ peer # "reset"
  /\ room' = TRUE
  /\ UNCHANGED <<c, secure, hello, wire, ssl, sent, peer, feed, h>>

(* Data may be queued before the source is attached; a notification needs  *)
(* the notifier.                                                           *)
SourceProduces ==
  /\ c.pc \in {"idle", "stream"} /\ c.stream # "none" /\ ~feed.ended
  /\ feed' = [feed EXCEPT !.data = TRUE,
                          !.notified = @ \/ c.stream = "attached"]
  /\ UNCHANGED <<c, transport, h>>

SourceEnds ==
  /\ c.pc \in {"idle", "stream"} /\ c.stream # "none" /\ ~feed.ended
  /\ feed' = [feed EXCEPT !.ended = TRUE,
                          !.notified = @ \/ c.stream = "attached"]
  /\ UNCHANGED <<c, transport, h>>

Terminated == c.pc = "done" /\ UNCHANGED vars

Drive ==
  DriveHandshake \/ DriveReadHeaders \/ DriveReadBody \/ DriveWrite
    \/ DriveStream

Environment ==
  \/ \E t \in Tokens : PeerSends(t)
  \/ PeerHello \/ PeerCloses \/ PeerResets \/ PeerReads
  \/ SourceProduces \/ SourceEnds

Next ==
  \/ Drive
  \/ Step \/ StepHup \/ OnStreamNotified \/ OnDeadlineExpired \/ Tick
  \/ Environment
  \/ Terminated

(* The reactor thread runs and time passes.  The deadlines are scanned     *)
(* after every wait, so the scan keeps coming however often the connection *)
(* is stepped in between: strong fairness.  Nothing is assumed of the peer *)
(* or of the source.                                                       *)
Fairness ==
  /\ WF_vars(Drive)
  /\ WF_vars(Step \/ StepHup) /\ WF_vars(OnStreamNotified)
  /\ SF_vars(OnDeadlineExpired)
  /\ SF_vars(Tick)

Spec == Init /\ [][Next]_vars /\ Fairness

-----------------------------------------------------------------------------
(* Properties *)

Parked(st) == c.pc = "idle" /\ c.state \in st

(* The three records of "a request has begun" agree whenever a reading     *)
(* connection waits: bytes in the buffer, saw_any_bytes_ (which decides    *)
(* between 408 and a silent close) and a running request deadline.         *)
RequestClockRuns ==
  Parked(Reading) =>
    /\ c.saw_any_bytes <=> c.read_buffer # <<>>
    /\ c.saw_any_bytes <=> c.request_deadline # Off

(* A request that trickles in is cut off within request_deadline of its    *)
(* first byte, through headers and body, whatever the other timeouts add   *)
(* up to.                                                                  *)
RequestBudget == c.state \in Reading => h.age <= RequestDeadline

(* A stream whose peer does not read is cut off within write_timeout,      *)
(* however often its source notifies.                                      *)
StallBounded == h.stall <= WriteTimeout

(* The Connection header told the truth: after a whole response the        *)
(* connection is kept if and only if keep-alive was announced.             *)
KeepAliveHonest ==
  h.fate # "none" => (h.fate = "kept" <=> h.announced = "keep-alive")

(* Every source taken from a response is detached exactly once, on every   *)
(* path: HEAD, a throwing on_attached, peer reset, timeout, end of stream. *)
DetachedOnce ==
  /\ h.detached + DetachCount = h.taken
  /\ c.pc = "done" => c.stream = "none"

(* step() drives until it is blocked: a connection that waits for the next *)
(* bytes of the peer has no complete request left to answer and nothing    *)
(* left to read.                                                           *)
DrivesUntilBlocked ==
  Parked({"ReadingHeaders"}) /\ c.interest = "Read" =>
    Parse(c.read_buffer) = "more" /\ ssl = <<>>

(* The same for cleartext connections. *)
PlainDrivesUntilBlocked == ~secure => DrivesUntilBlocked

BytesMove == c.pc = "stream" /\ c.out > 0 /\ room

(* No connection outlives its deadlines: it ends, unless it is a stream    *)
(* whose bytes keep moving.                                                *)
IdleConnectionsEnd == <>(c.pc = "done") \/ []<>BytesMove
=============================================================================
