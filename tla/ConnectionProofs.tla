-------------------------- MODULE ConnectionProofs --------------------------
(***************************************************************************)
(* The safety properties of module Connection for every value of its       *)
(* timeouts, limits and chunk sizes, and for however many tokens the peer  *)
(* sends.                                                                  *)
(***************************************************************************)
EXTENDS Connection, SequenceFacts, TLAPS

(* The drive under way is the one of the state, and a connection that      *)
(* still exists may answer one request more.                               *)
Control ==
  /\ c.pc = "done" <=> c.state = "Closing"
  /\ c.pc \in Drives => c.pc = DriveOf(c.state)
  /\ c.pc # "done" => c.requests_served < MaxRequests

(* The clock of a request: it runs exactly from the first byte to the end  *)
(* of the reading, clamps the deadline, and has the age of the request.    *)
Clock ==
  /\ c.state \in Reading =>
       /\ c.saw_any_bytes <=> c.read_buffer # <<>>
       /\ c.saw_any_bytes <=> c.request_deadline # Off
  /\ c.state = "Handshaking" => ~c.saw_any_bytes /\ c.read_buffer = <<>>
  /\ c.state = "ReadingBody" => c.saw_any_bytes
  /\ c.state \notin Reading => c.request_deadline = Off
  /\ c.request_deadline # Off => c.deadline <= c.request_deadline
  /\ IF c.state \in Reading /\ c.saw_any_bytes
       THEN h.age + c.request_deadline = RequestDeadline
       ELSE h.age = 0

(* The time a stream has been stalled is missing from its deadline.        *)
Stall ==
  IF c.waiting
    THEN /\ c.state = "Streaming" /\ c.out > 0
         /\ h.stall + c.deadline <= WriteTimeout
    ELSE h.stall = 0

(* What was announced is what the end of the response will decide, and     *)
(* which response has a source.                                            *)
Announced ==
  c.state = "Writing" =>
    /\ c.stream = "none" <=> c.request \notin Streamed
    /\ h.announced = "keep-alive" <=>
         KeepAlive(c.request) /\ c.requests_served + 1 < MaxRequests

Sourced ==
  /\ c.stream # "none" => c.state \in {"Writing", "Streaming"}
  /\ h.detached + DetachCount = h.taken

(* Everything the peer has sent and the parser has not consumed is whole   *)
(* requests one after the other, the last one perhaps unfinished.          *)
Unread == c.read_buffer \o (ssl \o wire)
Starts == Kinds \cup {"part", "bad"}
Ends == (Kinds \ {"post"}) \cup {"body"}

Chained(q) ==
  /\ \A i \in 1..(Len(q) - 1) : Follows(q[i], q[i + 1])
  /\ q # <<>> => q[1] \in Starts

Framed ==
  /\ Chained(Unread)
  /\ peer = "open" =>
       IF Unread = <<>> THEN sent.last \in Ends
                        ELSE sent.last = Unread[Len(Unread)]

PlainInv == ~secure => ssl = <<>>

Core ==
  /\ TypeOK /\ Control /\ Clock /\ Stall /\ Announced /\ Sourced
  /\ KeepAliveHonest

Inv == Core /\ Framed /\ PlainInv /\ PlainDrivesUntilBlocked

-----------------------------------------------------------------------------
(* Deadlines *)

(* Arming changes the deadline and nothing else; it is never later than    *)
(* the budget and, outside streaming, never later than the request's.      *)
LEMMA Arming ==
  ASSUME NEW d \in Connections, NEW budget \in Nat
  PROVE  \E t \in Nat :
           /\ ArmDeadline(d, budget) = [d EXCEPT !.deadline = t]
           /\ t <= budget
           /\ d.request_deadline # Off /\ d.state # "Streaming"
                => t <= d.request_deadline
           /\ d.state = "Streaming" => t = budget
<1> DEFINE t == IF d.request_deadline # Off /\ d.state # "Streaming"
                  THEN Min2(budget, d.request_deadline) ELSE budget
<1>1. d.request_deadline \in Nat \cup {Off}
  BY DEF Connections, Timer
<1>2. /\ t \in Nat /\ t <= budget
      /\ d.request_deadline # Off /\ d.state # "Streaming"
           => t <= d.request_deadline
      /\ d.state = "Streaming" => t = budget
  BY <1>1 DEF Min2
<1>3. ArmDeadline(d, budget) = [d EXCEPT !.deadline = t]
  BY DEF ArmDeadline
<1> QED
  BY <1>2, <1>3

(* stall_timeout() is positive in every state: no deadline is armed that *)
(* has already run out.                                                  *)
LEMMA Budgets ==
  ASSUME NEW d, d.state \in States
  PROVE  Budget(d) \in Nat \ {0}
BY ConnectionAssumption DEF Budget, States

(* Entering a state changes the state and the deadline.                    *)
LEMMA Entering ==
  ASSUME NEW d \in Connections, NEW next \in States
  PROVE  \E t \in Nat :
           /\ EnterState(d, next) = [d EXCEPT !.state = next, !.deadline = t]
           /\ d.request_deadline # Off /\ next # "Streaming"
                => t <= d.request_deadline
<1> DEFINE e == [d EXCEPT !.state = next]
<1>1. e \in Connections
  BY DEF Connections
<1>2. e.state = next /\ e.request_deadline = d.request_deadline
  BY DEF Connections
<1>3. Budget(e) \in Nat
  BY <1>2, Budgets
<1>4. PICK t \in Nat :
        /\ ArmDeadline(e, Budget(e)) = [e EXCEPT !.deadline = t]
        /\ e.request_deadline # Off /\ e.state # "Streaming"
             => t <= e.request_deadline
  BY <1>1, <1>3, Arming
<1>5. EnterState(d, next) = [e EXCEPT !.deadline = t]
  BY <1>4 DEF EnterState
<1> QED
  BY <1>2, <1>4, <1>5

-----------------------------------------------------------------------------
(* Time passing: the clock, the stall and the request deadlines stay *)
(* within the bounds that Core gives.                                *)
LEMMA TickCore ==
  ASSUME Core, Tick
  PROVE  Core'
<1> USE DEF Core
<1>1. /\ c.deadline \in Nat \ {0} /\ h.age \in Nat /\ h.stall \in Nat
      /\ c.request_deadline \in Nat \cup {Off}
      /\ Off \notin Nat /\ RequestDeadline \in Nat
      /\ c.saw_any_bytes \in BOOLEAN /\ c.waiting \in BOOLEAN
  BY ConnectionAssumption DEF Tick, TypeOK, Connections, Histories, Timer
<1> DEFINE age == IF c.state \in Reading /\ c.saw_any_bytes THEN h.age + 1 ELSE 0
           stall == IF c.waiting THEN h.stall + 1 ELSE 0
           left == IF c.request_deadline = Off THEN Off ELSE c.request_deadline - 1
<1>2. /\ c' = [c EXCEPT !.deadline = c.deadline - 1, !.request_deadline = left]
      /\ h' = [h EXCEPT !.age = age, !.stall = stall]
  BY DEF Tick
<1>3. c.request_deadline # Off => c.deadline <= c.request_deadline
  BY DEF Clock
<1>4. /\ c.deadline - 1 \in Nat /\ left \in Timer
      /\ age \in Nat /\ stall \in Nat
  BY <1>1, <1>3 DEF Timer
<1> HIDE DEF age, stall, left
<1>5. UNCHANGED <<transport, feed>>
  BY DEF Tick
<1>6. TypeOK'
  <2>1. c' \in Connections
    BY <1>2, <1>4 DEF TypeOK, Connections, Histories
  <2>2. h' \in Histories
    BY <1>2, <1>4 DEF TypeOK, Histories
  <2> QED
    BY <1>5, <2>1, <2>2 DEF TypeOK, transport
<1>7. /\ c'.state = c.state /\ c'.saw_any_bytes = c.saw_any_bytes
      /\ c'.read_buffer = c.read_buffer /\ c'.waiting = c.waiting
      /\ c'.out = c.out /\ c'.pc = c.pc /\ c'.requests_served = c.requests_served
      /\ c'.stream = c.stream /\ c'.request = c.request
      /\ c'.deadline = c.deadline - 1 /\ c'.request_deadline = left
      /\ h'.age = age /\ h'.stall = stall /\ h'.announced = h.announced
      /\ h'.fate = h.fate /\ h'.taken = h.taken /\ h'.detached = h.detached
  BY <1>2 DEF TypeOK, Connections, Histories
<1>8. Control' /\ Announced' /\ Sourced' /\ KeepAliveHonest'
  BY <1>7 DEF Control, Announced, Sourced, KeepAliveHonest, DetachCount, DriveOf
<1>9. Clock'
  <2>1. CASE c.request_deadline = Off
    BY <1>1, <1>7, <2>1 DEF Clock, left, age
  <2>2. CASE c.request_deadline # Off
    <3>1. c.state \in Reading /\ c.saw_any_bytes /\ c.request_deadline \in Nat
      BY <1>1, <2>2 DEF Clock
    <3>2. left # Off /\ left = c.request_deadline - 1 /\ age = h.age + 1
      BY <1>1, <1>3, <2>2, <3>1 DEF left, age
    <3> QED
    BY <1>1, <1>3, <1>7, <2>2, <3>1, <3>2 DEF Clock
  <2> QED BY <2>1, <2>2
<1>10. Stall'
  BY <1>1, <1>7 DEF Stall, stall
<1> QED BY <1>6, <1>8, <1>9, <1>10

(* A step that only moves control: to the reactor, or to the drive of the  *)
(* state.                                                                  *)
LEMMA MoveCore ==
  ASSUME Core, c.pc # "done",
         NEW p \in Drives \cup {"idle"}, p \in Drives => p = DriveOf(c.state),
         NEW i \in Interests, NEW n \in 0..(MaxPipelined - 1),
         NEW k \in {"headers", "body", "write", "deadline"},
         c' = [c EXCEPT !.pc = p, !.interest = i, !.pass = n, !.caller = k],
         UNCHANGED <<transport, h>>,
         feed' \in Feeds
  PROVE  Core'
<1> USE DEF Core
<1>1. c' \in Connections
  BY DEF TypeOK, Connections
<1>2. TypeOK'
  BY <1>1 DEF TypeOK, transport
<1>3. /\ c'.state = c.state /\ c'.saw_any_bytes = c.saw_any_bytes
      /\ c'.read_buffer = c.read_buffer /\ c'.waiting = c.waiting
      /\ c'.out = c.out /\ c'.pc = p
      /\ c'.requests_served = c.requests_served
      /\ c'.stream = c.stream /\ c'.request = c.request
      /\ c'.deadline = c.deadline
      /\ c'.request_deadline = c.request_deadline
  BY DEF TypeOK, Connections
<1>4. Control'
  BY <1>3 DEF Control, DriveOf, Drives
<1>5. Clock' /\ Stall' /\ Announced' /\ Sourced' /\ KeepAliveHonest'
  BY <1>3 DEF Clock, Stall, Announced, Sourced, DetachCount, KeepAliveHonest
<1> QED
  BY <1>2, <1>4, <1>5

(* The end of a connection, with the response that ends it counted or not. *)
LEMMA DestroyCore ==
  ASSUME Core, NEW n \in 0..MaxRequests,
         Destroy([c EXCEPT !.requests_served = n]),
         h' \in Histories, h'.age = 0, h'.stall = 0, h'.taken = h.taken,
         h'.detached = h.detached + DetachCount,
         KeepAliveHonest'
  PROVE  Core' /\ c'.pc = "done" /\ c'.read_buffer = <<>>
<1> USE DEF Core
<1>1. c \in Connections
  BY DEF TypeOK
<1>2. c' \in Connections
  <2>1. 0 \in 0..(MaxPipelined - 1) /\ 0 \in 0..2 /\ <<>> \in Seq(Tokens)
    BY ConnectionAssumption
  <2> DEFINE r == [c EXCEPT !.requests_served = n, !.stream = "none",
                            !.waiting = FALSE, !.pc = "done"]
             d == [r EXCEPT !.state = "Closing", !.out = 0,
                            !.caller = "headers", !.pass = 0]
  <2>2. d \in Connections
    <3>1. r \in Connections
      BY <1>1 DEF Connections
    <3> HIDE DEF r
    <3> QED
      BY <2>1, <3>1 DEF Connections, States
  <2>3. c' = [d EXCEPT !.interest = "Quiescent", !.read_buffer = <<>>,
                       !.request = "none", !.saw_any_bytes = FALSE,
                       !.request_deadline = Off, !.deadline = 0]
    BY DEF Destroy, Release
  <2> HIDE DEF d
  <2> QED
    BY <2>1, <2>2, <2>3 DEF Connections, Interests, Timer
<1>3. /\ c'.pc = "done" /\ c'.state = "Closing" /\ c'.stream = "none"
      /\ c'.request_deadline = Off /\ c'.waiting = FALSE
      /\ c'.read_buffer = <<>>
  BY <1>1 DEF Destroy, Release, Connections
<1>4. TypeOK'
  <2>1. /\ wire' = <<>> /\ ssl' = <<>> /\ room' = FALSE /\ hello' = "used"
        /\ peer' = "reset" /\ feed' = NoFeed /\ UNCHANGED <<secure, sent>>
    BY DEF Destroy
  <2>2. <<>> \in Seq(Tokens) /\ NoFeed \in Feeds
    BY DEF NoFeed, Feeds
  <2> QED
    BY <1>2, <2>1, <2>2 DEF TypeOK
<1>5. Control' /\ Announced'
  BY <1>3 DEF Control, Announced, Drives
<1>6. Clock' /\ Stall'
  BY <1>3 DEF Clock, Stall, Reading
<1>7. Sourced'
  BY <1>3 DEF Sourced, DetachCount, TypeOK, Histories
<1> QED
  BY <1>3, <1>4, <1>5, <1>6, <1>7

(* close() and the destructor: the transport, the source and the buffer *)
(* go at once, and Core survives.                                       *)
LEMMA FinishCore ==
  ASSUME Core, Finish
  PROVE  Core' /\ c'.pc = "done" /\ c'.read_buffer = <<>>
<1>1. c = [c EXCEPT !.requests_served = c.requests_served]
      /\ c.requests_served \in 0..MaxRequests
  BY DEF Core, TypeOK, Connections
<1>2. /\ h' = [h EXCEPT !.detached = h.detached + DetachCount, !.age = 0,
                        !.stall = 0]
      /\ Destroy(c) /\ DetachCount \in Nat
  BY DEF Finish, DetachCount
<1>3. /\ h' \in Histories /\ h'.age = 0 /\ h'.stall = 0 /\ h'.taken = h.taken
      /\ h'.detached = h.detached + DetachCount
      /\ h'.fate = h.fate /\ h'.announced = h.announced
  <2> HIDE DEF DetachCount
  <2>1. h.detached + DetachCount \in Nat
    BY <1>2 DEF Core, TypeOK, Histories
  <2> QED
    BY <1>2, <2>1 DEF Core, TypeOK, Histories
<1>4. KeepAliveHonest'
  BY <1>3 DEF Core, KeepAliveHonest
<1> QED
  BY <1>1, <1>2, <1>3, <1>4, DestroyCore

(* A request or an error is answered: the reading ends, and with it the    *)
(* clock of the request.                                                   *)
LEMMA AnswerCore ==
  ASSUME Core, c.state \in Reading, NEW k \in Kinds \cup {"error"},
         NEW b \in Seq(Tokens), NEW l \in {"headers", "body", "write", "deadline"},
         Continue(Serialize([c EXCEPT !.read_buffer = b, !.caller = l], k),
                  "write"),
         Announce(k), UNCHANGED <<transport, feed>>
  PROVE  Core' /\ c'.pc = "write" /\ c'.read_buffer = b
<1> USE DEF Core
<1>1. c \in Connections /\ h \in Histories
  BY DEF TypeOK
<1>2. c.stream = "none" /\ c.pc # "done" /\ ~c.waiting /\ h.stall = 0
  BY DEF Sourced, Control, Stall, Reading
<1> DEFINE s == IF k \in Streamed THEN "held" ELSE "none"
           e == [c EXCEPT !.read_buffer = b, !.caller = l, !.request = k,
                          !.out = 2, !.request_deadline = Off, !.stream = s]
<1>3. e \in Connections
  <2>1. s \in {"none", "held", "attached"} /\ 2 \in 0..2
    OBVIOUS
  <2> HIDE DEF s
  <2> QED
    BY <1>1, <2>1 DEF Connections, Timer
<1> HIDE DEF e, s
<1>4. PICK t \in Nat :
        EnterState(e, "Writing") = [e EXCEPT !.state = "Writing", !.deadline = t]
  BY <1>3, Entering DEF States
<1>5. c' = [e EXCEPT !.state = "Writing", !.deadline = t, !.pc = "write"]
  <2>1. e = [[c EXCEPT !.read_buffer = b, !.caller = l] EXCEPT
                !.request = k, !.out = 2, !.request_deadline = Off,
                !.stream = IF k \in Streamed THEN "held"
                           ELSE [c EXCEPT !.read_buffer = b,
                                          !.caller = l].stream]
    BY <1>1, <1>2 DEF Connections, e, s
  <2>2. Serialize([c EXCEPT !.read_buffer = b, !.caller = l], k) =
          EnterState(e, "Writing")
    BY <2>1 DEF Serialize
  <2> QED
    BY <2>2, <1>4 DEF Continue
<1>6. /\ c' \in Connections /\ c'.pc = "write" /\ c'.state = "Writing"
      /\ c'.request = k /\ c'.stream = s /\ c'.request_deadline = Off
      /\ c'.requests_served = c.requests_served /\ c'.waiting = c.waiting
      /\ c'.read_buffer = b
  <2>1. c' \in Connections /\ c'.pc = "write" /\ c'.state = "Writing"
    BY <1>3, <1>5 DEF Connections, States, Drives
  <2>2. \A f \in {"request", "stream", "request_deadline", "requests_served",
                  "waiting", "read_buffer"} : c'[f] = e[f]
    BY <1>3, <1>5 DEF Connections
  <2>3. /\ e.request = k /\ e.stream = s /\ e.request_deadline = Off
        /\ e.requests_served = c.requests_served /\ e.waiting = c.waiting
        /\ e.read_buffer = b
    BY <1>1 DEF Connections, e
  <2> QED
    BY <2>1, <2>2, <2>3
<1> DEFINE a == IF KeepAlive(k) /\ c.requests_served + 1 < MaxRequests
                  THEN "keep-alive" ELSE "close"
           n == IF k \in Streamed THEN h.taken + 1 ELSE h.taken
<1>7. /\ h' = [h EXCEPT !.announced = a, !.fate = "none", !.age = 0,
                        !.taken = n]
      /\ a \in {"none", "keep-alive", "close"} /\ n \in Nat
  BY <1>1 DEF Announce, Histories
<1>8. /\ h' \in Histories /\ h'.announced = a /\ h'.fate = "none"
      /\ h'.age = 0 /\ h'.taken = n /\ h'.stall = h.stall
      /\ h'.detached = h.detached
  <2> HIDE DEF a, n
  <2> QED
    BY <1>1, <1>7 DEF Histories
<1>9. TypeOK'
  BY <1>6, <1>8 DEF TypeOK, transport
<1>10. Control' /\ KeepAliveHonest'
  BY <1>2, <1>6, <1>8 DEF Control, DriveOf, Drives, KeepAliveHonest
<1>11. Clock' /\ Stall'
  BY <1>2, <1>6, <1>8 DEF Clock, Stall, Reading
<1>12. Announced' /\ Sourced'
  BY <1>1, <1>2, <1>6, <1>8
     DEF Announced, Sourced, DetachCount, Histories, s
<1> QED
  BY <1>6, <1>9, <1>10, <1>11, <1>12

-----------------------------------------------------------------------------
(* What the peer has sent *)

(* What the program does after a response is one of the ways a drive can *)
(* start again.                                                          *)
LEMMA FollowsStarts ==
  ASSUME NEW a \in Ends, NEW t, Follows(a, t)
  PROVE  t \in Starts
BY DEF Ends, Follows, Starts, Kinds, Streamed

(* The first of two sequences that form a chain together is a chain. *)
LEMMA ChainPrefix ==
  ASSUME NEW p \in Seq(Tokens), NEW q \in Seq(Tokens), Chained(p \o q)
  PROVE  Chained(p)
<1>1. /\ p \o q \in Seq(Tokens) /\ Len(p \o q) = Len(p) + Len(q)
      /\ \A i \in 1..Len(p) + Len(q) : (p \o q)[i] =
           IF i <= Len(p) THEN p[i] ELSE q[i - Len(p)]
  BY ConcatProperties
<1>2. Len(p) \in Nat /\ Len(q) \in Nat
  BY LenProperties
<1>3. \A i \in 1..Len(p) : (p \o q)[i] = p[i]
  BY <1>1, <1>2
<1>4. ASSUME NEW i \in 1..(Len(p) - 1)
      PROVE  Follows(p[i], p[i + 1])
  <2>1. i \in 1..Len(p) /\ i + 1 \in 1..Len(p) /\ i \in 1..(Len(p \o q) - 1)
    BY <1>1, <1>2
  <2>2. Follows((p \o q)[i], (p \o q)[i + 1])
    BY <2>1 DEF Chained
  <2> QED
    BY <1>3, <2>1, <2>2
<1>5. ASSUME p # <<>>
      PROVE  p[1] \in Starts
  <2>1. 1 \in 1..Len(p) /\ p \o q # <<>>
    BY <1>1, <1>2, <1>5, EmptySeq
  <2> QED
    BY <1>3, <2>1 DEF Chained
<1> QED
  BY <1>4, <1>5 DEF Chained

(* Dropping whole requests leaves whole requests. *)
LEMMA ChainDrop ==
  ASSUME NEW q \in Seq(Tokens), Chained(q), NEW n \in 1..Len(q), q[n] \in Ends
  PROVE  Chained(SubSeq(q, n + 1, Len(q)))
<1> DEFINE r == SubSeq(q, n + 1, Len(q))
<1>1. /\ r \in Seq(Tokens) /\ Len(r) = Len(q) - n /\ Len(q) \in Nat
      /\ \A i \in 1..(Len(q) - n) : r[i] = q[n + i]
  BY Cut, LenProperties
<1> HIDE DEF r
<1>2. ASSUME NEW i \in 1..(Len(r) - 1)
      PROVE  Follows(r[i], r[i + 1])
  <2>1. /\ r[i] = q[n + i] /\ r[i + 1] = q[n + (i + 1)]
        /\ n + (i + 1) = (n + i) + 1 /\ n + i \in 1..(Len(q) - 1)
    BY <1>1
  <2> QED
    BY <2>1 DEF Chained
<1>3. ASSUME r # <<>>
      PROVE  r[1] \in Starts
  <2>1. Len(r) # 0
    BY <1>1, <1>3, EmptySeq
  <2>2. r[1] = q[n + 1] /\ n \in 1..(Len(q) - 1)
    BY <1>1, <2>1
  <2>3. Follows(q[n], q[n + 1])
    BY <2>2 DEF Chained
  <2> QED
    BY <2>2, <2>3, FollowsStarts
<1>4. Chained(r)
  BY <1>2, <1>3 DEF Chained
<1> QED
  BY <1>4 DEF r

(* A token that follows the last one prolongs the chain. *)
LEMMA ChainAppend ==
  ASSUME NEW q \in Seq(Tokens), Chained(q), NEW t \in Tokens, NEW last,
         IF q = <<>> THEN last \in Ends ELSE last = q[Len(q)],
         Follows(last, t)
  PROVE  Chained(Append(q, t))
<1> DEFINE r == Append(q, t)
<1>1. /\ r \in Seq(Tokens) /\ Len(r) = Len(q) + 1 /\ Len(q) \in Nat
      /\ \A i \in 1..Len(q) : r[i] = q[i]
      /\ r[Len(q) + 1] = t
  BY AppendProperties, LenProperties
<1> HIDE DEF r
<1>2. ASSUME NEW i \in 1..(Len(r) - 1)
      PROVE  Follows(r[i], r[i + 1])
  <2>1. CASE i = Len(q)
    <3>1. q # <<>> /\ r[i] = q[Len(q)] /\ r[i + 1] = t
      BY <1>1, <2>1, EmptySeq
    <3> QED
      BY <3>1
  <2>2. CASE i # Len(q)
    <3>1. i \in 1..(Len(q) - 1) /\ r[i] = q[i] /\ r[i + 1] = q[i + 1]
      BY <1>1, <2>2
    <3> QED
      BY <3>1 DEF Chained
  <2> QED
    BY <2>1, <2>2
<1>3. r[1] \in Starts
  <2>1. CASE q = <<>>
    BY <1>1, <2>1, EmptySeq, FollowsStarts
  <2>2. CASE q # <<>>
    <3>1. 1 \in 1..Len(q)
      BY <1>1, <2>2, EmptySeq
    <3> QED
      BY <1>1, <2>2, <3>1 DEF Chained
  <2> QED
    BY <2>1, <2>2
<1>4. Chained(r)
  BY <1>2, <1>3 DEF Chained
<1> QED
  BY <1>4 DEF r

(* A request that the parser finds complete has a kind, lies in the buffer *)
(* and ends where the next one may begin.                                  *)
LEMMA Parsing ==
  ASSUME NEW b \in Seq(Tokens), Chained(b), Parse(b) = "ok"
  PROVE  /\ ParsedKind(b) \in Kinds
         /\ Consumed(b) \in 1..Len(b)
         /\ b[Consumed(b)] \in Ends
<1>1. Len(b) \in Nat /\ b # <<>>
  BY LenProperties DEF Parse
<1>2. Len(b) >= 1 /\ Head(b) = b[1]
  BY <1>1, EmptySeq
<1>3. b[1] \in Starts /\ \A i \in 1..(Len(b) - 1) : Follows(b[i], b[i + 1])
  BY <1>1 DEF Chained
<1>4. CASE b[1] = "part"
  <2>1. Len(b) > 1 /\ b[2] # "bad" /\ Len(b) >= 1 + Size(b[2])
    BY <1>1, <1>2, <1>4 DEF Parse, Size
  <2>2. Follows(b[1], b[2])
    BY <1>1, <1>3, <2>1
  <2>3. b[2] \in Kinds
    BY <1>4, <2>1, <2>2 DEF Follows
  <2>4. ParsedKind(b) = b[2] /\ Consumed(b) = 1 + Size(b[2])
    BY <1>2, <1>4 DEF ParsedKind, Consumed
  <2>5. CASE b[2] = "post"
    <3>1. Consumed(b) = 3 /\ Len(b) >= 3
      BY <2>1, <2>4, <2>5 DEF Size
    <3>2. Follows(b[2], b[3])
      BY <1>1, <1>3, <3>1
    <3>3. b[3] = "body"
      BY <2>5, <3>2 DEF Follows
    <3> QED
      BY <1>1, <2>3, <2>4, <3>1, <3>3 DEF Ends
  <2>6. CASE b[2] # "post"
    <3>1. Consumed(b) = 2
      BY <2>4, <2>6 DEF Size
    <3> QED
      BY <1>1, <2>1, <2>3, <2>4, <2>6, <3>1 DEF Ends
  <2> QED
    BY <2>5, <2>6
<1>5. CASE b[1] # "part"
  <2>1. b[1] # "bad" /\ Len(b) >= Size(b[1])
    BY <1>1, <1>2, <1>5 DEF Parse, Size
  <2>2. b[1] \in Kinds
    BY <1>3, <1>5, <2>1 DEF Starts
  <2>3. ParsedKind(b) = b[1] /\ Consumed(b) = Size(b[1])
    BY <1>2, <1>5 DEF ParsedKind, Consumed, Size
  <2>4. CASE b[1] = "post"
    <3>1. Consumed(b) = 2 /\ Len(b) >= 2
      BY <2>1, <2>3, <2>4 DEF Size
    <3>2. Follows(b[1], b[2])
      BY <1>1, <1>3, <3>1
    <3>3. b[2] = "body"
      BY <2>4, <3>2 DEF Follows
    <3> QED
      BY <1>1, <2>2, <2>3, <3>1, <3>3 DEF Ends
  <2>5. CASE b[1] # "post"
    <3>1. Consumed(b) = 1
      BY <2>3, <2>5 DEF Size
    <3> QED
      BY <1>1, <1>2, <2>2, <2>3, <2>5, <3>1 DEF Ends
  <2> QED
    BY <2>4, <2>5
<1> QED
  BY <1>4, <1>5

-----------------------------------------------------------------------------
(* Reading *)

(* What one read hands out is the front of what is unread below it. *)
LEMMA Delivering ==
  ASSUME TypeOK, PlainInv, NEW r \in Deliveries
  PROVE  /\ r.bytes \in Seq(Tokens) /\ r.ssl \in Seq(Tokens)
         /\ r.wire \in Seq(Tokens) /\ r.bytes # <<>>
         /\ r.bytes \o (r.ssl \o r.wire) = ssl \o wire
         /\ ~secure => r.ssl = <<>>
<1> DEFINE Front(q, n) == Prefix(q, n) # <<>> /\ Prefix(q, n) \in Seq(Tokens)
                          /\ Rest(q, n) \in Seq(Tokens)
                          /\ Prefix(q, n) \o Rest(q, n) = q
<1>1. /\ wire \in Seq(Tokens) /\ ssl \in Seq(Tokens) /\ secure \in BOOLEAN
      /\ ReadChunk \in Nat
  BY ConnectionAssumption DEF TypeOK
<1>2. ASSUME NEW q \in Seq(Tokens), NEW n \in 1..Len(q)
      PROVE  Front(q, n)
  <2>1. n \in 0..Len(q) /\ n # 0 /\ Len(q) \in Nat
    BY LenProperties
  <2>2. /\ SubSeq(q, 1, n) \in Seq(Tokens)
        /\ SubSeq(q, n + 1, Len(q)) \in Seq(Tokens)
        /\ Len(SubSeq(q, 1, n)) = n
        /\ SubSeq(q, 1, n) \o SubSeq(q, n + 1, Len(q)) = q
    BY <2>1, Cut
  <2>3. SubSeq(q, 1, n) # <<>>
    BY <2>1, <2>2, EmptySeq
  <2> QED
    BY <2>2, <2>3 DEF Prefix, Rest
<1>3. ASSUME NEW q \in Seq(Tokens), NEW n \in 1..Min2(ReadChunk, Len(q))
      PROVE  n \in 1..Len(q)
  <2>1. Len(q) \in Nat
    BY LenProperties
  <2> QED
    BY <1>1, <2>1 DEF Min2
<1> HIDE DEF Front
<1>4. CASE ~secure
  <2>1. PICK n \in 1..Min2(ReadChunk, Len(wire)) :
          r = [bytes |-> Prefix(wire, n), ssl |-> <<>>, wire |-> Rest(wire, n)]
    BY <1>4 DEF Deliveries
  <2>2. Front(wire, n) /\ ssl = <<>>
    BY <1>1, <1>2, <1>3, <1>4 DEF PlainInv
  <2>3. /\ r.bytes \in Seq(Tokens) /\ r.ssl \in Seq(Tokens)
        /\ r.wire \in Seq(Tokens) /\ r.bytes # <<>> /\ r.ssl = <<>>
        /\ r.bytes \o r.wire = wire
    BY <2>1, <2>2 DEF Front
  <2>4. <<>> \o r.wire = r.wire /\ <<>> \o wire = wire
    BY <1>1, <2>3, ConcatEmptySeq
  <2> QED
    BY <2>2, <2>3, <2>4
<1>5. CASE secure
  <2>1. PICK d \in Decrypted : \E n \in 1..Min2(ReadChunk, Len(d.record)) :
          r = [bytes |-> Prefix(d.record, n), ssl |-> Rest(d.record, n),
               wire |-> d.wire]
    BY <1>5 DEF Deliveries
  <2>2. /\ d.record \in Seq(Tokens) /\ d.wire \in Seq(Tokens)
        /\ d.record \o d.wire = ssl \o wire
    <3>1. CASE ssl # <<>>
      BY <1>1, <3>1 DEF Decrypted
    <3>2. CASE ssl = <<>>
      <4>1. PICK m \in 1..Len(wire) :
              d = [record |-> Prefix(wire, m), wire |-> Rest(wire, m)]
        BY <3>2 DEF Decrypted
      <4>2. Front(wire, m)
        BY <1>1, <1>2
      <4>3. <<>> \o wire = wire
        BY <1>1, ConcatEmptySeq
      <4> QED
        BY <3>2, <4>1, <4>2, <4>3 DEF Front
    <3> QED
      BY <3>1, <3>2
  <2>3. PICK n \in 1..Min2(ReadChunk, Len(d.record)) :
          r = [bytes |-> Prefix(d.record, n), ssl |-> Rest(d.record, n),
               wire |-> d.wire]
    BY <2>1
  <2>4. Front(d.record, n)
    BY <1>2, <1>3, <2>2
  <2>5. /\ r.bytes \in Seq(Tokens) /\ r.ssl \in Seq(Tokens)
        /\ r.wire \in Seq(Tokens) /\ r.bytes # <<>>
        /\ r.bytes \o r.ssl = d.record /\ r.wire = d.wire
    BY <2>2, <2>3, <2>4 DEF Front
  <2>6. (r.bytes \o r.ssl) \o r.wire = r.bytes \o (r.ssl \o r.wire)
    <3>1. r.bytes \in Seq(Tokens) /\ r.ssl \in Seq(Tokens)
          /\ r.wire \in Seq(Tokens)
      BY <2>5
    <3>2. \A s, t, u \in Seq(Tokens) : (s \o t) \o u = s \o (t \o u)
      BY ConcatAssociative, SMTT(30)
    <3> QED
      BY <3>1, <3>2, Zenon
  <2> QED
    BY <1>5, <2>2, <2>5, <2>6
<1> QED
  BY <1>1, <1>4, <1>5

(* Bytes are committed to the buffer: the first ones of a request start    *)
(* its clock.                                                              *)
LEMMA CommitCore ==
  ASSUME Core, c.pc # "done", c.state \in Reading, NEW b \in Seq(Tokens), b # <<>>,
         c' = Commit(b),
         wire' \in Seq(Tokens), ssl' \in Seq(Tokens),
         UNCHANGED <<secure, hello, sent, peer, room, feed, h>>
  PROVE  Core' /\ c'.read_buffer = c.read_buffer \o b /\ c'.pc = c.pc
<1> USE DEF Core
<1>1. /\ c \in Connections /\ h \in Histories
      /\ c.read_buffer \in Seq(Tokens) /\ c.saw_any_bytes \in BOOLEAN
  BY DEF TypeOK, Connections
<1>2. /\ RequestDeadline \in Nat /\ HeaderTimeout \in Nat /\ Off \notin Nat
  BY ConnectionAssumption
<1> DEFINE q == c.read_buffer \o b
           d == [c EXCEPT !.read_buffer = q]
<1>3. q \in Seq(Tokens) /\ q # <<>>
  BY <1>1, ConcatProperties, ConcatEqualIffEmpty
<1> HIDE DEF q
<1>4. /\ d \in Connections /\ d.state = c.state /\ d.read_buffer = q
      /\ d.saw_any_bytes = c.saw_any_bytes
  BY <1>1, <1>3 DEF Connections
<1>5. \E saw \in BOOLEAN, t \in Nat, left \in Timer :
        /\ c' = [c EXCEPT !.read_buffer = q, !.saw_any_bytes = saw,
                          !.deadline = t, !.request_deadline = left]
        /\ saw = TRUE /\ left \in Nat /\ t <= left
        /\ h.age + left = RequestDeadline
  <2>1. CASE c.state = "ReadingHeaders" /\ ~c.saw_any_bytes
    <3> DEFINE e == [d EXCEPT !.saw_any_bytes = TRUE,
                              !.request_deadline = RequestDeadline]
    <3>1. /\ e \in Connections /\ e.request_deadline = RequestDeadline
          /\ e.state = c.state
      BY <1>2, <1>4 DEF Connections, Timer
    <3>2. c' = ArmDeadline(e, HeaderTimeout)
      BY <1>4, <2>1 DEF Commit, q
    <3> HIDE DEF e
    <3>3. PICK t \in Nat :
            /\ ArmDeadline(e, HeaderTimeout) = [e EXCEPT !.deadline = t]
            /\ e.request_deadline # Off /\ e.state # "Streaming"
                 => t <= e.request_deadline
      BY <1>2, <3>1, Arming
    <3>4. c' = [c EXCEPT !.read_buffer = q, !.saw_any_bytes = TRUE,
                         !.deadline = t, !.request_deadline = RequestDeadline]
      BY <1>1, <3>2, <3>3 DEF e, Connections
    <3>5. h.age = 0 /\ t <= RequestDeadline /\ RequestDeadline \in Timer
      BY <1>2, <2>1, <3>1, <3>3 DEF Clock, Timer
    <3>6. h.age + RequestDeadline = RequestDeadline
      BY <1>2, <3>5
    <3> QED
      BY <1>2, <3>4, <3>5, <3>6, Zenon
  <2>2. CASE ~(c.state = "ReadingHeaders" /\ ~c.saw_any_bytes)
    <3>1. c.saw_any_bytes = TRUE /\ c.request_deadline # Off
      BY <1>1, <2>2 DEF Clock, Reading
    <3>2. c' = d
      BY <1>4, <2>2 DEF Commit, q
    <3>3. /\ c.request_deadline \in Timer /\ c.request_deadline \in Nat
          /\ c.deadline \in Nat
      BY <1>1, <3>1 DEF Connections, Timer
    <3>4. c.deadline <= c.request_deadline
          /\ h.age + c.request_deadline = RequestDeadline
      BY <3>1 DEF Clock
    <3>5. c' = [c EXCEPT !.read_buffer = q, !.saw_any_bytes = TRUE,
                         !.deadline = c.deadline,
                         !.request_deadline = c.request_deadline]
      BY <1>1, <3>1, <3>2 DEF Connections
    <3> QED
      BY <3>3, <3>4, <3>5
  <2> QED
    BY <2>1, <2>2
<1>6. PICK t \in Nat, left \in Nat :
        /\ c' = [c EXCEPT !.read_buffer = q, !.saw_any_bytes = TRUE,
                          !.deadline = t, !.request_deadline = left]
        /\ t <= left /\ h.age + left = RequestDeadline
  BY <1>5
<1>7. c' \in Connections
  BY <1>1, <1>3, <1>6 DEF Connections, Timer
<1>8. /\ c'.state = c.state /\ c'.saw_any_bytes = TRUE
      /\ c'.read_buffer = q /\ c'.waiting = c.waiting
      /\ c'.out = c.out /\ c'.pc = c.pc
      /\ c'.requests_served = c.requests_served
      /\ c'.stream = c.stream /\ c'.request = c.request
      /\ c'.deadline = t /\ c'.request_deadline = left
  BY <1>1, <1>6 DEF Connections
<1>9. TypeOK'
  BY <1>7 DEF TypeOK
<1>10. Control' /\ Announced' /\ Sourced' /\ KeepAliveHonest'
  BY <1>8 DEF Control, Announced, Sourced, DetachCount, KeepAliveHonest,
              Reading, DriveOf
<1>11. Clock'
  BY <1>2, <1>3, <1>6, <1>8 DEF Clock, Reading
<1>12. Stall'
  BY <1>8 DEF Stall, Reading
<1> QED
  BY <1>8, <1>9, <1>10, <1>11, <1>12 DEF q

(* The handshake is over, or the head of a request is complete.            *)
LEMMA EnterCore ==
  ASSUME Core, c.pc # "done", NEW next \in Reading,
         \/ c.state = "Handshaking" /\ next = "ReadingHeaders"
         \/ c.state = "ReadingHeaders" /\ c.read_buffer # <<>>,
         NEW n \in 0..(MaxPipelined - 1),
         NEW k \in {"headers", "body", "write", "deadline"},
         c' = [EnterState(c, next) EXCEPT !.pass = n, !.caller = k,
                                          !.pc = DriveOf(next)],
         UNCHANGED <<wire, ssl, secure, sent, peer, room, feed, h>>,
         hello' \in {"awaited", "sent", "used"}
  PROVE  Core' /\ c'.read_buffer = c.read_buffer /\ c'.pc # "idle"
<1> USE DEF Core
<1>1. /\ c \in Connections /\ h \in Histories /\ next \in States
      /\ DriveOf(next) \in Drives /\ c.saw_any_bytes \in BOOLEAN
  BY DEF TypeOK, Reading, States, DriveOf, Drives, Connections
<1>2. PICK t \in Nat :
        /\ EnterState(c, next) = [c EXCEPT !.state = next, !.deadline = t]
        /\ c.request_deadline # Off /\ next # "Streaming"
             => t <= c.request_deadline
  BY <1>1, Entering
<1> DEFINE p == DriveOf(next)
<1> HIDE DEF p
<1>3. c' = [c EXCEPT !.state = next, !.deadline = t, !.pass = n, !.caller = k,
                     !.pc = p]
  BY <1>1, <1>2 DEF Connections, p
<1>4. p \in Drives /\ p # "idle" /\ p # "done"
  BY <1>1 DEF p, Drives
<1>5. c' \in Connections
  BY <1>1, <1>3, <1>4, ZenonT(40) DEF Connections
<1>6. /\ c'.state = next /\ c'.saw_any_bytes = c.saw_any_bytes
      /\ c'.read_buffer = c.read_buffer /\ c'.waiting = c.waiting
      /\ c'.out = c.out /\ c'.pc = p
      /\ c'.requests_served = c.requests_served
      /\ c'.stream = c.stream /\ c'.request = c.request
      /\ c'.deadline = t /\ c'.request_deadline = c.request_deadline
  BY <1>1, <1>3 DEF Connections
<1>7. TypeOK'
  BY <1>5 DEF TypeOK
<1>8. Control'
  BY <1>4, <1>6 DEF Control, p, Reading
<1>9. Clock'
  BY <1>1, <1>2, <1>6 DEF Clock, Reading
<1>10. Stall' /\ Announced' /\ Sourced' /\ KeepAliveHonest'
  BY <1>6 DEF Stall, Announced, Sourced, DetachCount, KeepAliveHonest, Reading
<1> QED
  BY <1>4, <1>6, <1>7, <1>8, <1>9, <1>10

-----------------------------------------------------------------------------
(* Writing and streaming *)

(* One unit of the response leaves the outbox. *)
LEMMA WriteCore ==
  ASSUME Core, c.state = "Writing", c.out > 0,
         c' = [c EXCEPT !.out = c.out - 1], room' \in BOOLEAN,
         UNCHANGED <<secure, hello, wire, ssl, sent, peer, feed, h>>
  PROVE  Core' /\ c'.read_buffer = c.read_buffer /\ c'.pc = c.pc
<1> USE DEF Core
<1>1. c \in Connections /\ c.out \in 0..2 /\ c.out - 1 \in 0..2
  BY DEF TypeOK, Connections
<1>2. c' \in Connections
  BY <1>1 DEF Connections
<1>3. /\ c'.state = c.state /\ c'.saw_any_bytes = c.saw_any_bytes
      /\ c'.read_buffer = c.read_buffer /\ c'.waiting = c.waiting
      /\ c'.pc = c.pc /\ c'.requests_served = c.requests_served
      /\ c'.stream = c.stream /\ c'.request = c.request
      /\ c'.deadline = c.deadline /\ c'.request_deadline = c.request_deadline
  BY <1>1 DEF Connections
<1>4. TypeOK'
  BY <1>2 DEF TypeOK
<1>5. Control' /\ Clock' /\ Announced' /\ Sourced' /\ KeepAliveHonest'
  BY <1>3 DEF Control, Clock, Announced, Sourced, DetachCount,
              KeepAliveHonest, DriveOf
<1>6. Stall'
  BY <1>3 DEF Stall
<1> QED
  BY <1>3, <1>4, <1>5, <1>6

(* A step of a stream, or the step that starts one. *)
LEMMA StreamCore ==
  ASSUME Core, c.pc # "done", c.state \in {"Writing", "Streaming"},
         NEW o \in 0..2, NEW w \in BOOLEAN, NEW t \in Nat,
         NEW s \in {"none", "held", "attached"},
         NEW p \in {"stream", "idle"}, NEW i \in Interests,
         c' = [c EXCEPT !.state = "Streaming", !.out = o, !.waiting = w,
                        !.deadline = t, !.stream = s, !.pc = p,
                        !.interest = i],
         h' \in Histories,
         h'.age = h.age /\ h'.announced = h.announced /\ h'.fate = h.fate,
         h'.detached + (IF s = "none" THEN 0 ELSE 1) = h'.taken,
         IF w THEN o > 0 /\ h'.stall + t <= WriteTimeout ELSE h'.stall = 0,
         room' \in BOOLEAN, feed' \in Feeds,
         UNCHANGED <<secure, hello, wire, ssl, sent, peer>>
  PROVE  Core' /\ c'.read_buffer = c.read_buffer /\ c'.state = "Streaming"
<1> USE DEF Core
<1> DEFINE d == [c EXCEPT !.state = "Streaming", !.out = o, !.waiting = w]
<1>1. c \in Connections /\ d \in Connections
  BY DEF TypeOK, Connections, States
<1>2. c' = [d EXCEPT !.deadline = t, !.stream = s, !.pc = p, !.interest = i]
  BY <1>1
<1>3. \A f \in DOMAIN c \ {"state", "out", "waiting"} : d[f] = c[f]
  BY <1>1 DEF Connections
<1>4. d.state = "Streaming" /\ d.out = o /\ d.waiting = w
  BY <1>1 DEF Connections
<1> HIDE DEF d
<1>5. c' \in Connections
  <2>1. p \in Drives \cup {"idle", "done"}
    BY DEF Drives
  <2> DEFINE e == [d EXCEPT !.deadline = t, !.stream = s]
  <2>2. e \in Connections
    BY <1>1 DEF Connections
  <2>3. c' = [e EXCEPT !.pc = p, !.interest = i]
    BY <1>1, <1>2 DEF Connections
  <2> HIDE DEF e
  <2> QED
    BY <2>1, <2>2, <2>3, ZenonT(40) DEF Connections
<1>6. /\ c'.state = d.state /\ c'.saw_any_bytes = d.saw_any_bytes
      /\ c'.read_buffer = d.read_buffer /\ c'.waiting = d.waiting
      /\ c'.out = d.out /\ c'.pc = p
      /\ c'.requests_served = d.requests_served
      /\ c'.stream = s /\ c'.request_deadline = d.request_deadline
  BY <1>1, <1>2 DEF Connections
<1>7. /\ c'.state = "Streaming" /\ c'.read_buffer = c.read_buffer
      /\ c'.waiting = w /\ c'.out = o /\ c'.pc = p /\ c'.stream = s
      /\ c'.requests_served = c.requests_served
      /\ c'.request_deadline = c.request_deadline
      /\ c'.deadline = t
  <2>1. {"read_buffer", "requests_served", "request_deadline"}
          \subseteq DOMAIN c \ {"state", "out", "waiting"}
    BY <1>1 DEF Connections
  <2>2. c'.deadline = t
    BY <1>1, <1>2 DEF Connections
  <2> QED
    BY <1>3, <1>4, <1>6, <2>1, <2>2
<1>8. TypeOK'
  BY <1>5 DEF TypeOK
<1>9. Control' /\ Announced' /\ KeepAliveHonest'
  BY <1>7 DEF Control, Announced, KeepAliveHonest, Drives, DriveOf
<1>10. Clock'
  BY <1>7 DEF Clock, Reading
<1>11. Stall'
  BY <1>7 DEF Stall
<1>12. Sourced'
  BY <1>7 DEF Sourced, DetachCount
<1> QED
  BY <1>7, <1>8, <1>9, <1>10, <1>11, <1>12

(* What follows a response either goes on reading or waits, and it waits   *)
(* for the peer alone only with an empty buffer.                           *)
LEMMA AfterResponseMoves ==
  ASSUME NEW d \in Connections, AfterResponse(d)
  PROVE  \E p \in {"headers", "idle"}, i \in Interests,
            n \in 0..(MaxPipelined - 1),
            k \in {"headers", "body", "write", "deadline"} :
           /\ c' = [d EXCEPT !.pc = p, !.interest = i, !.pass = n, !.caller = k]
           /\ p = "idle" /\ i = "Read" => d.read_buffer = <<>>
<1>1. /\ d.pass \in 0..(MaxPipelined - 1) /\ d.interest \in Interests
      /\ d.caller \in {"headers", "body", "write", "deadline"}
      /\ MaxPipelined \in Nat \ {0} /\ 0 \in 0..(MaxPipelined - 1)
  <2>1. /\ d.pass \in 0..(MaxPipelined - 1) /\ d.interest \in Interests
        /\ d.caller \in {"headers", "body", "write", "deadline"}
    BY ZenonT(30) DEF Connections
  <2>2. MaxPipelined \in Nat \ {0}
    BY ConnectionAssumption
  <2>3. 0 \in 0..(MaxPipelined - 1)
    BY <2>2
  <2> QED
    BY <2>1, <2>2, <2>3
<1>2. CASE d.caller = "headers" /\ d.pass + 1 < MaxPipelined
  <2>1. c' = [d EXCEPT !.pc = "headers", !.interest = d.interest,
                       !.pass = d.pass + 1, !.caller = d.caller]
    <3>1. c' = [[d EXCEPT !.pass = d.pass + 1] EXCEPT !.pc = "headers"]
      BY <1>1, <1>2 DEF AfterResponse, Continue
    <3> QED
      BY <3>1 DEF Connections
  <2>2. d.pass + 1 \in 0..(MaxPipelined - 1)
    BY <1>1, <1>2
  <2> QED
    BY <1>1, <2>1, <2>2, Zenon
<1>3. CASE d.caller = "headers" /\ d.pass + 1 = MaxPipelined
  <2> DEFINE i == IF d.read_buffer # <<>> THEN "ReadWrite" ELSE "Read"
  <2>1. c' = [d EXCEPT !.pc = "idle", !.interest = i, !.pass = 0,
                       !.caller = d.caller]
    <3>1. ~(d.pass + 1 < MaxPipelined)
      BY <1>1, <1>3
    <3>2. c' = [[d EXCEPT !.pass = 0] EXCEPT !.pc = "idle", !.interest = i]
      BY <1>3, <3>1 DEF AfterResponse, Return
    <3> HIDE DEF i
    <3> QED
      BY <3>2 DEF Connections
  <2>2. i \in Interests /\ (i = "Read" => d.read_buffer = <<>>)
    BY DEF Interests
  <2> HIDE DEF i
  <2> QED
    BY <1>1, <2>1, <2>2, Zenon
<1>4. CASE d.caller = "body" /\ d.read_buffer = <<>>
  <2>1. c' = [d EXCEPT !.pc = "idle", !.interest = "Read", !.pass = d.pass,
                       !.caller = d.caller]
    BY <1>4 DEF AfterResponse, Return, Connections
  <2>2. "Read" \in Interests
    BY DEF Interests
  <2> QED
    BY <1>1, <1>4, <2>1, <2>2, Zenon
<1>5. CASE /\ ~(d.caller = "headers" /\ d.pass + 1 < MaxPipelined)
           /\ ~(d.caller = "headers" /\ d.pass + 1 = MaxPipelined)
           /\ ~(d.caller = "body" /\ d.read_buffer = <<>>)
  <2>1. c' = [d EXCEPT !.pc = "headers", !.interest = d.interest, !.pass = 0,
                       !.caller = "headers"]
    BY <1>5 DEF AfterResponse, Continue, Connections
  <2> QED
    BY <1>1, <2>1, Zenon
<1> QED
  BY <1>2, <1>3, <1>4, <1>5

(* A response that keeps the connection open: reset for the next request, *)
(* with what is already buffered.                                         *)
LEMMA KeepCore ==
  ASSUME Core, c.state = "Writing", KeepConnection
  PROVE  /\ Core' /\ c'.read_buffer = c.read_buffer
         /\ c'.pc = "idle" /\ c'.interest = "Read" => c.read_buffer = <<>>
<1> USE DEF Core
<1> DEFINE more == c.read_buffer # <<>>
           left == IF more THEN RequestDeadline ELSE Off
           n == c.requests_served + 1
           d == [c EXCEPT !.requests_served = n, !.request = "none",
                          !.saw_any_bytes = more, !.request_deadline = left]
<1>1. /\ KeepAlive(c.request) /\ n < MaxRequests
      /\ AfterResponse(EnterState(d, "ReadingHeaders"))
      /\ h' = [h EXCEPT !.fate = "kept"]
      /\ UNCHANGED <<transport, feed>>
  BY DEF KeepConnection
<1>2. /\ c \in Connections /\ h \in Histories /\ more \in BOOLEAN
      /\ left \in Timer /\ n \in 0..MaxRequests
      /\ (more <=> left # Off) /\ (more => left = RequestDeadline)
      /\ RequestDeadline \in Nat /\ Off \notin Nat
  <2>1. /\ RequestDeadline \in Nat /\ Off \notin Nat
        /\ MaxRequests \in Nat \ {0}
    BY ConnectionAssumption
  <2>2. c \in Connections /\ h \in Histories /\ c.requests_served \in 0..MaxRequests
    BY DEF TypeOK, Connections
  <2>3. n \in 0..MaxRequests
    BY <1>1, <2>1, <2>2
  <2> QED
    BY <2>1, <2>2, <2>3 DEF Timer
<1>3. /\ c.stream = "none" /\ ~c.waiting /\ h.stall = 0 /\ h.age = 0
      /\ h.announced = "keep-alive" /\ c.pc # "done"
  BY <1>1 DEF Announced, KeepAlive, Stall, Clock, Control, Reading
<1>4. (more <=> c.read_buffer # <<>>)
  OBVIOUS
<1> HIDE DEF more, left, n
<1>5. /\ d \in Connections /\ d.request_deadline = left
      /\ d.read_buffer = c.read_buffer /\ d.saw_any_bytes = more
      /\ d.requests_served = n /\ d.stream = c.stream /\ d.waiting = c.waiting
  BY <1>2 DEF Connections
<1> HIDE DEF d
<1>6. PICK t \in Nat :
        /\ EnterState(d, "ReadingHeaders") =
             [d EXCEPT !.state = "ReadingHeaders", !.deadline = t]
        /\ d.request_deadline # Off => t <= d.request_deadline
  BY <1>5, Entering DEF States
<1> DEFINE e == [d EXCEPT !.state = "ReadingHeaders", !.deadline = t]
<1>7. /\ e \in Connections /\ e.request_deadline = left
      /\ e.read_buffer = c.read_buffer /\ e.saw_any_bytes = more
      /\ e.requests_served = n /\ e.stream = c.stream /\ e.waiting = c.waiting
      /\ e.state = "ReadingHeaders" /\ e.deadline = t
  BY <1>5 DEF Connections, States
<1>8. AfterResponse(e)
  BY <1>1, <1>6
<1> HIDE DEF e
<1>9. PICK p \in {"headers", "idle"}, i \in Interests,
           m \in 0..(MaxPipelined - 1),
           k \in {"headers", "body", "write", "deadline"} :
        /\ c' = [e EXCEPT !.pc = p, !.interest = i, !.pass = m, !.caller = k]
        /\ p = "idle" /\ i = "Read" => e.read_buffer = <<>>
  BY <1>7, <1>8, AfterResponseMoves
<1>10. c' \in Connections
  <2>1. p \in Drives \cup {"idle", "done"}
    BY DEF Drives
  <2> QED
    BY <1>7, <1>9, <2>1 DEF Connections
<1>11. /\ c'.request_deadline = left /\ c'.read_buffer = c.read_buffer
       /\ c'.saw_any_bytes = more /\ c'.requests_served = n
       /\ c'.stream = c.stream /\ c'.waiting = c.waiting
       /\ c'.state = "ReadingHeaders" /\ c'.deadline = t
       /\ c'.pc = p /\ c'.interest = i
  BY <1>7, <1>9 DEF Connections
<1>12. /\ h' \in Histories /\ h'.fate = "kept" /\ h'.announced = h.announced
       /\ h'.age = h.age /\ h'.stall = h.stall /\ h'.taken = h.taken
       /\ h'.detached = h.detached
  BY <1>1, <1>2 DEF Histories
<1>13. TypeOK'
  BY <1>1, <1>10, <1>12 DEF TypeOK, transport
<1>14. Control' /\ KeepAliveHonest' /\ Announced'
  BY <1>1, <1>3, <1>11, <1>12
     DEF Control, KeepAliveHonest, Announced, Drives, DriveOf
<1>15. Clock'
  BY <1>2, <1>3, <1>4, <1>5, <1>6, <1>11, <1>12 DEF Clock, Reading
<1>16. Stall' /\ Sourced'
  BY <1>3, <1>11, <1>12 DEF Stall, Sourced, DetachCount
<1> QED
  BY <1>7, <1>9, <1>11, <1>13, <1>14, <1>15, <1>16

(* A response after which the connection closes. *)
LEMMA CloseCore ==
  ASSUME Core, c.state = "Writing", c.pc # "done", CloseAfterResponse
  PROVE  Core' /\ c'.pc = "done" /\ c'.read_buffer = <<>>
<1> USE DEF Core
<1> DEFINE n == c.requests_served + 1
<1>1. /\ Destroy([c EXCEPT !.requests_served = n])
      /\ h' = [h EXCEPT !.fate = "closed",
                        !.detached = h.detached + DetachCount]
      /\ ~(KeepAlive(c.request) /\ n < MaxRequests)
  BY DEF CloseAfterResponse
<1>2. n \in 0..MaxRequests /\ DetachCount \in Nat
  <2>1. c.requests_served \in 0..MaxRequests /\ c.requests_served < MaxRequests
    BY DEF Control, TypeOK, Connections
  <2>2. MaxRequests \in Nat
    BY ConnectionAssumption
  <2>3. n \in 0..MaxRequests
    BY <2>1, <2>2
  <2> QED
    BY <2>3 DEF DetachCount
<1>3. h.age = 0 /\ h.stall = 0 /\ h.announced # "keep-alive"
  BY <1>1 DEF Clock, Stall, Reading, Announced
<1>4. /\ h' \in Histories /\ h'.age = 0 /\ h'.stall = 0 /\ h'.taken = h.taken
      /\ h'.detached = h.detached + DetachCount
      /\ h'.fate = "closed" /\ h'.announced = h.announced
  <2> HIDE DEF DetachCount
  <2>1. h.detached + DetachCount \in Nat
    BY <1>2 DEF TypeOK, Histories
  <2> QED
    BY <1>1, <1>3, <2>1 DEF TypeOK, Histories
<1>5. KeepAliveHonest'
  BY <1>3, <1>4 DEF KeepAliveHonest
<1> HIDE DEF n
<1> QED
  BY <1>1, <1>2, <1>4, <1>5, DestroyCore

-----------------------------------------------------------------------------
(* The actions *)

(* The bytes not handed to a request yet, wherever they wait, form one *)
(* sequence of tokens.                                                 *)
LEMMA UnreadType ==
  ASSUME TypeOK
  PROVE  /\ Unread \in Seq(Tokens) /\ c.read_buffer \in Seq(Tokens)
         /\ ssl \in Seq(Tokens) /\ wire \in Seq(Tokens)
         /\ ssl \o wire \in Seq(Tokens)
<1>1. c.read_buffer \in Seq(Tokens) /\ ssl \in Seq(Tokens) /\ wire \in Seq(Tokens)
  BY DEF TypeOK, Connections
<1>2. ssl \o wire \in Seq(Tokens)
  BY <1>1, ConcatProperties
<1>3. \A s, t \in Seq(Tokens) : s \o t \in Seq(Tokens)
  BY ConcatProperties
<1> QED
  BY <1>1, <1>2, <1>3 DEF Unread

(* A step that consumes nothing and does not hand a reading connection     *)
(* back to the reactor.                                                    *)
LEMMA SameBytes ==
  ASSUME Inv, Core', c'.read_buffer = c.read_buffer,
         UNCHANGED <<secure, wire, ssl, sent, peer>>,
         c'.pc # "idle" \/ c'.state # "ReadingHeaders" \/ c'.interest # "Read"
  PROVE  Inv'
<1>1. Unread' = Unread
  BY DEF Unread
<1>2. Framed' /\ PlainInv'
  BY <1>1 DEF Inv, Framed, PlainInv
<1>3. PlainDrivesUntilBlocked'
  BY DEF PlainDrivesUntilBlocked, DrivesUntilBlocked, Parked
<1> QED
  BY <1>2, <1>3 DEF Inv

(* A connection that has been torn down has nothing left that the rest of *)
(* Inv could ask of it.                                                   *)
LEMMA DestroyInv ==
  ASSUME Inv, Core', NEW d, Destroy(d), c'.pc = "done",
         c'.read_buffer = <<>>
  PROVE  Inv'
<1>1. ssl' = <<>> /\ wire' = <<>> /\ peer' = "reset"
  BY DEF Destroy
<1>2. Unread' = <<>>
  <2>1. <<>> \in Seq(Tokens)
    OBVIOUS
  <2>2. <<>> \o (<<>> \o <<>>) = <<>>
    BY <2>1, ConcatEmptySeq
  <2> QED
    BY <1>1, <2>2 DEF Unread
<1>3. Framed' /\ PlainInv'
  BY <1>1, <1>2 DEF Framed, PlainInv, Chained
<1>4. PlainDrivesUntilBlocked'
  BY DEF PlainDrivesUntilBlocked, DrivesUntilBlocked, Parked
<1> QED
  BY <1>3, <1>4 DEF Inv

(* close() keeps the inductive invariant. *)
LEMMA FinishInv ==
  ASSUME Inv, Finish
  PROVE  Inv'
<1>1. /\ Core' /\ c'.pc = "done" /\ c'.read_buffer = <<>>
      /\ Destroy(c)
  BY FinishCore DEF Inv, Finish
<1> QED
  BY <1>1, DestroyInv

(* A complete request leaves the front of what is unread. *)
LEMMA RequestInv ==
  ASSUME Inv, c.state \in Reading, Parse(c.read_buffer) = "ok",
         AnswerRequest, UNCHANGED <<transport, feed>>
  PROVE  Inv'
<1> DEFINE b == c.read_buffer
           k == ParsedKind(b)
           n == Consumed(b)
           r == SubSeq(b, n + 1, Len(b))
<1>1. /\ TypeOK /\ Chained(Unread) /\ b \in Seq(Tokens)
      /\ ssl \o wire \in Seq(Tokens) /\ Unread \in Seq(Tokens)
      /\ Unread = b \o (ssl \o wire)
  BY UnreadType DEF Inv, Core, Framed, Unread
<1>2. Chained(b)
  BY <1>1, ChainPrefix
<1> HIDE DEF b
<1>3. k \in Kinds /\ n \in 1..Len(b) /\ b[n] \in Ends
  BY <1>1, <1>2, Parsing DEF b
<1> HIDE DEF k, n
<1>4. n \in 0..Len(b) /\ Len(b) \in Nat
  BY <1>1, <1>3, LenProperties
<1>5. r \in Seq(Tokens)
  BY <1>1, <1>4, Cut
<1>6. /\ Continue(Serialize([c EXCEPT !.read_buffer = r, !.caller = c.caller], k),
                  "write")
      /\ Announce(k)
  <2>1. [c EXCEPT !.read_buffer = r, !.caller = c.caller]
          = [c EXCEPT !.read_buffer = r]
    BY <1>1 DEF TypeOK, Connections
  <2>2. /\ Continue(Serialize([c EXCEPT !.read_buffer = r], k), "write")
        /\ Announce(k)
    BY DEF AnswerRequest, b, k, n
  <2> QED
    BY <2>1, <2>2
<1> HIDE DEF r
<1>7. Core' /\ c'.read_buffer = r /\ c'.pc = "write"
  <2>1. c.caller \in {"headers", "body", "write", "deadline"}
    BY <1>1 DEF TypeOK, Connections
  <2> QED
    BY <1>3, <1>5, <1>6, <2>1, AnswerCore DEF Inv
<1>8. Unread' = SubSeq(Unread, n + 1, Len(Unread))
  <2>1. UNCHANGED <<wire, ssl>>
    BY DEF transport
  <2>2. r \o (ssl \o wire) = SubSeq(Unread, n + 1, Len(Unread))
    BY <1>1, <1>4, DropConcat DEF r
  <2> QED
    BY <1>7, <2>1, <2>2 DEF Unread
<1>9. n \in 1..Len(Unread) /\ Unread[n] \in Ends /\ Len(Unread) \in Nat
  <2>1. /\ Len(Unread) = Len(b) + Len(ssl \o wire)
        /\ \A i \in 1..Len(b) + Len(ssl \o wire) : Unread[i] =
             IF i <= Len(b) THEN b[i] ELSE (ssl \o wire)[i - Len(b)]
    BY <1>1, ConcatProperties
  <2>2. Len(ssl \o wire) \in Nat
    BY <1>1, LenProperties
  <2> QED
    BY <1>3, <1>4, <2>1, <2>2
<1>10. Chained(Unread')
  BY <1>1, <1>8, <1>9, ChainDrop
<1>11. peer' = "open" =>
         IF Unread' = <<>> THEN sent'.last \in Ends
                           ELSE sent'.last = Unread'[Len(Unread')]
  <2> SUFFICES ASSUME peer' = "open"
               PROVE  IF Unread' = <<>> THEN sent'.last \in Ends
                                        ELSE sent'.last = Unread'[Len(Unread')]
    OBVIOUS
  <2>1. Unread # <<>> /\ sent' = sent /\ peer = "open"
    BY <1>1, <1>9, EmptySeq DEF transport
  <2>2. sent.last = Unread[Len(Unread)]
    BY <2>1 DEF Inv, Framed
  <2>3. /\ Unread' \in Seq(Tokens) /\ Len(Unread') = Len(Unread) - n
        /\ \A i \in 1..(Len(Unread) - n) : Unread'[i] = Unread[n + i]
    <3>1. n \in 0..Len(Unread)
      BY <1>9
    <3> QED
      BY <1>1, <1>8, <3>1, Cut
  <2>4. CASE Unread' = <<>>
    <3>1. n = Len(Unread)
      BY <1>9, <2>3, <2>4, EmptySeq
    <3> QED
      BY <1>9, <2>1, <2>2, <2>4, <3>1
  <2>5. CASE Unread' # <<>>
    <3>1. Len(Unread) - n \in 1..(Len(Unread) - n)
      BY <1>9, <2>3, <2>5, EmptySeq
    <3>2. Unread'[Len(Unread')] = Unread[Len(Unread)]
      BY <1>9, <2>3, <3>1
    <3> QED
      BY <2>1, <2>2, <2>5, <3>2
  <2> QED
    BY <2>4, <2>5
<1>12. PlainInv' /\ PlainDrivesUntilBlocked'
  BY <1>7 DEF Inv, PlainInv, transport, PlainDrivesUntilBlocked,
              DrivesUntilBlocked, Parked
<1> QED
  BY <1>7, <1>10, <1>11, <1>12 DEF Inv, Framed

(* An error is answered and nothing is consumed. *)
LEMMA ErrorInv ==
  ASSUME Inv, c.state \in Reading,
         NEW l \in {"headers", "body", "write", "deadline"}, AnswerError(l),
         UNCHANGED <<transport, feed>>
  PROVE  Inv'
<1>1. c.read_buffer \in Seq(Tokens) /\ c \in Connections
  BY DEF Inv, Core, TypeOK, Connections
<1>2. [c EXCEPT !.read_buffer = c.read_buffer, !.caller = l]
        = [c EXCEPT !.caller = l]
  BY <1>1 DEF Connections
<1>3. /\ Continue(Serialize([c EXCEPT !.read_buffer = c.read_buffer,
                                      !.caller = l], "error"), "write")
      /\ Announce("error")
  BY <1>2 DEF AnswerError
<1>4. Core' /\ c'.pc = "write" /\ c'.read_buffer = c.read_buffer
  BY <1>1, <1>3, AnswerCore DEF Inv
<1> QED
  BY <1>4, SameBytes DEF transport

(* A read of the transport keeps the inductive invariant; it is only made *)
(* when the buffer is short of a request.                                 *)
LEMMA ReadInv ==
  ASSUME Inv, c.pc \in {"headers", "body"}, c.state \in Reading,
         c.pc = "headers" => Parse(c.read_buffer) = "more",
         ReadTransport
  PROVE  Inv'
<1>1. TypeOK /\ Core /\ PlainInv
  BY DEF Inv, Core
<1>2. ASSUME NEW r \in Deliveries, c' = Commit(r.bytes), wire' = r.wire,
             ssl' = r.ssl, UNCHANGED <<secure, hello, sent, peer, room, feed, h>>
      PROVE  Inv'
  <2>1. /\ r.bytes \in Seq(Tokens) /\ r.ssl \in Seq(Tokens)
        /\ r.wire \in Seq(Tokens) /\ r.bytes # <<>>
        /\ r.bytes \o (r.ssl \o r.wire) = ssl \o wire
        /\ ~secure => r.ssl = <<>>
    BY <1>1, Delivering
  <2>2. Core' /\ c'.read_buffer = c.read_buffer \o r.bytes /\ c'.pc = c.pc
    BY <1>1, <1>2, <2>1, CommitCore
  <2>3. Unread' = Unread
    <3>1. \A s, t, u \in Seq(Tokens) : (s \o t) \o u = s \o (t \o u)
      BY ConcatAssociative
    <3>2. \A s, t \in Seq(Tokens) : s \o t \in Seq(Tokens)
      BY ConcatProperties
    <3>3. c.read_buffer \in Seq(Tokens) /\ r.ssl \o r.wire \in Seq(Tokens)
      BY <1>1, <2>1, <3>2 DEF TypeOK, Connections
    <3>4. (c.read_buffer \o r.bytes) \o (r.ssl \o r.wire)
            = c.read_buffer \o (r.bytes \o (r.ssl \o r.wire))
      BY <2>1, <3>1, <3>3, ZenonT(40)
    <3> QED
      BY <1>2, <2>1, <2>2, <3>4 DEF Unread
  <2>4. Framed' /\ PlainInv'
    BY <1>2, <2>1, <2>3 DEF Inv, Framed, PlainInv
  <2>5. PlainDrivesUntilBlocked'
    BY <2>2 DEF PlainDrivesUntilBlocked, DrivesUntilBlocked, Parked
  <2> QED
    BY <2>2, <2>4, <2>5 DEF Inv
<1>3. ASSUME NothingToRead, NEW i \in Interests, Return(c, i),
             UNCHANGED <<transport, feed, h>>
      PROVE  Inv'
  <2>1. c \in Connections /\ feed \in Feeds
    BY <1>1 DEF TypeOK
  <2>2. c' = [c EXCEPT !.pc = "idle", !.interest = i, !.pass = c.pass,
                       !.caller = c.caller]
    BY <1>3, <2>1 DEF Return, Connections
  <2>3. /\ c.pass \in 0..(MaxPipelined - 1)
        /\ c.caller \in {"headers", "body", "write", "deadline"}
    BY <2>1 DEF Connections
  <2>4. Core'
    BY <1>1, <1>3, <2>1, <2>2, <2>3, MoveCore DEF Drives
  <2>5. c'.read_buffer = c.read_buffer /\ c'.state = c.state
    BY <2>1, <2>2 DEF Connections
  <2>6. Unread' = Unread
    BY <1>3, <2>5 DEF Unread, transport
  <2>7. Framed' /\ PlainInv'
    BY <1>3, <2>6 DEF Inv, Framed, PlainInv, transport
  <2>8. PlainDrivesUntilBlocked'
    <3>1. c.state = "ReadingHeaders" => c.pc = "headers"
      BY <1>1 DEF Core, Control, Drives, DriveOf
    <3> QED
      BY <1>3, <2>5, <3>1
         DEF PlainDrivesUntilBlocked, DrivesUntilBlocked, Parked,
             NothingToRead, transport
  <2> QED
    BY <2>4, <2>7, <2>8 DEF Inv
<1>4. ASSUME Finish
      PROVE  Inv'
  BY <1>4, FinishInv
<1>5. \A i \in {"Read"} \cup {w \in {"Write"} : secure} : i \in Interests
  BY DEF Interests
<1> QED
  BY <1>2, <1>3, <1>4, <1>5 DEF ReadTransport

(* A connection returned to the reactor, or stepped by it.                 *)
LEMMA MoveInv ==
  ASSUME Inv, c.pc # "done",
         NEW p \in Drives \cup {"idle"}, p \in Drives => p = DriveOf(c.state),
         NEW i \in Interests, NEW n \in 0..(MaxPipelined - 1),
         NEW k \in {"headers", "body", "write", "deadline"},
         c' = [c EXCEPT !.pc = p, !.interest = i, !.pass = n, !.caller = k],
         p # "idle" \/ c.state # "ReadingHeaders",
         UNCHANGED <<transport, h>>,
         feed' \in Feeds
  PROVE  Inv'
<1>1. Core'
  BY MoveCore DEF Inv
<1>2. c \in Connections
  BY DEF Inv, Core, TypeOK
<1>3. c'.pc = p /\ c'.read_buffer = c.read_buffer /\ c'.state = c.state
  BY <1>2 DEF Connections
<1> QED
  BY <1>1, <1>3, SameBytes DEF transport

(* Returning an interest to the reactor keeps the inductive invariant *)
(* outside ReadingHeaders.                                            *)
LEMMA ReturnInv ==
  ASSUME Inv, c.pc # "done", c.state # "ReadingHeaders",
         NEW i \in Interests, Return(c, i), UNCHANGED <<transport, h, feed>>
  PROVE  Inv'
<1>1. c \in Connections /\ feed \in Feeds
  BY DEF Inv, Core, TypeOK
<1>2. c' = [c EXCEPT !.pc = "idle", !.interest = i, !.pass = c.pass,
                     !.caller = c.caller]
  BY <1>1 DEF Return, Connections
<1>3. /\ c.pass \in 0..(MaxPipelined - 1)
      /\ c.caller \in {"headers", "body", "write", "deadline"}
  BY <1>1 DEF Connections
<1> QED
  BY <1>1, <1>2, <1>3, MoveInv DEF Drives

(* drive_handshake() keeps the inductive invariant. *)
LEMMA HandshakeInv ==
  ASSUME Inv, DriveHandshake
  PROVE  Inv'
<1>1. c.pc = "handshake" /\ c.state = "Handshaking"
  BY DEF DriveHandshake, Inv, Core, Control, Drives, DriveOf, TypeOK, Connections,
         States
<1>2. ASSUME hello' = "used",
             Continue([EnterState(c, "ReadingHeaders") EXCEPT
                         !.pass = 0, !.caller = "headers"], "headers"),
             UNCHANGED <<secure, wire, ssl, sent, peer, room, feed, h>>
      PROVE  Inv'
  <2>1. "ReadingHeaders" \in Reading /\ DriveOf("ReadingHeaders") = "headers"
    BY DEF Reading, DriveOf
  <2>2. c' = [EnterState(c, "ReadingHeaders") EXCEPT
                !.pass = 0, !.caller = "headers",
                !.pc = DriveOf("ReadingHeaders")]
    BY <1>2, <2>1 DEF Continue
  <2>3. 0 \in 0..(MaxPipelined - 1)
    BY ConnectionAssumption
  <2>4. Core' /\ c'.read_buffer = c.read_buffer /\ c'.pc # "idle"
    BY <1>1, <1>2, <2>1, <2>2, <2>3, EnterCore DEF Inv
  <2> QED
    BY <1>2, <2>4, SameBytes
<1>3. ASSUME NEW i \in {"Read", "Write"}, Return(c, i),
             UNCHANGED <<transport, feed, h>>
      PROVE  Inv'
  <2>1. i \in Interests
    BY DEF Interests
  <2> QED
    BY <1>1, <1>3, <2>1, ReturnInv
<1>4. ASSUME Finish
      PROVE  Inv'
  BY <1>4, FinishInv
<1> QED
  BY <1>2, <1>3, <1>4 DEF DriveHandshake

(* The loop a drive is in and the state of the connection agree while a *)
(* request is read.                                                     *)
LEMMA ReadingOf ==
  ASSUME Inv, c.pc \in {"headers", "body"}
  PROVE  c.state = IF c.pc = "headers" THEN "ReadingHeaders" ELSE "ReadingBody"
BY DEF Inv, Core, Control, Drives, DriveOf, TypeOK, Connections, States

(* drive_read_headers() keeps the inductive invariant. *)
LEMMA HeadersInv ==
  ASSUME Inv, DriveReadHeaders
  PROVE  Inv'
<1>1. /\ c.pc = "headers" /\ c.state = "ReadingHeaders" /\ c.state \in Reading
  BY ReadingOf DEF DriveReadHeaders, Reading
<1>2. CASE Parse(c.read_buffer) = "ok"
  BY <1>1, <1>2, RequestInv DEF DriveReadHeaders
<1>3. CASE Parse(c.read_buffer) = "error"
  <2>1. AnswerError("headers") /\ UNCHANGED <<transport, feed>>
    BY <1>3 DEF DriveReadHeaders
  <2> QED
    BY <1>1, <2>1, ErrorInv
<1>4. CASE Parse(c.read_buffer) = "body"
  <2>1. /\ Continue(EnterState(c, "ReadingBody"), "body")
        /\ UNCHANGED <<transport, feed, h>>
    BY <1>4 DEF DriveReadHeaders
  <2>2. c \in Connections /\ "ReadingBody" \in States
    BY DEF Inv, Core, TypeOK, States
  <2>3. PICK t \in Nat :
          /\ EnterState(c, "ReadingBody") =
               [c EXCEPT !.state = "ReadingBody", !.deadline = t]
          /\ c.request_deadline # Off /\ "ReadingBody" # "Streaming"
               => t <= c.request_deadline
    BY <2>2, Entering, Zenon
  <2>4. "ReadingBody" \in Reading /\ DriveOf("ReadingBody") = "body"
    BY DEF Reading, DriveOf
  <2>5. c' = [EnterState(c, "ReadingBody") EXCEPT
                !.pass = c.pass, !.caller = c.caller,
                !.pc = DriveOf("ReadingBody")]
    BY <2>1, <2>2, <2>3, <2>4 DEF Continue, Connections
  <2>6. /\ c.pass \in 0..(MaxPipelined - 1)
        /\ c.caller \in {"headers", "body", "write", "deadline"}
    BY <2>2 DEF Connections
  <2>7. c.read_buffer # <<>>
    BY <1>4 DEF Parse
  <2>8. hello' \in {"awaited", "sent", "used"}
    BY <2>1 DEF Inv, Core, TypeOK, transport
  <2>9. Core' /\ c'.read_buffer = c.read_buffer /\ c'.pc # "idle"
    BY <1>1, <2>1, <2>4, <2>5, <2>6, <2>7, <2>8, EnterCore DEF Inv, transport
  <2> QED
    BY <2>1, <2>9, SameBytes DEF transport
<1>5. CASE Parse(c.read_buffer) \notin {"ok", "error", "body"}
  <2>1. ReadTransport
    BY <1>5 DEF DriveReadHeaders
  <2>2. Parse(c.read_buffer) = "more"
    BY <1>5 DEF Parse
  <2> QED
    BY <1>1, <2>1, <2>2, ReadInv
<1> QED
  BY <1>2, <1>3, <1>4, <1>5

(* drive_read_body() keeps the inductive invariant. *)
LEMMA BodyInv ==
  ASSUME Inv, DriveReadBody
  PROVE  Inv'
<1>1. c.pc = "body" /\ c.state \in Reading
  BY ReadingOf DEF DriveReadBody, Reading
<1> QED
  BY <1>1, RequestInv, ReadInv DEF DriveReadBody

(* A step of the stream, or the one that starts it, keeps the invariant.   *)
LEMMA StreamMove ==
  ASSUME Inv, c.pc # "done", c.state \in {"Writing", "Streaming"},
         NEW o \in 0..2, NEW w \in BOOLEAN, NEW t \in Nat,
         NEW s \in {"none", "held", "attached"},
         NEW p \in {"stream", "idle"}, NEW i \in Interests,
         c' = [c EXCEPT !.state = "Streaming", !.out = o, !.waiting = w,
                        !.deadline = t, !.stream = s, !.pc = p,
                        !.interest = i],
         h' \in Histories,
         h'.age = h.age /\ h'.announced = h.announced /\ h'.fate = h.fate,
         h'.detached + (IF s = "none" THEN 0 ELSE 1) = h'.taken,
         IF w THEN o > 0 /\ h'.stall + t <= WriteTimeout ELSE h'.stall = 0,
         room' \in BOOLEAN, feed' \in Feeds,
         UNCHANGED <<secure, hello, wire, ssl, sent, peer>>
  PROVE  Inv'
<1>1. Core' /\ c'.read_buffer = c.read_buffer /\ c'.state = "Streaming"
  BY StreamCore DEF Inv
<1> QED
  BY <1>1, SameBytes

(* drive_write() keeps the inductive invariant. *)
LEMMA WriteInv ==
  ASSUME Inv, DriveWrite
  PROVE  Inv'
<1>1. /\ c.pc = "write" /\ c.state = "Writing"
      /\ c \in Connections /\ h \in Histories /\ Core
  BY DEF DriveWrite, Inv, Core, Control, Drives, DriveOf, TypeOK, Connections,
         States
<1>2. ASSUME c.out > 0, WriteUnit([c EXCEPT !.out = @ - 1]),
             UNCHANGED <<secure, hello, wire, ssl, sent, peer, feed, h>>
      PROVE  Inv'
  <2>1. Core' /\ c'.read_buffer = c.read_buffer /\ c'.pc = c.pc
    BY <1>1, <1>2, WriteCore DEF WriteUnit
  <2> QED
    BY <1>1, <1>2, <2>1, SameBytes
<1>3. ASSUME NEW i \in {"Write"} \cup {r \in {"Read"} : secure}, Return(c, i),
             UNCHANGED <<transport, feed, h>>
      PROVE  Inv'
  <2>1. i \in Interests
    BY DEF Interests
  <2> QED
    BY <1>1, <1>3, <2>1, ReturnInv
<1>4. ASSUME KeepConnection
      PROVE  Inv'
  <2>1. /\ Core' /\ c'.read_buffer = c.read_buffer
        /\ c'.pc = "idle" /\ c'.interest = "Read" => c.read_buffer = <<>>
    BY <1>1, <1>4, KeepCore
  <2>2. UNCHANGED transport
    BY <1>4 DEF KeepConnection
  <2>3. Unread' = Unread
    BY <2>1, <2>2 DEF Unread, transport
  <2>4. Framed' /\ PlainInv'
    BY <2>2, <2>3 DEF Inv, Framed, PlainInv, transport
  <2>5. Parse(<<>>) = "more"
    BY DEF Parse
  <2>6. PlainDrivesUntilBlocked'
    BY <2>1, <2>4, <2>5 DEF PlainDrivesUntilBlocked, DrivesUntilBlocked, Parked,
                            PlainInv
  <2> QED
    BY <2>1, <2>4, <2>6 DEF Inv
<1>5. ASSUME CloseAfterResponse
      PROVE  Inv'
  <2>1. Core' /\ c'.pc = "done" /\ c'.read_buffer = <<>>
    BY <1>1, <1>5, CloseCore
  <2> QED
    BY <1>5, <2>1, DestroyInv DEF CloseAfterResponse
<1>6. ASSUME c.request = "stream", UNCHANGED <<transport, feed, h>>, c.out = 0,
             Continue(EnterState([c EXCEPT !.stream = "attached"], "Streaming"),
                      "stream")
      PROVE  Inv'
  <2> DEFINE d == [c EXCEPT !.stream = "attached"]
  <2>1. d \in Connections /\ "Streaming" \in States /\ d.request_deadline = c.request_deadline
    BY <1>1 DEF Connections, States
  <2>2. PICK t \in Nat :
          /\ EnterState(d, "Streaming") =
               [d EXCEPT !.state = "Streaming", !.deadline = t]
          /\ d.request_deadline # Off /\ "Streaming" # "Streaming"
               => t <= d.request_deadline
    <3> HIDE DEF d
    <3> QED
      BY <2>1, Entering, Zenon
  <2>3. /\ c.waiting = FALSE /\ h.stall = 0 /\ c.stream # "none"
        /\ h.detached + 1 = h.taken
    BY <1>1, <1>6 DEF Core, Stall, Announced, Sourced, Streamed, DetachCount,
                      Connections
  <2>4. c' = [c EXCEPT !.state = "Streaming", !.out = 0, !.waiting = FALSE,
                       !.deadline = t, !.stream = "attached", !.pc = "stream",
                       !.interest = c.interest]
    <3>1. c' = [c EXCEPT !.stream = "attached", !.state = "Streaming",
                         !.deadline = t, !.pc = "stream"]
      BY <1>1, <1>6, <2>2 DEF Continue, Connections
    <3>2. c = [c EXCEPT !.out = 0, !.waiting = FALSE, !.interest = c.interest]
      BY <1>1, <1>6, <2>3 DEF Connections
    <3> QED
      BY <1>1, <3>1, <3>2 DEF Connections
  <2>5. /\ c.interest \in Interests /\ room \in BOOLEAN /\ feed \in Feeds
        /\ 0 \in 0..2 /\ FALSE \in BOOLEAN
    BY <1>1 DEF Core, TypeOK, Connections
  <2> QED
    BY <1>1, <1>6, <2>3, <2>4, <2>5, StreamMove DEF transport
<1>7. ASSUME Finish
      PROVE  Inv'
  BY <1>7, FinishInv
<1> QED
  BY <1>2, <1>3, <1>4, <1>5, <1>6, <1>7 DEF DriveWrite, AttachStream

(* Writing the outbox of a stream keeps the inductive invariant, whether *)
(* or not the socket takes it.                                           *)
LEMMA FlushInv ==
  ASSUME Inv, c.pc = "stream", c.state = "Streaming", FlushUnit \/ FlushBlocked
  PROVE  Inv'
<1>1. /\ c \in Connections /\ h \in Histories /\ Core /\ feed \in Feeds
      /\ c.out \in 0..2 /\ c.waiting \in BOOLEAN /\ c.deadline \in Nat
      /\ c.interest \in Interests
      /\ c.stream \in {"none", "held", "attached"}
      /\ room \in BOOLEAN
  BY DEF Inv, Core, TypeOK, Connections
<1>2. WriteTimeout \in Nat /\ StreamIdle \in Nat
  BY ConnectionAssumption
<1>3. h.detached + (IF c.stream = "none" THEN 0 ELSE 1) = h.taken
  BY <1>1 DEF Core, Sourced, DetachCount
<1>4. CASE FlushUnit
  <2> DEFINE d == [c EXCEPT !.out = c.out - 1, !.waiting = FALSE]
             n == IF d.out > 0 THEN WriteTimeout ELSE StreamIdle
  <2>1. /\ c' = ArmDeadline(d, n) /\ c.out > 0 /\ room' \in BOOLEAN
        /\ h' = [h EXCEPT !.stall = 0]
        /\ UNCHANGED <<secure, hello, wire, ssl, sent, peer, feed>>
    BY <1>4 DEF FlushUnit, WriteUnit
  <2>2. c.out - 1 \in 0..2 /\ n \in Nat
    BY <1>1, <1>2, <2>1
  <2>3. d \in Connections
    BY <1>1, <2>2 DEF Connections
  <2> HIDE DEF n
  <2>4. PICK t \in Nat : ArmDeadline(d, n) = [d EXCEPT !.deadline = t]
    <3> HIDE DEF d
    <3> QED
      BY <2>2, <2>3, Arming
  <2>5. c = [c EXCEPT !.state = "Streaming", !.stream = c.stream,
                      !.pc = "stream", !.interest = c.interest]
    BY <1>1 DEF Connections
  <2>6. c' = [c EXCEPT !.state = "Streaming", !.out = c.out - 1,
                       !.waiting = FALSE, !.deadline = t, !.stream = c.stream,
                       !.pc = "stream", !.interest = c.interest]
    BY <1>1, <2>1, <2>4, <2>5, ZenonT(40) DEF Connections
  <2>7. /\ h' \in Histories /\ h'.stall = 0 /\ h'.age = h.age
        /\ h'.announced = h.announced /\ h'.fate = h.fate
        /\ h'.detached = h.detached /\ h'.taken = h.taken
    BY <1>1, <2>1 DEF Histories
  <2>8. h'.detached + (IF c.stream = "none" THEN 0 ELSE 1) = h'.taken
        /\ feed' \in Feeds /\ FALSE \in BOOLEAN
    BY <1>1, <1>3, <2>1, <2>7
  <2> HIDE DEF d
  <2> DEFINE o == c.out - 1
  <2>9. /\ o \in 0..2
        /\ c' = [c EXCEPT !.state = "Streaming", !.out = o, !.waiting = FALSE,
                          !.deadline = t, !.stream = c.stream, !.pc = "stream",
                          !.interest = c.interest]
    BY <2>2, <2>6
  <2> HIDE DEF o
  <2>10. /\ room' \in BOOLEAN /\ h'.stall = 0
         /\ UNCHANGED <<secure, hello, wire, ssl, sent, peer>>
    BY <2>1, <2>7
  <2> QED
    BY <1>1, <2>7, <2>8, <2>9, <2>10, StreamMove
<1>5. CASE FlushBlocked
  <2> DEFINE d == IF c.waiting THEN c
                  ELSE ArmDeadline([c EXCEPT !.waiting = TRUE], WriteTimeout)
  <2>1. PICK i \in {"Write"} \cup {r \in {"Read"} : secure} : Return(d, i)
    BY <1>5 DEF FlushBlocked
  <2>2. /\ i \in Interests /\ c.out > 0 /\ UNCHANGED <<transport, feed, h>>
    BY <1>5 DEF FlushBlocked, Interests
  <2>3. \E t \in Nat : /\ d = [c EXCEPT !.waiting = TRUE, !.deadline = t]
                       /\ h.stall + t <= WriteTimeout
    <3>1. CASE c.waiting
      <4>1. d = [c EXCEPT !.waiting = TRUE, !.deadline = c.deadline]
        BY <1>1, <3>1 DEF Connections
      <4>2. h.stall + c.deadline <= WriteTimeout
        BY <1>1, <3>1 DEF Core, Stall
      <4> QED
        BY <1>1, <4>1, <4>2
    <3>2. CASE ~c.waiting
      <4> DEFINE e == [c EXCEPT !.waiting = TRUE]
      <4>1. e \in Connections /\ d = ArmDeadline(e, WriteTimeout)
        BY <1>1, <3>2 DEF Connections
      <4> HIDE DEF e
      <4>2. PICK t \in Nat : /\ ArmDeadline(e, WriteTimeout) =
                                  [e EXCEPT !.deadline = t]
                             /\ t <= WriteTimeout
        BY <1>2, <4>1, Arming
      <4>3. h.stall = 0
        BY <1>1, <3>2 DEF Core, Stall
      <4>4. h.stall + t <= WriteTimeout
        BY <1>2, <4>2, <4>3
      <4>5. d = [c EXCEPT !.waiting = TRUE, !.deadline = t]
        BY <1>1, <4>1, <4>2 DEF e, Connections
      <4> QED
        BY <4>4, <4>5
    <3> QED
      BY <3>1, <3>2
  <2> HIDE DEF d
  <2>4. PICK t \in Nat : /\ d = [c EXCEPT !.waiting = TRUE, !.deadline = t]
                         /\ h.stall + t <= WriteTimeout
    BY <2>3
  <2>5. c = [c EXCEPT !.state = "Streaming", !.stream = c.stream,
                      !.out = c.out]
    BY <1>1 DEF Connections
  <2>6. c' = [c EXCEPT !.state = "Streaming", !.out = c.out,
                       !.waiting = TRUE, !.deadline = t, !.stream = c.stream,
                       !.pc = "idle", !.interest = i]
    BY <1>1, <2>1, <2>4, <2>5 DEF Return, Connections
  <2>7. /\ h' = h /\ room' \in BOOLEAN /\ feed' \in Feeds /\ TRUE \in BOOLEAN
        /\ UNCHANGED <<secure, hello, wire, ssl, sent, peer>>
    BY <1>1, <2>2 DEF transport
  <2> QED
    BY <1>1, <1>3, <2>2, <2>4, <2>6, <2>7, StreamMove
<1> QED
  BY <1>4, <1>5

(* Pulling from the source of a stream keeps the inductive invariant: it *)
(* wrote, is idle, or is at its end.                                     *)
LEMMA PullInv ==
  ASSUME Inv, c.pc = "stream", c.state = "Streaming",
         PullWrote \/ PullIdle \/ PullLast
  PROVE  Inv'
<1>1. /\ c \in Connections /\ h \in Histories /\ Core /\ feed \in Feeds
      /\ c.deadline \in Nat /\ c.interest \in Interests
      /\ c.waiting \in BOOLEAN /\ room \in BOOLEAN
  BY DEF Inv, Core, TypeOK, Connections
<1>2. c.out = 0 /\ c.stream = "attached"
  BY DEF PullWrote, PullIdle, PullLast
<1>3. c.waiting = FALSE /\ h.stall = 0
  BY <1>1, <1>2 DEF Core, Stall
<1>4. h.detached + 1 = h.taken /\ DetachCount = 1
  BY <1>1, <1>2 DEF Core, Sourced, DetachCount
<1>5. [feed EXCEPT !.data = FALSE] \in Feeds
  BY <1>1 DEF Feeds
<1>6. c = [c EXCEPT !.state = "Streaming", !.waiting = FALSE,
                    !.deadline = c.deadline, !.interest = c.interest]
  BY <1>1, <1>3 DEF Connections
<1>7. CASE PullWrote
  <2>1. PICK n \in 1..2 : Continue([c EXCEPT !.out = n], "stream")
    BY <1>7 DEF PullWrote
  <2>2. /\ feed' \in Feeds /\ h' = h /\ UNCHANGED transport
    BY <1>5, <1>7 DEF PullWrote
  <2>3. c' = [c EXCEPT !.state = "Streaming", !.out = n,
                       !.waiting = FALSE, !.deadline = c.deadline,
                       !.stream = "attached", !.pc = "stream",
                       !.interest = c.interest]
    BY <1>1, <1>2, <1>6, <2>1 DEF Continue, Connections
  <2>4. /\ room' \in BOOLEAN /\ n \in 0..2 /\ FALSE \in BOOLEAN
        /\ UNCHANGED <<secure, hello, wire, ssl, sent, peer>>
    BY <1>1, <2>2 DEF transport
  <2> QED
    BY <1>1, <1>3, <1>4, <2>2, <2>3, <2>4, StreamMove
<1>8. CASE PullIdle
  <2>1. "Quiescent" \in Interests
    BY DEF Interests
  <2> QED
    BY <1>8, <2>1, ReturnInv DEF PullIdle
<1>9. CASE PullLast
  <2>1. /\ feed' \in Feeds /\ UNCHANGED transport
        /\ Continue([Release(c) EXCEPT !.out = 1], "stream")
        /\ h' = [h EXCEPT !.detached = h.detached + 1]
    BY <1>4, <1>5, <1>9 DEF PullLast
  <2>2. c' = [c EXCEPT !.state = "Streaming", !.out = 1,
                       !.waiting = FALSE, !.deadline = c.deadline,
                       !.stream = "none", !.pc = "stream",
                       !.interest = c.interest]
    BY <1>1, <1>2, <1>6, <2>1 DEF Continue, Release, Connections
  <2>3. /\ h' \in Histories /\ h'.stall = 0 /\ h'.age = h.age
        /\ h'.announced = h.announced /\ h'.fate = h.fate
        /\ h'.detached = h.detached + 1 /\ h'.taken = h.taken
    BY <1>1, <1>3, <2>1 DEF Histories
  <2>4. /\ room' \in BOOLEAN /\ 1 \in 0..2 /\ FALSE \in BOOLEAN
        /\ UNCHANGED <<secure, hello, wire, ssl, sent, peer>>
    BY <1>1, <2>1 DEF transport
  <2>5. h'.detached + (IF "none" = "none" THEN 0 ELSE 1) = h'.taken
    BY <1>1, <1>4, <2>3 DEF Histories
  <2> QED
    BY <1>1, <2>1, <2>2, <2>3, <2>4, <2>5, StreamMove
<1> QED
  BY <1>7, <1>8, <1>9

(* drive_stream() keeps the inductive invariant. *)
LEMMA StreamInv ==
  ASSUME Inv, DriveStream
  PROVE  Inv'
<1>1. c.pc = "stream" /\ c.state = "Streaming"
  BY DEF DriveStream, Inv, Core, Control, Drives, DriveOf, TypeOK, Connections,
         States
<1>2. Finish => Inv'
  BY FinishInv
<1> QED
  BY <1>1, <1>2, FlushInv, PullInv DEF DriveStream, StreamOver

(* The actions of the reactor. *)
LEMMA ReactorInv ==
  ASSUME Inv, Step \/ StepHup \/ OnStreamNotified \/ OnDeadlineExpired \/ Tick
  PROVE  Inv'
<1>1. /\ c \in Connections /\ feed \in Feeds /\ Core /\ c.pc = "idle"
      /\ c.interest \in Interests /\ c.pass \in 0..(MaxPipelined - 1)
      /\ c.caller \in {"headers", "body", "write", "deadline"}
      /\ 0 \in 0..(MaxPipelined - 1)
  <2>1. c \in Connections /\ feed \in Feeds /\ Core
    BY DEF Inv, Core, TypeOK
  <2>2. c.pc = "idle"
    BY DEF Step, StepHup, OnStreamNotified, OnDeadlineExpired, Tick
  <2>3. 0 \in 0..(MaxPipelined - 1)
    BY ConnectionAssumption
  <2> QED
    BY <2>1, <2>2, <2>3 DEF Connections
<1>2. c.state \in States \ {"Closing"}
  BY <1>1 DEF Core, Control, Connections
<1>3. CASE Step
  <2> DEFINE k == CallerOf(c.state)
             p == DriveOf(c.state)
  <2>1. k \in {"headers", "body", "write", "deadline"} /\ p \in Drives
    BY <1>2 DEF CallerOf, DriveOf, Drives, States
  <2>2. c' = [[c EXCEPT !.caller = k, !.pass = 0] EXCEPT !.pc = p]
        /\ UNCHANGED <<transport, feed, h>>
    BY <1>3 DEF Step, Continue
  <2> HIDE DEF k
  <2>3. p = DriveOf(c.state) /\ p # "idle"
    BY <2>1 DEF Drives
  <2> HIDE DEF p
  <2>4. c' = [c EXCEPT !.pc = p, !.interest = c.interest, !.pass = 0,
                       !.caller = k]
    BY <1>1, <2>2 DEF Connections
  <2>5. UNCHANGED <<transport, h>> /\ feed' \in Feeds /\ c.pc # "done"
    BY <1>1, <2>2
  <2> QED
    BY <1>1, <2>1, <2>3, <2>4, <2>5, MoveInv
<1>4. CASE StepHup
  BY <1>4, FinishInv DEF StepHup
<1>5. CASE OnStreamNotified
  <2>1. /\ c' = [c EXCEPT !.pc = "stream"] /\ c.state = "Streaming"
        /\ feed' = [feed EXCEPT !.notified = FALSE]
        /\ UNCHANGED <<transport, h>>
    BY <1>5 DEF OnStreamNotified, Continue
  <2>2. c' = [c EXCEPT !.pc = "stream", !.interest = c.interest,
                       !.pass = c.pass, !.caller = c.caller]
    BY <1>1, <2>1 DEF Connections
  <2>3. "stream" \in Drives /\ "stream" = DriveOf(c.state) /\ feed' \in Feeds
    BY <1>1, <2>1 DEF Drives, DriveOf, Feeds
  <2>4. UNCHANGED <<transport, h>> /\ c.pc # "done"
    BY <1>1, <2>1
  <2> QED
    BY <1>1, <2>2, <2>3, <2>4, MoveInv
<1>6. CASE OnDeadlineExpired
  <2>1. CASE c.state \in Reading /\ c.saw_any_bytes
    <3>1. AnswerError("deadline") /\ UNCHANGED <<transport, feed>>
      BY <1>6, <2>1 DEF OnDeadlineExpired
    <3> QED
      BY <2>1, <3>1, ErrorInv
  <2>2. CASE ~(c.state \in Reading /\ c.saw_any_bytes)
    BY <1>6, <2>2, FinishInv DEF OnDeadlineExpired
  <2> QED
    BY <2>1, <2>2
<1>7. CASE Tick
  <2>1. Core'
    BY <1>1, <1>7, TickCore
  <2>2. /\ c'.read_buffer = c.read_buffer /\ c'.pc = c.pc
        /\ c'.state = c.state /\ c'.interest = c.interest
    BY <1>1, <1>7 DEF Tick, Connections
  <2>3. UNCHANGED transport /\ Unread' = Unread
    BY <1>7, <2>2 DEF Tick, Unread, transport
  <2>4. Framed' /\ PlainInv'
    BY <2>3 DEF Inv, Framed, PlainInv, transport
  <2>5. PlainDrivesUntilBlocked'
    BY <2>2, <2>3 DEF Inv, PlainDrivesUntilBlocked, DrivesUntilBlocked, Parked,
                      transport
  <2> QED
    BY <2>1, <2>4, <2>5 DEF Inv
<1> QED
  BY <1>3, <1>4, <1>5, <1>6, <1>7

(* The actions of the peer and of the source leave the connection alone.   *)
LEMMA EnvironmentInv ==
  ASSUME Inv, Environment
  PROVE  Inv'
<1>1. TypeOK /\ Core /\ feed \in Feeds /\ sent \in [count : 0..MaxSent, last : Tokens]
      /\ MaxSent \in Nat
  BY ConnectionAssumption DEF Inv, Core, TypeOK
<1>2. UNCHANGED <<c, h, secure, ssl>>
  BY DEF Environment, PeerSends, PeerHello, PeerCloses, PeerResets, PeerReads,
         SourceProduces, SourceEnds, transport
<1>3. PlainInv' /\ PlainDrivesUntilBlocked'
  BY <1>2 DEF Inv, PlainInv, PlainDrivesUntilBlocked, DrivesUntilBlocked, Parked
<1>4. TypeOK' => Core'
  BY <1>1, <1>2 DEF Core, Control, Clock, Stall, Announced, Sourced,
                    DetachCount, KeepAliveHonest
<1>5. /\ Unread \in Seq(Tokens) /\ c.read_buffer \in Seq(Tokens)
      /\ ssl \in Seq(Tokens) /\ wire \in Seq(Tokens)
      /\ ssl \o wire \in Seq(Tokens)
      /\ Unread = c.read_buffer \o (ssl \o wire)
  BY <1>1, UnreadType DEF Unread
<1>6. (c.read_buffer \o ssl) \o wire = c.read_buffer \o (ssl \o wire)
  <2> DEFINE b == c.read_buffer
  <2>1. b \in Seq(Tokens) /\ ssl \in Seq(Tokens) /\ wire \in Seq(Tokens)
    BY <1>5
  <2> HIDE DEF b
  <2>2. (b \o ssl) \o wire = b \o (ssl \o wire)
    BY <2>1, ConcatAssociative
  <2> QED
    BY <2>2 DEF b
<1>7. ASSUME NEW t \in Tokens, PeerSends(t)
      PROVE  TypeOK' /\ Framed'
  <2>1. /\ wire' = Append(wire, t) /\ peer = "open"
        /\ Follows(sent.last, t) /\ sent.count < MaxSent
        /\ sent' = [count |-> sent.count + 1, last |-> t]
        /\ UNCHANGED <<hello, peer, room, feed>>
    BY <1>7 DEF PeerSends
  <2>2. wire' \in Seq(Tokens)
    BY <1>5, <2>1, AppendProperties
  <2>3. sent' \in [count : 0..MaxSent, last : Tokens] /\ sent'.last = t
    BY <1>1, <2>1
  <2>4. TypeOK'
    BY <1>1, <1>2, <2>1, <2>2, <2>3 DEF TypeOK
  <2>5. Unread' = Append(Unread, t)
    <3>1. ssl \o Append(wire, t) = Append(ssl \o wire, t)
      BY <1>5, ConcatAppend
    <3>2. c.read_buffer \o Append(ssl \o wire, t)
            = Append(c.read_buffer \o (ssl \o wire), t)
      <4> DEFINE b == c.read_buffer
                 q == ssl \o wire
      <4>1. b \in Seq(Tokens) /\ q \in Seq(Tokens)
        BY <1>5
      <4> HIDE DEF b, q
      <4>2. b \o Append(q, t) = Append(b \o q, t)
        BY <4>1, ConcatAppend
      <4> QED
        BY <4>2 DEF b, q
    <3> QED
      BY <1>2, <1>5, <2>1, <3>1, <3>2 DEF Unread
  <2>6. /\ Chained(Unread)
        /\ IF Unread = <<>> THEN sent.last \in Ends
                            ELSE sent.last = Unread[Len(Unread)]
    BY <2>1 DEF Inv, Framed
  <2>7. Chained(Unread')
    BY <1>5, <2>1, <2>5, <2>6, ChainAppend
  <2>8. /\ Len(Append(Unread, t)) = Len(Unread) + 1
        /\ Append(Unread, t)[Len(Unread) + 1] = t
        /\ Append(Unread, t) # <<>>
    <3>1. \A q \in Seq(Tokens) : /\ Len(Append(q, t)) = Len(q) + 1
                                 /\ Append(q, t)[Len(q) + 1] = t
                                 /\ Append(q, t) # <<>>
      BY AppendProperties
    <3> QED
      BY <1>5, <3>1, Zenon
  <2> QED
    BY <2>3, <2>4, <2>5, <2>7, <2>8 DEF Framed
<1>8. ASSUME PeerResets
      PROVE  TypeOK' /\ Framed'
  <2>1. /\ wire' = <<>> /\ peer' = "reset" /\ <<>> \in Seq(Tokens)
        /\ UNCHANGED <<hello, sent, room, feed>>
    BY <1>8 DEF PeerResets
  <2>2. TypeOK'
    BY <1>1, <1>2, <2>1 DEF TypeOK
  <2>3. Unread' = c.read_buffer \o ssl
    <3>1. ssl \o <<>> = ssl
      BY <1>5, ConcatEmptySeq
    <3> QED
      BY <1>2, <2>1, <3>1 DEF Unread
  <2>4. Unread = (c.read_buffer \o ssl) \o wire
    BY <1>5, <1>6
  <2>5. c.read_buffer \o ssl \in Seq(Tokens)
    BY <1>5, ConcatProperties
  <2>6. Chained(Unread')
    BY <1>5, <2>3, <2>4, <2>5, ChainPrefix DEF Inv, Framed
  <2> QED
    BY <2>1, <2>2, <2>6 DEF Framed
<1>9. ASSUME UNCHANGED <<wire, sent>>, peer' = peer \/ peer' = "eof",
             hello' \in {"awaited", "sent", "used"}, room' \in BOOLEAN,
             feed' \in Feeds
      PROVE  TypeOK' /\ Framed'
  <2>1. TypeOK'
    BY <1>1, <1>2, <1>9 DEF TypeOK
  <2>2. Unread' = Unread
    BY <1>2, <1>9 DEF Unread
  <2> QED
    BY <1>9, <2>1, <2>2 DEF Inv, Framed
<1>10. hello \in {"awaited", "sent", "used"} /\ room \in BOOLEAN
  BY <1>1 DEF TypeOK
<1>11. ASSUME PeerHello \/ PeerCloses \/ PeerReads
       PROVE  TypeOK' /\ Framed'
  BY <1>1, <1>9, <1>10, <1>11 DEF PeerHello, PeerCloses, PeerReads
<1>12. ASSUME SourceProduces \/ SourceEnds
       PROVE  TypeOK' /\ Framed'
  <2> DEFINE b == feed.notified \/ c.stream = "attached"
  <2>1. /\ UNCHANGED transport
        /\ \/ feed' = [feed EXCEPT !.data = TRUE, !.notified = b]
           \/ feed' = [feed EXCEPT !.ended = TRUE, !.notified = b]
    BY <1>12 DEF SourceProduces, SourceEnds
  <2>2. b \in BOOLEAN
    OBVIOUS
  <2> HIDE DEF b
  <2>3. feed' \in Feeds
    BY <1>1, <2>1, <2>2 DEF Feeds
  <2> QED
    BY <1>9, <1>10, <2>1, <2>3 DEF transport
<1>13. TypeOK' /\ Framed'
  BY <1>7, <1>8, <1>11, <1>12 DEF Environment
<1> QED
  BY <1>3, <1>4, <1>13 DEF Inv

-----------------------------------------------------------------------------
(* The theorems *)

(* A connection that has just been admitted satisfies the inductive *)
(* invariant.                                                       *)
LEMMA InitInv ==
  ASSUME Init
  PROVE  Inv
<1> DEFINE d == [state |-> "Handshaking", pc |-> "idle",
                 caller |-> "headers", pass |-> 0, interest |-> "Read",
                 read_buffer |-> <<>>, request |-> "none", out |-> 0,
                 stream |-> "none", waiting |-> FALSE,
                 saw_any_bytes |-> FALSE, requests_served |-> 0,
                 deadline |-> 0, request_deadline |-> Off]
<1>1. /\ MaxRequests \in Nat \ {0} /\ 0 \in 0..(MaxPipelined - 1)
      /\ 0 \in 0..MaxRequests /\ 0 \in 0..2 /\ 0 \in 0..MaxSent
      /\ <<>> \in Seq(Tokens)
  BY ConnectionAssumption
<1>2. d \in Connections
  BY <1>1 DEF Connections, States, Interests, Timer
<1>3. c = EnterState(d, "Handshaking") /\ "Handshaking" \in States
  BY DEF Init, States
<1>4. d.read_buffer = <<>>
  OBVIOUS
<1>5. PICK t \in Nat :
        /\ EnterState(d, "Handshaking") =
             [d EXCEPT !.state = "Handshaking", !.deadline = t]
        /\ d.request_deadline # Off /\ "Handshaking" # "Streaming"
             => t <= d.request_deadline
  <2> HIDE DEF d
  <2> QED
    BY <1>2, <1>3, Entering, Zenon
<1>6. /\ c \in Connections /\ c.state = "Handshaking" /\ c.pc = "idle"
      /\ c.read_buffer = <<>> /\ ~c.saw_any_bytes /\ c.request_deadline = Off
      /\ c.requests_served = 0 /\ ~c.waiting /\ c.stream = "none"
  <2>1. /\ d.pc = "idle" /\ d.saw_any_bytes = FALSE /\ d.request_deadline = Off
        /\ d.requests_served = 0 /\ d.waiting = FALSE /\ d.stream = "none"
    OBVIOUS
  <2> HIDE DEF d
  <2>2. c = [d EXCEPT !.state = "Handshaking", !.deadline = t]
    BY <1>3, <1>5
  <2> QED
    BY <1>2, <1>3, <1>4, <2>1, <2>2, ZenonT(40) DEF Connections
<1>7. /\ h = [announced |-> "none", fate |-> "none", age |-> 0, stall |-> 0,
              taken |-> 0, detached |-> 0]
      /\ h \in Histories
  BY DEF Init, Histories
<1>8. wire = <<>> /\ ssl = <<>> /\ sent.last = "body"
  BY DEF Init
<1>9. TypeOK
  <2>1. /\ secure \in BOOLEAN /\ hello \in {"awaited", "sent", "used"}
        /\ peer \in {"open", "eof", "reset"} /\ room \in BOOLEAN
    BY DEF Init
  <2>2. sent \in [count : 0..MaxSent, last : Tokens]
    BY <1>1 DEF Init, Tokens
  <2>3. feed \in Feeds
    BY DEF Init, NoFeed, Feeds
  <2> QED
    BY <1>1, <1>6, <1>7, <1>8, <2>1, <2>2, <2>3 DEF TypeOK
<1>10. Control /\ Announced /\ Sourced /\ KeepAliveHonest
  BY <1>1, <1>6, <1>7 DEF Control, Announced, Sourced, KeepAliveHonest,
                          DetachCount, Drives
<1>11. Clock /\ Stall
  BY <1>6, <1>7 DEF Clock, Stall, Reading
<1>12. Unread = <<>>
  <2>1. <<>> \o (<<>> \o <<>>) = <<>>
    BY <1>1, ConcatEmptySeq
  <2> QED
    BY <1>6, <1>8, <2>1 DEF Unread
<1>13. Framed /\ PlainInv
  BY <1>8, <1>12 DEF Framed, PlainInv, Chained, Ends
<1>14. PlainDrivesUntilBlocked
  BY <1>6 DEF PlainDrivesUntilBlocked, DrivesUntilBlocked, Parked
<1> QED
  BY <1>9, <1>10, <1>11, <1>13, <1>14 DEF Inv, Core

(* The inductive invariant: the clocks, the announcements, the sources and *)
(* the framing of the unread bytes hold together in every state.           *)
THEOREM Invariance == Spec => []Inv
<1>1. Init => Inv
  BY InitInv
<1>2. Inv /\ [Next]_vars => Inv'
  <2> SUFFICES ASSUME Inv, [Next]_vars
               PROVE  Inv'
    OBVIOUS
  <2>1. CASE Drive
    BY <2>1, HandshakeInv, HeadersInv, BodyInv, WriteInv, StreamInv DEF Drive
  <2>2. CASE Step \/ StepHup \/ OnStreamNotified \/ OnDeadlineExpired \/ Tick
    BY <2>2, ReactorInv
  <2>3. CASE Environment
    BY <2>3, EnvironmentInv
  <2>4. CASE UNCHANGED vars
    <3>1. UNCHANGED <<c, h, feed>> /\ UNCHANGED <<secure, hello, wire, ssl>>
          /\ UNCHANGED <<sent, peer, room>>
      BY <2>4 DEF vars, transport
    <3>2. TypeOK'
      BY <3>1 DEF Inv, Core, TypeOK
    <3>3. Control' /\ Clock' /\ Stall' /\ Announced' /\ Sourced' /\ KeepAliveHonest'
      BY <3>1 DEF Inv, Core, Control, Clock, Stall, Announced, Sourced,
                  DetachCount, KeepAliveHonest
    <3>4. Framed' /\ PlainInv' /\ PlainDrivesUntilBlocked'
      BY <3>1 DEF Inv, Framed, Unread, PlainInv, PlainDrivesUntilBlocked,
                  DrivesUntilBlocked, Parked
    <3> QED
      BY <3>2, <3>3, <3>4 DEF Inv, Core
  <2> QED
    BY <2>1, <2>2, <2>3, <2>4 DEF Next, Terminated
<1> QED
  BY <1>1, <1>2, PTL DEF Spec

(* Every field of the connection, of the transport and of the history has  *)
(* its type: no more than max_requests_per_connection requests are served, *)
(* the passes of drive_read_headers stay within their budget, and no timer *)
(* runs below zero.                                                        *)
THEOREM Typed == Spec => []TypeOK
<1>1. Inv => TypeOK
  BY DEF Inv, Core
<1> QED
  BY <1>1, Invariance, PTL

(* The buffer, saw_any_bytes_ and the request deadline agree whenever a    *)
(* reading connection waits.                                               *)
THEOREM ClockRuns == Spec => []RequestClockRuns
<1>1. Inv => RequestClockRuns
  BY DEF Inv, Core, Clock, RequestClockRuns, Parked
<1> QED
  BY <1>1, Invariance, PTL

(* A request is cut off within request_deadline of its first byte.         *)
THEOREM BudgetKept == Spec => []RequestBudget
<1>1. Inv => RequestBudget
  <2> SUFFICES ASSUME Inv, c.state \in Reading
               PROVE  h.age <= RequestDeadline
    BY DEF RequestBudget
  <2>1. /\ RequestDeadline \in Nat /\ h.age \in Nat
        /\ c.request_deadline \in Nat \cup {Off}
    BY ConnectionAssumption DEF Inv, Core, TypeOK, Connections, Histories, Timer
  <2>2. CASE c.saw_any_bytes
    <3>1. c.request_deadline \in Nat /\ h.age + c.request_deadline = RequestDeadline
      BY <2>1, <2>2 DEF Inv, Core, Clock
    <3> QED
      BY <2>1, <3>1
  <2>3. CASE ~c.saw_any_bytes
    BY <2>1, <2>3 DEF Inv, Core, Clock
  <2> QED
    BY <2>2, <2>3
<1> QED
  BY <1>1, Invariance, PTL

(* A stream whose peer does not read is cut off within write_timeout.      *)
THEOREM StallsEnd == Spec => []StallBounded
<1>1. Inv => StallBounded
  <2> SUFFICES ASSUME Inv
               PROVE  h.stall <= WriteTimeout
    BY DEF StallBounded
  <2>1. WriteTimeout \in Nat /\ h.stall \in Nat /\ c.deadline \in Nat
    BY ConnectionAssumption DEF Inv, Core, TypeOK, Connections, Histories
  <2> QED
    BY <2>1 DEF Inv, Core, Stall
<1> QED
  BY <1>1, Invariance, PTL

(* The Connection header of every response is what then happens.           *)
THEOREM HeaderHonest == Spec => []KeepAliveHonest
<1>1. Inv => KeepAliveHonest
  BY DEF Inv, Core
<1> QED
  BY <1>1, Invariance, PTL

(* Every source taken from a response is detached exactly once.            *)
THEOREM SourcesDetached == Spec => []DetachedOnce
<1>1. Inv => DetachedOnce
  BY DEF Inv, Core, Sourced, Control, DetachedOnce
<1> QED
  BY <1>1, Invariance, PTL

(* A cleartext connection that waits for the peer has nothing left to      *)
(* answer and nothing left to read.                                        *)
THEOREM PlainDrives == Spec => []PlainDrivesUntilBlocked
<1>1. Inv => PlainDrivesUntilBlocked
  BY DEF Inv
<1> QED
  BY <1>1, Invariance, PTL
=============================================================================
