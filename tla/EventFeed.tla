----------------------------- MODULE EventFeed -----------------------------
(***************************************************************************)
(* What a channel promises its subscribers: a log of events, and for each  *)
(* subscriber a window of the log.                                         *)
(*                                                                         *)
(* The events up to sent have been sent or given up, those after from and  *)
(* up to upto will be sent next.  A subscriber joins at the end of the     *)
(* log and is offered every later event once and in order.  A slow one may *)
(* lose the oldest of what it waits for, fewer than MaxSkips times between *)
(* two sends; after that it is cut off.  One that is closing is offered    *)
(* nothing more and may still be sent what it had.                         *)
(***************************************************************************)
EXTENDS Integers

CONSTANTS
  Subs,       \* subscribers
  MaxSkips    \* this many losses in a row end a subscription

VARIABLES
  log,    \* number of events published
  feed    \* of each subscriber

(* A subscriber is out before it joins, then open, closing and over, or    *)
(* over at once.                                                           *)
Window(state, sent, from, upto, skips) ==
  [state |-> state, sent |-> sent, from |-> from, upto |-> upto,
   skips |-> skips]

Fresh(state, n) == Window(state, n, n, n, 0)

Init ==
  /\ log = 0
  /\ feed = [s \in Subs |-> Fresh("out", 0)]

Becomes(s, f) == feed' = [feed EXCEPT ![s] = f] /\ UNCHANGED log

Open(s) == feed[s].state = "open"

(* An event is published, and a subscriber joins, when everybody has been  *)
(* offered the events before.                                              *)
CaughtUp == \A s \in Subs : Open(s) => feed[s].upto = log

Publish == CaughtUp /\ log' = log + 1 /\ UNCHANGED feed

Join(s) ==
  /\ feed[s].state = "out" /\ CaughtUp
  /\ Becomes(s, Fresh("open", log))

Behind(s) == Open(s) /\ feed[s].upto < log

Offer(s) ==
  /\ Behind(s)
  /\ Becomes(s, [feed[s] EXCEPT !.upto = log])

OfferSkipping(s) ==
  /\ Behind(s)
  /\ feed[s].skips + 1 < MaxSkips
  /\ \E n \in feed[s].from .. feed[s].upto :
       Becomes(s, Window("open", feed[s].sent, n, log, feed[s].skips + 1))

CutOff(s) ==
  /\ Behind(s)
  /\ Becomes(s, Fresh("closing", feed[s].sent))

Send(s) ==
  /\ feed[s].state \in {"open", "closing"}
  /\ Becomes(s, Fresh(feed[s].state, feed[s].upto))

Close(s) ==
  /\ Open(s)
  /\ Becomes(s, Window("closing", feed[s].sent, feed[s].from, feed[s].upto, 0))

Leave(s) ==
  /\ feed[s].state \in {"open", "closing"}
  /\ Becomes(s, Fresh("over", 0))

Next ==
  \/ Publish
  \/ \E s \in Subs : \/ Join(s) \/ Offer(s) \/ OfferSkipping(s) \/ CutOff(s)
                     \/ Send(s) \/ Close(s) \/ Leave(s)

Spec == Init /\ [][Next]_<<log, feed>>
=============================================================================
