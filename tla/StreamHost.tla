----------------------------- MODULE StreamHost -----------------------------
(***************************************************************************)
(* What a stream source and the reactor that hosts it owe each other       *)
(* (StreamSource and StreamNotifier).  The host runs a stream until there  *)
(* is nothing to pull, and parks it, or until the socket is full.  A       *)
(* source that gets data rings the bell of its stream, and a parked stream *)
(* runs again for its bell only.  A stream that has left does not return.  *)
(***************************************************************************)
CONSTANT Streams

VARIABLES
  host,   \* of each stream: "unused", "running", "parked", "blocked", "over"
  data,   \* streams whose source has something to pull, or has ended
  bell,   \* streams with a wakeup on its way
  open    \* the host takes notifications

Hosted == {i \in Streams : host[i] \in {"running", "parked", "blocked"}}

Init ==
  /\ host = [i \in Streams |-> "unused"]
  /\ data = {} /\ bell = {} /\ open = TRUE

(* The part of S that is not about i. *)
Others(S, i) == S \ {i}

(* Only stream i moves, to h. *)
Moves(i, h) ==
  /\ host' = [host EXCEPT ![i] = h]
  /\ Others(data', i) = Others(data, i)
  /\ Others(bell', i) = Others(bell, i)
  /\ h = "parked" => i \notin data'
  /\ h = "over" => i \notin data' /\ i \notin bell'
  /\ UNCHANGED open

Attach(i) ==
  /\ host[i] = "unused"
  /\ \E h \in {"running", "parked", "blocked", "over"} : Moves(i, h)

(* A turn of the stream: it pulls, and adds nothing. *)
Run(i) ==
  /\ i \in Hosted
  /\ host[i] = "parked" => i \in bell
  /\ i \in data' => i \in data
  /\ \E h \in {"running", "parked", "blocked", "over"} : Moves(i, h)

(* The connection ends, whatever its stream was doing. *)
Leave(i) == i \in Hosted /\ Moves(i, "over")

Produce(i) ==
  /\ i \in Hosted
  /\ data' = data \cup {i}
  /\ bell' = IF open THEN bell \cup {i} ELSE bell
  /\ UNCHANGED <<host, open>>

(* A notification without data. *)
Ring ==
  /\ open
  /\ bell \subseteq bell' /\ bell' \subseteq Hosted
  /\ UNCHANGED <<host, data, open>>

Halt == open /\ open' = FALSE /\ bell' = {} /\ UNCHANGED <<host, data>>

Next ==
  \/ \E i \in Streams : Attach(i) \/ Run(i) \/ Leave(i) \/ Produce(i)
  \/ Ring \/ Halt

Spec == Init /\ [][Next]_<<host, data, bell, open>>
=============================================================================
