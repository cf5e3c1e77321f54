--------------------------- MODULE ResponseWriter ---------------------------
(***************************************************************************)
(* The bytes of one response on their way to the peer (drive_write and the *)
(* inner loop of drive_stream in src/src/connection.cpp, write_vectors in  *)
(* socket.cpp, PlainTransport::writev, TlsTransport::writev).              *)
(*                                                                         *)
(* The response is units numbered from 1 in the order the peer should see  *)
(* them: the head, then the body, or then the frames of a stream.  A write *)
(* may take any part, block, or fail; the reactor calls again later.       *)
(***************************************************************************)
EXTENDS Integers, Sequences, SequencesExt

CONSTANTS
  MaxFrames,    \* bound: frames a stream source hands out
  FrameSizes    \* sizes of a frame

ASSUME WriterAssumption ==
  MaxFrames \in Nat /\ FrameSizes \subseteq Nat \ {0}

VARIABLE w

(* secure      the transport is TLS                                         *)
(* vectors     write_vectors_: sequences of units                           *)
(* offset      write_offset_                                                *)
(* stalled     StalledWrite: length of the blocked call, 0 for kind None    *)
(* scratch     StalledWrite::scratch                                        *)
(* taken       OpenSSL: units of the blocked call already on the wire       *)
(* wire        what the peer receives                                       *)
(* produced    units of the response so far                                 *)
(* source      frames the stream source may still hand out                  *)
(* state       "writing", "done": written, "failed": closed before the end  *)

Units(from, n) == [i \in 1 .. n |-> from + i]

\* The write_vectors_ of dispatch_and_serialize: the head, and the body if it
\* is not suppressed and not empty.
StartWriting(secure, head, body, source) ==
  [secure |-> secure,
   vectors |-> IF body = 0 THEN <<Units(0, head)>>
               ELSE <<Units(0, head), Units(head, body)>>,
   offset |-> 0, stalled |-> 0, scratch |-> <<>>, taken |-> 0, wire |-> <<>>,
   produced |-> head + body, source |-> source, state |-> "writing"]

Pending == FlattenSeq(w.vectors)

\* The batch of a write: the vectors behind write_offset_.
Batch == SubSeq(Pending, w.offset + 1, Len(Pending))

Writing == w.state = "writing" /\ w.offset < Len(Pending)

\* A terminal result of the transport, or the write deadline.
WriteFails ==
  /\ w.state = "writing"
  /\ w' = [w EXCEPT !.state = "failed"]

\* PlainTransport::writev: what write_vectors has written when the socket takes
\* no more, at least one unit; with none the call blocks and changes nothing.
PlainWritev ==
  /\ Writing /\ ~w.secure
  /\ \E n \in 1 .. Len(Batch) :
       w' = [w EXCEPT !.offset = @ + n, !.wire = @ \o SubSeq(Batch, 1, n)]

\* is_retry, and the buffer that SSL_write_ex then gets.
IsRetry == w.stalled = Len(Batch)
Scratch == IF IsRetry THEN w.scratch ELSE Batch

(* Fault: a call that was written leaves its length behind. *)
RecordWriteOutcomeKeeps(v, blocked, taken) ==
  [v EXCEPT !.stalled = Len(Batch), !.taken = IF blocked THEN taken ELSE 0]

\* record_write_outcome
RecordWriteOutcome(v, blocked, taken) ==
  [v EXCEPT !.stalled = IF blocked THEN Len(Batch) ELSE 0,
            !.taken = IF blocked THEN taken ELSE 0]

\* TlsTransport::writev with write_through_ssl.  OpenSSL has sent the first
\* taken units of the buffer and goes on from there in the buffer it is given;
\* the call succeeds with all of it or blocks.  A call that is no retry while
\* another one is stalled is refused.
SslWritev ==
  /\ Writing /\ w.secure
  /\ w.stalled = 0 \/ IsRetry
  /\ \E n \in w.taken .. Len(Scratch) :
       LET blocked == n < Len(Scratch)
           v == RecordWriteOutcome(w, blocked, n)
       IN  w' = [v EXCEPT !.scratch = Scratch,
                          !.wire = @ \o SubSeq(Scratch, w.taken + 1, n),
                          !.offset = IF blocked THEN @ ELSE @ + Len(Scratch)]

SslRefuses ==
  /\ Writing /\ w.secure
  /\ w.stalled # 0 /\ ~IsRetry
  /\ w' = [w EXCEPT !.state = "failed"]

\* The stream source hands out a frame once the one before is written; the
\* write buffer and the vectors start anew.
PullFrame ==
  /\ w.state = "writing" /\ w.offset = Len(Pending)
  /\ w.source > 0
  /\ \E n \in FrameSizes :
       w' = [w EXCEPT !.vectors = <<Units(w.produced, n)>>, !.offset = 0,
                      !.produced = @ + n, !.source = @ - 1]

\* The response is complete, the stream at any frame.
FinishWriting ==
  /\ w.state = "writing" /\ w.offset = Len(Pending)
  /\ w' = [w EXCEPT !.state = "done", !.vectors = <<>>, !.offset = 0,
                    !.source = 0]

WriteStep ==
  \/ PlainWritev \/ SslWritev \/ SslRefuses \/ PullFrame \/ FinishWriting
  \/ WriteFails

-----------------------------------------------------------------------------
\* The peer receives the units of the response in order, each once, and all of
\* them if the connection calls the response written: through partial writes,
\* blocked TLS calls whose buffer OpenSSL has sent a part of, and the scratch
\* that a retry recognises by its length alone.
WireIsResponse ==
  /\ w.wire = Units(0, Len(w.wire))
  /\ Len(w.wire) <= w.produced
  /\ w.state = "done" => Len(w.wire) = w.produced
=============================================================================
