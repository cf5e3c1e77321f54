---------------------------- MODULE RequestProofs ----------------------------
(***************************************************************************)
(* Proofs about RequestPath, for any limits, messages, routes and sizes:   *)
(* what reaches the peer is what was produced (the writer), a request cut  *)
(* into reads is parsed as if it had come whole (the parser), and dispatch *)
(* finds what was registered (the router).                                 *)
(***************************************************************************)
EXTENDS RequestPath, SequenceFacts

(* The record of the writer. *)
Writers ==
  [secure : BOOLEAN, vectors : Seq(Seq(Nat)), offset : Nat, stalled : Nat,
   scratch : Seq(Nat), taken : Nat, wire : Seq(Nat), produced : Nat,
   source : Nat, state : {"writing", "done", "failed"}]

(* The last n units produced are pending, offset of them are written, and  *)
(* taken more are on the wire although the call that wrote them blocked:   *)
(* its scratch is what is still to be written.                             *)
Pends(n) ==
  /\ Pending = Units(w.produced - n, n)
  /\ w.offset + w.taken <= n
  /\ w.wire = Units(0, w.produced - n + w.offset + w.taken)
  /\ w.stalled # 0 => /\ w.stalled = n - w.offset
                      /\ w.scratch = Units(w.produced - n + w.offset, w.stalled)
  /\ w.stalled = 0 => w.taken = 0
  /\ ~w.secure => w.stalled = 0
  /\ w.state = "done" => n = 0

WriterInv == w \in Writers /\ \E n \in 0..w.produced : Pends(n)

-----------------------------------------------------------------------------
(* Units and vectors *)

(* Units are numbered one after the other. *)
LEMMA UnitsAre ==
  ASSUME NEW a \in Nat, NEW n \in Nat
  PROVE  /\ Units(a, n) \in Seq(Nat) /\ Len(Units(a, n)) = n
         /\ \A i \in 1..n : Units(a, n)[i] = a + i
BY DEF Units

(* Units after those that come before them. *)
LEMMA UnitsJoin ==
  ASSUME NEW a \in Nat, NEW n \in Nat, NEW m \in Nat
  PROVE  Units(a, n) \o Units(a + n, m) = Units(a, n + m)
<1> DEFINE x == Units(a, n)
           y == Units(a + n, m)
           z == Units(a, n + m)
<1>1. /\ x \in Seq(Nat) /\ Len(x) = n /\ \A i \in 1..n : x[i] = a + i
      /\ y \in Seq(Nat) /\ Len(y) = m /\ \A i \in 1..m : y[i] = a + n + i
      /\ z \in Seq(Nat) /\ Len(z) = n + m /\ \A i \in 1..(n + m) : z[i] = a + i
  <2>1. a + n \in Nat /\ n + m \in Nat
    OBVIOUS
  <2> QED
    BY <2>1, UnitsAre
<1> HIDE DEF x, y, z
<1>2. /\ x \o y \in Seq(Nat) /\ Len(x \o y) = n + m
      /\ \A i \in 1..(n + m) : (x \o y)[i] = IF i <= n THEN x[i] ELSE y[i - n]
  <2>1. /\ x \o y \in Seq(Nat) /\ Len(x \o y) = Len(x) + Len(y)
        /\ \A i \in 1..(Len(x) + Len(y)) :
             (x \o y)[i] = IF i <= Len(x) THEN x[i] ELSE y[i - Len(x)]
    BY <1>1, ConcatProperties, ZenonT(30)
  <2> QED
    BY <1>1, <2>1, ZenonT(30)
<1>3. \A i \in 1..(n + m) : (x \o y)[i] = z[i]
  <2> SUFFICES ASSUME NEW i \in 1..(n + m)
               PROVE  (x \o y)[i] = z[i]
    OBVIOUS
  <2>1. CASE i <= n
    BY <1>1, <1>2, <2>1
  <2>2. CASE i > n
    <3>1. i - n \in 1..m /\ a + n + (i - n) = a + i
      BY <2>2
    <3> QED
      BY <1>1, <1>2, <2>2, <3>1, SMTT(30)
  <2>3. i <= n \/ i > n
    OBVIOUS
  <2> QED
    BY <2>1, <2>2, <2>3
<1>4. x \o y = z
  BY <1>1, <1>2, <1>3, SeqEqual
<1> QED
  BY <1>4 DEF x, y, z

(* A part of a run of units is a run of units. *)
LEMMA UnitsCut ==
  ASSUME NEW a \in Nat, NEW n \in Nat, NEW j \in 0..n, NEW i \in 0..j
  PROVE  SubSeq(Units(a, n), i + 1, j) = Units(a + i, j - i)
<1> DEFINE x == Units(a, n)
           y == SubSeq(x, i + 1, j)
           z == Units(a + i, j - i)
<1>1. /\ x \in Seq(Nat) /\ Len(x) = n /\ \A k \in 1..n : x[k] = a + k
      /\ z \in Seq(Nat) /\ Len(z) = j - i /\ \A k \in 1..(j - i) : z[k] = a + i + k
  <2>1. a + i \in Nat /\ j - i \in Nat
    OBVIOUS
  <2> QED
    BY <2>1, UnitsAre
<1> HIDE DEF x, z
<1>2. y \in Seq(Nat) /\ Len(y) = j - i /\ \A k \in 1..(j - i) : y[k] = x[i + k]
  BY <1>1, SMTT(30)
<1> HIDE DEF y
<1>3. \A k \in 1..(j - i) : y[k] = z[k]
  <2> SUFFICES ASSUME NEW k \in 1..(j - i)
               PROVE  y[k] = z[k]
    OBVIOUS
  <2>1. i + k \in 1..n /\ a + (i + k) = a + i + k
    OBVIOUS
  <2> QED
    BY <1>1, <1>2, <2>1
<1>4. y = z
  BY <1>1, <1>2, <1>3, SeqEqual
<1> QED
  BY <1>4 DEF x, y, z

(* The write vectors of a response without and with a body, one behind the *)
(* other.                                                                  *)
LEMMA Flat ==
  ASSUME NEW x \in Seq(Nat), NEW y \in Seq(Nat)
  PROVE  /\ FlattenSeq(<<>>) = <<>> /\ FlattenSeq(<<x>>) = x
         /\ FlattenSeq(<<x, y>>) = x \o y
<1>1. FlattenSeq(<<>>) = <<>>
  BY DEF FlattenSeq
<1>2. FlattenSeq(<<x>>) = x
  <2> DEFINE s == <<x>>
             Flattens(g) == g = [i \in 1..1 |-> IF i = 1 THEN s[i] ELSE g[i - 1] \o s[i]]
             f == CHOOSE g : Flattens(g)
  <2>1. FlattenSeq(s) = f[1]
    BY DEF FlattenSeq
  <2>2. Flattens([i \in 1..1 |-> x])
    OBVIOUS
  <2>3. Flattens(f)
    <3> HIDE DEF Flattens
    <3> QED
      BY <2>2, Zenon
  <2> HIDE DEF f
  <2>4. f[1] = x
    BY <2>3
  <2> QED
    BY <2>1, <2>4
<1>3. FlattenSeq(<<x, y>>) = x \o y
  <2> DEFINE s == <<x, y>>
             Flattens(g) == g = [i \in 1..2 |-> IF i = 1 THEN s[i] ELSE g[i - 1] \o s[i]]
             f == CHOOSE g : Flattens(g)
  <2>1. FlattenSeq(s) = f[2]
    BY DEF FlattenSeq
  <2>2. Flattens([i \in 1..2 |-> IF i = 1 THEN x ELSE x \o y])
    OBVIOUS
  <2>3. Flattens(f)
    <3> HIDE DEF Flattens
    <3> QED
      BY <2>2, Zenon
  <2> HIDE DEF f
  <2>4. f = [i \in 1..2 |-> IF i = 1 THEN s[i] ELSE f[i - 1] \o s[i]]
    BY <2>3
  <2>5. s[1] = x /\ s[2] = y /\ 2 - 1 = 1 /\ 1 \in 1..2 /\ 2 \in 1..2
    OBVIOUS
  <2> HIDE DEF s
  <2>6. f[1] = x
    BY <2>4, <2>5
  <2>7. f[2] = f[1] \o y
    <3>1. 2 # 1
      OBVIOUS
    <3>2. f[2] = f[2 - 1] \o s[2]
      BY <2>4, <2>5, <3>1, Zenon
    <3> QED
      BY <2>5, <3>2
  <2> QED
    BY <2>1, <2>6, <2>7 DEF s
<1> QED
  BY <1>1, <1>2, <1>3

-----------------------------------------------------------------------------
(* Writing *)

(* The response as dispatch_and_serialize leaves it for the writer. *)
LEMMA Starting ==
  ASSUME NEW secure \in BOOLEAN, NEW head \in Nat, NEW body \in Nat,
         NEW source \in Nat, w = StartWriting(secure, head, body, source)
  PROVE  WriterInv
<1> DEFINE x == Units(0, head)
           y == Units(head, body)
<1>1. x \in Seq(Nat) /\ y \in Seq(Nat) /\ head + body \in Nat /\ (head + body) - (head + body) = 0
  BY UnitsAre
<1>2. x \o y = Units(0, head + body)
  <2>1. 0 + head = head /\ 0 \in Nat
    OBVIOUS
  <2>2. Units(0, head) \o Units(0 + head, body) = Units(0, head + body)
    BY <2>1, UnitsJoin
  <2> QED
    BY <2>1, <2>2
<1>3. body = 0 => x = Units(0, head + body)
  OBVIOUS
<1>4. Units(0, 0) = <<>>
  <2>1. Units(0, 0) \in Seq(Nat) /\ Len(Units(0, 0)) = 0
    BY UnitsAre
  <2> QED
    BY <2>1, EmptySeq
<1> DEFINE v == IF body = 0 THEN <<x>> ELSE <<x, y>>
<1>5. w = [secure |-> secure, vectors |-> v, offset |-> 0, stalled |-> 0,
           scratch |-> <<>>, taken |-> 0, wire |-> <<>>, produced |-> head + body,
           source |-> source, state |-> "writing"]
  BY DEF StartWriting
<1> HIDE DEF x, y
<1>6. v \in Seq(Seq(Nat)) /\ FlattenSeq(v) = Units(0, head + body)
  <2>1. CASE body = 0
    <3>1. v = <<x>>
      BY <2>1
    <3>2. <<x>> \in Seq(Seq(Nat))
      BY <1>1
    <3>3. FlattenSeq(<<x>>) = x
      BY <1>1, Flat
    <3> QED
      BY <1>3, <2>1, <3>1, <3>2, <3>3
  <2>2. CASE body # 0
    <3>1. v = <<x, y>>
      BY <2>2
    <3>2. <<x, y>> \in Seq(Seq(Nat))
      BY <1>1
    <3>3. FlattenSeq(<<x, y>>) = x \o y
      BY <1>1, Flat
    <3> QED
      BY <1>2, <3>1, <3>2, <3>3
  <2> QED
    BY <2>1, <2>2
<1> HIDE DEF v
<1>7. w \in Writers
  <2>1. <<>> \in Seq(Nat) /\ 0 \in Nat
    BY EmptySeq
  <2> QED
    BY <1>1, <1>5, <1>6, <2>1 DEF Writers
<1>8. /\ w.produced = head + body /\ w.offset = 0 /\ w.taken = 0 /\ w.stalled = 0
      /\ w.wire = <<>> /\ w.state = "writing" /\ w.vectors = v
  BY <1>5
<1>9. Pends(head + body)
  <2>1. 0 + 0 <= head + body /\ (head + body) - (head + body) + 0 + 0 = 0
    OBVIOUS
  <2> QED
    BY <1>1, <1>4, <1>6, <1>8, <2>1 DEF Pends, Pending
<1>10. head + body \in 0..(head + body)
  OBVIOUS
<1> QED
  BY <1>7, <1>8, <1>9, <1>10 DEF WriterInv

StartsRight ==
  \A secure \in BOOLEAN, head \in Nat, body \in Nat, source \in Nat :
    w = StartWriting(secure, head, body, source) => WriterInv

(* ... for every response. *)
LEMMA Started == StartsRight
BY Starting DEF StartsRight

(* Through partial writes, blocked TLS calls and their retries, and the    *)
(* frames of a stream, what is pending is the end of the response.         *)
LEMMA Writes ==
  ASSUME WriterInv, WriteStep
  PROVE  WriterInv'
<1>1. w \in Writers
  BY DEF WriterInv
<1>2. PICK n \in 0..w.produced : Pends(n)
  BY DEF WriterInv
<1>3. /\ w.produced \in Nat /\ w.offset \in Nat /\ w.taken \in Nat /\ w.stalled \in Nat
      /\ w.source \in Nat /\ w.wire \in Seq(Nat) /\ w.scratch \in Seq(Nat)
      /\ w.secure \in BOOLEAN /\ w.state \in {"writing", "done", "failed"}
      /\ w.vectors \in Seq(Seq(Nat)) /\ n \in Nat /\ n <= w.produced
  BY <1>1, <1>2 DEF Writers
<1> DEFINE P == w.produced
           O == w.offset
           T == w.taken
           from == P - n + O
           size == n - O
<1>p. P \in Nat /\ O \in Nat /\ T \in Nat /\ n \in Nat /\ n <= P
  BY <1>3
<1>q. O + T <= n
  BY <1>2 DEF Pends
<1>r. /\ w.wire = Units(0, from + T)
      /\ w.stalled # 0 => w.stalled = size /\ w.scratch = Units(from, size)
      /\ w.stalled = 0 => w.taken = 0
  BY <1>2 DEF Pends
<1> HIDE DEF P, O, T
<1>s. /\ from \in Nat /\ size \in Nat /\ T <= size /\ from + size = P /\ O + size = n
      /\ P - n \in Nat /\ O \in 0..n /\ O <= n
  BY <1>p, <1>q
<1>4. /\ from \in Nat /\ size \in Nat /\ w.taken <= size
      /\ w.wire = Units(0, from + w.taken)
      /\ w.stalled # 0 => w.stalled = size /\ w.scratch = Units(from, size)
      /\ w.stalled = 0 => w.taken = 0
      /\ from + size = w.produced
  BY <1>r, <1>s DEF P, T
<1>5. Len(Pending) = n
  <2>1. w.produced - n \in Nat
    BY <1>3
  <2> QED
    BY <1>2, <1>3, <2>1, UnitsAre DEF Pends
<1>6. Batch = Units(from, size) /\ Len(Batch) = size
  <2>1. n \in 0..n
    BY <1>p
  <2>2. SubSeq(Units(P - n, n), O + 1, n) = Units(from, size)
    BY <1>p, <1>s, <2>1, UnitsCut
  <2>3. Batch = Units(from, size)
    BY <1>2, <1>5, <2>2 DEF Batch, Pends, P, O
  <2> QED
    BY <1>4, <2>3, UnitsAre
<1>7. ASSUME NEW k \in 0..size, NEW j \in 0..k
      PROVE  Units(0, from + j) \o SubSeq(Batch, j + 1, k) = Units(0, from + k)
  <2>1. SubSeq(Batch, j + 1, k) = Units(from + j, k - j)
    BY <1>4, <1>6, UnitsCut
  <2>2. from + j \in Nat /\ k - j \in Nat /\ 0 + (from + j) = from + j
        /\ (from + j) + (k - j) = from + k
    BY <1>4
  <2>3. Units(0, from + j) \o Units(0 + (from + j), k - j) = Units(0, (from + j) + (k - j))
    BY <2>2, UnitsJoin
  <2> QED
    BY <2>1, <2>2, <2>3
<1> HIDE DEF from, size
<1>u. \A a \in Nat, b \in Nat : Units(a, b) \in Seq(Nat)
  BY UnitsAre
<1>8. CASE WriteFails
  <2>1. /\ w' = [w EXCEPT !.state = "failed"]
    BY <1>8 DEF WriteFails
  <2>2. w' \in Writers
    BY <1>1, <2>1 DEF Writers
  <2>3. /\ w'.secure = w.secure /\ w'.vectors = w.vectors /\ w'.offset = w.offset
        /\ w'.stalled = w.stalled /\ w'.scratch = w.scratch /\ w'.taken = w.taken
        /\ w'.wire = w.wire /\ w'.produced = w.produced /\ w'.state = "failed"
    BY <1>1, <2>1 DEF Writers
  <2>4. Pends(n)'
    BY <1>2, <2>3 DEF Pends, Pending
  <2> QED
    BY <1>2, <2>2, <2>3, <2>4 DEF WriterInv
<1>9. CASE PlainWritev
  <2>1. PICK k \in 1..size :
          w' = [w EXCEPT !.offset = w.offset + k, !.wire = w.wire \o SubSeq(Batch, 1, k)]
    BY <1>6, <1>9 DEF PlainWritev
  <2>2. w.state = "writing" /\ ~w.secure /\ w.stalled = 0 /\ w.taken = 0
    BY <1>2, <1>4, <1>9 DEF PlainWritev, Writing, Pends
  <2>3. w.wire \o SubSeq(Batch, 1, k) = Units(0, from + k)
    <3>1. k \in 0..size /\ 0 \in 0..k /\ from + 0 = from /\ 0 + 1 = 1
      BY <1>4, <2>1
    <3>2. Units(0, from + 0) \o SubSeq(Batch, 0 + 1, k) = Units(0, from + k)
      BY <1>7, <3>1
    <3> QED
      BY <1>4, <2>2, <3>1, <3>2
  <2>4. /\ w'.secure = w.secure /\ w'.vectors = w.vectors /\ w'.offset = w.offset + k
        /\ w'.stalled = w.stalled /\ w'.scratch = w.scratch /\ w'.taken = w.taken
        /\ w'.wire = Units(0, from + k) /\ w'.produced = w.produced /\ w'.state = w.state
    BY <1>1, <2>1, <2>3 DEF Writers
  <2>5. k \in Nat /\ from + k \in Nat /\ w.offset + k \in Nat
        /\ w.produced - n + (w.offset + k) + 0 = from + k /\ (w.offset + k) + 0 <= n
    <3>1. k \in Nat /\ k <= size
      BY <1>s, <2>1
    <3>2. /\ from + k \in Nat /\ O + k \in Nat
          /\ P - n + (O + k) + 0 = from + k /\ (O + k) + 0 <= n
      BY <1>p, <1>s, <3>1 DEF from, size
    <3> QED
      BY <3>1, <3>2 DEF P, O
  <2>6. w' \in Writers
    <3>1. Units(0, from + k) \in Seq(Nat)
      BY <1>u, <2>5
    <3> QED
      BY <1>1, <2>1, <2>3, <2>5, <3>1 DEF Writers
  <2>7. Pends(n)'
    BY <1>2, <2>2, <2>4, <2>5 DEF Pends, Pending
  <2> QED
    BY <1>2, <2>4, <2>6, <2>7 DEF WriterInv

<1>10. CASE SslWritev
  <2>1. /\ w.state = "writing" /\ w.secure /\ w.offset < n
        /\ w.stalled = 0 \/ IsRetry
    BY <1>5, <1>10 DEF SslWritev, Writing
  <2>2. Scratch = Units(from, size) /\ Len(Scratch) = size /\ Scratch = Batch /\ size > 0
    <3>1. size > 0
      <4>1. O < n
        BY <2>1 DEF O
      <4> QED
        BY <1>p, <4>1 DEF size
    <3>2. CASE IsRetry
      BY <1>4, <1>6, <3>1, <3>2 DEF IsRetry, Scratch
    <3>3. CASE ~IsRetry
      BY <1>6, <3>1, <3>3 DEF Scratch
    <3> QED
      BY <3>2, <3>3
  <2>3. PICK k \in w.taken..size :
          w' = [RecordWriteOutcome(w, k < size, k) EXCEPT
                  !.scratch = Scratch,
                  !.wire = w.wire \o SubSeq(Scratch, w.taken + 1, k),
                  !.offset = IF k < size THEN w.offset ELSE w.offset + size]
    <3>2. PICK k \in w.taken..size :
            LET v == RecordWriteOutcome(w, k < size, k)
            IN  w' = [v EXCEPT !.scratch = Scratch,
                               !.wire = @ \o SubSeq(Scratch, w.taken + 1, k),
                               !.offset = IF k < size THEN @ ELSE @ + size]
      BY <1>10, <2>2, ZenonT(40) DEF SslWritev
    <3>3. /\ RecordWriteOutcome(w, k < size, k).wire = w.wire
          /\ RecordWriteOutcome(w, k < size, k).offset = w.offset
      BY <1>1 DEF RecordWriteOutcome, Writers
    <3> QED
      BY <3>2, <3>3
  <2>4. w.wire \o SubSeq(Scratch, w.taken + 1, k) = Units(0, from + k)
    <3>1. k \in 0..size /\ w.taken \in 0..k
      BY <1>3, <1>4, <2>3
    <3> QED
      BY <1>4, <1>7, <2>2, <3>1
  <2>5. RecordWriteOutcome(w, k < size, k) =
          [w EXCEPT !.stalled = IF k < size THEN size ELSE 0, !.taken = IF k < size THEN k ELSE 0]
    BY <1>6 DEF RecordWriteOutcome
  <2>6. /\ w'.secure = w.secure /\ w'.vectors = w.vectors
        /\ w'.offset = (IF k < size THEN w.offset ELSE w.offset + size)
        /\ w'.stalled = (IF k < size THEN size ELSE 0)
        /\ w'.scratch = Scratch /\ w'.taken = (IF k < size THEN k ELSE 0)
        /\ w'.wire = Units(0, from + k) /\ w'.produced = w.produced
        /\ w'.state = w.state /\ w'.source = w.source
    BY <1>1, <2>3, <2>4, <2>5 DEF Writers
  <2>7. /\ k \in Nat /\ from + k \in Nat /\ w.offset + size = n /\ k <= size
        /\ Scratch \in Seq(Nat)
    <3>1. k \in T..size
      BY <2>3 DEF T
    <3>2. k \in Nat /\ k <= size /\ from + k \in Nat
      BY <1>p, <1>s, <3>1
    <3> QED
      BY <1>s, <1>u, <2>2, <3>2 DEF O
  <2>8. w' \in Writers
    <3>1. /\ w'.offset \in Nat /\ w'.stalled \in Nat /\ w'.taken \in Nat
          /\ w'.wire \in Seq(Nat)
      <4>1. CASE k < size
        BY <1>3, <1>4, <1>u, <2>6, <2>7, <4>1
      <4>2. CASE ~(k < size)
        <5>1. w'.offset = n /\ w'.stalled = 0 /\ w'.taken = 0
          BY <2>6, <2>7, <4>2
        <5>2. w'.wire = Units(0, from + k) /\ 0 \in Nat
          BY <2>6
        <5>3. w'.wire \in Seq(Nat)
          BY <1>u, <2>7, <5>2
        <5> QED
          BY <1>3, <5>1, <5>3
      <4> QED
        BY <4>1, <4>2
    <3>2. w' = [secure |-> w'.secure, vectors |-> w'.vectors, offset |-> w'.offset,
                stalled |-> w'.stalled, scratch |-> w'.scratch, taken |-> w'.taken,
                wire |-> w'.wire, produced |-> w'.produced, source |-> w'.source,
                state |-> w'.state]
      BY <1>1, <2>3, <2>5 DEF Writers
    <3> QED
      BY <1>3, <2>6, <2>7, <3>1, <3>2 DEF Writers
  <2>9. Pends(n)'
    <3>1. CASE k < size
      <4>1. w'.offset = w.offset /\ w'.stalled = size /\ w'.taken = k
        BY <2>6, <3>1
      <4>2. /\ w.offset + k <= n /\ w.produced - n + w.offset + k = from + k
            /\ size = n - w.offset /\ from = w.produced - n + w.offset
        <5>1. O + k <= n /\ P - n + O + k = from + k /\ size = n - O /\ from = P - n + O
          BY <1>p, <1>s, <2>7 DEF from, size
        <5> QED
          BY <5>1 DEF O, P
      <4>3. Pending' = Units(w'.produced - n, n) /\ w'.state # "done" /\ w'.secure
        BY <1>2, <2>1, <2>6 DEF Pends, Pending
      <4>4. w'.stalled # 0 /\ w'.scratch = Units(from, size)
        BY <2>2, <2>6, <4>1
      <4> QED
        BY <2>6, <4>1, <4>2, <4>3, <4>4 DEF Pends
    <3>2. CASE k = size
      <4>1. w'.offset = n /\ w'.stalled = 0 /\ w'.taken = 0
        BY <1>4, <2>6, <2>7, <3>2
      <4>2. n + 0 <= n /\ w.produced - n + n + 0 = from + k
        BY <1>3, <1>4, <2>7, <3>2, SMTT(30)
      <4> QED
        BY <1>2, <2>1, <2>6, <4>1, <4>2 DEF Pends, Pending
    <3> QED
      BY <1>4, <2>7, <3>1, <3>2
  <2> QED
    BY <1>2, <2>6, <2>8, <2>9 DEF WriterInv
<1>11. CASE SslRefuses
  <2>1. w.stalled # 0 /\ w.stalled # size
    BY <1>6, <1>11 DEF SslRefuses, IsRetry
  <2> QED
    BY <1>4, <2>1
<1>12. ASSUME w.offset = n
       PROVE  w.taken = 0 /\ w.stalled = 0 /\ w.wire = Units(0, w.produced)
  <2>1. size = 0 /\ w.taken = 0 /\ from + 0 = w.produced
    <3>1. O = n
      BY <1>12 DEF O
    <3>2. size = 0 /\ T = 0 /\ from + 0 = P
      BY <1>p, <1>s, <3>1 DEF size, from
    <3> QED
      BY <3>2 DEF P, T
  <2> QED
    BY <1>4, <2>1
<1>13. CASE PullFrame
  <2>1. PICK k \in FrameSizes :
          w' = [w EXCEPT !.vectors = <<Units(w.produced, k)>>, !.offset = 0,
                         !.produced = w.produced + k, !.source = w.source - 1]
    BY <1>13 DEF PullFrame
  <2>2. w.state = "writing" /\ w.offset = n /\ w.source > 0
    BY <1>5, <1>13 DEF PullFrame
  <2>3. k \in Nat
    BY WriterAssumption
  <2>4. Units(w.produced, k) \in Seq(Nat)
    BY <1>3, <1>u, <2>3
  <2>5. /\ w'.secure = w.secure /\ w'.vectors = <<Units(w.produced, k)>> /\ w'.offset = 0
        /\ w'.stalled = w.stalled /\ w'.scratch = w.scratch /\ w'.taken = w.taken
        /\ w'.wire = w.wire /\ w'.produced = w.produced + k /\ w'.state = w.state
    BY <1>1, <2>1 DEF Writers
  <2>6. w' \in Writers
    <3>1. <<Units(w.produced, k)>> \in Seq(Seq(Nat))
      BY <2>4
    <3>2. w.produced + k \in Nat /\ w.source - 1 \in Nat
      BY <1>3, <2>2, <2>3
    <3> QED
      BY <1>1, <2>1, <3>1, <3>2 DEF Writers
  <2>7. Pending' = Units(w.produced, k)
    BY <2>4, <2>5, Flat DEF Pending
  <2>8. /\ (w.produced + k) - k = w.produced /\ w.produced + 0 + 0 = w.produced
        /\ 0 + 0 <= k /\ k \in 0..(w.produced + k)
    BY <1>3, <2>3
  <2>9. Pends(k)'
    BY <1>12, <2>2, <2>5, <2>7, <2>8 DEF Pends
  <2> QED
    BY <2>5, <2>6, <2>8, <2>9 DEF WriterInv
<1>14. CASE FinishWriting
  <2>1. /\ w' = [w EXCEPT !.state = "done", !.vectors = <<>>, !.offset = 0, !.source = 0]
        /\ w.offset = n
    BY <1>5, <1>14 DEF FinishWriting
  <2>2. /\ w'.secure = w.secure /\ w'.vectors = <<>> /\ w'.offset = 0
        /\ w'.stalled = w.stalled /\ w'.scratch = w.scratch /\ w'.taken = w.taken
        /\ w'.wire = w.wire /\ w'.produced = w.produced /\ w'.state = "done"
    BY <1>1, <2>1 DEF Writers
  <2>3. <<>> \in Seq(Seq(Nat)) /\ <<>> \in Seq(Nat)
    BY EmptySeq
  <2>4. w' \in Writers
    BY <1>1, <2>1, <2>3 DEF Writers
  <2>5. Pending' = <<>>
    BY <2>2, <2>3, Flat DEF Pending
  <2>6. Units(w.produced, 0) = <<>>
    <3>1. Units(w.produced, 0) \in Seq(Nat) /\ Len(Units(w.produced, 0)) = 0
      BY <1>3, UnitsAre
    <3> QED
      BY <3>1, EmptySeq
  <2>7. w.produced - 0 = w.produced /\ w.produced + 0 + 0 = w.produced /\ 0 \in 0..w.produced
    BY <1>3
  <2>8. Pends(0)'
    BY <1>12, <2>1, <2>2, <2>5, <2>6, <2>7 DEF Pends
  <2> QED
    BY <2>2, <2>4, <2>7, <2>8 DEF WriterInv
<1> QED
  BY <1>8, <1>9, <1>10, <1>11, <1>13, <1>14 DEF WriteStep

(* The steps before the writer leave it alone, and hand it a response. *)
LEMMA WriterKept ==
  ASSUME WriterInv, [Next]_vars
  PROVE  WriterInv'
<1>1. CASE UNCHANGED w
  <2>1. Pending' = Pending
    BY <1>1 DEF Pending
  <2>2. \A n : Pends(n)' <=> Pends(n)
    BY <1>1, <2>1 DEF Pends
  <2> QED
    BY <1>1, <2>2 DEF WriterInv
<1>2. CASE Serialize
  <2>1. PICK secure \in BOOLEAN, body \in {0, BodyUnits}, source \in {0, MaxFrames} :
          w' = StartWriting(secure, HeadUnits, body, source)
    BY <1>2 DEF Serialize
  <2>2. HeadUnits \in Nat /\ body \in Nat /\ source \in Nat
    BY PathAssumption, WriterAssumption
  <2>3. StartsRight'
    BY Started, PTL
  <2> QED
    BY <2>1, <2>2, <2>3 DEF StartsRight
<1>3. CASE Write
  BY <1>3, Writes DEF Write
<1>4. CASE Next /\ ~Serialize /\ ~Write
  <2>1. UNCHANGED w
    BY <1>4, Zenon DEF Next, Receive, Adopt, RejectRequest, RequestTimeout, SerializeError, CloseEarly,
      RegisterRoute, RegisterMount, RegisterMiddleware, RegisterFallback, Register,
      StartDispatch, MiddlewarePasses, CallHandler, SetField, SelectAnswer, HandlerAnswers,
      AssetAnswers, RouterRefuses, Returned, Dispatched, StartWrite, Finished, vars
  <2> QED
    BY <1>1, <2>1
<1>5. CASE UNCHANGED vars
  BY <1>1, <1>5 DEF vars
<1> QED
  BY <1>2, <1>3, <1>4, <1>5

(* The peer receives the units of the response in their order, each once,  *)
(* and all of them when the connection calls the response written: for     *)
(* every size of head, body and frame, however the socket cuts the writes, *)
(* and although a retry of a blocked TLS call is recognised by its length. *)
THEOREM PeerReceivesResponse == Spec => []WireIsResponse
<1>1. Init => WriterInv
  <2> SUFFICES ASSUME Init
               PROVE  WriterInv
    OBVIOUS
  <2>1. w = StartWriting(FALSE, 0, 0, 0)
    BY DEF Init, Idle
  <2> QED
    BY <2>1, Starting
<1>2. WriterInv /\ [Next]_vars => WriterInv'
  BY WriterKept
<1>3. WriterInv => WireIsResponse
  <2> SUFFICES ASSUME WriterInv
               PROVE  WireIsResponse
    OBVIOUS
  <2>1. PICK n \in 0..w.produced : Pends(n)
    BY DEF WriterInv
  <2> DEFINE P == w.produced
             O == w.offset
             T == w.taken
             L == P - n + O + T
  <2>2. /\ P \in Nat /\ O \in Nat /\ T \in Nat /\ n \in 0..P
    BY <2>1 DEF WriterInv, Writers
  <2>3. O + T <= n /\ w.wire = Units(0, L) /\ (w.state = "done" => n = 0)
    BY <2>1 DEF Pends
  <2> HIDE DEF P, O, T
  <2>4. L \in Nat /\ L <= P /\ (w.state = "done" => L = P)
    BY <2>2, <2>3
  <2> HIDE DEF L
  <2>5. Len(w.wire) = L
    BY <2>3, <2>4, UnitsAre
  <2> QED
    BY <2>3, <2>4, <2>5 DEF WireIsResponse, P
<1> QED
  BY <1>1, <1>2, <1>3, PTL DEF Spec

-----------------------------------------------------------------------------
(* The parser: checks *)

(* A list of checks passes only if each of them does; a first check that   *)
(* fails decides.                                                          *)
LEMMA FirstFound ==
  ASSUME NEW q, DOMAIN q \subseteq Nat
  PROVE  /\ FirstOf(q) = "none" => \A i \in DOMAIN q : q[i] = "none"
         /\ \A i \in DOMAIN q :
              q[i] # "none" /\ (\A j \in DOMAIN q : j < i => q[j] = "none")
                => FirstOf(q) = q[i]
<1> DEFINE found == {i \in DOMAIN q : q[i] # "none"}
           m == CHOOSE x \in found : \A y \in found : x <= y
<1>1. FirstOf(q) = IF found = {} THEN "none" ELSE q[m]
  BY DEF FirstOf, Min
<1>2. found \in SUBSET Nat
  OBVIOUS
<1>3. found # {} => m \in found /\ \A y \in found : m <= y
  <2>1. found # {} => \E x \in found : \A y \in found : x <= y
    BY <1>2, Least
  <2> QED
    BY <2>1, Zenon
<1> HIDE DEF m
<1>4. FirstOf(q) = "none" => \A i \in DOMAIN q : q[i] = "none"
  BY <1>1, <1>3
<1>5. ASSUME NEW i \in DOMAIN q, q[i] # "none",
             \A j \in DOMAIN q : j < i => q[j] = "none"
      PROVE  FirstOf(q) = q[i]
  <2>1. i \in found /\ m \in found /\ m <= i /\ i \in Nat /\ m \in Nat
    BY <1>2, <1>3, <1>5
  <2>2. m = i
    BY <1>5, <2>1
  <2> QED
    BY <1>1, <2>1, <2>2
<1> QED
  BY <1>4, <1>5

(* The checks of what has arrived, one after the other. *)
LEMMA FirstOfFour ==
  ASSUME NEW a, NEW b, NEW c, NEW d
  PROVE  FirstOf(<<a, b, c, d>>) =
           IF a # "none" THEN a ELSE IF b # "none" THEN b
           ELSE IF c # "none" THEN c ELSE d
<1> DEFINE q == <<a, b, c, d>>
<1>1. /\ DOMAIN q = {1, 2, 3, 4}
      /\ q[1] = a /\ q[2] = b /\ q[3] = c /\ q[4] = d
  OBVIOUS
<1> HIDE DEF q
<1>2. DOMAIN q \subseteq Nat
  BY <1>1
<1>3. CASE a # "none"
  <2>1. \A j \in DOMAIN q : j < 1 => q[j] = "none"
    BY <1>1
  <2> QED
    BY <1>1, <1>2, <1>3, <2>1, FirstFound DEF q
<1>4. CASE a = "none" /\ b # "none"
  <2>1. \A j \in DOMAIN q : j < 2 => q[j] = "none"
    BY <1>1, <1>4
  <2> QED
    BY <1>1, <1>2, <1>4, <2>1, FirstFound DEF q
<1>5. CASE a = "none" /\ b = "none" /\ c # "none"
  <2>1. \A j \in DOMAIN q : j < 3 => q[j] = "none"
    BY <1>1, <1>5
  <2> QED
    BY <1>1, <1>2, <1>5, <2>1, FirstFound DEF q
<1>6. CASE a = "none" /\ b = "none" /\ c = "none"
  <2>1. \A j \in DOMAIN q : j < 4 => q[j] = "none"
    BY <1>1, <1>6
  <2>2. CASE d # "none"
    BY <1>1, <1>2, <1>6, <2>1, <2>2, FirstFound DEF q
  <2>3. CASE d = "none"
    <3>1. {i \in DOMAIN q : q[i] # "none"} = {}
      BY <1>1, <1>6, <2>3
    <3>2. FirstOf(q) = "none"
      BY <3>1 DEF FirstOf
    <3> QED
      BY <1>6, <2>3, <3>2 DEF q
  <2> QED
    BY <2>2, <2>3
<1> QED
  BY <1>3, <1>4, <1>5, <1>6

(* The header block is longer than the request line and its end. *)
LEMMA BlockEnds ==
  ASSUME NEW m, IsMessage(m)
  PROVE  Terminator(m) \in Nat /\ Terminator(m) >= m.line.bytes
<1> DEFINE N == Len(m.fields)
           L == m.line.bytes
           size == [n \in 1..N |-> m.fields[n].bytes + 2]
           step == [n \in 1..N |-> [x \in Nat |-> x + size[n]]]
           Sums(g) == g = [n \in 0..N |->
                             IF n = 0 THEN L ELSE g[n - 1] + m.fields[n].bytes + 2]
           b == CHOOSE g : Sums(g)
<1>1. /\ N \in Nat /\ L \in Nat /\ DOMAIN m.fields = 1..N
      /\ \A n \in 1..N : m.fields[n].bytes \in Nat
  BY LenProperties DEF IsMessage
<1>2. Terminator(m) = b[N]
  BY DEF Terminator
<1> HIDE DEF N, L
<1>3. size \in [1..N -> Nat] /\ \A n \in 1..N : size[n] = m.fields[n].bytes + 2
  BY <1>1
<1> HIDE DEF size
<1>4. /\ step \in [1..N -> [Nat -> Nat]]
      /\ \A n \in 1..N, x \in Nat : step[n][x] = x + size[n]
  BY <1>3
<1> HIDE DEF step
<1>5. PICK f \in [0..N -> Nat] :
        f[0] = L /\ \A n \in 1..N : f[n] = step[n][f[n - 1]]
  <2>1. step \in Steps(Nat, N)
    BY <1>4 DEF Steps
  <2>2. \E f : Iterates(f, Nat, L, N, step)
    BY <1>1, <2>1, Iterate
  <2> QED
    BY <2>2 DEF Iterates
<1>6. \A n \in 1..N : f[n] = f[n - 1] + m.fields[n].bytes + 2
  <2> SUFFICES ASSUME NEW n \in 1..N
               PROVE  f[n] = f[n - 1] + m.fields[n].bytes + 2
    OBVIOUS
  <2>1. f[n - 1] \in Nat /\ m.fields[n].bytes \in Nat
    BY <1>1, <1>5
  <2>2. f[n] = f[n - 1] + size[n]
    BY <1>4, <1>5, <2>1
  <2>3. size[n] = m.fields[n].bytes + 2
    BY <1>3
  <2> QED
    BY <2>1, <2>2, <2>3
<1>7. Sums(f)
  <2> DEFINE g == [n \in 0..N |->
                     IF n = 0 THEN L ELSE f[n - 1] + m.fields[n].bytes + 2]
  <2>1. ASSUME NEW n \in 0..N
        PROVE  f[n] = IF n = 0 THEN L ELSE f[n - 1] + m.fields[n].bytes + 2
    <3>1. n = 0 \/ n \in 1..N
      BY <1>1
    <3> QED
      BY <1>5, <1>6, <3>1
  <2>2. \A n \in 0..N : f[n] = g[n]
    BY <2>1
  <2>3. f = [n \in 0..N |-> f[n]] /\ g = [n \in 0..N |-> g[n]]
    BY <1>5
  <2>4. f = g
    <3> HIDE DEF g
    <3> QED
      BY <2>2, <2>3
  <2> QED
    BY <2>4
<1>8. Sums(b)
  <2> HIDE DEF Sums
  <2> QED
    BY <1>7, Zenon
<1> HIDE DEF b
<1>9. b[0] = L /\ \A n \in 1..N : b[n] = b[n - 1] + m.fields[n].bytes + 2
  BY <1>1, <1>8
<1> HIDE DEF Sums
<1> DEFINE S == {n \in 0..N : b[n] \in Nat /\ b[n] >= L}
<1>10. 0 \in S
  BY <1>1, <1>9
<1>11. \A n \in 0..(N - 1) : n \in S => n + 1 \in S
  <2> SUFFICES ASSUME NEW n \in 0..(N - 1), b[n] \in Nat, b[n] >= L
               PROVE  n + 1 \in S
    OBVIOUS
  <2>1. n + 1 \in 1..N /\ n + 1 \in 0..N /\ (n + 1) - 1 = n
    BY <1>1
  <2>2. b[n + 1] = b[n] + m.fields[n + 1].bytes + 2 /\ m.fields[n + 1].bytes \in Nat
    BY <1>1, <1>9, <2>1
  <2> QED
    BY <1>1, <2>1, <2>2, SMTT(30)
<1> HIDE DEF S
<1>12. \A n \in 0..N : n \in S
  BY <1>1, <1>10, <1>11, UpTo
<1> QED
  BY <1>1, <1>2, <1>12 DEF S, L

(* The numbers of a message: where its parts end, and how much of the header *)
(* block the first n bytes show.                                             *)
LEMMA Layout ==
  ASSUME NEW m, IsMessage(m)
  PROVE  /\ Prologue(m) \in 0..2 /\ m.line.bytes \in Nat
         /\ HeaderBlock(m) \in Nat /\ HeaderBlock(m) >= m.line.bytes + 4
         /\ BodyOffset(m) = Prologue(m) + HeaderBlock(m)
         /\ BodyOffset(m) \in Nat /\ Size(m) \in Nat
         /\ Size(m) >= BodyOffset(m) + 1
         /\ \A n \in Nat : /\ RequestBytes(m, n) \in Nat
                           /\ TerminatorSeen(m, n) <=> n >= BodyOffset(m)
                           /\ TerminatorSeen(m, n) => LineEndSeen(m, n)
<1> DEFINE T == Terminator(m)
           P == Prologue(m)
           L == m.line.bytes
<1>1. T \in Nat /\ T >= L
  BY BlockEnds
<1>2. P \in {0, 2} /\ L \in Nat /\ m.body \in Nat
  BY DEF Prologue, IsMessage
<1> HIDE DEF T, P, L
<1>3. HeaderBlock(m) = T + 4
  BY DEF HeaderBlock, T
<1>4. BodyOffset(m) = P + (T + 4)
  BY <1>3 DEF BodyOffset, P
<1>5. Size(m) = P + (T + 4) + m.body + 1
  BY <1>4 DEF Size
<1>6. ASSUME NEW n \in Nat
      PROVE  /\ RequestBytes(m, n) \in Nat
             /\ TerminatorSeen(m, n) <=> n >= BodyOffset(m)
             /\ TerminatorSeen(m, n) => LineEndSeen(m, n)
  <2> DEFINE R == RequestBytes(m, n)
  <2>1. R = IF n >= 2 THEN n - P ELSE n
    BY DEF RequestBytes, P
  <2>2. /\ TerminatorSeen(m, n) <=> R >= T + 4
        /\ LineEndSeen(m, n) <=> R >= L + 2
    BY <1>3 DEF TerminatorSeen, LineEndSeen, L
  <2> HIDE DEF R
  <2> QED
    BY <1>1, <1>2, <1>4, <2>1, <2>2 DEF R
<1> QED
  BY <1>1, <1>2, <1>3, <1>4, <1>5, <1>6 DEF P, L

(* What the checks of the arrived bytes say. *)
LEMMA Arrival ==
  ASSUME NEW m, NEW n
  PROVE  ArrivalError(m, n) =
           IF LineBytes(m, n) > MaxLine THEN "TargetTooLong"
           ELSE IF ~TerminatorSeen(m, n) /\ RequestBytes(m, n) > MaxBlock
           THEN "TooManyHeaders"
           ELSE IF ~TerminatorSeen(m, n) THEN "NeedsMoreData"
           ELSE IF HeaderBlock(m) > MaxBlock THEN "TooManyHeaders"
           ELSE "none"
<1> DEFINE a == Check(LineBytes(m, n) > MaxLine, "TargetTooLong")
           b == Check(~TerminatorSeen(m, n) /\ RequestBytes(m, n) > MaxBlock,
                      "TooManyHeaders")
           c == Check(~TerminatorSeen(m, n), "NeedsMoreData")
           d == Check(HeaderBlock(m) > MaxBlock, "TooManyHeaders")
<1>1. ArrivalError(m, n) = FirstOf(<<a, b, c, d>>)
  BY DEF ArrivalError
<1>2. /\ a = IF LineBytes(m, n) > MaxLine THEN "TargetTooLong" ELSE "none"
      /\ b = IF ~TerminatorSeen(m, n) /\ RequestBytes(m, n) > MaxBlock
             THEN "TooManyHeaders" ELSE "none"
      /\ c = IF ~TerminatorSeen(m, n) THEN "NeedsMoreData" ELSE "none"
      /\ d = IF HeaderBlock(m) > MaxBlock THEN "TooManyHeaders" ELSE "none"
  BY DEF Check
<1> HIDE DEF a, b, c, d
<1> QED
  BY <1>1, <1>2, FirstOfFour

(* Once the header block is there, what arrives later changes no check of   *)
(* the head; until then the arrival checks alone decide; and what they      *)
(* refuse early they refuse of the whole, but for the one cut behind a CR.  *)
LEMMA Cuts ==
  ASSUME NEW m, IsMessage(m), NEW n \in 0..Size(m)
  PROVE  /\ \A k \in 0..Size(m) : TerminatorSeen(m, n) /\ n <= k
              => TerminatorSeen(m, k) /\ ArrivalError(m, k) = ArrivalError(m, n)
         /\ ~TerminatorSeen(m, n) => ArrivalError(m, n) # "none"
         /\ TerminatorSeen(m, n) => ArrivalError(m, n) # "NeedsMoreData"
         /\ ArrivalError(m, n) \notin {"none", "NeedsMoreData"}
              /\ ~CutMatters(m, n)
              => ArrivalError(m, Size(m)) = ArrivalError(m, n)
         /\ n = 0 => ArrivalError(m, n) = "NeedsMoreData"
<1> DEFINE S == Size(m)
           H == HeaderBlock(m)
           R(k) == RequestBytes(m, k)
           L == m.line.bytes
<1>1. /\ S \in Nat /\ H \in Nat /\ L \in Nat /\ H >= L + 4 /\ n \in Nat
      /\ BodyOffset(m) \in Nat /\ n <= S /\ TerminatorSeen(m, S)
  BY Layout
<1>2. \A k \in Nat : /\ R(k) \in Nat
                     /\ TerminatorSeen(m, k) <=> R(k) >= H
                     /\ LineEndSeen(m, k) <=> R(k) >= L + 2
                     /\ TerminatorSeen(m, k) => LineEndSeen(m, k)
  BY Layout DEF TerminatorSeen, LineEndSeen
<1>3. MaxLine \in Nat /\ MaxBlock \in Nat
  BY ParserAssumption
<1>4. \A k \in Nat :
        LineBytes(m, k) = IF LineEndSeen(m, k) THEN L ELSE R(k)
  BY DEF LineBytes
<1>5. CutMatters(m, n) <=>
        \/ L = MaxLine /\ R(n) = MaxLine + 1
        \/ L > MaxLine /\ R(n) \in (MaxBlock + 1)..MaxLine
  BY DEF CutMatters, CutBehindCR, CutInLongLine
<1>6. \A k \in Nat :
        TerminatorSeen(m, k) =>
          ArrivalError(m, k) = IF L > MaxLine THEN "TargetTooLong"
                               ELSE IF H > MaxBlock THEN "TooManyHeaders"
                               ELSE "none"
  BY <1>2, <1>4, Arrival
<1>7. ASSUME NEW k \in 0..Size(m), TerminatorSeen(m, n), n <= k
      PROVE  TerminatorSeen(m, k) /\ ArrivalError(m, k) = ArrivalError(m, n)
  <2>1. k \in Nat
    BY <1>1
  <2>2. TerminatorSeen(m, k)
    BY <1>1, <1>7, <2>1, Layout
  <2> QED
    BY <1>1, <1>6, <1>7, <2>1, <2>2
<1>8. ~TerminatorSeen(m, n) =>
        ArrivalError(m, n) = IF LineBytes(m, n) > MaxLine THEN "TargetTooLong"
                             ELSE IF R(n) > MaxBlock THEN "TooManyHeaders"
                             ELSE "NeedsMoreData"
  BY Arrival
<1>9. ASSUME ArrivalError(m, n) \notin {"none", "NeedsMoreData"},
             ~CutMatters(m, n)
      PROVE  ArrivalError(m, S) = ArrivalError(m, n)
  <2>1. CASE TerminatorSeen(m, n)
    BY <1>1, <1>7, <2>1
  <2>2. CASE ~TerminatorSeen(m, n)
    <3>1. CASE LineBytes(m, n) > MaxLine
      <4>1. L > MaxLine
        BY <1>1, <1>2, <1>3, <1>4, <1>5, <1>9, <3>1
      <4> QED
        BY <1>1, <1>6, <1>8, <2>2, <3>1, <4>1
    <3>2. CASE ~(LineBytes(m, n) > MaxLine)
      <4>1. R(n) > MaxBlock
        BY <1>8, <1>9, <2>2, <3>2
      <4>2. H > MaxBlock /\ ~(L > MaxLine)
        BY <1>1, <1>2, <1>3, <1>4, <1>5, <1>9, <2>2, <3>2, <4>1
      <4> QED
        BY <1>1, <1>6, <1>8, <2>2, <3>2, <4>1, <4>2
    <3> QED
      BY <3>1, <3>2
  <2> QED
    BY <2>1, <2>2
<1>10. n = 0 => ArrivalError(m, n) = "NeedsMoreData"
  <2> SUFFICES ASSUME n = 0 PROVE ArrivalError(m, n) = "NeedsMoreData"
    OBVIOUS
  <2>1. R(n) = 0
    BY DEF RequestBytes
  <2>2. ~TerminatorSeen(m, n) /\ LineBytes(m, n) = 0
    BY <1>1, <1>2, <1>4, <2>1
  <2> QED
    BY <1>3, <1>8, <2>1, <2>2
<1> QED
  BY <1>1, <1>6, <1>7, <1>8, <1>9, <1>10

(* The arrival checks come first, and they are the only ones that look at   *)
(* how much has arrived.                                                    *)
LEMMA HeadChecked ==
  ASSUME NEW m, NEW n, NEW k
  PROVE  /\ ArrivalError(m, n) # "none" => HeadError(m, n) = ArrivalError(m, n)
         /\ HeadError(m, n) = "none" => /\ ArrivalError(m, n) = "none"
                                        /\ LengthError(m.fields) = "none"
         /\ ArrivalError(m, n) = ArrivalError(m, k)
              => HeadError(m, n) = HeadError(m, k)
<1> DEFINE a == ArrivalError(m, n)
           b == RequestLineError(m.line)
           c == FieldError(m.fields)
           d == LengthError(m.fields)
           e == Check(m.line.target.form = "bad", "MalformedRequestLine")
           f == AuthorityError(m)
           g == Check(~IsCanonical(Path(m.line.target)), "MalformedRequestLine")
           h == QueryError(m.line.target.query)
           q == <<a, b, c, d, e, f, g, h>>
<1>1. HeadError(m, n) = FirstOf(q)
  BY DEF HeadError
<1>2. HeadError(m, k) = FirstOf(<<ArrivalError(m, k), b, c, d, e, f, g, h>>)
  BY DEF HeadError
<1> HIDE DEF a, b, c, d, e, f, g, h
<1>3. q[1] = a /\ q[4] = d /\ DOMAIN q = 1..8
  OBVIOUS
<1> HIDE DEF q
<1>4. /\ DOMAIN q \subseteq Nat /\ 1 \in DOMAIN q /\ 4 \in DOMAIN q
      /\ \A j \in DOMAIN q : j < 1 => q[j] = "none"
  BY <1>3
<1>5. a # "none" => FirstOf(q) = a
  BY <1>3, <1>4, FirstFound
<1>6. FirstOf(q) = "none" => a = "none" /\ d = "none"
  BY <1>3, <1>4, FirstFound
<1>7. a = ArrivalError(m, k) => HeadError(m, n) = HeadError(m, k)
  BY <1>1, <1>2 DEF q
<1> QED
  BY <1>1, <1>5, <1>6, <1>7 DEF a, d

(* The first field of a name is one of that name. *)
LEMMA FirstIsAt ==
  ASSUME NEW q, DOMAIN q \subseteq Nat, NEW name, At(q, name) # {}
  PROVE  Min(At(q, name)) \in At(q, name)
<1> DEFINE S == At(q, name)
<1>1. S \in SUBSET Nat
  BY DEF At
<1> HIDE DEF S
<1>2. \E x \in S : \A y \in S : x <= y
  BY <1>1, Least DEF S
<1>3. Min(S) \in S
  BY <1>2, Zenon DEF Min
<1> QED
  BY <1>3 DEF S

(* Where the lengths pass, every Content-Length names the length used and   *)
(* no field names a transfer coding.                                        *)
LEMMA Lengths ==
  ASSUME NEW m, IsMessage(m), LengthError(m.fields) = "none"
  PROVE  /\ ContentLength(m.fields) \in Int
         /\ \A i \in DOMAIN m.fields :
              /\ m.fields[i].name # "transfer-encoding"
              /\ m.fields[i].name = "content-length"
                   => m.fields[i].value = ContentLength(m.fields)
<1> DEFINE q == m.fields
           lengths == At(q, "content-length")
           first == FirstValue(q, "content-length")
           large(i) == Check(i \in lengths /\ q[i].value > MaxWord, "BodyTooLarge")
           bad(i) == Check(i \in lengths /\ (q[i].value = NotANumber
                                               \/ q[i].value # first),
                           "MalformedHeader")
           each == [i \in DOMAIN q |-> FirstOf(<<large(i), bad(i)>>)]
           coded == Check(At(q, "transfer-encoding") # {},
                          "UnsupportedTransferEncoding")
           big == Check(lengths # {} /\ first > MaxBody, "BodyTooLarge")
           all == <<FirstOf(each), coded, big>>
<1>1. /\ DOMAIN q \subseteq Nat
      /\ \A i \in DOMAIN q : q[i].name = "content-length" => q[i].value \in Int
  BY LenProperties DEF IsMessage
<1>2. FirstOf(all) = "none"
  BY DEF LengthError
<1>3. FirstOf(each) = "none" /\ coded = "none"
  <2> HIDE DEF each, coded, big
  <2>1. DOMAIN all \subseteq Nat /\ 1 \in DOMAIN all /\ 2 \in DOMAIN all
        /\ all[1] = FirstOf(each) /\ all[2] = coded
    OBVIOUS
  <2> HIDE DEF all
  <2> QED
    BY <1>2, <2>1, FirstFound
<1>4. \A i \in DOMAIN q : FirstOf(<<large(i), bad(i)>>) = "none"
  <2>1. DOMAIN each = DOMAIN q
        /\ \A i \in DOMAIN q : each[i] = FirstOf(<<large(i), bad(i)>>)
    OBVIOUS
  <2> HIDE DEF each, large, bad
  <2> QED
    BY <1>1, <1>3, <2>1, FirstFound
<1>5. \A i \in lengths : q[i].value = first
  <2> SUFFICES ASSUME NEW i \in lengths, q[i].value # first
               PROVE  FALSE
    OBVIOUS
  <2> DEFINE pair == <<large(i), bad(i)>>
  <2>1. i \in DOMAIN q
    BY DEF At
  <2>2. bad(i) = "MalformedHeader"
    BY DEF Check
  <2> HIDE DEF large, bad
  <2>3. DOMAIN pair \subseteq Nat /\ 2 \in DOMAIN pair /\ pair[2] = bad(i)
    OBVIOUS
  <2>4. FirstOf(pair) = "none"
    BY <1>4, <2>1
  <2> HIDE DEF pair
  <2> QED
    BY <2>2, <2>3, <2>4, FirstFound
<1>6. At(q, "transfer-encoding") = {}
  BY <1>3 DEF Check
<1>7. lengths # {} => first \in Int
  <2> SUFFICES ASSUME lengths # {} PROVE first \in Int
    OBVIOUS
  <2>1. Min(lengths) \in lengths
    BY <1>1, FirstIsAt
  <2> DEFINE i == Min(lengths)
  <2>2. first = q[i].value
    BY DEF FirstValue
  <2> HIDE DEF i, first
  <2>3. i \in lengths
    BY <2>1 DEF i
  <2>4. i \in DOMAIN q /\ q[i].name = "content-length"
    BY <2>3 DEF At
  <2> QED
    BY <1>1, <2>2, <2>4
<1>8. ContentLength(q) = IF lengths = {} THEN 0 ELSE first
  BY DEF ContentLength
<1>9. \A i \in DOMAIN q : /\ q[i].name # "transfer-encoding"
                          /\ q[i].name = "content-length" => i \in lengths
  BY <1>6 DEF At
<1> HIDE DEF first, lengths
<1> QED
  BY <1>5, <1>7, <1>8, <1>9

(* The outcome of a parse that has the whole request of the head q. *)
Accepted(q, base) ==
  [kind |-> "request", error |-> "none", parser |-> FreshParser,
   request |-> [q.request EXCEPT !.views = @ @@ [v \in {<<"body", 0>>} |-> base]],
   consumed |-> q.bodyOffset + q.bodyBytes]

(* The outcome of a parse that starts afresh, case by case. *)
LEMMA FreshOutcome ==
  ASSUME NEW m, NEW n, NEW base
  PROVE  LET e == HeadError(m, n)
             q == ParseHead(m, base)
             out == Parse(FreshParser, m, n, base)
         IN  /\ e = "NeedsMoreData" => out = Outcome("more", FreshParser, e)
             /\ e \notin {"NeedsMoreData", "none"}
                  => out = Outcome("error", FreshParser, e)
             /\ e = "none" /\ n - q.bodyOffset < q.bodyBytes
                  => out = Outcome("more", q, "NeedsMoreData")
             /\ e = "none" /\ ~(n - q.bodyOffset < q.bodyBytes)
                  => out = Accepted(q, base)
<1> DEFINE e == HeadError(m, n)
           q == ParseHead(m, base)
<1>1. ~FreshParser.head
  BY DEF FreshParser
<1> HIDE DEF e, q
<1>2. Parse(FreshParser, m, n, base) =
        CASE e = "NeedsMoreData" -> Outcome("more", FreshParser, e)
          [] e \notin {"NeedsMoreData", "none"} -> Outcome("error", FreshParser, e)
          [] e = "none" /\ n - q.bodyOffset < q.bodyBytes ->
               Outcome("more", q, "NeedsMoreData")
          [] OTHER -> Accepted(q, base)
  BY <1>1 DEF Parse, Accepted, e, q
<1>3. /\ e = "NeedsMoreData"
           => Parse(FreshParser, m, n, base) = Outcome("more", FreshParser, e)
      /\ e \notin {"NeedsMoreData", "none"}
           => Parse(FreshParser, m, n, base) = Outcome("error", FreshParser, e)
      /\ e = "none" /\ n - q.bodyOffset < q.bodyBytes
           => Parse(FreshParser, m, n, base) = Outcome("more", q, "NeedsMoreData")
      /\ e = "none" /\ ~(n - q.bodyOffset < q.bodyBytes)
           => Parse(FreshParser, m, n, base) = Accepted(q, base)
  BY <1>2
<1> QED
  BY <1>3 DEF e, q

-----------------------------------------------------------------------------
(* The parser: cut and moved *)

(* Taking the views of a parsed head to another buffer gives the head parsed *)
(* there: every view it holds is one into the buffer.                        *)
LEMMA Rebased ==
  ASSUME NEW m, NEW old, NEW base
  PROVE  Rebase(ParseHead(m, old), base) = ParseHead(m, base)
<1> DEFINE r == RequestOf(m, old)
           s == RequestOf(m, base)
           moved == [v \in Views(m) |-> base]
           B == BodyOffset(m)
           C == ContentLength(m.fields)
<1>1. /\ s = [r EXCEPT !.views = moved]
      /\ r.views = [v \in Views(m) |-> old] /\ s.views = moved
  <2> DEFINE path == Path(m.line.target)
             named == Authority(m)
             count == Len(Parameters(m.line.target.query))
             stays == ResolveKeepAlive(m)
             gzip == ResolveWantsGzip(m)
             codings == At(m.fields, "accept-encoding") # {}
             tags == IF At(m.fields, "if-none-match") = {} THEN <<>>
                     ELSE FirstValue(m.fields, "if-none-match")
             there == [v \in Views(m) |-> old]
             Made(views) ==
               [method |-> m.line.method, path |-> path, authority |-> named,
                parameters |-> count, keepAlive |-> stays, wantsGzip |-> gzip,
                namesCodings |-> codings, condition |-> tags, views |-> views]
  <2>1. r = Made(there) /\ s = Made(moved)
    BY DEF RequestOf
  <2> HIDE DEF r, s, path, named, count, stays, gzip, codings, tags, there, moved
  <2>2. s = [r EXCEPT !.views = moved] /\ r.views = there /\ s.views = moved
    BY <2>1
  <2> QED
    BY <2>2 DEF there
<1> HIDE DEF r, s
<1>2. /\ DOMAIN r.views = Views(m) /\ DOMAIN s.views = Views(m)
      /\ \A v \in Views(m) : r.views[v] = old /\ s.views[v] = base
  BY <1>1
<1>3. Borrowed(r, old) = Views(m) /\ Borrowed(s, base) = Views(m)
  BY <1>2 DEF Borrowed
<1> DEFINE V == Views(m)
           p == [head |-> TRUE, request |-> r, borrowed |-> V, base |-> old,
                 bodyOffset |-> B, bodyBytes |-> C]
           q == [head |-> TRUE, request |-> s, borrowed |-> V, base |-> base,
                 bodyOffset |-> B, bodyBytes |-> C]
<1>4. ParseHead(m, old) = p /\ ParseHead(m, base) = q
  BY <1>3 DEF ParseHead, r, s
<1>5. [v \in DOMAIN r.views |-> IF v \in V THEN base ELSE r.views[v]] = moved
  BY <1>2
<1>6. Rebase(p, base) = [p EXCEPT !.base = base,
                                  !.request = [r EXCEPT !.views = moved]]
  <2>1. p.request = r /\ p.borrowed = V
    OBVIOUS
  <2> HIDE DEF p, V, moved
  <2> QED
    BY <1>5, <2>1 DEF Rebase
<1>7. [p EXCEPT !.base = base, !.request = [r EXCEPT !.views = moved]] = q
  <2>1. [r EXCEPT !.views = moved] = s
    BY <1>1
  <2> HIDE DEF moved, V, B, C
  <2> DEFINE t == [p EXCEPT !.base = base, !.request = s]
             names == {"head", "request", "borrowed", "base", "bodyOffset",
                       "bodyBytes"}
  <2>2. /\ DOMAIN p = names /\ DOMAIN q = names
        /\ q = [x \in names |-> q[x]]
        /\ p.head = q.head /\ p.borrowed = q.borrowed
        /\ p.bodyOffset = q.bodyOffset /\ p.bodyBytes = q.bodyBytes
        /\ q.base = base /\ q.request = s
    OBVIOUS
  <2> HIDE DEF p, q
  <2>3. t = [x \in names |-> q[x]]
    BY <2>2
  <2> HIDE DEF names, t
  <2>4. t = q
    BY <2>2, <2>3
  <2> QED
    BY <2>1, <2>4 DEF t
<1> HIDE DEF p, q
<1> QED
  BY <1>4, <1>6, <1>7

(* A parser that has seen more of a message before, in another buffer, says  *)
(* of it what a fresh one says.                                              *)
LEMMA Resumed ==
  ASSUME NEW m, IsMessage(m), NEW n \in 0..Size(m), NEW old,
         NEW k \in 0..Size(m), n <= k, NEW base,
         Parse(FreshParser, m, n, old).kind = "more"
  PROVE  Parse(Parse(FreshParser, m, n, old).parser, m, k, base)
           = Parse(FreshParser, m, k, base)
<1> DEFINE out == Parse(FreshParser, m, n, old)
           q == ParseHead(m, old)
<1>1. \/ out.parser = FreshParser
      \/ HeadError(m, n) = "none" /\ out.parser = q
  <2>1. CASE HeadError(m, n) # "none"
    <3>1. \E kind \in {"more", "error"} :
            out = Outcome(kind, FreshParser, HeadError(m, n))
      BY <2>1, FreshOutcome
    <3> HIDE DEF out
    <3> QED
      BY <3>1 DEF Outcome
  <2>2. CASE HeadError(m, n) = "none"
    <3>1. \/ out = Outcome("more", q, "NeedsMoreData")
          \/ out = Accepted(q, old)
      BY <2>2, FreshOutcome
    <3> HIDE DEF out, q
    <3>2. out.parser = q \/ out.parser = FreshParser
      BY <3>1 DEF Outcome, Accepted
    <3> QED
      BY <2>2, <3>2
  <2> QED
    BY <2>1, <2>2
<1> HIDE DEF out
<1>2. CASE HeadError(m, n) = "none" /\ out.parser = q
  <2>1. ArrivalError(m, n) = "none"
    BY <1>2, HeadChecked
  <2>2. ArrivalError(m, k) = ArrivalError(m, n)
    BY <2>1, Cuts
  <2>3. HeadError(m, k) = "none"
    BY <1>2, <2>2, HeadChecked
  <2>4. q.head /\ ~FreshParser.head
    BY DEF ParseHead, FreshParser
  <2>5. Rebase(q, base) = ParseHead(m, base)
    BY Rebased
  <2> DEFINE p == ParseHead(m, base)
             done == Accepted(p, base)
  <2> HIDE DEF q
  <2>6. Parse(q, m, k, base) = IF k - p.bodyOffset < p.bodyBytes
                               THEN Outcome("more", p, "NeedsMoreData") ELSE done
    <3> HIDE DEF p
    <3>1. Rebase(q, base) = p
      BY <2>5 DEF p
    <3>2. Parse(q, m, k, base) =
            CASE "none" = "NeedsMoreData" -> Outcome("more", q, "none")
              [] "none" \notin {"NeedsMoreData", "none"} -> Outcome("error", q, "none")
              [] "none" = "none" /\ k - p.bodyOffset < p.bodyBytes ->
                   Outcome("more", p, "NeedsMoreData")
              [] OTHER -> done
      BY <2>4, <3>1 DEF Parse, Accepted
    <3> HIDE DEF done
    <3> QED
      BY <3>2
  <2>7. Parse(FreshParser, m, k, base) = IF k - p.bodyOffset < p.bodyBytes
                                         THEN Outcome("more", p, "NeedsMoreData")
                                         ELSE done
    <3> HIDE DEF done
    <3>1. CASE k - p.bodyOffset < p.bodyBytes
      BY <2>3, <3>1, FreshOutcome
    <3>2. CASE ~(k - p.bodyOffset < p.bodyBytes)
      BY <2>3, <3>2, FreshOutcome DEF done
    <3> HIDE DEF p
    <3> QED
      BY <3>1, <3>2
  <2> QED
    BY <1>2, <2>6, <2>7 DEF out
<1>3. CASE out.parser = FreshParser
  BY <1>3 DEF out
<1> QED
  BY <1>1, <1>2, <1>3

(* What the first n bytes of a message make of it: the property, of a fresh  *)
(* parser and without the state.                                             *)
LEMMA CutAnywhere ==
  ASSUME NEW m, IsMessage(m), NEW n \in 0..Size(m), NEW base,
         ~CutMatters(m, n)
  PROVE  LET out == Parse(FreshParser, m, n, base)
             whole == Whole(m, base)
         IN  /\ out.kind = "error" => whole.kind = "error" /\ whole.error = out.error
             /\ out.kind = "request" =>
                  /\ whole.kind = "request"
                  /\ out.request = whole.request
                  /\ out.consumed = whole.consumed
                  /\ out.consumed <= n
                  /\ \A i \in DOMAIN m.fields :
                       /\ m.fields[i].name # "transfer-encoding"
                       /\ m.fields[i].name = "content-length" =>
                            out.consumed = BodyOffset(m) + m.fields[i].value
<1> DEFINE out == Parse(FreshParser, m, n, base)
           whole == Parse(FreshParser, m, Size(m), base)
           e == HeadError(m, n)
           S == Size(m)
           q == ParseHead(m, base)
           done == Accepted(q, base)
           Goal ==
             /\ out.kind = "error" => whole.kind = "error" /\ whole.error = out.error
             /\ out.kind = "request" =>
                  /\ whole.kind = "request"
                  /\ out.request = whole.request
                  /\ out.consumed = whole.consumed
                  /\ out.consumed <= n
                  /\ \A i \in DOMAIN m.fields :
                       /\ m.fields[i].name # "transfer-encoding"
                       /\ m.fields[i].name = "content-length" =>
                            out.consumed = BodyOffset(m) + m.fields[i].value
<1>1. SUFFICES Goal
  BY Zenon DEF Whole
<1>2. S \in Nat /\ S \in 0..S /\ n \in Nat /\ n <= S /\ BodyOffset(m) \in Nat
  BY Layout
<1>3. e # "NeedsMoreData" => HeadError(m, S) = e
  <2> SUFFICES ASSUME e # "NeedsMoreData" PROVE HeadError(m, S) = e
    OBVIOUS
  <2> HIDE DEF S
  <2>1. ArrivalError(m, S) = ArrivalError(m, n)
    <3>1. CASE TerminatorSeen(m, n)
      BY <1>2, <3>1, Cuts DEF S
    <3>2. CASE ~TerminatorSeen(m, n)
      <4>1. ArrivalError(m, n) \notin {"none", "NeedsMoreData"}
        BY <3>2, Cuts, HeadChecked
      <4> QED
        BY <4>1, Cuts DEF S
    <3> QED
      BY <3>1, <3>2
  <2> QED
    BY <2>1, HeadChecked
<1>4. q.bodyOffset = BodyOffset(m) /\ q.bodyBytes = ContentLength(m.fields)
  BY DEF ParseHead
<1>5. CASE e = "NeedsMoreData"
  <2>1. out = Outcome("more", FreshParser, "NeedsMoreData")
    BY <1>5, FreshOutcome
  <2>2. out.kind = "more"
    <3> HIDE DEF out
    <3> QED
      BY <2>1 DEF Outcome
  <2> QED
    BY <2>2
<1>6. CASE e \notin {"NeedsMoreData", "none"}
  <2>1. out = Outcome("error", FreshParser, e) /\ whole = Outcome("error", FreshParser, e)
    BY <1>3, <1>6, FreshOutcome
  <2> HIDE DEF out, whole, e
  <2>2. /\ out.kind = "error" /\ whole.kind = "error" /\ whole.error = out.error
    BY <2>1 DEF Outcome
  <2> QED
    BY <2>2
<1>7. CASE e = "none"
  <2> DEFINE B == BodyOffset(m)
             C == ContentLength(m.fields)
  <2>1. LengthError(m.fields) = "none"
    BY <1>7, HeadChecked
  <2>2. C \in Int /\ B \in Nat
    BY <1>2, <2>1, Lengths
  <2>3. /\ out = IF n - B < C THEN Outcome("more", q, "NeedsMoreData") ELSE done
        /\ whole = IF S - B < C THEN Outcome("more", q, "NeedsMoreData") ELSE done
    BY <1>3, <1>4, <1>7, FreshOutcome
  <2>4. \A i \in DOMAIN m.fields :
          /\ m.fields[i].name # "transfer-encoding"
          /\ m.fields[i].name = "content-length" => m.fields[i].value = C
    BY <2>1, Lengths
  <2> HIDE DEF out, whole, e, S, q, B, C
  <2>5. done.kind = "request" /\ done.consumed = B + C
    BY <1>4 DEF B, C, Accepted
  <2> HIDE DEF done
  <2>6. CASE n - B < C
    <3>1. out.kind = "more"
      BY <2>3, <2>6 DEF Outcome
    <3> QED
      BY <3>1
  <2>7. CASE ~(n - B < C)
    <3>1. ~(S - B < C) /\ B + C <= n
      BY <1>2, <2>2, <2>7
    <3>2. out = done /\ whole = done
      BY <2>3, <2>7, <3>1
    <3>3. out.kind = "request" /\ out.consumed = B + C /\ out.consumed <= n
      BY <2>5, <3>1, <3>2
    <3> QED
      BY <2>4, <3>2, <3>3 DEF B
  <2> QED
    BY <2>6, <2>7
<1> HIDE DEF e, Goal
<1> QED
  BY <1>5, <1>6, <1>7

(* While a request is read, the last outcome is the one of a parser that     *)
(* starts afresh on all that has arrived, where it lies now: what the parser *)
(* remembers of earlier calls never shows.                                   *)
Afresh ==
  stage = "reading" =>
    /\ input = [message |-> input.message, bytes |-> input.bytes,
                base |-> input.base]
    /\ input.message \in Messages
    /\ input.bytes \in 0..Size(input.message)
    /\ result = Parse(FreshParser, input.message, input.bytes, input.base)
    /\ parser = result.parser

LEMMA AfreshStarts ==
  Init => Afresh
<1> SUFFICES ASSUME Init PROVE Afresh
  OBVIOUS
<1>1. PICK m \in Messages, base \in Addresses :
        input = [message |-> m, bytes |-> 0, base |-> base]
  BY DEF Init
<1>2. IsMessage(m)
  BY PathAssumption
<1>3. 0 \in 0..Size(m)
  BY <1>2, Layout
<1>4. ArrivalError(m, 0) = "NeedsMoreData"
  BY <1>2, <1>3, Cuts
<1>5. HeadError(m, 0) = "NeedsMoreData"
  BY <1>4, HeadChecked
<1>6. Parse(FreshParser, m, 0, base) = Outcome("more", FreshParser, "NeedsMoreData")
  BY <1>5, FreshOutcome
<1>7. result = Parse(FreshParser, m, 0, base) /\ parser = FreshParser
  BY <1>6 DEF Init
<1>8. result.parser = FreshParser
  BY <1>6, <1>7 DEF Outcome
<1>9. input.message = m /\ input.bytes = 0 /\ input.base = base
  BY <1>1
<1> QED
  BY <1>1, <1>3, <1>7, <1>8, <1>9 DEF Afresh

(* Only a read keeps the stage at reading. *)
LEMMA OnlyReceiveReads ==
  Next /\ stage' = "reading" => Receive \/ UNCHANGED vars
<1> SUFFICES ASSUME Next, stage' = "reading" PROVE Receive \/ UNCHANGED vars
  OBVIOUS
<1>1. CASE Adopt \/ RejectRequest \/ RequestTimeout \/ CloseEarly
  BY <1>1 DEF Adopt, RejectRequest, RequestTimeout, CloseEarly, SerializeError
<1>2. CASE RegisterRoute \/ RegisterMount \/ RegisterMiddleware \/ RegisterFallback
  BY <1>2 DEF RegisterRoute, RegisterMount, RegisterMiddleware,
              RegisterFallback, Register
<1>3. CASE StartDispatch \/ MiddlewarePasses \/ SelectAnswer \/ CallHandler
           \/ SetField
  BY <1>3 DEF StartDispatch, MiddlewarePasses, SelectAnswer, CallHandler, SetField
<1>4. CASE HandlerAnswers \/ AssetAnswers \/ RouterRefuses
  BY <1>4 DEF HandlerAnswers, AssetAnswers, RouterRefuses, Returned, Dispatched
<1>5. CASE Serialize \/ StartWrite \/ Write \/ Finished
  BY <1>5 DEF Serialize, StartWrite, Write, Finished
<1> QED
  BY <1>1, <1>2, <1>3, <1>4, <1>5 DEF Next

LEMMA AfreshKept ==
  Afresh /\ [Next]_vars => Afresh'
<1> SUFFICES ASSUME Afresh, [Next]_vars, stage' = "reading"
             PROVE  Afresh'
  BY DEF Afresh
<1>1. CASE UNCHANGED vars
  BY <1>1 DEF Afresh, vars
<1>2. CASE Receive
  <2> DEFINE m == input.message
             n == input.bytes
             old == input.base
  <2>1. PICK k \in n + 1 .. Size(m), base \in Addresses :
          /\ input' = [input EXCEPT !.bytes = k, !.base = base]
          /\ result' = Parse(parser, m, k, base)
    BY <1>2 DEF Receive
  <2>2. stage = "reading" /\ result.kind = "more" /\ parser' = result'.parser
    BY <1>2 DEF Receive
  <2>3. /\ input = [message |-> m, bytes |-> n, base |-> old]
        /\ m \in Messages /\ n \in 0..Size(m)
        /\ result = Parse(FreshParser, m, n, old) /\ parser = result.parser
    BY <2>2 DEF Afresh
  <2>4. IsMessage(m)
    BY <2>3, PathAssumption
  <2> HIDE DEF m, n, old
  <2>5. Size(m) \in Nat
    BY <2>4, Layout
  <2>6. k \in 0..Size(m) /\ n <= k
    BY <2>3, <2>5
  <2>7. result' = Parse(FreshParser, m, k, base)
    BY <2>1, <2>2, <2>3, <2>4, <2>6, Resumed
  <2>8. input' = [message |-> m, bytes |-> k, base |-> base]
    BY <2>1, <2>3
  <2>9. input'.message = m /\ input'.bytes = k /\ input'.base = base
    BY <2>8
  <2> QED
    BY <2>2, <2>3, <2>6, <2>7, <2>8, <2>9 DEF Afresh
<1> QED
  BY <1>1, <1>2, OnlyReceiveReads

(* However a request is cut into reads and wherever the read buffer moves    *)
(* between them, RequestParser::parse ends with the outcome of the whole     *)
(* request: the same error, or the same request, bytes consumed and length.  *)
THEOREM ParsedWhole ==
  Spec => []ParsedAsIfWhole
<1>1. Init => Afresh
  BY AfreshStarts
<1>2. Afresh /\ [Next]_vars => Afresh'
  BY AfreshKept
<1>3. Afresh => ParsedAsIfWhole
  <2> SUFFICES ASSUME Afresh, stage = "reading",
                      ~CutMatters(input.message, input.bytes)
               PROVE  ParsedAsIfWhole
    BY DEF ParsedAsIfWhole
  <2> DEFINE m == input.message
             n == input.bytes
             base == input.base
             whole == Whole(m, base)
  <2>1. /\ m \in Messages /\ n \in 0..Size(m)
        /\ result = Parse(FreshParser, m, n, base)
    BY DEF Afresh
  <2>2. IsMessage(m)
    BY <2>1, PathAssumption
  <2>3. n = Size(m) => whole = result
    BY <2>1 DEF Whole
  <2> HIDE DEF m, n, base, whole
  <2>4. ~CutMatters(m, n)
    BY DEF m, n
  <2>5. /\ result.kind = "error" => whole.kind = "error" /\ whole.error = result.error
        /\ result.kind = "request" =>
             /\ whole.kind = "request"
             /\ result.request = whole.request
             /\ result.consumed = whole.consumed
             /\ result.consumed <= n
             /\ \A i \in DOMAIN m.fields :
                  /\ m.fields[i].name # "transfer-encoding"
                  /\ m.fields[i].name = "content-length" =>
                       result.consumed = BodyOffset(m) + m.fields[i].value
    BY <2>1, <2>2, <2>4, CutAnywhere DEF whole
  <2>6. result.kind = "more" /\ n = Size(m) => whole.kind = "more"
    BY <2>3
  <2> QED
    BY <2>5, <2>6, Zenon DEF ParsedAsIfWhole, m, n, base, whole
<1> QED
  BY <1>1, <1>2, <1>3, PTL DEF Spec

-----------------------------------------------------------------------------
(* The router: patterns *)

(* What the classification of an accepted pattern says of its pieces. *)
LEMMA Pieces ==
  ASSUME NEW p, IsPattern(p), IsValidRoutePattern(p)
  PROVE  /\ Len(p) \in Nat \ {0} /\ DOMAIN p = 1..Len(p)
         /\ \A i \in 1..Len(p) :
              /\ p[i].shape \in {"plain", "capture", "star"}
              /\ p[i].shape = "star" => i = Len(p)
              /\ KindOf(p, i) = "Parameter" <=> p[i].shape = "capture"
              /\ KindOf(p, i) = "Wildcard" <=> p[i].shape = "star"
<1>1. p \in Seq(ToSet(p)) /\ p # <<>>
  BY DEF IsPattern, IsList, IsValidRoutePattern
<1>2. Len(p) \in Nat /\ DOMAIN p = 1..Len(p) /\ Len(p) # 0
  BY <1>1, LenProperties, EmptySeq
<1>3. ASSUME NEW i \in 1..Len(p)
      PROVE  /\ p[i].shape \in {"plain", "capture", "star"}
             /\ p[i].shape = "star" => i = Len(p)
             /\ KindOf(p, i) = "Parameter" <=> p[i].shape = "capture"
             /\ KindOf(p, i) = "Wildcard" <=> p[i].shape = "star"
  <2> DEFINE x == p[i]
             last == i = Len(p)
  <2>1. x.shape \in {"plain", "star", "capture", "broken"}
    BY <1>2 DEF IsPattern
  <2>2. KindOf(p, i) # "Invalid" /\ KindOf(p, i) = Classify(x, last)
    BY <1>2 DEF IsValidRoutePattern, KindOf
  <2> HIDE DEF x, last
  <2>3. /\ x.shape = "plain" => Classify(x, last) \in {"Invalid", "Literal"}
        /\ x.shape = "star" =>
             Classify(x, last) = IF last THEN "Wildcard" ELSE "Invalid"
        /\ x.shape = "capture" => Classify(x, last) = "Parameter"
        /\ x.shape = "broken" => Classify(x, last) = "Invalid"
    BY DEF Classify
  <2>4. /\ x.shape \in {"plain", "capture", "star"}
        /\ x.shape = "star" => last
        /\ KindOf(p, i) = "Parameter" <=> x.shape = "capture"
        /\ KindOf(p, i) = "Wildcard" <=> x.shape = "star"
    BY <2>1, <2>2, <2>3
  <2> QED
    BY <2>4 DEF x, last
<1> QED
  BY <1>2, <1>3

(* What an accepted pattern is compiled to. *)
LEMMA Compiled ==
  ASSUME NEW p, IsPattern(p), IsValidRoutePattern(p), NEW methods
  PROVE  LET r == Compile(methods, p)
             star == p[Len(p)].shape = "star"
             n == IF star THEN Len(p) - 1 ELSE Len(p)
         IN  /\ r.methods = methods /\ r.pattern = p /\ r.wildcard = star
             /\ n \in Nat /\ n <= Len(p)
             /\ IsDynamic(p) =>
                  /\ DOMAIN r.segments = 1..n /\ Len(r.segments) = n
                  /\ \A i \in 1..n :
                       /\ r.segments[i].parameter <=> p[i].shape = "capture"
                       /\ r.segments[i].text = p[i].text
             /\ ~IsDynamic(p) => \A i \in 1..Len(p) : p[i].shape = "plain"
<1> DEFINE r == Compile(methods, p)
           star == p[Len(p)].shape = "star"
           N == Len(p)
           n == IF star THEN N - 1 ELSE N
           Segment(i) == [parameter |-> i \in Captures(p), text |-> p[i].text]
           segments == [i \in 1 .. n |-> Segment(i)]
<1>1. /\ N \in Nat \ {0} /\ DOMAIN p = 1..N
      /\ \A i \in 1..N :
           /\ p[i].shape \in {"plain", "capture", "star"}
           /\ p[i].shape = "star" => i = N
           /\ KindOf(p, i) = "Parameter" <=> p[i].shape = "capture"
           /\ KindOf(p, i) = "Wildcard" <=> p[i].shape = "star"
  BY Pieces
<1>a. N \in Nat \ {0}
  BY <1>1
<1>b. star <=> p[N].shape = "star"
  OBVIOUS
<1> HIDE DEF N, star
<1>c. N \in 1..N
  BY <1>a
<1>d. KindOf(p, N) = "Wildcard" <=> star
  BY <1>1, <1>b, <1>c
<1>2. (KindOf(p, N) = "Wildcard") = star
  BY <1>d, Zenon DEF star
<1>3. N - (IF KindOf(p, N) = "Wildcard" THEN 1 ELSE 0) = n
  BY <1>a, <1>d
<1>4. r = [methods |-> methods, pattern |-> p, wildcard |-> star,
           segments |-> IF IsDynamic(p) THEN segments ELSE <<>>]
  <2> HIDE DEF n
  <2> QED
    BY <1>2, <1>3 DEF Compile, N
<1>5. n \in Nat /\ n <= N
  BY <1>1
<1> HIDE DEF n, r
<1>6. /\ DOMAIN segments = 1..n /\ Len(segments) = n
      /\ \A i \in 1..n : segments[i] = Segment(i)
  BY <1>5
<1> HIDE DEF segments
<1>7. \A i \in 1..n : /\ Segment(i).parameter <=> p[i].shape = "capture"
                      /\ Segment(i).text = p[i].text
  <2> SUFFICES ASSUME NEW i \in 1..n
               PROVE  /\ Segment(i).parameter <=> p[i].shape = "capture"
                      /\ Segment(i).text = p[i].text
    OBVIOUS
  <2>1. i \in 1..N
    BY <1>1, <1>5
  <2>2. i \in Captures(p) <=> p[i].shape = "capture"
    BY <1>1, <2>1 DEF Captures
  <2>3. Segment(i).parameter = (i \in Captures(p)) /\ Segment(i).text = p[i].text
    OBVIOUS
  <2> QED
    BY <2>2, <2>3
<1> HIDE DEF Segment
<1>8. r.methods = methods /\ r.pattern = p /\ r.wildcard = star
      /\ (IsDynamic(p) => r.segments = segments)
  BY <1>4
<1>9. ~IsDynamic(p) => \A i \in 1..N : p[i].shape = "plain"
  BY <1>1 DEF IsDynamic
<1> QED
  BY <1>5, <1>6, <1>7, <1>8, <1>9 DEF N, star, n, r

(* A compiled pattern matches the paths its pieces cover. *)
LEMMA MatchesCovered ==
  ASSUME NEW p, IsPattern(p), IsValidRoutePattern(p), NEW methods,
         NEW path, IsList(path)
  PROVE  /\ IsDynamic(p) =>
              (RouteMatches(Compile(methods, p), path) <=> Covers(p, path))
         /\ ~IsDynamic(p) => (Texts(p) = path <=> Covers(p, path))
<1> DEFINE r == Compile(methods, p)
           star == p[Len(p)].shape = "star"
           N == Len(p)
           n == IF star THEN N - 1 ELSE N
           M == Len(path)
<1>1. /\ r.wildcard = star /\ n \in Nat /\ n <= N
      /\ IsDynamic(p) =>
           /\ Len(r.segments) = n
           /\ \A i \in 1..n :
                /\ r.segments[i].parameter <=> p[i].shape = "capture"
                /\ r.segments[i].text = p[i].text
      /\ ~IsDynamic(p) => \A i \in 1..N : p[i].shape = "plain"
  BY Compiled
<1>2. /\ N \in Nat \ {0} /\ DOMAIN p = 1..N
      /\ \A i \in 1..N : /\ p[i].shape \in {"plain", "capture", "star"}
                         /\ p[i].shape = "star" => i = N
  BY Pieces
<1>3. M \in Nat /\ DOMAIN path = 1..M /\ path \in Seq(ToSet(path))
  BY LenProperties DEF IsList
<1>4. Covers(p, path) <=>
        /\ IF star THEN M >= N ELSE M = N
        /\ \A i \in 1..n : \/ p[i].shape = "plain" /\ p[i].text = path[i]
                           \/ p[i].shape = "capture" /\ path[i] # ""
  BY DEF Covers
<1>5. RouteMatches(r, path) <=>
        /\ IF r.wildcard THEN M > Len(r.segments) ELSE M = Len(r.segments)
        /\ \A i \in 1..Len(r.segments) :
             IF r.segments[i].parameter THEN path[i] # ""
             ELSE path[i] = r.segments[i].text
  BY DEF RouteMatches
<1>6. n = IF star THEN N - 1 ELSE N
  OBVIOUS
<1>7. star <=> p[N].shape = "star"
  OBVIOUS
<1> HIDE DEF r, star, N, n, M
<1>8. ASSUME IsDynamic(p)
      PROVE  RouteMatches(r, path) <=> Covers(p, path)
  <2>1. (IF r.wildcard THEN M > Len(r.segments) ELSE M = Len(r.segments))
          <=> (IF star THEN M >= N ELSE M = N)
    BY <1>1, <1>2, <1>3, <1>6, <1>8
  <2>2. ASSUME NEW i \in 1..n
        PROVE  (IF r.segments[i].parameter THEN path[i] # ""
                ELSE path[i] = r.segments[i].text)
               <=> (\/ p[i].shape = "plain" /\ p[i].text = path[i]
                    \/ p[i].shape = "capture" /\ path[i] # "")
    <3>1. i \in 1..N /\ (star => i # N)
      BY <1>1, <1>2, <1>6
    <3>2. p[i].shape \in {"plain", "capture"}
      BY <1>2, <1>7, <3>1
    <3> QED
      BY <1>1, <1>8, <3>2
  <2> QED
    BY <1>1, <1>4, <1>5, <1>8, <2>1, <2>2
<1>9. ASSUME ~IsDynamic(p)
      PROVE  Texts(p) = path <=> Covers(p, path)
  <2>1. ~star /\ n = N
    BY <1>1, <1>2, <1>6, <1>7, <1>9
  <2>2. Covers(p, path) <=> M = N /\ \A i \in 1..N : p[i].text = path[i]
    BY <1>1, <1>4, <1>9, <2>1
  <2>3. /\ DOMAIN Texts(p) = 1..N /\ \A i \in 1..N : Texts(p)[i] = p[i].text
        /\ Texts(p) = [i \in 1..N |-> Texts(p)[i]]
    BY <1>2 DEF Texts
  <2>4. path = [i \in 1..M |-> path[i]]
    BY <1>3
  <2>5. ASSUME Texts(p) = path PROVE M = N
    BY <1>2, <1>3, <2>3, <2>5
  <2> QED
    BY <2>2, <2>3, <2>4, <2>5
<1> QED
  BY <1>8, <1>9 DEF r

(* The captures of a path a dynamic pattern covers are those of its pieces. *)
LEMMA CapturesArePieces ==
  ASSUME NEW p, IsPattern(p), IsValidRoutePattern(p), NEW methods, NEW path,
         IsDynamic(p)
  PROVE  ToSet(CapturesOf(Compile(methods, p), path)) =
           {[name |-> p[i].text, value |-> path[i]] :
              i \in {j \in DOMAIN p : p[j].shape = "capture"}}
<1> DEFINE r == Compile(methods, p)
           star == p[Len(p)].shape = "star"
           N == Len(p)
           n == IF star THEN N - 1 ELSE N
           at == {j \in DOMAIN r.segments : r.segments[j].parameter}
           pieces == {j \in DOMAIN p : p[j].shape = "capture"}
<1>1. /\ DOMAIN r.segments = 1..n
      /\ \A i \in 1..n :
           /\ r.segments[i].parameter <=> p[i].shape = "capture"
           /\ r.segments[i].text = p[i].text
  BY Compiled
<1>2. N \in Nat \ {0} /\ DOMAIN p = 1..N
  BY Pieces
<1>3. n = (IF star THEN N - 1 ELSE N) /\ (star <=> p[N].shape = "star")
  OBVIOUS
<1> HIDE DEF r, star, N, n
<1>4. at = pieces
  BY <1>1, <1>2, <1>3
<1>5. \A i \in at : r.segments[i].text = p[i].text
  BY <1>1
<1> DEFINE c == [i \in at |-> [name |-> r.segments[i].text, value |-> path[i]]]
<1>6. CapturesOf(r, path) = c
  BY DEF CapturesOf
<1> HIDE DEF at, pieces
<1>7. DOMAIN c = at /\ \A i \in at : c[i] = [name |-> p[i].text, value |-> path[i]]
  BY <1>5
<1> HIDE DEF c
<1>8. ToSet(c) = {[name |-> p[i].text, value |-> path[i]] : i \in pieces}
  BY <1>4, <1>7 DEF ToSet
<1> QED
  BY <1>6, <1>8 DEF r, pieces

-----------------------------------------------------------------------------
(* The router: mounts *)

(* A list is one over any larger set. *)
LEMMA Widened ==
  ASSUME NEW q, IsList(q), NEW S, ToSet(q) \subseteq S
  PROVE  /\ q \in Seq(S) /\ Len(q) \in Nat /\ DOMAIN q = 1..Len(q)
         /\ q = [i \in 1..Len(q) |-> q[i]]
<1>1. q \in Seq(ToSet(q))
  BY DEF IsList
<1>2. /\ Len(q) \in Nat /\ DOMAIN q = 1..Len(q)
      /\ q = [i \in 1..Len(q) |-> q[i]]
      /\ \A i \in 1..Len(q) : q[i] \in ToSet(q)
  BY <1>1, LenProperties, ElementOfSeq
<1> QED
  BY <1>2, SeqDef, IsASeq

(* What follows a prefix of a path. *)
LEMMA BehindPrefix ==
  ASSUME NEW S, NEW s \in Seq(S), NEW t \in Seq(S), NEW u \in Seq(S),
         Len(s) <= Len(t), SubSeq(t, 1, Len(s)) = s
  PROVE  s \o u = t <=> u = SubSeq(t, Len(s) + 1, Len(t))
<1> DEFINE n == Len(s)
           v == SubSeq(t, n + 1, Len(t))
<1>1. n \in Nat /\ Len(t) \in Nat /\ Len(u) \in Nat /\ n \in 0..Len(t)
  BY LenProperties
<1>2. /\ v \in Seq(S) /\ Len(v) = Len(t) - n
      /\ \A i \in 1..(Len(t) - n) : v[i] = t[n + i]
      /\ s \o v = t
  BY <1>1, Cut
<1>3. ASSUME s \o u = t PROVE u = v
  <2>1. /\ Len(s \o u) = n + Len(u)
        /\ \A i \in 1..Len(s \o u) :
             (s \o u)[i] = IF i <= n THEN s[i] ELSE u[i - n]
    BY ConcatProperties
  <2>2. Len(u) = Len(v) /\ Len(t) = n + Len(u)
    BY <1>1, <1>2, <1>3, <2>1
  <2>3. ASSUME NEW i \in 1..Len(u) PROVE u[i] = v[i]
    <3>1. /\ n + i \in 1..Len(t) /\ ~(n + i <= n) /\ (n + i) - n = i
          /\ i \in 1..(Len(t) - n)
      BY <1>1, <2>2
    <3>2. t[n + i] = u[i]
      BY <1>3, <2>1, <3>1
    <3> QED
      BY <1>2, <3>1, <3>2
  <2> QED
    BY <1>2, <2>2, <2>3, SeqEqual
<1> QED
  BY <1>2, <1>3

(* A bundle finds an asset where there is one of the path. *)
LEMMA AssetFound ==
  ASSUME NEW b, IsBundle(b), NEW path
  PROVE  FindAsset(b, path) # 0 <=> \E a \in ToSet(b) : a.path = path
<1> DEFINE at == {i \in DOMAIN b : b[i].path = path}
<1>1. DOMAIN b = 1..Len(b) /\ Len(b) \in Nat
  BY LenProperties DEF IsBundle, IsList
<1>2. at \in SUBSET Nat /\ 0 \notin at
  BY <1>1
<1>3. (\E a \in ToSet(b) : a.path = path) <=> at # {}
  BY DEF ToSet
<1>4. FindAsset(b, path) = IF at = {} THEN 0 ELSE Min(at)
  BY DEF FindAsset
<1> HIDE DEF at
<1>5. at # {} => Min(at) \in at
  <2>1. at # {} => \E x \in at : \A y \in at : x <= y
    BY <1>2, Least
  <2> QED
    BY <2>1, Zenon DEF Min
<1> QED
  BY <1>2, <1>3, <1>4, <1>5

(* A mount answers the paths it holds. *)
LEMMA MountHolds ==
  ASSUME NEW mount, IsList(mount.prefix), IsBundle(mount.bundle),
         NEW path, IsList(path)
  PROVE  AssetOf(mount, path) # 0 <=> Holds(mount, path)
<1> DEFINE s == mount.prefix
           b == mount.bundle
           n == Len(s)
           S == ToSet(s) \cup ToSet(path)
           below == SubSeq(path, n + 1, Len(path))
<1>1. /\ s \in Seq(S) /\ path \in Seq(S) /\ n \in Nat /\ Len(path) \in Nat
  BY Widened
<1> HIDE DEF S
<1>2. IsStrictPrefix(s, path) <=>
        ~(Len(path) <= n \/ SubSeq(path, 1, n) # s)
  <2> DEFINE front == SubSeq(path, 1, n)
  <2>1. n \in 0..n /\ SubSeq(s, 1, n) = s
    <3>1. n \in 0..n
      BY <1>1
    <3>2. /\ SubSeq(s, 1, n) \in Seq(S) /\ Len(SubSeq(s, 1, n)) = n
          /\ \A i \in 1..n : SubSeq(s, 1, n)[i] = s[i]
      BY <1>1, <3>1, Cut
    <3> QED
      BY <1>1, <3>1, <3>2, SeqEqual
  <2>2. IsStrictPrefix(s, path) <=> n <= Len(path) /\ s = front /\ s # path
    BY <2>1 DEF IsStrictPrefix, IsPrefix
  <2>3. n = Len(path) => front = path
    <3> SUFFICES ASSUME n = Len(path) PROVE front = path
      OBVIOUS
    <3>1. n \in 0..Len(path)
      BY <1>1
    <3>2. front \in Seq(S) /\ Len(front) = n /\ \A i \in 1..n : front[i] = path[i]
      BY <1>1, <3>1, Cut
    <3> HIDE DEF front
    <3> QED
      BY <1>1, <3>2, SeqEqual
  <2> HIDE DEF front, s, n
  <2>4. s = path => n = Len(path)
    BY DEF n
  <2> QED
    BY <1>1, <2>2, <2>3, <2>4 DEF front
<1>3. CASE ~IsStrictPrefix(s, path)
  <2>1. AssetOf(mount, path) = 0
    BY <1>2, <1>3 DEF AssetOf
  <2>2. ~Holds(mount, path)
    BY <1>3 DEF Holds
  <2> QED
    BY <2>1, <2>2
<1>4. CASE IsStrictPrefix(s, path)
  <2>1. ~(Len(path) <= n \/ SubSeq(path, 1, n) # s)
    BY <1>2, <1>4
  <2>2. AssetOf(mount, path) = IF FindAsset(b, path) # 0 THEN FindAsset(b, path)
                               ELSE FindAsset(b, below)
    BY <2>1 DEF AssetOf
  <2>3. Holds(mount, path) <=>
          \E a \in ToSet(b) : a.path = path \/ s \o a.path = path
    BY <1>4 DEF Holds
  <2>4. ASSUME NEW a \in ToSet(b)
        PROVE  s \o a.path = path <=> a.path = below
    <3> DEFINE u == a.path
               T == S \cup ToSet(u)
    <3>1. IsList(u)
      BY DEF IsBundle, ToSet
    <3>2. u \in Seq(T)
      BY <3>1, Widened
    <3>3. s \in Seq(T) /\ path \in Seq(T)
      <4>1. ToSet(s) \subseteq T /\ ToSet(path) \subseteq T
        BY DEF S
      <4> QED
        BY <4>1, Widened
    <3>4. Len(s) <= Len(path) /\ SubSeq(path, 1, Len(s)) = s
      BY <1>1, <2>1
    <3> HIDE DEF T, u, s
    <3>5. s \o u = path <=> u = SubSeq(path, Len(s) + 1, Len(path))
      <4>1. \A q \in Seq(T) : Len(s) <= Len(path) /\ SubSeq(path, 1, Len(s)) = s
              => (s \o q = path <=> q = SubSeq(path, Len(s) + 1, Len(path)))
        BY <3>3, BehindPrefix
      <4> QED
        BY <3>2, <3>4, <4>1, Zenon
    <3> QED
      BY <3>5 DEF u, s
  <2> HIDE DEF s, b, n, below
  <2>5. IsBundle(b)
    BY DEF b
  <2>6. /\ FindAsset(b, path) # 0 <=> \E a \in ToSet(b) : a.path = path
        /\ FindAsset(b, below) # 0 <=> \E a \in ToSet(b) : a.path = below
    BY <2>5, AssetFound
  <2> QED
    BY <2>2, <2>3, <2>4, <2>6
<1> QED
  BY <1>3, <1>4

-----------------------------------------------------------------------------
(* The router: the tables *)

Ascending(q) ==
  q \in Seq(Nat) /\ \A i, j \in 1..Len(q) : i < j => q[i] < q[j]

IsRoute(r) ==
  /\ IsPattern(r.pattern) /\ IsValidRoutePattern(r.pattern)
  /\ r = Compile(r.methods, r.pattern)
  /\ r.methods # {} /\ r.methods \subseteq Methods

StaticAt(t, path) ==
  {i \in DOMAIN t.routes : /\ ~IsDynamic(t.routes[i].pattern)
                           /\ Texts(t.routes[i].pattern) = path}

DynamicRoutes(t) == {i \in DOMAIN t.routes : IsDynamic(t.routes[i].pattern)}

(* The tables of a router: every route is compiled from an accepted pattern *)
(* and is in exactly the list it is looked up in, in order of registration. *)
IsRouter(t) ==
  /\ DOMAIN t = {"routes", "exact", "dynamic", "mounts", "middleware", "fallback"}
  /\ t.routes \in Seq(ToSet(t.routes)) /\ \A i \in DOMAIN t.routes : IsRoute(t.routes[i])
  /\ \A path \in DOMAIN t.exact : /\ Ascending(t.exact[path])
                                  /\ ToSet(t.exact[path]) = StaticAt(t, path)
  /\ \A i \in DOMAIN t.routes \ DynamicRoutes(t) :
       Texts(t.routes[i].pattern) \in DOMAIN t.exact
  /\ Ascending(t.dynamic) /\ ToSet(t.dynamic) = DynamicRoutes(t)
  /\ t.mounts \in Seq(ToSet(t.mounts))
  /\ \A k \in DOMAIN t.mounts : /\ IsList(t.mounts[k].prefix)
                                /\ IsBundle(t.mounts[k].bundle)

(* The first of some positions of an ascending list holds the least. *)
LEMMA FirstHoldsLeast ==
  ASSUME NEW q, Ascending(q), NEW S \in SUBSET DOMAIN q, S # {}
  PROVE  /\ Min(S) \in S /\ q[Min(S)] \in Nat
         /\ \A k \in S : q[k] \in Nat /\ q[Min(S)] <= q[k]
<1>1. /\ q \in Seq(Nat) /\ DOMAIN q = 1..Len(q) /\ Len(q) \in Nat
      /\ \A i \in 1..Len(q) : q[i] \in Nat
  BY LenProperties, ElementOfSeq DEF Ascending
<1>2. S \in SUBSET Nat
  BY <1>1
<1>3. \E x \in S : \A y \in S : x <= y
  BY <1>2, Least
<1>4. Min(S) \in S /\ \A y \in S : Min(S) <= y
  BY <1>3, Zenon DEF Min
<1> DEFINE m == Min(S)
<1> HIDE DEF m
<1>5. m \in S /\ m \in 1..Len(q) /\ \A y \in S : m <= y
  BY <1>1, <1>4 DEF m
<1>6. ASSUME NEW k \in S PROVE q[k] \in Nat /\ q[m] <= q[k]
  <2>1. k \in 1..Len(q) /\ m <= k /\ k \in Nat /\ m \in Nat
    BY <1>1, <1>2, <1>5
  <2>2. q[k] \in Nat /\ q[m] \in Nat
    BY <1>1, <1>5, <2>1
  <2>3. CASE m < k
    <3>1. q[m] < q[k]
      BY <1>5, <2>1, <2>3 DEF Ascending
    <3> QED
      BY <2>2, <3>1
  <2>4. CASE m = k
    BY <2>2, <2>4
  <2> QED
    BY <2>1, <2>3, <2>4
<1> QED
  BY <1>1, <1>5, <1>6 DEF m

(* What is found for a path is what covers it. *)
LEMMA FoundIsCovered ==
  ASSUME NEW t, IsRouter(t), NEW path, IsList(path)
  PROVE  LET covers == {i \in DOMAIN t.routes : Covers(t.routes[i].pattern, path)}
         IN  /\ Ascending(ExactOf(t, path))
             /\ ToSet(ExactOf(t, path)) = covers \ DynamicRoutes(t)
             /\ {t.dynamic[k] : k \in Matching(t, path)} = covers \cap DynamicRoutes(t)
             /\ Holding(t, path) = {k \in DOMAIN t.mounts : Holds(t.mounts[k], path)}
<1> DEFINE covers == {i \in DOMAIN t.routes : Covers(t.routes[i].pattern, path)}
<1>1. ASSUME NEW i \in DOMAIN t.routes
      PROVE  /\ i \in DynamicRoutes(t) =>
                  (RouteMatches(t.routes[i], path) <=> i \in covers)
             /\ i \notin DynamicRoutes(t) => (i \in StaticAt(t, path) <=> i \in covers)
  <2> DEFINE r == t.routes[i]
             p == r.pattern
  <2>1. IsPattern(p) /\ IsValidRoutePattern(p) /\ r = Compile(r.methods, p)
    BY DEF IsRouter, IsRoute
  <2>2. i \in covers <=> Covers(p, path)
    OBVIOUS
  <2>3. /\ i \in DynamicRoutes(t) <=> IsDynamic(p)
        /\ i \in StaticAt(t, path) <=> ~IsDynamic(p) /\ Texts(p) = path
    BY DEF DynamicRoutes, StaticAt
  <2> HIDE DEF covers, p
  <2>4. /\ IsDynamic(p) =>
             (RouteMatches(Compile(r.methods, p), path) <=> Covers(p, path))
        /\ ~IsDynamic(p) => (Texts(p) = path <=> Covers(p, path))
    BY <2>1, MatchesCovered
  <2> HIDE DEF r
  <2>5. RouteMatches(Compile(r.methods, p), path) <=> RouteMatches(r, path)
    BY <2>1
  <2>6. /\ i \in DynamicRoutes(t) => (RouteMatches(r, path) <=> i \in covers)
        /\ i \notin DynamicRoutes(t) => (i \in StaticAt(t, path) <=> i \in covers)
    BY <2>2, <2>3, <2>4, <2>5
  <2> QED
    BY <2>6 DEF r
<1>2. covers \subseteq DOMAIN t.routes
  OBVIOUS
<1> HIDE DEF covers
<1>3. StaticAt(t, path) = covers \ DynamicRoutes(t)
  BY <1>1, <1>2 DEF StaticAt, DynamicRoutes
<1>4. Ascending(ExactOf(t, path)) /\ ToSet(ExactOf(t, path)) = StaticAt(t, path)
  <2>1. CASE path \in DOMAIN t.exact
    BY <2>1 DEF ExactOf, IsRouter
  <2>2. CASE path \notin DOMAIN t.exact
    <3>1. ExactOf(t, path) = <<>>
      BY <2>2 DEF ExactOf
    <3>2. StaticAt(t, path) = {}
      BY <2>2 DEF IsRouter, StaticAt, DynamicRoutes
    <3>3. Ascending(<<>>) /\ ToSet(<<>>) = {}
      BY DEF Ascending, ToSet
    <3> QED
      BY <3>1, <3>2, <3>3
  <2> QED
    BY <2>1, <2>2
<1>5. {t.dynamic[k] : k \in Matching(t, path)} = covers \cap DynamicRoutes(t)
  <2>1. ToSet(t.dynamic) = DynamicRoutes(t) /\ DynamicRoutes(t) \subseteq DOMAIN t.routes
    BY DEF IsRouter, DynamicRoutes
  <2>2. \A k \in DOMAIN t.dynamic : t.dynamic[k] \in DynamicRoutes(t)
    BY <2>1 DEF ToSet
  <2>3. \A i \in DynamicRoutes(t) : \E k \in DOMAIN t.dynamic : t.dynamic[k] = i
    BY <2>1 DEF ToSet
  <2>4. \A k \in DOMAIN t.dynamic :
          k \in Matching(t, path) <=> t.dynamic[k] \in covers
    BY <1>1, <2>1, <2>2 DEF Matching
  <2>5. Matching(t, path) \subseteq DOMAIN t.dynamic
    BY DEF Matching
  <2> QED
    BY <2>2, <2>3, <2>4, <2>5
<1>6. Holding(t, path) = {k \in DOMAIN t.mounts : Holds(t.mounts[k], path)}
  <2>1. \A k \in DOMAIN t.mounts :
          AssetOf(t.mounts[k], path) # 0 <=> Holds(t.mounts[k], path)
    BY MountHolds DEF IsRouter
  <2> QED
    BY <2>1 DEF Holding
<1> QED
  BY <1>3, <1>4, <1>5, <1>6 DEF covers

(* The answer dispatch selects is the right one. *)
LEMMA SelectedRight ==
  ASSUME IsRouter(router), IsList(request.path), stage = "routed",
         routed = Select(router, request.method, request.path)
  PROVE  RoutedRight
<1> DEFINE t == router
           path == request.path
           method == request.method
           routes == t.routes
           covers == {i \in DOMAIN routes : Covers(routes[i].pattern, path)}
           D == DynamicRoutes(t)
           exact == ExactOf(t, path)
           match == Matching(t, path)
           hold == Holding(t, path)
           served == {x \in Methods : Serves(x, path)}
           fits == {i \in DOMAIN routes : /\ method \in routes[i].methods
                                          /\ Covers(routes[i].pattern, path)}
           static == {i \in fits : ~IsDynamic(routes[i].pattern)}
           byExact == {k \in DOMAIN exact : method \in routes[exact[k]].methods}
           byMatch == {k \in match : method \in routes[t.dynamic[k]].methods}
           assets == {k \in hold : method \in GetAndHead}
           allowed == Allowed(t, path)
<1>1. /\ Ascending(exact)
      /\ ToSet(exact) = covers \ D
      /\ {t.dynamic[k] : k \in match} = covers \cap D
      /\ hold = {k \in DOMAIN t.mounts : Holds(t.mounts[k], path)}
  BY FoundIsCovered
<1>2. /\ Ascending(t.dynamic) /\ match \subseteq DOMAIN t.dynamic
      /\ \A i \in DOMAIN routes : IsRoute(routes[i])
      /\ D = {i \in DOMAIN routes : IsDynamic(routes[i].pattern)}
  BY DEF IsRouter, Matching, DynamicRoutes
<1>3. \A i \in DOMAIN routes : routes[i].methods # {} /\ routes[i].methods \subseteq Methods
  BY <1>2 DEF IsRoute
<1>4. /\ fits = {i \in covers : method \in routes[i].methods}
      /\ static = fits \ D /\ covers \subseteq DOMAIN routes
  BY <1>2
<1>5. DOMAIN t.mounts \subseteq Nat
  BY LenProperties DEF IsRouter
<1>6. /\ {exact[k] : k \in byExact} = static
      /\ byExact \in SUBSET DOMAIN exact
  <2> HIDE DEF exact, covers, D, fits, static
  <2>1. {exact[k] : k \in DOMAIN exact} = covers \ D
    BY <1>1 DEF ToSet
  <2> QED
    BY <1>4, <2>1
<1>7. /\ {t.dynamic[k] : k \in byMatch} = fits \cap D
      /\ byMatch \in SUBSET DOMAIN t.dynamic
  <2> HIDE DEF match, covers, D, fits
  <2> QED
    BY <1>1, <1>2, <1>4
<1>8. served = allowed
  <2>1. \A x : Serves(x, path) <=>
          \/ \E i \in covers : x \in routes[i].methods
          \/ x \in GetAndHead /\ hold # {}
    BY <1>1 DEF Serves
  <2>2. allowed = {x \in GetAndHead : hold # {}}
          \cup UNION {routes[i].methods : i \in (covers \ D) \cup (covers \cap D)}
    BY <1>1 DEF Allowed
  <2> HIDE DEF covers, hold, D, allowed
  <2>3. (covers \ D) \cup (covers \cap D) = covers
    OBVIOUS
  <2>4. GetAndHead \subseteq Methods
    BY DEF GetAndHead, Methods
  <2> DEFINE held == {x \in GetAndHead : hold # {}}
             Union(I) == UNION {routes[i].methods : i \in I}
             all == Union(covers)
  <2>5. allowed = held \cup all
    <3>1. allowed = held \cup Union((covers \ D) \cup (covers \cap D))
      BY <2>2
    <3> HIDE DEF held, Union
    <3> QED
      BY <2>3, <3>1
  <2>6. ASSUME NEW x
        PROVE  /\ x \in all <=> \E i \in covers : x \in routes[i].methods
               /\ x \in held <=> x \in GetAndHead /\ hold # {}
    OBVIOUS
  <2> HIDE DEF held, Union
  <2>7. ASSUME NEW x PROVE x \in allowed <=> x \in Methods /\ Serves(x, path)
    <3>1. x \in allowed <=> x \in all \/ x \in held
      BY <2>5
    <3>2. (\E i \in covers : x \in routes[i].methods) => x \in Methods
      BY <1>3, <1>4
    <3> QED
      BY <2>1, <2>4, <2>6, <3>1, <3>2
  <2> QED
    BY <2>7
<1>9. routed =
         IF byExact # {} THEN Answer("route", exact[Min(byExact)], <<>>, {})
         ELSE IF byMatch # {}
         THEN Answer("route", t.dynamic[Min(byMatch)],
                     CapturesOf(routes[t.dynamic[Min(byMatch)]], path), {})
         ELSE IF assets # {} THEN Answer("asset", Min(assets), <<>>, {})
         ELSE IF allowed # {} THEN Answer("not allowed", 0, <<>>, allowed)
         ELSE IF t.fallback THEN Answer("fallback", 0, <<>>, {})
         ELSE Answer("not found", 0, <<>>, {})
  BY DEF Select
<1>10. RoutedRight <=>
         CASE routed.by = "route" ->
                /\ routed.index \in fits
                /\ \A i \in IF static # {} THEN static ELSE fits : routed.index <= i
                /\ static # {} => routed.index \in static
                /\ ToSet(routed.captures) =
                     {[name |-> routes[routed.index].pattern[i].text,
                       value |-> path[i]] :
                        i \in {j \in DOMAIN routes[routed.index].pattern :
                                 routes[routed.index].pattern[j].shape = "capture"}}
           [] routed.by = "asset" ->
                /\ fits = {} /\ method \in served
                /\ Holds(t.mounts[routed.index], path)
           [] routed.by = "not allowed" ->
                method \notin served /\ routed.methods = served
           [] OTHER -> served = {}
  BY DEF RoutedRight
<1> HIDE DEF t, path, method, routes, covers, D, exact, match, hold, served, fits,
             static, byExact, byMatch, assets, allowed
<1>11. CASE byExact # {}
  <2> DEFINE i == exact[Min(byExact)]
  <2>1. routed = Answer("route", i, <<>>, {})
    BY <1>9, <1>11
  <2>2. i \in static /\ \A j \in static : i <= j
    BY <1>1, <1>6, <1>11, FirstHoldsLeast
  <2> HIDE DEF i
  <2>3. routed.by = "route" /\ routed.index = i /\ routed.captures = <<>>
    BY <2>1 DEF Answer
  <2>4. i \in fits /\ i \notin D /\ i \in DOMAIN routes
    BY <1>4, <2>2
  <2>5. ToSet(<<>>) = {}
    BY DEF ToSet
  <2>6. {j \in DOMAIN routes[i].pattern : routes[i].pattern[j].shape = "capture"} = {}
    <3> DEFINE p == routes[i].pattern
    <3>1. IsPattern(p) /\ IsValidRoutePattern(p) /\ ~IsDynamic(p)
      BY <1>2, <2>4 DEF IsRoute
    <3> HIDE DEF p
    <3>2. DOMAIN p = 1..Len(p) /\ \A j \in 1..Len(p) : p[j].shape = "plain"
      BY <3>1, Pieces, Compiled
    <3>3. {j \in DOMAIN p : p[j].shape = "capture"} = {}
      BY <3>2
    <3> QED
      BY <3>3 DEF p
  <2> QED
    BY <1>10, <2>2, <2>3, <2>4, <2>5, <2>6
<1>12. CASE byExact = {} /\ byMatch # {}
  <2> DEFINE i == t.dynamic[Min(byMatch)]
             r == routes[i]
             p == r.pattern
  <2>1. routed = Answer("route", i, CapturesOf(r, path), {})
    BY <1>9, <1>12
  <2>2. i \in fits \cap D /\ \A j \in fits \cap D : i <= j
    BY <1>2, <1>7, <1>12, FirstHoldsLeast
  <2> HIDE DEF i
  <2>3. /\ routed.by = "route" /\ routed.index = i
        /\ routed.captures = CapturesOf(r, path)
    BY <2>1 DEF Answer
  <2>4. i \in fits /\ i \in D /\ i \in DOMAIN routes
    BY <1>4, <2>2
  <2>5. static = {} /\ fits \cap D = fits
    BY <1>4, <1>6, <1>12
  <2>6. ToSet(CapturesOf(r, path)) =
          {[name |-> p[k].text, value |-> path[k]] :
             k \in {j \in DOMAIN p : p[j].shape = "capture"}}
    <3>1. IsPattern(p) /\ IsValidRoutePattern(p) /\ IsDynamic(p)
          /\ r = Compile(r.methods, p)
      BY <1>2, <2>4 DEF IsRoute
    <3> HIDE DEF p
    <3>2. ToSet(CapturesOf(Compile(r.methods, p), path)) =
            {[name |-> p[k].text, value |-> path[k]] :
               k \in {j \in DOMAIN p : p[j].shape = "capture"}}
      BY <3>1, CapturesArePieces
    <3> HIDE DEF r
    <3> QED
      BY <3>1, <3>2
  <2> QED
    BY <1>10, <2>2, <2>3, <2>4, <2>5, <2>6
<1>13. byExact = {} /\ byMatch = {} => fits = {}
  BY <1>4, <1>6, <1>7
<1>14. CASE byExact = {} /\ byMatch = {} /\ assets # {}
  <2> DEFINE k == Min(assets)
  <2>1. routed = Answer("asset", k, <<>>, {})
    BY <1>9, <1>14
  <2>2. assets \in SUBSET Nat /\ assets \subseteq hold /\ method \in GetAndHead
    BY <1>1, <1>5, <1>14 DEF assets
  <2>3. k \in assets
    <3>1. \E x \in assets : \A y \in assets : x <= y
      BY <1>14, <2>2, Least
    <3> QED
      BY <3>1, Zenon DEF Min
  <2> HIDE DEF k
  <2>4. routed.by = "asset" /\ routed.index = k
    BY <2>1 DEF Answer
  <2>5. Holds(t.mounts[k], path)
    BY <1>1, <2>2, <2>3
  <2>6. method \in served
    <3>1. method \in Methods
      BY <2>2 DEF GetAndHead, Methods
    <3>2. Serves(method, path)
      BY <1>1, <2>2, <2>3, <2>5 DEF Serves, t
    <3> QED
      BY <3>1, <3>2 DEF served
  <2> QED
    BY <1>10, <1>13, <1>14, <2>4, <2>5, <2>6
<1>15. byExact = {} /\ byMatch = {} /\ assets = {} => method \notin served
  <2> SUFFICES ASSUME fits = {}, assets = {}, method \in served PROVE FALSE
    BY <1>13
  <2>1. Serves(method, path)
    BY DEF served
  <2>2. \/ \E i \in DOMAIN routes : /\ method \in routes[i].methods
                                    /\ Covers(routes[i].pattern, path)
        \/ method \in GetAndHead /\ \E i \in DOMAIN t.mounts : Holds(t.mounts[i], path)
    BY <2>1 DEF Serves, t, routes
  <2>3. ~\E i \in DOMAIN routes : /\ method \in routes[i].methods
                                  /\ Covers(routes[i].pattern, path)
    BY DEF fits
  <2> QED
    BY <1>1, <2>2, <2>3 DEF assets
<1>16. CASE byExact = {} /\ byMatch = {} /\ assets = {} /\ allowed # {}
  <2> DEFINE word == "not allowed"
  <2>1. routed = Answer(word, 0, <<>>, allowed)
    BY <1>9, <1>16
  <2> HIDE DEF word
  <2>2. routed.by = word /\ routed.methods = allowed
    BY <2>1 DEF Answer
  <2> USE DEF word
  <2> QED
    BY <1>8, <1>10, <1>15, <1>16, <2>2
<1>17. CASE byExact = {} /\ byMatch = {} /\ assets = {} /\ allowed = {}
  <2> DEFINE word == IF t.fallback THEN "fallback" ELSE "not found"
  <2>1. routed = Answer(word, 0, <<>>, {})
    BY <1>9, <1>17
  <2> HIDE DEF word
  <2>2. routed.by = word
    BY <2>1 DEF Answer
  <2> USE DEF word
  <2> QED
    BY <1>8, <1>10, <1>17, <2>2
<1> QED
  BY <1>11, <1>12, <1>14, <1>16, <1>17

(* A larger number at the end of an ascending list. *)
LEMMA Extended ==
  ASSUME NEW q, Ascending(q), NEW n \in Nat, \A i \in ToSet(q) : i < n
  PROVE  Ascending(Append(q, n)) /\ ToSet(Append(q, n)) = ToSet(q) \cup {n}
<1> DEFINE L == Len(q)
           r == Append(q, n)
<1>1. /\ q \in Seq(Nat) /\ DOMAIN q = 1..L /\ L \in Nat
      /\ \A i \in 1..L : q[i] \in Nat
  BY LenProperties, ElementOfSeq DEF Ascending
<1>2. /\ r \in Seq(Nat) /\ Len(r) = L + 1 /\ DOMAIN r = 1..(L + 1)
      /\ \A i \in 1..L : r[i] = q[i]
      /\ r[L + 1] = n
  BY <1>1, AppendProperties, LenProperties
<1>3. \A i \in 1..L : q[i] < n
  BY <1>1 DEF ToSet
<1>4. \A i, j \in 1..L : i < j => q[i] < q[j]
  BY DEF Ascending
<1> HIDE DEF L, r
<1>5. ASSUME NEW i \in 1..(L + 1), NEW j \in 1..(L + 1), i < j
      PROVE  r[i] < r[j]
  <2>1. i \in 1..L
    BY <1>1, <1>5
  <2>2. CASE j \in 1..L
    BY <1>2, <1>4, <1>5, <2>1, <2>2
  <2>3. CASE j = L + 1
    BY <1>2, <1>3, <2>1, <2>3
  <2> QED
    BY <1>1, <2>2, <2>3
<1>6. 1..(L + 1) = (1..L) \cup {L + 1}
  BY <1>1
<1>7. ToSet(r) = ToSet(q) \cup {n}
  <2>1. ToSet(r) = {r[i] : i \in 1..(L + 1)} /\ ToSet(q) = {q[i] : i \in 1..L}
    BY <1>1, <1>2 DEF ToSet
  <2> QED
    BY <1>1, <1>2, <1>6, <2>1
<1> QED
  BY <1>2, <1>5, <1>7 DEF Ascending, r

(* A list with one more element. *)
LEMMA Appended ==
  ASSUME NEW q, q \in Seq(ToSet(q)), NEW x
  PROVE  LET r == Append(q, x)
         IN  /\ r \in Seq(ToSet(r)) /\ DOMAIN q = 1..Len(q) /\ Len(q) \in Nat
             /\ DOMAIN r = (1..Len(q)) \cup {Len(q) + 1}
             /\ r[Len(q) + 1] = x /\ \A i \in 1..Len(q) : r[i] = q[i]
<1> DEFINE L == Len(q)
           S == ToSet(q) \cup {x}
           r == Append(q, x)
<1>1. DOMAIN q = 1..L /\ L \in Nat /\ \A i \in 1..L : q[i] \in ToSet(q)
  BY LenProperties, ElementOfSeq
<1>2. q \in Seq(S) /\ x \in S
  BY <1>1, SeqDef, IsASeq, LenProperties
<1>3. /\ r \in Seq(S) /\ Len(r) = L + 1 /\ DOMAIN r = 1..(L + 1)
      /\ r[L + 1] = x /\ \A i \in 1..L : r[i] = q[i]
  BY <1>2, AppendProperties, LenProperties
<1> HIDE DEF r, L, S
<1>4. 1..(L + 1) = (1..L) \cup {L + 1}
  BY <1>1
<1>5. r \in Seq(ToSet(r))
  <2>1. r = [i \in 1..(L + 1) |-> r[i]]
    BY <1>1, <1>3, LenProperties
  <2>2. \A i \in 1..(L + 1) : r[i] \in ToSet(r)
    BY <1>3 DEF ToSet
  <2> QED
    BY <1>1, <2>1, <2>2, IsASeq
<1> QED
  BY <1>1, <1>3, <1>4, <1>5 DEF L, r

LEMMA RouterStarts ==
  IsRouter(EmptyRouter)
<1> DEFINE t == EmptyRouter
<1>1. /\ DOMAIN t = {"routes", "exact", "dynamic", "mounts", "middleware", "fallback"}
      /\ t.routes = <<>> /\ DOMAIN t.exact = {} /\ t.dynamic = <<>> /\ t.mounts = <<>>
  BY DEF EmptyRouter
<1> HIDE DEF t
<1>2. DOMAIN <<>> = {} /\ ToSet(<<>>) = {} /\ <<>> \in Seq({}) /\ Ascending(<<>>)
  BY EmptySeq DEF ToSet, Ascending
<1>3. DynamicRoutes(t) = {}
  BY <1>1, <1>2 DEF DynamicRoutes
<1>4. IsRouter(t)
  BY <1>1, <1>2, <1>3 DEF IsRouter
<1> QED
  BY <1>4 DEF t

(* An accepted route is entered in the table it is looked up in, behind the *)
(* routes that were there before.                                           *)
LEMMA RouteEntered ==
  ASSUME NEW t, IsRouter(t), NEW p, IsPattern(p), NEW methods,
         methods \subseteq Methods, RouteAccepted(t, methods, p)
  PROVE  IsRouter(AddRoute(t, methods, p))
<1> DEFINE n == Len(t.routes) + 1
           N == Len(t.routes)
           c == Compile(methods, p)
           routes == Append(t.routes, c)
           key == Texts(p)
           earlier == IF key \in DOMAIN t.exact THEN t.exact[key] ELSE <<>>
           exact == [path \in DOMAIN t.exact \cup {key} |->
                       IF path = key THEN Append(earlier, n) ELSE t.exact[path]]
           u == AddRoute(t, methods, p)
           names == {"routes", "exact", "dynamic", "mounts", "middleware", "fallback"}
<1>1. methods # {} /\ IsValidRoutePattern(p)
  BY DEF RouteAccepted
<1>2. c.pattern = p /\ c.methods = methods
  BY <1>1, Compiled
<1>3. IsRoute(c)
  BY <1>1, <1>2 DEF IsRoute
<1>4. /\ t.routes \in Seq(ToSet(t.routes))
      /\ \A i \in DOMAIN t.routes : IsRoute(t.routes[i])
      /\ DOMAIN t = names
  BY DEF IsRouter
<1>5. /\ routes \in Seq(ToSet(routes)) /\ DOMAIN t.routes = 1..N /\ N \in Nat
      /\ DOMAIN routes = (1..N) \cup {n}
      /\ routes[n] = c /\ \A i \in 1..N : routes[i] = t.routes[i]
  BY <1>4, Appended
<1>6. n \in Nat /\ n \notin 1..N /\ \A i \in 1..N : i < n
  <2>1. N \in Nat /\ n = N + 1
    BY <1>5
  <2> HIDE DEF N, n
  <2> QED
    BY <2>1
<1>7. u = IF IsDynamic(p)
          THEN [t EXCEPT !.routes = routes, !.dynamic = Append(t.dynamic, n)]
          ELSE [t EXCEPT !.routes = routes, !.exact = exact]
  <2> HIDE DEF routes, exact, n
  <2>1. u = LET added == [t EXCEPT !.routes = routes]
            IN  IF IsDynamic(p)
                THEN [added EXCEPT !.dynamic = Append(added.dynamic, n)]
                ELSE [added EXCEPT !.exact = exact]
    BY <1>4 DEF AddRoute, routes, exact, n
  <2> DEFINE added == [t EXCEPT !.routes = routes]
  <2>2. added.dynamic = t.dynamic
    BY <1>4
  <2> QED
    BY <1>4, <2>1, <2>2
<1> HIDE DEF n, N, c, routes, u, exact
<1>8. /\ DOMAIN u = names /\ u.routes = routes /\ u.mounts = t.mounts
      /\ IsDynamic(p) => u.dynamic = Append(t.dynamic, n) /\ u.exact = t.exact
      /\ ~IsDynamic(p) => u.dynamic = t.dynamic /\ u.exact = exact
  BY <1>4, <1>7
<1>9. DynamicRoutes(u) = IF IsDynamic(p) THEN DynamicRoutes(t) \cup {n}
                         ELSE DynamicRoutes(t)
  BY <1>2, <1>5, <1>6, <1>8 DEF DynamicRoutes
<1>10. \A path : StaticAt(u, path) = IF ~IsDynamic(p) /\ key = path
                                     THEN StaticAt(t, path) \cup {n}
                                     ELSE StaticAt(t, path)
  <2> SUFFICES ASSUME NEW path
               PROVE  StaticAt(u, path) = IF ~IsDynamic(p) /\ key = path
                                          THEN StaticAt(t, path) \cup {n}
                                          ELSE StaticAt(t, path)
    OBVIOUS
  <2>1. \A i : i \in StaticAt(u, path) <=>
          \/ i \in 1..N /\ i \in StaticAt(t, path)
          \/ i = n /\ ~IsDynamic(p) /\ key = path
    BY <1>2, <1>5, <1>6, <1>8 DEF StaticAt
  <2>2. StaticAt(t, path) \subseteq 1..N
    BY <1>5 DEF StaticAt
  <2> QED
    BY <2>1, <2>2
<1>11. /\ u.routes \in Seq(ToSet(u.routes))
       /\ \A i \in DOMAIN u.routes : IsRoute(u.routes[i])
  BY <1>3, <1>4, <1>5, <1>8
<1>12. /\ DynamicRoutes(t) \subseteq 1..N /\ \A path : StaticAt(t, path) \subseteq 1..N
  BY <1>5 DEF DynamicRoutes, StaticAt
<1>13. Ascending(u.dynamic) /\ ToSet(u.dynamic) = DynamicRoutes(u)
  <2>1. Ascending(t.dynamic) /\ ToSet(t.dynamic) = DynamicRoutes(t)
    BY DEF IsRouter
  <2>2. Ascending(Append(t.dynamic, n))
        /\ ToSet(Append(t.dynamic, n)) = DynamicRoutes(t) \cup {n}
    BY <1>6, <1>12, <2>1, Extended
  <2> QED
    BY <1>8, <1>9, <2>1, <2>2
<1>14. ASSUME NEW path \in DOMAIN u.exact
       PROVE  Ascending(u.exact[path]) /\ ToSet(u.exact[path]) = StaticAt(u, path)
  <2>1. ASSUME path \in DOMAIN t.exact
        PROVE  /\ Ascending(t.exact[path])
               /\ ToSet(t.exact[path]) = StaticAt(t, path)
    BY <2>1 DEF IsRouter
  <2>2. CASE IsDynamic(p)
    BY <1>8, <1>10, <1>14, <2>1, <2>2
  <2>3. CASE ~IsDynamic(p) /\ path # key
    <3>1. path \in DOMAIN t.exact /\ u.exact[path] = t.exact[path]
      BY <1>8, <1>14, <2>3 DEF exact
    <3> QED
      BY <1>10, <2>1, <2>3, <3>1
  <2>4. CASE ~IsDynamic(p) /\ path = key
    <3>1. u.exact[path] = Append(earlier, n)
      BY <1>8, <1>14, <2>4 DEF exact
    <3>2. Ascending(earlier) /\ ToSet(earlier) = StaticAt(t, path)
      <4>1. CASE path \in DOMAIN t.exact
        BY <2>1, <2>4, <4>1
      <4>2. CASE path \notin DOMAIN t.exact
        <5>1. earlier = <<>>
          BY <2>4, <4>2
        <5>2. StaticAt(t, path) = {}
          BY <4>2 DEF IsRouter, StaticAt, DynamicRoutes
        <5>3. Ascending(<<>>) /\ ToSet(<<>>) = {}
          BY DEF Ascending, ToSet
        <5> QED
          BY <5>1, <5>2, <5>3
      <4> QED
        BY <4>1, <4>2
    <3> HIDE DEF earlier
    <3>3. Ascending(Append(earlier, n))
          /\ ToSet(Append(earlier, n)) = StaticAt(t, path) \cup {n}
      BY <1>6, <1>12, <3>2, Extended
    <3> QED
      BY <1>10, <2>4, <3>1, <3>3
  <2> QED
    BY <2>2, <2>3, <2>4
<1>15. ASSUME NEW i \in DOMAIN u.routes \ DynamicRoutes(u)
       PROVE  Texts(u.routes[i].pattern) \in DOMAIN u.exact
  <2>1. DOMAIN t.exact \subseteq DOMAIN u.exact
    BY <1>8 DEF exact
  <2>2. CASE i \in 1..N
    <3>1. Texts(t.routes[i].pattern) \in DOMAIN t.exact
      BY <1>5, <1>9, <1>15, <2>2 DEF IsRouter
    <3> QED
      BY <1>5, <1>8, <2>1, <2>2, <3>1
  <2>3. CASE i = n
    <3>1. ~IsDynamic(p)
      BY <1>9, <1>15, <2>3
    <3>2. key \in DOMAIN u.exact
      BY <1>8, <3>1 DEF exact
    <3> QED
      BY <1>2, <1>5, <1>8, <2>3, <3>2
  <2> QED
    BY <1>5, <1>8, <2>2, <2>3
<1>16. IsRouter(u)
  BY <1>8, <1>11, <1>13, <1>14, <1>15 DEF IsRouter
<1> QED
  BY <1>16 DEF u

(* So is an accepted mount, with its prefix cut at the trailing slash. *)
LEMMA MountEntered ==
  ASSUME NEW t, IsRouter(t), NEW p, IsPattern(p), MountAccepted(p),
         NEW b, IsBundle(b)
  PROVE  IsRouter(AddMount(t, p, b))
<1> DEFINE texts == Texts(p)
           kept == IF texts[Len(texts)] = "" THEN Front(texts) ELSE texts
           mount == [prefix |-> kept, bundle |-> b]
           mounts == Append(t.mounts, mount)
           u == [t EXCEPT !.mounts = mounts]
           names == {"routes", "exact", "dynamic", "mounts", "middleware", "fallback"}
<1>1. IsValidRoutePattern(p)
  BY DEF MountAccepted
<1>2. Len(p) \in Nat \ {0} /\ DOMAIN p = 1..Len(p)
  BY <1>1, Pieces
<1>3. IsList(kept)
  <2> DEFINE L == Len(p)
             T == ToSet(texts)
  <2>1. /\ texts = [i \in 1..L |-> p[i].text] /\ DOMAIN texts = 1..L
    BY <1>2 DEF Texts
  <2> HIDE DEF L
  <2>2. L \in Nat \ {0} /\ L \in Nat
    BY <1>2 DEF L
  <2>3. texts = [i \in 1..L |-> texts[i]] /\ \A i \in 1..L : texts[i] \in T
    BY <2>1 DEF ToSet
  <2> HIDE DEF texts, T
  <2>4. texts \in Seq(T) /\ Len(texts) = L
    BY <2>2, <2>3, IsASeq, LenProperties
  <2>5. IsList(texts)
    BY <2>4 DEF IsList, T
  <2>6. IsList(Front(texts))
    <3> DEFINE f == Front(texts)
    <3>1. f = SubSeq(texts, 1, L - 1) /\ L - 1 \in 0..L
      BY <2>2, <2>4 DEF Front
    <3>2. f \in Seq(T)
      BY <2>4, <3>1, Cut
    <3> HIDE DEF f
    <3>3. /\ f = [i \in 1..Len(f) |-> f[i]] /\ Len(f) \in Nat
          /\ \A i \in 1..Len(f) : f[i] \in ToSet(f)
      BY <3>2, LenProperties DEF ToSet
    <3>4. f \in Seq(ToSet(f))
      BY <3>3, IsASeq
    <3> QED
      BY <3>4 DEF IsList, f
  <2> QED
    BY <2>5, <2>6
<1> HIDE DEF texts, kept
<1>4. mount.prefix = kept /\ mount.bundle = b
  OBVIOUS
<1> HIDE DEF mount
<1>5. t.mounts \in Seq(ToSet(t.mounts)) /\ DOMAIN t = names
  BY DEF IsRouter
<1>6. /\ mounts \in Seq(ToSet(mounts)) /\ DOMAIN t.mounts = 1..Len(t.mounts)
      /\ DOMAIN mounts = (1..Len(t.mounts)) \cup {Len(t.mounts) + 1}
      /\ mounts[Len(t.mounts) + 1] = mount
      /\ \A i \in 1..Len(t.mounts) : mounts[i] = t.mounts[i]
  BY <1>5, Appended
<1> HIDE DEF mounts
<1>7. \A k \in DOMAIN mounts : IsList(mounts[k].prefix) /\ IsBundle(mounts[k].bundle)
  BY <1>3, <1>4, <1>6 DEF IsRouter
<1>8. /\ DOMAIN u = names /\ u.mounts = mounts /\ u.routes = t.routes
      /\ u.exact = t.exact /\ u.dynamic = t.dynamic
  BY <1>5
<1>9. u = AddMount(t, p, b)
  BY <1>5 DEF AddMount, mounts, mount, kept, texts
<1> HIDE DEF u
<1>10. DynamicRoutes(u) = DynamicRoutes(t) /\ \A path : StaticAt(u, path) = StaticAt(t, path)
  BY <1>8 DEF DynamicRoutes, StaticAt
<1>11. IsRouter(u)
  BY <1>6, <1>7, <1>8, <1>10 DEF IsRouter
<1> QED
  BY <1>9, <1>11

-----------------------------------------------------------------------------
(* The router: dispatch *)

(* While a request is on its way to its answer, the tables of the router are *)
(* in order, its path is one, and the answer is the one dispatch selects.    *)
Routing ==
  /\ IsRouter(router)
  /\ stage \in {"registering", "middleware", "routed"} => IsList(request.path)
  /\ stage = "routed" => routed = Select(router, request.method, request.path)

(* The request that is adopted has a path. *)
LEMMA AdoptedPath ==
  ASSUME NEW m, IsMessage(m), NEW n, NEW base,
         Parse(FreshParser, m, n, base).kind = "request"
  PROVE  IsList([Parse(FreshParser, m, n, base).request
                   EXCEPT !.views = NoViews].path)
<1> DEFINE out == Parse(FreshParser, m, n, base)
           q == ParseHead(m, base)
           r == RequestOf(m, base)
           views == r.views @@ [v \in {<<"body", 0>>} |-> base]
           fields == {"method", "path", "authority", "parameters", "keepAlive",
                      "wantsGzip", "namesCodings", "condition", "views"}
<1>1. out = Accepted(q, base)
  <2>1. CASE HeadError(m, n) = "NeedsMoreData"
    <3>1. out = Outcome("more", FreshParser, "NeedsMoreData")
      BY <2>1, FreshOutcome
    <3> HIDE DEF out
    <3>2. out.kind = "more"
      BY <3>1 DEF Outcome
    <3> QED
      BY <3>2 DEF out
  <2>2. CASE HeadError(m, n) \notin {"NeedsMoreData", "none"}
    <3>1. out = Outcome("error", FreshParser, HeadError(m, n))
      BY <2>2, FreshOutcome
    <3> HIDE DEF out
    <3>2. out.kind = "error"
      BY <3>1 DEF Outcome
    <3> QED
      BY <3>2 DEF out
  <2>3. CASE HeadError(m, n) = "none"
    <3>1. out = Accepted(q, base) \/ out = Outcome("more", q, "NeedsMoreData")
      BY <2>3, FreshOutcome
    <3> HIDE DEF out, q
    <3>2. out = Outcome("more", q, "NeedsMoreData") => out.kind = "more"
      BY DEF Outcome
    <3>3. out.kind = "request"
      BY DEF out
    <3> QED
      BY <3>1, <3>2, <3>3
  <2> QED
    BY <2>1, <2>2, <2>3
<1>2. q.request = r
  BY DEF ParseHead
<1>3. DOMAIN r = fields /\ r.path = Path(m.line.target)
  BY DEF RequestOf
<1> HIDE DEF out, q, r, views
<1>4. out.request = [r EXCEPT !.views = views]
  BY <1>1, <1>2 DEF Accepted, views
<1>5. DOMAIN out.request = fields /\ out.request.path = Path(m.line.target)
  BY <1>3, <1>4
<1>6. [out.request EXCEPT !.views = NoViews].path = Path(m.line.target)
  BY <1>5
<1>7. IsList(Path(m.line.target))
  <2>1. CASE m.line.target.path = <<>>
    <3> DEFINE root == ""
    <3>1. Path(m.line.target) = <<root>>
      BY <2>1 DEF Path
    <3> HIDE DEF root
    <3>2. ToSet(<<root>>) = {root} /\ <<root>> \in Seq({root})
      BY DEF ToSet
    <3> QED
      BY <3>1, <3>2 DEF IsList
  <2>2. CASE m.line.target.path # <<>>
    BY <2>2 DEF Path, IsList, IsMessage
  <2> QED
    BY <2>1, <2>2
<1> QED
  BY <1>6, <1>7 DEF out

LEMMA RoutingKept ==
  Afresh /\ Routing /\ [Next]_vars => Routing'
<1> SUFFICES ASSUME Afresh, Routing, [Next]_vars
             PROVE  Routing'
  OBVIOUS
<1>1. CASE UNCHANGED vars
  BY <1>1 DEF Routing, vars
<1>2. CASE Receive \/ RejectRequest \/ RequestTimeout \/ CloseEarly
  BY <1>2 DEF Routing, Receive, RejectRequest, RequestTimeout, CloseEarly,
              SerializeError, routing
<1>3. CASE Adopt
  <2> DEFINE m == input.message
             out == Parse(FreshParser, m, input.bytes, input.base)
  <2>1. /\ result = out /\ m \in Messages /\ result.kind = "request"
        /\ request' = [result.request EXCEPT !.views = NoViews]
        /\ router' = router /\ stage' = "registering"
    BY <1>3 DEF Adopt, Afresh, routing
  <2>2. IsMessage(m) /\ out.kind = "request"
    BY <2>1, PathAssumption
  <2>3. IsList([out.request EXCEPT !.views = NoViews].path)
    BY <2>2, AdoptedPath
  <2> HIDE DEF out
  <2>4. IsList(request'.path)
    BY <2>1, <2>3
  <2> QED
    BY <2>1, <2>4 DEF Routing
<1>4. CASE RegisterRoute \/ RegisterMount \/ RegisterMiddleware \/ RegisterFallback
  <2>1. PICK t : Register(t) /\ IsRouter(t)
    <3>1. CASE RegisterRoute
      <4>1. PICK methods \in MethodSets, pattern \in Patterns :
              /\ RouteAccepted(router, methods, pattern)
              /\ Register(AddRoute(router, methods, pattern))
        BY <3>1 DEF RegisterRoute
      <4>2. IsPattern(pattern) /\ methods \subseteq Methods /\ IsRouter(router)
        BY PathAssumption DEF Routing
      <4> QED
        BY <4>1, <4>2, RouteEntered
    <3>2. CASE RegisterMount
      <4>1. PICK prefix \in MountPrefixes, bundle \in Bundles :
              MountAccepted(prefix) /\ Register(AddMount(router, prefix, bundle))
        BY <3>2 DEF RegisterMount
      <4>2. IsPattern(prefix) /\ IsBundle(bundle) /\ IsRouter(router)
        BY PathAssumption DEF Routing
      <4> QED
        BY <4>1, <4>2, MountEntered
    <3>3. CASE RegisterMiddleware \/ RegisterFallback
      <4> DEFINE names == {"routes", "exact", "dynamic", "mounts", "middleware",
                           "fallback"}
      <4>1. IsRouter(router) /\ DOMAIN router = names
        BY DEF Routing, IsRouter
      <4>2. PICK t : /\ Register(t) /\ DOMAIN t = names
                     /\ t.routes = router.routes /\ t.exact = router.exact
                     /\ t.dynamic = router.dynamic /\ t.mounts = router.mounts
        <5>1. CASE RegisterMiddleware
          <6> DEFINE t == [router EXCEPT !.middleware = @ + 1]
          <6>1. Register(t)
            BY <5>1 DEF RegisterMiddleware
          <6>2. /\ DOMAIN t = names
                /\ t.routes = router.routes /\ t.exact = router.exact
                /\ t.dynamic = router.dynamic /\ t.mounts = router.mounts
            BY <4>1
          <6> HIDE DEF t
          <6> QED
            BY <6>1, <6>2
        <5>2. CASE RegisterFallback
          <6> DEFINE t == [router EXCEPT !.fallback = TRUE]
          <6>1. Register(t)
            BY <5>2 DEF RegisterFallback
          <6>2. /\ DOMAIN t = names
                /\ t.routes = router.routes /\ t.exact = router.exact
                /\ t.dynamic = router.dynamic /\ t.mounts = router.mounts
            BY <4>1
          <6> HIDE DEF t
          <6> QED
            BY <6>1, <6>2
        <5> QED
          BY <3>3, <5>1, <5>2
      <4>3. /\ DynamicRoutes(t) = DynamicRoutes(router)
            /\ \A path : StaticAt(t, path) = StaticAt(router, path)
        BY <4>2 DEF DynamicRoutes, StaticAt
      <4>4. IsRouter(t)
        BY <4>1, <4>2, <4>3 DEF IsRouter
      <4> QED
        BY <4>2, <4>4
    <3> QED
      BY <1>4, <3>1, <3>2, <3>3
  <2> QED
    BY <2>1 DEF Routing, Register
<1>5. CASE StartDispatch \/ MiddlewarePasses \/ SelectAnswer
  BY <1>5 DEF Routing, StartDispatch, MiddlewarePasses, SelectAnswer
<1>6. CASE CallHandler \/ HandlerAnswers \/ AssetAnswers \/ RouterRefuses
  <2>1. router' = EmptyRouter /\ stage' \in {"handling", "answered"}
    BY <1>6 DEF CallHandler, HandlerAnswers, AssetAnswers, RouterRefuses,
                Returned, Dispatched, LeaveRouter
  <2> QED
    BY <2>1, RouterStarts DEF Routing
<1>7. CASE SetField \/ Serialize \/ StartWrite \/ Write \/ Finished
  <2>1. \/ router' = router /\ stage' \notin {"registering", "middleware", "routed"}
        \/ UNCHANGED vars
    BY <1>7 DEF SetField, Serialize, StartWrite, Write, Finished, routing
  <2> QED
    BY <1>1, <2>1 DEF Routing
<1> QED
  BY <1>1, <1>2, <1>3, <1>4, <1>5, <1>6, <1>7 DEF Next

(* Router::dispatch finds what was registered, whatever is registered and in *)
(* whatever order: the right route with the right captures, an asset, 405    *)
(* with exactly the methods the path is served for, or 404 and the fallback  *)
(* for a path nothing is registered for.                                     *)
THEOREM DispatchFinds ==
  Spec => []RoutedRight
<1>1. Init => Afresh /\ Routing
  BY AfreshStarts, RouterStarts DEF Init, Routing
<1>2. Afresh /\ Routing /\ [Next]_vars => (Afresh /\ Routing)'
  BY AfreshKept, RoutingKept
<1>3. Routing => RoutedRight
  <2>1. CASE stage = "routed"
    BY <2>1, SelectedRight DEF Routing
  <2>2. CASE stage # "routed"
    BY <2>2 DEF RoutedRight
  <2> QED
    BY <2>1, <2>2
<1> QED
  BY <1>1, <1>2, <1>3, PTL DEF Spec
=============================================================================
