--------------------------- MODULE ResponseProofs ---------------------------
(***************************************************************************)
(* What the head of a response says of its bytes, for every response that  *)
(* handlers build with any number of header() calls, every request and     *)
(* every outcome of the compression.                                       *)
(***************************************************************************)
EXTENDS RequestPath, SequenceFacts, FiniteSetTheorems

(* No field occurs twice in a list of header lines, but for an empty       *)
(* Content-Encoding beside the encoder's own.                              *)
OnePerName(q) ==
  \A i, j \in DOMAIN q :
    q[i].field = q[j].field => i = j \/ CodedTwice(q[i], q[j])

-----------------------------------------------------------------------------
(* Lists of header lines *)

(* Two lists without a common name, one behind the other. *)
LEMMA Joined ==
  ASSUME NEW S, NEW a \in Seq(S), NEW b \in Seq(S),
         OnePerName(a), OnePerName(b),
         \A x \in ToSet(a), y \in ToSet(b) : x.field # y.field \/ CodedTwice(x, y)
  PROVE  /\ a \o b \in Seq(S) /\ OnePerName(a \o b)
         /\ ToSet(a \o b) = ToSet(a) \cup ToSet(b)
<1> DEFINE ab == a \o b
           n == Len(a)
           k == Len(b)
<1>1. /\ ab \in Seq(S) /\ Len(ab) = n + k
      /\ \A i \in 1..(n + k) : ab[i] = IF i <= n THEN a[i] ELSE b[i - n]
  BY ConcatProperties
<1>2. /\ n \in Nat /\ k \in Nat /\ DOMAIN a = 1..n /\ DOMAIN b = 1..k
      /\ DOMAIN ab = 1..(n + k)
  BY <1>1, LenProperties
<1> HIDE DEF ab, n, k
<1>0. \A x, y : CodedTwice(x, y) => CodedTwice(y, x)
  BY DEF CodedTwice
<1>3. ASSUME NEW i \in 1..(n + k), NEW j \in 1..(n + k), ab[i].field = ab[j].field
      PROVE  i = j \/ CodedTwice(ab[i], ab[j])
  <2>1. CASE i <= n /\ j <= n
    <3>1. ab[i] = a[i] /\ ab[j] = a[j] /\ i \in 1..n /\ j \in 1..n
      BY <1>1, <1>2, <2>1
    <3> QED
      BY <1>2, <1>3, <3>1 DEF OnePerName
  <2>2. CASE i <= n /\ j > n
    <3>1. ab[i] = a[i] /\ ab[j] = b[j - n] /\ i \in 1..n /\ j - n \in 1..k
      BY <1>1, <1>2, <2>2
    <3> QED
      BY <1>2, <1>3, <3>1 DEF ToSet
  <2>3. CASE i > n /\ j <= n
    <3>1. ab[i] = b[i - n] /\ ab[j] = a[j] /\ i - n \in 1..k /\ j \in 1..n
      BY <1>1, <1>2, <2>3
    <3> QED
      BY <1>0, <1>2, <1>3, <3>1 DEF ToSet
  <2>4. CASE i > n /\ j > n
    <3>1. ab[i] = b[i - n] /\ ab[j] = b[j - n] /\ i - n \in 1..k /\ j - n \in 1..k
      BY <1>1, <1>2, <2>4
    <3>2. i - n = j - n \/ CodedTwice(b[i - n], b[j - n])
      BY <1>2, <1>3, <3>1 DEF OnePerName
    <3> QED
      BY <1>2, <3>1, <3>2
  <2> QED
    BY <1>2, <2>1, <2>2, <2>3, <2>4
<1>4. OnePerName(ab)
  BY <1>2, <1>3 DEF OnePerName
<1>5. ASSUME NEW x \in ToSet(ab)
      PROVE  x \in ToSet(a) \cup ToSet(b)
  <2>1. PICK i \in 1..(n + k) : x = ab[i]
    BY <1>2 DEF ToSet
  <2>2. CASE i <= n
    <3>1. ab[i] = a[i] /\ i \in 1..n
      BY <1>1, <1>2, <2>2
    <3> QED
      BY <1>2, <2>1, <3>1 DEF ToSet
  <2>3. CASE i > n
    <3>1. ab[i] = b[i - n] /\ i - n \in 1..k
      BY <1>1, <1>2, <2>3
    <3> QED
      BY <1>2, <2>1, <3>1 DEF ToSet
  <2> QED
    BY <1>2, <2>2, <2>3
<1>6. ASSUME NEW x \in ToSet(a)
      PROVE  x \in ToSet(ab)
  <2>1. PICK i \in 1..n : x = a[i]
    BY <1>2 DEF ToSet
  <2>2. i \in 1..(n + k) /\ ab[i] = a[i]
    BY <1>1, <1>2
  <2> QED
    BY <1>2, <2>1, <2>2 DEF ToSet
<1>7. ASSUME NEW x \in ToSet(b)
      PROVE  x \in ToSet(ab)
  <2>1. PICK i \in 1..k : x = b[i]
    BY <1>2 DEF ToSet
  <2>2. n + i \in 1..(n + k) /\ ab[n + i] = b[i]
    BY <1>1, <1>2
  <2> QED
    BY <1>2, <2>1, <2>2 DEF ToSet
<1>8. ToSet(ab) = ToSet(a) \cup ToSet(b)
  BY <1>5, <1>6, <1>7
<1> QED
  BY <1>1, <1>4, <1>8 DEF ab

(* A list of one line or none. *)
LEMMA Alone ==
  ASSUME NEW S, NEW l \in S
  PROVE  /\ <<l>> \in Seq(S) /\ OnePerName(<<l>>) /\ ToSet(<<l>>) = {l}
         /\ <<>> \in Seq(S) /\ OnePerName(<<>>) /\ ToSet(<<>>) = {}
BY DEF OnePerName, ToSet

(* The line of a name is the one a reader of the list finds. *)
LEMMA Found ==
  ASSUME NEW q, OnePerName(q), NEW l \in ToSet(q), l.field # "content-encoding"
  PROVE  LET named == {i \in DOMAIN q : q[i].field = l.field}
         IN  /\ named # {}
             /\ q[CHOOSE i \in named : TRUE].value = l.value
<1> DEFINE named == {i \in DOMAIN q : q[i].field = l.field}
           c == CHOOSE i \in named : TRUE
<1>1. PICK k \in DOMAIN q : q[k] = l
  BY DEF ToSet
<1>2. k \in named
  BY <1>1
<1>3. c \in named
  BY <1>2
<1>4. \A y : ~CodedTwice(l, y)
  BY DEF CodedTwice, Line
<1>5. c = k
  BY <1>1, <1>3, <1>4 DEF OnePerName
<1> QED
  BY <1>1, <1>2, <1>5

(* SetToSeq lists a finite set. *)
LEMMA Listing ==
  ASSUME NEW T, IsFiniteSet(T)
  PROVE  LET q == SetToSeq(T)
         IN  /\ q \in Seq(T) /\ ToSet(q) = T
             /\ \A i, j \in DOMAIN q : q[i] = q[j] => i = j
<1> DEFINE n == Cardinality(T)
           q == SetToSeq(T)
<1>1. n \in Nat
  BY FS_CardinalityType
<1>2. \E f \in [1..n -> T] : IsInjective(f)
  <2>1. PICK f : f \in Bijection(1..n, T)
    BY FS_CardinalityType DEF ExistsBijection
  <2> QED
    BY <2>1 DEF Bijection, Injection
<1>3. q \in [1..n -> T] /\ IsInjective(q)
  BY <1>2 DEF SetToSeq
<1> HIDE DEF q, n
<1>4. IsFiniteSet(1..n) /\ Cardinality(1..n) = n
  BY <1>1, FS_Interval
<1>5. q \in Surjection(1..n, T)
  <2>1. q \in Injection(1..n, T)
    BY <1>3 DEF Injection
  <2> QED
    BY <1>4, <2>1, FS_Injection DEF n
<1>6. \A t \in T : \E i \in 1..n : q[i] = t
  BY <1>5 DEF Surjection
<1>7. q \in Seq(T) /\ DOMAIN q = 1..n
  BY <1>1, <1>3
<1>8. ToSet(q) = T
  BY <1>3, <1>6, <1>7 DEF ToSet
<1> QED
  BY <1>3, <1>7, <1>8 DEF IsInjective, q

-----------------------------------------------------------------------------
(* The lines of the encoder *)

DefaultLines ==
  {Line("date", <<"now">>), Line("server", <<"name">>),
   Line("cache-control", <<"no-store">>),
   Line("x-content-type-options", <<"nosniff">>),
   Line("referrer-policy", <<"no-referrer">>),
   Line("content-security-policy", <<"policy">>),
   Line("strict-transport-security", <<"max-age">>)}

(* A list that has at most the given line, and no line whose name the      *)
(* handler has set.                                                        *)
AtMost(q, S, r, l) ==
  /\ q \in Seq(S) /\ OnePerName(q)
  /\ ToSet(q) \subseteq {l}
  /\ \A x \in ToSet(q) : ~HasHeader(r, x.field)

(* A default line is added unless the handler has set its name. *)
LEMMA Default ==
  ASSUME NEW S, NEW r, NEW name, NEW value, Line(name, value) \in S,
         NEW applies \in BOOLEAN
  PROVE  AtMost(IF applies /\ ~HasHeader(r, name)
                THEN <<Line(name, value)>> ELSE <<>>,
                S, r, Line(name, value))
<1> DEFINE l == Line(name, value)
<1>1. l.field = name
  BY DEF Line
<1>2. /\ <<l>> \in Seq(S) /\ OnePerName(<<l>>) /\ ToSet(<<l>>) = {l}
      /\ <<>> \in Seq(S) /\ OnePerName(<<>>) /\ ToSet(<<>>) = {}
  BY Alone
<1> HIDE DEF l
<1>3. CASE applies /\ ~HasHeader(r, name)
  BY <1>1, <1>2, <1>3 DEF AtMost, l
<1>4. CASE ~(applies /\ ~HasHeader(r, name))
  BY <1>2, <1>4 DEF AtMost, l
<1> QED
  BY <1>3, <1>4

(* The default lines: none has a name that the handler has set, and none   *)
(* occurs twice.                                                           *)
LEMMA Defaults ==
  ASSUME NEW S, DefaultLines \subseteq S, NEW r, NEW options
  PROVE  LET q == DefaultFields(r, options)
         IN  /\ q \in Seq(S) /\ OnePerName(q)
             /\ ToSet(q) \subseteq DefaultLines
             /\ \A x \in ToSet(q) : ~HasHeader(r, x.field)
<1> DEFINE one(name, value, applies) ==
             IF applies /\ ~HasHeader(r, name) THEN <<Line(name, value)>> ELSE <<>>
           html == \E t \in ToSet(HeaderValue(r, "content-type")) : t = "text/html"
           d1 == one("date", <<"now">>, TRUE)
           d2 == one("server", <<"name">>, options.server)
           d3 == one("cache-control", <<"no-store">>, TRUE)
           d4 == one("x-content-type-options", <<"nosniff">>, TRUE)
           d5 == one("referrer-policy", <<"no-referrer">>, TRUE)
           d6 == one("content-security-policy", <<"policy">>, html)
           d7 == one("strict-transport-security", <<"max-age">>, options.secure)
           l1 == Line("date", <<"now">>)
           l2 == Line("server", <<"name">>)
           l3 == Line("cache-control", <<"no-store">>)
           l4 == Line("x-content-type-options", <<"nosniff">>)
           l5 == Line("referrer-policy", <<"no-referrer">>)
           l6 == Line("content-security-policy", <<"policy">>)
           l7 == Line("strict-transport-security", <<"max-age">>)
<1>1. DefaultFields(r, options) = d1 \o d2 \o d3 \o d4 \o d5 \o d6 \o d7
  BY DEF DefaultFields
<1>2. /\ l1 \in S /\ l2 \in S /\ l3 \in S /\ l4 \in S /\ l5 \in S /\ l6 \in S /\ l7 \in S
      /\ DefaultLines = {l1, l2, l3, l4, l5, l6, l7}
  BY DEF DefaultLines
<1>3. /\ l1.field = "date" /\ l2.field = "server" /\ l3.field = "cache-control"
      /\ l4.field = "x-content-type-options" /\ l5.field = "referrer-policy"
      /\ l6.field = "content-security-policy"
      /\ l7.field = "strict-transport-security"
  BY DEF Line
<1>4. /\ AtMost(d1, S, r, l1) /\ AtMost(d3, S, r, l3)
      /\ AtMost(d4, S, r, l4) /\ AtMost(d5, S, r, l5)
  BY <1>2, Default
<1>5. AtMost(d6, S, r, l6)
  <2>1. html \in BOOLEAN
    OBVIOUS
  <2> HIDE DEF html
  <2> QED
    BY <1>2, <2>1, Default
<1>6. AtMost(d2, S, r, l2) /\ AtMost(d7, S, r, l7)
  BY <1>2, Default
<1> HIDE DEF d1, d2, d3, d4, d5, d6, d7, l1, l2, l3, l4, l5, l6, l7
<1> DEFINE Good(q, L) == /\ q \in Seq(S) /\ OnePerName(q) /\ ToSet(q) \subseteq L
                         /\ \A x \in ToSet(q) : ~HasHeader(r, x.field)
<1>7. ASSUME NEW q, NEW L, NEW d, NEW l, Good(q, L), AtMost(d, S, r, l),
             \A x \in L : x.field # l.field
      PROVE  Good(q \o d, L \cup {l})
  <2>1. \A x \in ToSet(q), y \in ToSet(d) : x.field # y.field
    BY <1>7 DEF AtMost
  <2>2. /\ q \o d \in Seq(S) /\ OnePerName(q \o d)
        /\ ToSet(q \o d) = ToSet(q) \cup ToSet(d)
    BY <1>7, <2>1, Joined DEF AtMost
  <2> QED
    BY <1>7, <2>2 DEF AtMost
<1>8. Good(d1, {l1})
  BY <1>4 DEF AtMost
<1> HIDE DEF Good
<1>9. Good(d1 \o d2, {l1} \cup {l2})
  BY <1>3, <1>6, <1>7, <1>8
<1>10. Good(d1 \o d2 \o d3, {l1} \cup {l2} \cup {l3})
  BY <1>3, <1>4, <1>7, <1>9
<1>11. Good(d1 \o d2 \o d3 \o d4, {l1} \cup {l2} \cup {l3} \cup {l4})
  BY <1>3, <1>4, <1>7, <1>10
<1>12. Good(d1 \o d2 \o d3 \o d4 \o d5, {l1} \cup {l2} \cup {l3} \cup {l4} \cup {l5})
  BY <1>3, <1>4, <1>7, <1>11
<1>13. Good(d1 \o d2 \o d3 \o d4 \o d5 \o d6,
            {l1} \cup {l2} \cup {l3} \cup {l4} \cup {l5} \cup {l6})
  BY <1>3, <1>5, <1>7, <1>12
<1>14. Good(d1 \o d2 \o d3 \o d4 \o d5 \o d6 \o d7,
            {l1} \cup {l2} \cup {l3} \cup {l4} \cup {l5} \cup {l6} \cup {l7})
  BY <1>3, <1>6, <1>7, <1>13
<1> QED
  BY <1>1, <1>2, <1>14 DEF Good

Varies(r) == ~Bodiless(r.status) /\ VariesOnAcceptEncoding(r)

(* The fields of the handler that the encoder passes on. *)
Kept(r) == {h \in r.headers : /\ h.field \notin Framing
                              /\ ~(Varies(r) /\ h.field = "vary")}

(* The fields of the handler, as lines. *)
LEMMA OwnLines ==
  ASSUME NEW r, WellFormed(r), NEW S,
         \A h \in Kept(r) : Line(h.field, h.value) \in S
  PROVE  LET own == SetToSeq(Kept(r))
             q == [i \in DOMAIN own |-> Line(own[i].field, own[i].value)]
         IN  /\ q \in Seq(S) /\ OnePerName(q)
             /\ ToSet(q) = {Line(h.field, h.value) : h \in Kept(r)}
<1> DEFINE own == SetToSeq(Kept(r))
           q == [i \in DOMAIN own |-> Line(own[i].field, own[i].value)]
<1>1. IsFiniteSet(Kept(r)) /\ Kept(r) \subseteq r.headers
  BY FS_Subset DEF WellFormed, Kept
<1>2. /\ own \in Seq(Kept(r)) /\ ToSet(own) = Kept(r)
      /\ \A i, j \in DOMAIN own : own[i] = own[j] => i = j
  BY <1>1, Listing
<1> HIDE DEF own
<1>3. /\ \A i \in DOMAIN own : own[i] \in Kept(r)
      /\ Len(own) \in Nat /\ DOMAIN own = 1..Len(own)
  BY <1>2
<1>4. q \in Seq(S) /\ DOMAIN q = DOMAIN own
  BY <1>3
<1>5. \A i \in DOMAIN own : q[i] = Line(own[i].field, own[i].value)
                            /\ q[i].field = own[i].field
  BY DEF Line
<1> HIDE DEF q
<1>6. OnePerName(q)
  <2>1. ASSUME NEW i \in DOMAIN own, NEW j \in DOMAIN own, q[i].field = q[j].field
        PROVE  i = j
    <3>1. own[i] \in r.headers /\ own[j] \in r.headers /\ own[i].field = own[j].field
      BY <1>1, <1>3, <1>5, <2>1
    <3>2. own[i] = own[j]
      BY <3>1 DEF WellFormed
    <3> QED
      BY <1>2, <3>2
  <2> QED
    BY <1>4, <2>1 DEF OnePerName
<1>7. ToSet(q) = {Line(h.field, h.value) : h \in Kept(r)}
  <2>1. ASSUME NEW x \in ToSet(q)
        PROVE  x \in {Line(h.field, h.value) : h \in Kept(r)}
    BY <1>3, <1>4, <1>5 DEF ToSet
  <2>2. ASSUME NEW h \in Kept(r)
        PROVE  Line(h.field, h.value) \in ToSet(q)
    <3>1. PICK i \in DOMAIN own : own[i] = h
      BY <1>2 DEF ToSet
    <3> QED
      BY <1>4, <1>5, <3>1 DEF ToSet
  <2> QED
    BY <2>1, <2>2
<1> QED
  BY <1>4, <1>6, <1>7 DEF q, own

(* The head of a response: no name twice but for CodedTwice, the framing   *)
(* lines are the encoder's own, the Vary of a response that varies is the  *)
(* merged one, and the other fields are the handler's.                     *)
Encodes(e, r, options) ==
  /\ OnePerName(e.fields)
  /\ \A x \in ToSet(e.fields) :
       x.field \in Framing <=> x \in ToSet(FramingFields(r, options, e.body))
  /\ ToSet(FramingFields(r, options, e.body)) \subseteq ToSet(e.fields)
  /\ Varies(r) => Line("vary", AcceptEncodingVary(HeaderValue(r, "vary")))
                    \in ToSet(e.fields)
  /\ \A h \in Kept(r) : Line(h.field, h.value) \in ToSet(e.fields)

FramingLines(bytes) ==
  {Line("connection", <<"close">>), Line("connection", <<"keep-alive">>),
   Line("content-length", Number(bytes))}

(* The encoder's framing lines have framing names, each once. *)
LEMMA FramingList ==
  ASSUME NEW r, NEW options, NEW bytes, NEW S, FramingLines(bytes) \subseteq S
  PROVE  LET q == FramingFields(r, options, bytes)
         IN  /\ q \in Seq(S) /\ OnePerName(q)
             /\ \A x \in ToSet(q) : x.field \in Framing
<1> DEFINE p == IF options.keepAlive THEN "keep-alive" ELSE "close"
           a == Line("connection", <<"close">>)
           b == Line("connection", <<p>>)
           n == Line("content-length", Number(bytes))
           q == FramingFields(r, options, bytes)
<1>1. a \in S /\ b \in S /\ n \in S
  BY DEF FramingLines
<1>2. a.field = "connection" /\ b.field = "connection" /\ n.field = "content-length"
  BY DEF Line
<1>3. q = <<a>> \/ q = <<b>> \/ q = <<n, b>>
  BY DEF FramingFields
<1> HIDE DEF a, b, n, q
<1>4. CASE q = <<a>>
  <2>1. q \in Seq(S) /\ OnePerName(q) /\ ToSet(q) = {a}
    BY <1>1, <1>4, Alone
  <2> QED
    BY <1>2, <2>1 DEF Framing, q
<1>5. CASE q = <<b>>
  <2>1. q \in Seq(S) /\ OnePerName(q) /\ ToSet(q) = {b}
    BY <1>1, <1>5, Alone
  <2> QED
    BY <1>2, <2>1 DEF Framing, q
<1>6. CASE q = <<n, b>>
  <2>1. q \in Seq(S) /\ DOMAIN q = {1, 2} /\ q[1] = n /\ q[2] = b
    BY <1>1, <1>6
  <2>2. OnePerName(q)
    BY <1>2, <2>1 DEF OnePerName
  <2>3. ToSet(q) = {n, b}
    BY <2>1 DEF ToSet
  <2> QED
    BY <1>2, <2>1, <2>2, <2>3 DEF Framing, q
<1> QED
  BY <1>3, <1>4, <1>5, <1>6

(* find_header finds the field of a name. *)
LEMMA ValueOf ==
  ASSUME NEW r, WellFormed(r), NEW h \in r.headers
  PROVE  HeaderValue(r, h.field) = h.value
<1> DEFINE g == CHOOSE x \in r.headers : x.field = h.field
<1>1. g \in r.headers /\ g.field = h.field
  OBVIOUS
<1>2. HeaderValue(r, h.field) = g.value
  BY DEF HeaderValue, HasHeader
<1> HIDE DEF g
<1>3. g = h
  BY <1>1 DEF WellFormed
<1> QED
  BY <1>2, <1>3

(* encode_response makes such a head of every well-formed response. *)
LEMMA Encoded ==
  ASSUME NEW req, NEW r, WellFormed(r), NEW options, NEW gzip
  PROVE  Encodes(EncodeResponse(req, r, options, gzip), r, options)
<1> DEFINE e == EncodeResponse(req, r, options, gzip)
           compressed == Varies(r) /\ req.wantsGzip /\ gzip # NotCompressed
           bytes == IF compressed THEN gzip ELSE r.body
           own == SetToSeq(Kept(r))
           lc == Line("content-encoding", <<"gzip">>)
           lv == Line("vary", AcceptEncodingVary(HeaderValue(r, "vary")))
           q1 == [i \in DOMAIN own |-> Line(own[i].field, own[i].value)]
           q2 == IF compressed THEN <<lc>> ELSE <<>>
           q3 == IF Varies(r) THEN <<lv>> ELSE <<>>
           q4 == DefaultFields(r, options)
           q5 == FramingFields(r, options, bytes)
           L1 == {Line(h.field, h.value) : h \in Kept(r)}
           S == L1 \cup {lc, lv} \cup DefaultLines \cup FramingLines(bytes)
<1>1. e.fields = q1 \o q2 \o q3 \o q4 \o q5 /\ e.body = bytes
  BY DEF EncodeResponse, Varies, Kept
<1>2. q1 \in Seq(S) /\ OnePerName(q1) /\ ToSet(q1) = L1
  <2>1. \A h \in Kept(r) : Line(h.field, h.value) \in S
    OBVIOUS
  <2> HIDE DEF S
  <2> QED
    BY <2>1, OwnLines
<1>3. lc \in S /\ lv \in S /\ DefaultLines \subseteq S /\ FramingLines(bytes) \subseteq S
  OBVIOUS
<1>4. lc.field = "content-encoding" /\ lv.field = "vary"
  BY DEF Line
<1>5. \A x \in L1 : /\ x.field \notin Framing /\ HasHeader(r, x.field)
                    /\ Varies(r) => x.field # "vary"
  BY DEF Kept, Line, HasHeader
<1>6. ASSUME compressed, NEW x \in L1, x.field = "content-encoding"
      PROVE  CodedTwice(x, lc)
  <2>1. PICK h \in Kept(r) : x = Line(h.field, h.value)
    OBVIOUS
  <2>2. h \in r.headers /\ h.field = "content-encoding"
    BY <1>6, <2>1 DEF Kept, Line
  <2>3. HeaderValue(r, "content-encoding") = h.value
    BY <2>2, ValueOf
  <2>4. h.value = <<>>
    BY <1>6, <2>3 DEF Varies, VariesOnAcceptEncoding
  <2> QED
    BY <2>1, <2>2, <2>4 DEF CodedTwice
<1>7. /\ q4 \in Seq(S) /\ OnePerName(q4) /\ ToSet(q4) \subseteq DefaultLines
      /\ \A x \in ToSet(q4) : ~HasHeader(r, x.field)
  BY <1>3, Defaults
<1>8. q5 \in Seq(S) /\ OnePerName(q5) /\ \A x \in ToSet(q5) : x.field \in Framing
  BY <1>3, FramingList
<1>9. /\ q2 \in Seq(S) /\ OnePerName(q2)
      /\ ToSet(q2) = IF compressed THEN {lc} ELSE {}
  BY <1>3, Alone
<1>10. /\ q3 \in Seq(S) /\ OnePerName(q3)
       /\ ToSet(q3) = IF Varies(r) THEN {lv} ELSE {}
  BY <1>3, Alone
<1>11. \A x \in DefaultLines : x.field \notin Framing \cup {"content-encoding", "vary"}
  BY DEF DefaultLines, Line, Framing
<1> HIDE DEF q1, q2, q3, q4, q5, L1, S, lc, lv, e, compressed, bytes
<1> DEFINE c2 == q1 \o q2
           c3 == c2 \o q3
           c4 == c3 \o q4
           c5 == c4 \o q5
<1>12. c2 \in Seq(S) /\ OnePerName(c2) /\ ToSet(c2) = L1 \cup ToSet(q2)
  <2>1. \A x \in ToSet(q1), y \in ToSet(q2) : x.field # y.field \/ CodedTwice(x, y)
    BY <1>2, <1>4, <1>6, <1>9
  <2> QED
    BY <1>2, <1>9, <2>1, Joined
<1> HIDE DEF c2
<1>13. /\ c3 \in Seq(S) /\ OnePerName(c3)
       /\ ToSet(c3) = L1 \cup ToSet(q2) \cup ToSet(q3)
  <2>1. \A x \in ToSet(c2), y \in ToSet(q3) : x.field # y.field
    BY <1>4, <1>5, <1>9, <1>10, <1>12
  <2> QED
    BY <1>10, <1>12, <2>1, Joined
<1> HIDE DEF c3
<1>14. /\ c4 \in Seq(S) /\ OnePerName(c4)
       /\ ToSet(c4) = L1 \cup ToSet(q2) \cup ToSet(q3) \cup ToSet(q4)
  <2>1. \A x \in ToSet(c3), y \in ToSet(q4) : x.field # y.field
    BY <1>4, <1>5, <1>7, <1>9, <1>10, <1>11, <1>13
  <2> QED
    BY <1>7, <1>13, <2>1, Joined
<1> HIDE DEF c4
<1>15. \A x \in ToSet(c4) : x.field \notin Framing
  BY <1>4, <1>5, <1>7, <1>9, <1>10, <1>11, <1>14 DEF Framing
<1>16. /\ OnePerName(c5)
       /\ ToSet(c5) = ToSet(c4) \cup ToSet(q5)
  <2>1. \A x \in ToSet(c4), y \in ToSet(q5) : x.field # y.field
    BY <1>8, <1>15
  <2> QED
    BY <1>8, <1>14, <2>1, Joined
<1> HIDE DEF c5
<1>17. e.fields = c5 /\ e.body = bytes
  BY <1>1 DEF c5, c4, c3, c2
<1>18. q5 = FramingFields(r, options, e.body)
  BY <1>17 DEF q5
<1>19. \A x \in ToSet(c5) : x.field \in Framing <=> x \in ToSet(q5)
  BY <1>8, <1>15, <1>16
<1>20. Varies(r) => lv \in ToSet(c5)
  BY <1>10, <1>14, <1>16
<1>21. \A h \in Kept(r) : Line(h.field, h.value) \in ToSet(c5)
  BY <1>14, <1>16 DEF L1
<1> QED
  BY <1>16, <1>17, <1>18, <1>19, <1>20, <1>21 DEF Encodes, e, lv

-----------------------------------------------------------------------------
(* Responses stay well formed *)

(* Lists of members, and one with a member more. *)
LEMMA Lists ==
  ASSUME NEW x
  PROVE  IsList(<<>>) /\ IsList(<<x>>)
<1>1. ToSet(<<x>>) = {x} /\ ToSet(<<>>) = {}
  BY DEF ToSet
<1> QED
  BY <1>1 DEF IsList

LEMMA ListGrows ==
  ASSUME NEW d, IsList(d), NEW x
  PROVE  IsList(Append(d, x)) /\ x \in ToSet(Append(d, x))
<1> DEFINE S == ToSet(d) \cup {x}
           v == Append(d, x)
<1>1. d \in Seq(S)
  <2>1. d \in Seq(ToSet(d)) /\ ToSet(d) \subseteq S
    BY DEF IsList
  <2> HIDE DEF S
  <2> QED
    BY <2>1
<1>2. x \in S
  OBVIOUS
<1> HIDE DEF S
<1>3. /\ v \in Seq(S) /\ DOMAIN v = 1..(Len(d) + 1) /\ Len(d) \in Nat
      /\ v[Len(d) + 1] = x
  BY <1>1, <1>2
<1> HIDE DEF v
<1>4. Len(d) + 1 \in DOMAIN v
  BY <1>3
<1>5. x \in ToSet(v)
  BY <1>3, <1>4 DEF ToSet
<1>6. \A i \in DOMAIN v : v[i] \in ToSet(v)
  BY DEF ToSet
<1>7. v \in Seq(ToSet(v))
  <2> DEFINE T == ToSet(v)
  <2>1. Len(v) \in Nat /\ DOMAIN v = 1..Len(v) /\ v = [i \in 1..Len(v) |-> v[i]]
    BY <1>3
  <2>2. \A i \in 1..Len(v) : v[i] \in T
    BY <1>6, <2>1
  <2> HIDE DEF T
  <2>3. v \in Seq(T)
    BY <2>1, <2>2
  <2> QED
    BY <2>3 DEF T
<1> QED
  BY <1>5, <1>7 DEF IsList, v

(* set_header: the name that is set has one field, every other its own. *)
LEMMA FieldIsSet ==
  ASSUME NEW r, WellFormed(r), NEW h, IsField(h), NEW valid \in BOOLEAN
  PROVE  /\ WellFormed(SetHeader(r, h, valid))
         /\ SetHeader(r, h, valid).status = r.status
         /\ valid => \E g \in SetHeader(r, h, valid).headers :
                       g.field = h.field /\ g.value = h.value
         /\ \A g : g.field # h.field =>
                    (g \in SetHeader(r, h, valid).headers <=> g \in r.headers)
<1> DEFINE same == {g \in r.headers : g.field = h.field}
           name == IF same = {} THEN h ELSE CHOOSE g \in same : TRUE
           new == Field(h.field, name.spelling, h.value)
           H == (r.headers \ same) \cup {new}
<1>1. CASE ~valid
  BY <1>1 DEF SetHeader
<1>2. CASE valid
  <2>1. SetHeader(r, h, valid) = [r EXCEPT !.headers = H]
    BY <1>2 DEF SetHeader
  <2>2. new.field = h.field /\ new.value = h.value /\ IsField(new)
    BY DEF Field, IsField
  <2>3. new \in H
    OBVIOUS
  <2>4. /\ \A g \in H : g = new \/ (g \in r.headers /\ g.field # h.field)
        /\ \A g : g.field # h.field => (g \in H <=> g \in r.headers)
    BY <2>2
  <2>5. IsFiniteSet(H)
    <3>1. IsFiniteSet(r.headers \ same)
      BY FS_Subset DEF WellFormed
    <3> QED
      BY <3>1, FS_AddElement
  <2> HIDE DEF H, new
  <2> DEFINE s == [r EXCEPT !.headers = H]
  <2>6. DOMAIN s = DOMAIN r /\ s.headers = H /\ s.status = r.status
    BY DEF WellFormed
  <2> HIDE DEF s
  <2>7. \A g \in H : IsField(g)
    BY <2>2, <2>4 DEF WellFormed
  <2>8. \A f, g \in H : f.field = g.field => f = g
    BY <2>2, <2>4 DEF WellFormed
  <2>9. WellFormed(s)
    BY <2>5, <2>6, <2>7, <2>8 DEF WellFormed
  <2> QED
    BY <1>2, <2>1, <2>2, <2>3, <2>4, <2>6, <2>9 DEF s
<1> QED
  BY <1>1, <1>2

(* The server's own fields. *)
LEMMA OwnField ==
  ASSUME NEW r, WellFormed(r), NEW name, NEW value,
         name = "vary" => IsList(value)
  PROVE  /\ WellFormed(WithField(r, name, value))
         /\ WithField(r, name, value).status = r.status
         /\ \E g \in WithField(r, name, value).headers :
              g.field = name /\ g.value = value
         /\ \A g : g.field # name =>
                    (g \in WithField(r, name, value).headers <=> g \in r.headers)
<1> DEFINE h == Field(name, "Own", value)
<1>1. IsField(h) /\ h.field = name /\ h.value = value
  BY DEF Field, IsField
<1> HIDE DEF h
<1>2. WithField(r, name, value) = SetHeader(r, h, TRUE)
  BY DEF WithField, h
<1> DEFINE s == SetHeader(r, h, TRUE)
<1>3. WellFormed(s) /\ s.status = r.status
  BY <1>1, FieldIsSet
<1>4. /\ \E g \in s.headers : g.field = h.field /\ g.value = h.value
      /\ \A g : g.field # h.field => (g \in s.headers <=> g \in r.headers)
  BY <1>1, FieldIsSet
<1> HIDE DEF s
<1> QED
  BY <1>1, <1>2, <1>3, <1>4 DEF s

(* The constructors. *)
LEMMA EmptyFormed ==
  ASSUME NEW status
  PROVE  WellFormed(EmptyResponse(status))
BY FS_EmptySet DEF WellFormed, EmptyResponse

LEMMA BodyFormed ==
  ASSUME NEW status, NEW type, NEW bytes
  PROVE  /\ WellFormed(BodyResponse(status, type, bytes))
         /\ BodyResponse(status, type, bytes).status = status
         /\ ~HasHeader(BodyResponse(status, type, bytes), "content-encoding")
<1> DEFINE r == [EmptyResponse(status) EXCEPT !.body = bytes]
           s == WithField(r, "content-type", <<type>>)
<1>1. WellFormed(r) /\ r.status = status /\ ~HasHeader(r, "content-encoding")
  BY FS_EmptySet DEF WellFormed, EmptyResponse, HasHeader
<1> HIDE DEF r
<1>2. /\ WellFormed(s) /\ s.status = status
      /\ \A g : g.field # "content-type" => (g \in s.headers <=> g \in r.headers)
  BY <1>1, OwnField
<1>3. ~HasHeader(s, "content-encoding")
  BY <1>1, <1>2 DEF HasHeader
<1> QED
  BY <1>1, <1>2, <1>3 DEF BodyResponse, r

(* The answers of the router and of an asset. *)
LEMMA RouterFormed ==
  ASSUME NEW status, NEW methods
  PROVE  WellFormed(ErrorResponse(status)) /\ WellFormed(MethodNotAllowed(methods))
<1>1. \A s : WellFormed(ErrorResponse(s))
  BY BodyFormed DEF ErrorResponse
<1>2. WellFormed(WithField(ErrorResponse(405), "allow", SetToSeq(methods)))
  BY <1>1, OwnField
<1> QED
  BY <1>1, <1>2 DEF MethodNotAllowed

(* A response that tells caches to look at Accept-Encoding. *)
Keyed(r) ==
  \E h \in r.headers : h.field = "vary" /\ "accept-encoding" \in ToSet(h.value)

(* The Vary of a precompressed asset. *)
LEMMA FieldKeys ==
  ASSUME NEW r, WellFormed(r)
  PROVE  /\ Keyed(WithField(r, "vary", <<"accept-encoding">>))
         /\ WellFormed(WithField(r, "vary", <<"accept-encoding">>))
         /\ WithField(r, "vary", <<"accept-encoding">>).status = r.status
<1> DEFINE vary == <<"accept-encoding">>
<1>1. IsList(vary) /\ "accept-encoding" \in ToSet(vary)
  BY Lists DEF ToSet
<1> HIDE DEF vary
<1>2. /\ WellFormed(WithField(r, "vary", vary))
      /\ WithField(r, "vary", vary).status = r.status
      /\ \E g \in WithField(r, "vary", vary).headers :
           g.field = "vary" /\ g.value = vary
  BY <1>1, OwnField
<1>3. Keyed(WithField(r, "vary", vary))
  BY <1>1, <1>2 DEF Keyed
<1> QED
  BY <1>2, <1>3 DEF vary

(* What asset_response sets on a 304 and on a 200 alike. *)
Cached(asset, r) ==
  LET With(x, name, value, applies) ==
        IF applies THEN WithField(x, name, value) ELSE x
  IN  With(With(With(r, "etag", asset.etag, asset.etag # <<>>),
                "vary", <<"accept-encoding">>, asset.encoding # <<>>),
           "cache-control", <<"immutable">>, TRUE)

LEMMA CachedFormed ==
  ASSUME NEW asset, NEW r, WellFormed(r)
  PROVE  /\ WellFormed(Cached(asset, r)) /\ Cached(asset, r).status = r.status
         /\ asset.encoding # <<>> => Keyed(Cached(asset, r))
         /\ asset.encoding = <<>> /\ ~HasHeader(r, "content-encoding") =>
              ~HasHeader(Cached(asset, r), "content-encoding")
<1> DEFINE packed == asset.encoding # <<>>
           a == IF asset.etag # <<>> THEN WithField(r, "etag", asset.etag) ELSE r
           b == IF packed THEN WithField(a, "vary", <<"accept-encoding">>) ELSE a
           c == WithField(b, "cache-control", <<"immutable">>)
<1>1. Cached(asset, r) = c
  BY DEF Cached
<1>2. /\ WellFormed(a) /\ a.status = r.status
      /\ \A g : g.field # "etag" => (g \in a.headers <=> g \in r.headers)
  BY OwnField
<1> HIDE DEF a
<1>3. /\ WellFormed(b) /\ b.status = a.status
      /\ packed => Keyed(b)
      /\ ~packed => b = a
  BY <1>2, FieldKeys
<1> HIDE DEF b
<1>4. /\ WellFormed(c) /\ c.status = b.status
      /\ \A g : g.field # "cache-control" => (g \in c.headers <=> g \in b.headers)
  BY <1>3, OwnField
<1> HIDE DEF c
<1>5. Keyed(b) => Keyed(c)
  BY <1>4 DEF Keyed
<1>6. ~packed /\ ~HasHeader(r, "content-encoding")
        => ~HasHeader(c, "content-encoding")
  BY <1>2, <1>3, <1>4 DEF HasHeader
<1> QED
  BY <1>1, <1>2, <1>3, <1>4, <1>5, <1>6

(* asset_response: an answer of a precompressed asset is keyed, and one of *)
(* another asset is its 304 or its only 200.                               *)
LEMMA AssetFormed ==
  ASSUME NEW asset, NEW req
  PROVE  LET r == AssetResponse(asset, req)
             whole == Cached(asset, BodyResponse(200, asset.type, asset.bytes))
         IN  /\ WellFormed(r)
             /\ asset.encoding # <<>> => Keyed(r)
             /\ asset.encoding = <<>> =>
                  IF Matches(req.condition, asset.etag) THEN r.status = 304
                  ELSE r = whole
             /\ asset.encoding = <<>> =>
                  whole.status = 200 /\ ~HasHeader(whole, "content-encoding")
<1> DEFINE packed == asset.encoding # <<>>
           body == BodyResponse(200, asset.type, asset.bytes)
           refusal == WithField(ErrorResponse(406), "vary", <<"accept-encoding">>)
           whole == Cached(asset, body)
           coded == WithField(whole, "content-encoding", asset.encoding)
           none == Cached(asset, EmptyResponse(304))
           r == AssetResponse(asset, req)
<1>1. r = IF packed /\ req.namesCodings /\ ~req.wantsGzip THEN refusal
          ELSE IF Matches(req.condition, asset.etag) THEN none
          ELSE IF packed THEN coded ELSE whole
  BY Zenon DEF AssetResponse, Cached
<1>2. WellFormed(refusal) /\ Keyed(refusal)
  <2>1. WellFormed(ErrorResponse(406))
    BY RouterFormed
  <2> QED
    BY <2>1, FieldKeys
<1>3. /\ WellFormed(body) /\ body.status = 200
      /\ ~HasHeader(body, "content-encoding")
  BY BodyFormed
<1>4. WellFormed(EmptyResponse(304)) /\ EmptyResponse(304).status = 304
  BY EmptyFormed DEF EmptyResponse
<1> HIDE DEF body
<1>5. /\ WellFormed(whole) /\ whole.status = 200
      /\ packed => Keyed(whole)
      /\ ~packed => ~HasHeader(whole, "content-encoding")
  BY <1>3, CachedFormed
<1>6. /\ WellFormed(none) /\ none.status = 304
      /\ packed => Keyed(none)
  BY <1>4, CachedFormed
<1> HIDE DEF whole, none, refusal
<1>7. /\ WellFormed(coded)
      /\ packed => Keyed(coded)
  <2>1. /\ WellFormed(coded)
        /\ \A g : g.field # "content-encoding" =>
                   (g \in coded.headers <=> g \in whole.headers)
    BY <1>5, OwnField
  <2>2. packed => Keyed(coded)
    BY <1>5, <2>1 DEF Keyed
  <2> QED
    BY <2>1, <2>2
<1> HIDE DEF coded, r
<1>8. WellFormed(r)
  BY <1>1, <1>2, <1>5, <1>6, <1>7
<1>9. packed => Keyed(r)
  BY <1>1, <1>2, <1>6, <1>7
<1>10. ~packed => IF Matches(req.condition, asset.etag) THEN r.status = 304
                  ELSE r = whole
  BY <1>1, <1>6
<1> QED
  BY <1>5, <1>8, <1>9, <1>10 DEF r, whole, body

(* The merged Vary names Accept-Encoding. *)
LEMMA VaryMerged ==
  ASSUME NEW r, WellFormed(r)
  PROVE  LET v == AcceptEncodingVary(HeaderValue(r, "vary"))
         IN  /\ IsList(v) /\ IsList(HeaderValue(r, "vary"))
             /\ "accept-encoding" \in ToSet(v)
<1> DEFINE d == HeaderValue(r, "vary")
<1>1. IsList(d)
  <2>1. CASE HasHeader(r, "vary")
    <3> DEFINE h == CHOOSE g \in r.headers : g.field = "vary"
    <3>1. h \in r.headers /\ h.field = "vary"
      BY <2>1 DEF HasHeader
    <3>2. d = h.value
      BY <2>1 DEF HeaderValue
    <3> HIDE DEF h
    <3> QED
      BY <3>1, <3>2 DEF WellFormed, IsField
  <2>2. CASE ~HasHeader(r, "vary")
    BY <2>2, Lists DEF HeaderValue
  <2> QED
    BY <2>1, <2>2
<1> HIDE DEF d
<1>2. CASE "accept-encoding" \in ToSet(d)
  BY <1>1, <1>2 DEF AcceptEncodingVary, d
<1>3. CASE "accept-encoding" \notin ToSet(d)
  <2> DEFINE v == Append(d, "accept-encoding")
  <2>1. IsList(v) /\ "accept-encoding" \in ToSet(v)
    BY <1>1, ListGrows
  <2> QED
    BY <1>1, <1>3, <2>1 DEF AcceptEncodingVary, d
<1> QED
  BY <1>2, <1>3

(* A 304 is well formed, and one made of a response that would have varied *)
(* or says that it does says so.                                           *)
LEMMA NotModifiedFormed ==
  ASSUME NEW r, WellFormed(r)
  PROVE  LET n == NotModifiedFrom(r)
         IN  /\ WellFormed(n) /\ n.status = 304
             /\ VariesOnAcceptEncoding(r) \/ Keyed(r) => Keyed(n)
<1> DEFINE P == {g \in r.headers : g.field \in Preserved}
           own == [h \in P |-> Field(h.field, "Own", h.value)]
           H == {Field(h.field, "Own", h.value) : h \in P}
           kept == [EmptyResponse(304) EXCEPT !.headers = H]
           d == HeaderValue(r, "vary")
<1>1. IsFiniteSet(H)
  <2>1. IsFiniteSet(P)
    BY FS_Subset DEF WellFormed
  <2>2. own \in Surjection(P, H)
    BY DEF Surjection
  <2> QED
    BY <2>1, <2>2, FS_Surjection
<1>2. ASSUME NEW x \in H
      PROVE  \E h \in P : /\ x = Field(h.field, "Own", h.value)
                          /\ x.field = h.field /\ x.value = h.value
  BY DEF Field
<1>3. \A x \in H : IsField(x)
  <2>1. ASSUME NEW x \in H
        PROVE  IsField(x)
    <3>1. PICK h \in P : /\ x = Field(h.field, "Own", h.value)
                         /\ x.field = h.field /\ x.value = h.value
      BY <1>2
    <3>2. DOMAIN x = {"field", "spelling", "value"}
      BY <3>1 DEF Field
    <3> QED
      BY <3>1, <3>2 DEF WellFormed, IsField
  <2> QED
    BY <2>1
<1>4. \A x, y \in H : x.field = y.field => x = y
  <2>1. ASSUME NEW x \in H, NEW y \in H, x.field = y.field
        PROVE  x = y
    <3>1. PICK g \in P : x = Field(g.field, "Own", g.value) /\ x.field = g.field
      BY <1>2
    <3>2. PICK h \in P : y = Field(h.field, "Own", h.value) /\ y.field = h.field
      BY <1>2
    <3>3. g = h
      BY <2>1, <3>1, <3>2 DEF WellFormed
    <3> QED
      BY <3>1, <3>2, <3>3
  <2> QED
    BY <2>1
<1> HIDE DEF H
<1>5. DOMAIN kept = {"status", "body", "stream", "headers"} /\ kept.headers = H
      /\ kept.status = 304
  BY DEF EmptyResponse
<1> HIDE DEF kept
<1>6. WellFormed(kept)
  BY <1>1, <1>3, <1>4, <1>5 DEF WellFormed
<1>7. /\ IsList(AcceptEncodingVary(d)) /\ IsList(d)
      /\ "accept-encoding" \in ToSet(AcceptEncodingVary(d))
      /\ Keyed(r) => HasHeader(r, "vary") /\ "accept-encoding" \in ToSet(d)
  BY VaryMerged, ValueOf DEF Keyed, HasHeader
<1> HIDE DEF d
<1>8. NotModifiedFrom(r) =
        CASE VariesOnAcceptEncoding(r) ->
               WithField(kept, "vary", AcceptEncodingVary(d))
          [] ~VariesOnAcceptEncoding(r) /\ HasHeader(r, "vary") ->
               WithField(kept, "vary", d)
          [] OTHER -> kept
  BY DEF NotModifiedFrom, kept, d, H
<1>9. CASE VariesOnAcceptEncoding(r)
  <2>1. NotModifiedFrom(r) = WithField(kept, "vary", AcceptEncodingVary(d))
    BY <1>8, <1>9
  <2> QED
    BY <1>5, <1>6, <1>7, <2>1, OwnField DEF Keyed
<1>10. CASE ~VariesOnAcceptEncoding(r) /\ HasHeader(r, "vary")
  <2>1. NotModifiedFrom(r) = WithField(kept, "vary", d)
    BY <1>8, <1>10
  <2> QED
    BY <1>5, <1>6, <1>7, <1>10, <2>1, OwnField DEF Keyed
<1>11. CASE ~VariesOnAcceptEncoding(r) /\ ~HasHeader(r, "vary")
  <2>1. NotModifiedFrom(r) = kept
    BY <1>8, <1>11
  <2> QED
    BY <1>5, <1>6, <1>7, <1>11, <2>1
<1> QED
  BY <1>9, <1>10, <1>11

-----------------------------------------------------------------------------
(* The request *)

RequestFields ==
  {"method", "path", "authority", "parameters", "keepAlive", "wantsGzip",
   "namesCodings", "condition", "views"}

ParserFields ==
  {"head", "request", "borrowed", "base", "bodyOffset", "bodyBytes"}

(* The request has the method that the peer sent. *)
Asks(q, method) == DOMAIN q = RequestFields /\ q.method = method

(* A parser that has validated a head has it from the message. *)
Reads(p, method) ==
  /\ DOMAIN p = ParserFields
  /\ p.head => Asks(p.request, method)

(* parse() keeps the method of the message. *)
LEMMA Parses ==
  ASSUME NEW p, NEW m, NEW n, NEW base, Reads(p, m.line.method)
  PROVE  LET o == Parse(p, m, n, base)
         IN  /\ Reads(o.parser, m.line.method)
             /\ o.kind = "request" => Asks(o.request, m.line.method)
<1> DEFINE error == IF p.head THEN "none" ELSE HeadError(m, n)
           q == IF p.head THEN Rebase(p, base) ELSE ParseHead(m, base)
           o == Parse(p, m, n, base)
           done == [q.request EXCEPT !.views = @ @@ [v \in {<<"body", 0>>} |-> base]]
<1>1. Reads(q, m.line.method) /\ Asks(q.request, m.line.method)
  <2>1. CASE p.head
    <3> DEFINE views == [v \in DOMAIN p.request.views |->
                 IF v \in p.borrowed THEN base ELSE p.request.views[v]]
               s == [p.request EXCEPT !.views = views]
    <3>1. q = [p EXCEPT !.base = base, !.request = s]
      BY <2>1 DEF Rebase
    <3> HIDE DEF views
    <3>2. Asks(s, m.line.method)
      BY <2>1 DEF Reads, Asks, RequestFields
    <3> HIDE DEF s
    <3>3. DOMAIN q = ParserFields /\ q.request = s
      BY <3>1 DEF Reads, ParserFields
    <3> QED
      BY <3>2, <3>3 DEF Reads
  <2>2. CASE ~p.head
    <3>1. q = ParseHead(m, base)
      BY <2>2
    <3>2. Asks(RequestOf(m, base), m.line.method)
      BY DEF Asks, RequestOf, RequestFields
    <3>3. DOMAIN ParseHead(m, base) = ParserFields
          /\ ParseHead(m, base).request = RequestOf(m, base)
      BY DEF ParseHead, ParserFields
    <3> QED
      BY <3>1, <3>2, <3>3 DEF Reads
  <2> QED
    BY <2>1, <2>2
<1>2. Asks(done, m.line.method)
  <2> HIDE DEF q
  <2>1. DOMAIN done = DOMAIN q.request /\ done.method = q.request.method
    BY <1>1 DEF Asks, RequestFields
  <2> HIDE DEF done
  <2> QED
    BY <1>1, <2>1 DEF Asks
<1>3. Reads(FreshParser, m.line.method)
  BY DEF Reads, FreshParser, ParserFields
<1>4. \/ o = Outcome("more", p, error)
      \/ o = Outcome("error", p, error)
      \/ o = Outcome("more", q, "NeedsMoreData")
      \/ o = [kind |-> "request", error |-> "none", parser |-> FreshParser,
              request |-> done, consumed |-> q.bodyOffset + q.bodyBytes]
  <2> HIDE DEF error, q
  <2> QED
    BY DEF Parse, error, q
<1> HIDE DEF o, q, error, done
<1> QED
  BY <1>1, <1>2, <1>3, <1>4 DEF Outcome, o

-----------------------------------------------------------------------------
(* The request path *)

(* How the answer r to one client compares with the others: they are it,   *)
(* it says that there are others, or it is an asset's own 304.             *)
Variants(r, others) ==
  \/ others[TRUE] = r /\ others[FALSE] = r
  \/ Keyed(r)
  \/ /\ r.status = 304
     /\ others[TRUE].status = 200 /\ ~HasHeader(others[TRUE], "content-encoding")

(* The answers that asset_response gives of one asset: those of a          *)
(* precompressed one are keyed, the others the same but for its own 304.   *)
LEMMA AssetVariants ==
  ASSUME NEW asset, NEW req, NEW yes, NEW no, NEW others,
         yes.condition = <<>>, no.condition = <<>>,
         others[TRUE] = AssetResponse(asset, yes),
         others[FALSE] = AssetResponse(asset, no)
  PROVE  Variants(AssetResponse(asset, req), others)
<1>1. CASE asset.encoding # <<>>
  BY <1>1, AssetFormed DEF Variants
<1>2. CASE asset.encoding = <<>>
  <2> DEFINE whole == Cached(asset, BodyResponse(200, asset.type, asset.bytes))
  <2>1. ~Matches(yes.condition, asset.etag) /\ ~Matches(no.condition, asset.etag)
    BY DEF Matches, ToSet
  <2>2. others[TRUE] = whole /\ others[FALSE] = whole
    BY <1>2, <2>1, AssetFormed
  <2>3. /\ AssetResponse(asset, req) = whole \/ AssetResponse(asset, req).status = 304
        /\ whole.status = 200 /\ ~HasHeader(whole, "content-encoding")
    BY <1>2, AssetFormed
  <2> QED
    BY <2>2, <2>3 DEF Variants
<1> QED
  BY <1>1, <1>2

(* An answer that is the same for all. *)
LEMMA AlwaysVariants ==
  ASSUME NEW r
  PROVE  Variants(r, Always(r))
<1>1. Always(r)[TRUE] = r /\ Always(r)[FALSE] = r
  BY DEF Always
<1> QED
  BY <1>1 DEF Variants

(* Which request is being answered, and what has become of the response:   *)
(* the one the handler is building is well formed, the one that is encoded *)
(* is the handler's or its 304, and how another client would have been     *)
(* answered is known.                                                      *)
Answering ==
  /\ stage = "reading" =>
       /\ DOMAIN input = {"message", "bytes", "base"}
       /\ asked = input.message.line.method
       /\ Reads(parser, asked)
       /\ result.kind = "request" => Asks(result.request, asked)
  /\ stage \in {"registering", "middleware", "routed", "handling"} =>
       Asks(request, asked)
  /\ stage = "handling" => WellFormed(handled)
  /\ stage = "answered" =>
       /\ Asks(request, asked) \/ request = NoRequest
       /\ WellFormed(handled) /\ WellFormed(response)
       /\ response = handled \/ response = NotModifiedFrom(handled)
       /\ Variants(handled, variants)

(* What encoding makes of an answer that Answering describes. *)
LEMMA SerializeEncodes ==
  ASSUME Answering, Serialize
  PROVE  \E options, gzip :
           /\ encoded' = EncodeResponse(request, response, options, gzip)
           /\ Encodes(encoded', response, options)
           /\ options.keepAlive => ~response.stream /\ request.keepAlive
           /\ UNCHANGED <<request, asked, handled, response>>
<1>1. PICK last \in BOOLEAN, secure \in BOOLEAN, server \in BOOLEAN,
           gzip \in GzipOutcomes(response) :
        encoded' = EncodeResponse(request, response,
                     [keepAlive |-> ~response.stream /\ request.keepAlive /\ ~last,
                      secure |-> secure, server |-> server], gzip)
  BY DEF Serialize
<1> DEFINE options == [keepAlive |-> ~response.stream /\ request.keepAlive /\ ~last,
                       secure |-> secure, server |-> server]
<1>2. options.keepAlive => ~response.stream /\ request.keepAlive
  OBVIOUS
<1> HIDE DEF options
<1>3. encoded' = EncodeResponse(request, response, options, gzip)
  BY <1>1 DEF options
<1>4. WellFormed(response)
  BY DEF Answering, Serialize
<1>5. Encodes(encoded', response, options)
  BY <1>3, <1>4, Encoded
<1>6. UNCHANGED <<request, asked, handled, response>>
  BY DEF Serialize
<1> QED
  BY <1>2, <1>3, <1>5, <1>6

(* The head that is encoded agrees with the bytes behind it. *)
LEMMA SerializeFrames ==
  ASSUME Answering, Serialize
  PROVE  FramingAgrees'
<1>1. PICK options, gzip :
        /\ encoded' = EncodeResponse(request, response, options, gzip)
        /\ Encodes(encoded', response, options)
        /\ options.keepAlive => ~response.stream /\ request.keepAlive
        /\ UNCHANGED <<request, asked, handled, response>>
  BY SerializeEncodes
<1> DEFINE e == encoded'
           F == FramingFields(response, options, e.body)
           p == IF options.keepAlive THEN "keep-alive" ELSE "close"
           lc == Line("connection", <<"close">>)
           lp == Line("connection", <<p>>)
           ln == Line("content-length", Number(e.body))
           T == ToSet(F)
<1>2. /\ OnePerName(e.fields) /\ T \subseteq ToSet(e.fields)
      /\ \A x \in ToSet(e.fields) : x.field \in Framing <=> x \in T
  BY <1>1 DEF Encodes
<1>3. /\ e.status = response.status
      /\ e.suppressed <=> \/ response.stream \/ request.method = "Head"
                          \/ Bodiless(response.status)
  BY <1>1 DEF EncodeResponse
<1>4. /\ lc.field = "connection" /\ lp.field = "connection"
      /\ ln.field = "content-length"
      /\ lc.value = <<"close">> /\ lp.value = <<p>> /\ ln.value = Number(e.body)
  BY DEF Line
<1>5. /\ response.stream => T = {lc}
      /\ ~response.stream /\ Bodiless(response.status) => T = {lp}
      /\ ~response.stream /\ ~Bodiless(response.status) => T = {ln, lp}
  <2> HIDE DEF lc, lp, ln, e
  <2>1. CASE response.stream
    <3>1. F = <<lc>>
      BY <2>1 DEF FramingFields, lc
    <3> QED
      BY <2>1, <3>1 DEF ToSet
  <2>2. CASE ~response.stream /\ Bodiless(response.status)
    <3>1. F = <<lp>>
      BY <2>2 DEF FramingFields, lp
    <3> QED
      BY <2>2, <3>1 DEF ToSet
  <2>3. CASE ~response.stream /\ ~Bodiless(response.status)
    <3>1. F = <<ln, lp>>
      BY <2>3 DEF FramingFields, lp, ln
    <3>2. DOMAIN F = {1, 2} /\ F[1] = ln /\ F[2] = lp
      BY <3>1
    <3> QED
      BY <2>3, <3>2 DEF ToSet
  <2> QED
    BY <2>1, <2>2, <2>3
<1> HIDE DEF e, F, T, lc, lp, ln
<1> DEFINE named(name) == {i \in DOMAIN e.fields : e.fields[i].field = name}
           said(name) == e.fields[CHOOSE i \in named(name) : TRUE].value
<1>6. ASSUME NEW l \in T
      PROVE  named(l.field) # {} /\ said(l.field) = l.value
  <2>1. l \in ToSet(e.fields) /\ l.field # "content-encoding"
    BY <1>2 DEF Framing
  <2> QED
    BY <1>2, <2>1, Found
<1>7. ASSUME NEW name \in Framing, named(name) # {}
      PROVE  \E l \in T : l.field = name
  <2>1. PICK i \in DOMAIN e.fields : e.fields[i].field = name
    BY <1>7
  <2>2. e.fields[i] \in ToSet(e.fields)
    BY DEF ToSet
  <2> QED
    BY <1>2, <2>1, <2>2
<1> HIDE DEF named, said
<1>8. "connection" \in Framing /\ "content-length" \in Framing
      /\ "transfer-encoding" \in Framing
  BY DEF Framing
<1>9. named("transfer-encoding") = {}
  BY <1>4, <1>5, <1>7, <1>8
<1>10. IF response.stream THEN said("connection") = <<"close">>
       ELSE said("connection") = <<p>>
  BY <1>4, <1>5, <1>6
<1>11. <<p>> = <<"keep-alive">> \/ <<p>> = <<"close">>
  OBVIOUS
<1>12. said("connection") = <<"keep-alive">> => ~response.stream /\ options.keepAlive
  <2>1. <<"keep-alive">> # <<"close">>
    OBVIOUS
  <2> QED
    BY <1>10, <2>1
<1> HIDE DEF p
<1>13. response.stream => named("content-length") = {}
  BY <1>4, <1>5, <1>7, <1>8
<1>14. named("content-length") # {} <=> ~response.stream /\ ~Bodiless(response.status)
  BY <1>4, <1>5, <1>6, <1>7, <1>8
<1>15. named("content-length") # {} => said("content-length") = Number(e.body)
  BY <1>4, <1>5, <1>6, <1>14
<1> DEFINE sent == IF e.suppressed THEN 0 ELSE e.body
           expects == IF asked = "Head" \/ Bodiless(e.status) THEN sent = 0
                      ELSE /\ named("content-length") # {}
                           /\ said("content-length") = Number(sent)
<1>16. /\ request.method \in {asked, "None"}
       /\ request.keepAlive => request.method = asked
  BY DEF Answering, Serialize, Asks, NoRequest
<1>17. said("connection") = <<"keep-alive">> => expects
  BY <1>1, <1>3, <1>12, <1>14, <1>15, <1>16
<1>18. named("content-length") # {} /\ asked # "Head" => expects
  BY <1>3, <1>14, <1>15, <1>16
<1>19. /\ \A name : Named(name)' = named(name) /\ Announced(name)' = said(name)
       /\ BytesSent' = sent
  BY DEF Named, Announced, BytesSent, named, said, e
<1>20. PeerExpects(BytesSent)' <=> expects
  BY <1>1, <1>19 DEF PeerExpects, e
<1>21. \A i, j \in DOMAIN e.fields :
         e.fields[i].field = e.fields[j].field =>
           i = j \/ CodedTwice(e.fields[i], e.fields[j])
  BY <1>2 DEF OnePerName
<1> HIDE DEF expects, sent
<1> QED
  BY <1>1, <1>9, <1>10, <1>11, <1>13, <1>17, <1>18, <1>19, <1>20, <1>21
     DEF FramingAgrees, e

(* A head whose response varies, or whose Vary names Accept-Encoding,      *)
(* says so.                                                                *)
LEMMA HeadKeyed ==
  ASSUME NEW e, NEW r, NEW options, WellFormed(r), Encodes(e, r, options),
         Varies(r) \/ Keyed(r)
  PROVE  LET named == {i \in DOMAIN e.fields : e.fields[i].field = "vary"}
         IN  /\ named # {}
             /\ "accept-encoding"
                  \in ToSet(e.fields[CHOOSE i \in named : TRUE].value)
<1>1. PICK l \in ToSet(e.fields) :
        l.field = "vary" /\ "accept-encoding" \in ToSet(l.value)
  <2>1. CASE Varies(r)
    <3> DEFINE v == AcceptEncodingVary(HeaderValue(r, "vary"))
    <3>1. "accept-encoding" \in ToSet(v)
      BY VaryMerged
    <3>2. Line("vary", v) \in ToSet(e.fields)
      BY <2>1 DEF Encodes
    <3>3. Line("vary", v).field = "vary" /\ Line("vary", v).value = v
      BY DEF Line
    <3> HIDE DEF v
    <3> QED
      BY <3>1, <3>2, <3>3
  <2>2. CASE ~Varies(r) /\ Keyed(r)
    <3>1. PICK h \in r.headers :
            h.field = "vary" /\ "accept-encoding" \in ToSet(h.value)
      BY <2>2 DEF Keyed
    <3>2. h \in Kept(r)
      BY <2>2, <3>1 DEF Kept, Framing
    <3>3. Line(h.field, h.value) \in ToSet(e.fields)
      BY <3>2 DEF Encodes
    <3>4. Line(h.field, h.value).field = "vary"
          /\ Line(h.field, h.value).value = h.value
      BY <3>1 DEF Line
    <3> QED
      BY <3>1, <3>3, <3>4
  <2> QED
    BY <2>1, <2>2
<1> DEFINE named == {i \in DOMAIN e.fields : e.fields[i].field = l.field}
<1>2. OnePerName(e.fields) /\ l.field # "content-encoding"
  BY <1>1 DEF Encodes
<1>3. named # {} /\ e.fields[CHOOSE i \in named : TRUE].value = l.value
  BY <1>2, Found
<1> QED
  BY <1>1, <1>3

(* The head that is encoded tells caches on what the bytes depend. *)
LEMMA SerializeKeys ==
  ASSUME Answering, Serialize
  PROVE  CacheKeyed'
<1>1. PICK options, gzip :
        /\ encoded' = EncodeResponse(request, response, options, gzip)
        /\ Encodes(encoded', response, options)
        /\ UNCHANGED <<request, asked, handled, response>>
  BY SerializeEncodes
<1>2. /\ WellFormed(handled) /\ WellFormed(response)
      /\ response = handled \/ response = NotModifiedFrom(handled)
      /\ Variants(handled, variants)
      /\ variants' = variants
  BY DEF Answering, Serialize
<1> DEFINE plain == [keepAlive |-> FALSE, secure |-> FALSE, server |-> FALSE]
           Made(g, wanted) ==
             EncodeResponse([request EXCEPT !.wantsGzip = wanted], handled, plain, g)
<1>3. ASSUME variants[TRUE] = handled, variants[FALSE] = handled,
             NEW g, Sent(TRUE, g)' # Sent(FALSE, g)'
      PROVE  Varies(handled)
  <2>1. ASSUME ~Varies(handled), NEW x
        PROVE  /\ EncodeResponse(x, handled, plain, g).body = handled.body
               /\ EncodeResponse(x, handled, plain, g).status = handled.status
    BY <2>1 DEF EncodeResponse, Varies
  <2>2. /\ Sent(TRUE, g)' = <<Made(g, TRUE).status, Made(g, TRUE).body>>
        /\ Sent(FALSE, g)' = <<Made(g, FALSE).status, Made(g, FALSE).body>>
    BY Zenon, <1>1, <1>2, <1>3 DEF Sent
  <2> HIDE DEF plain
  <2> QED
    BY <1>3, <2>1, <2>2
<1>4. ASSUME Varies(handled) \/ Keyed(handled)
      PROVE  VaryNamesCoding'
  <2>1. Varies(response) \/ Keyed(response)
    BY <1>2, <1>4, NotModifiedFormed DEF Varies
  <2> QED
    BY <1>1, <1>2, <2>1, HeadKeyed DEF VaryNamesCoding, Named, Announced
<1>5. CASE variants[TRUE] = handled /\ variants[FALSE] = handled
  <2>1. CodingMatters' => Varies(handled)
    BY <1>3, <1>5 DEF CodingMatters
  <2> QED
    BY <1>4, <2>1 DEF CacheKeyed
<1>6. CASE Keyed(handled)
  BY <1>4, <1>6 DEF CacheKeyed
<1>7. CASE AssetNotModified
  <2>1. AssetNotModified'
    BY <1>1, <1>2, <1>7 DEF AssetNotModified
  <2> QED
    BY <2>1 DEF CacheKeyed
<1> QED
  BY <1>2, <1>5, <1>6, <1>7 DEF Variants, AssetNotModified

(* A response that dispatch returns. *)
LEMMA DispatchAnswers ==
  ASSUME Answering, stage \in {"routed", "handling"}, NEW r, WellFormed(r),
         NEW others, Dispatched(r, others), Variants(r, others)
  PROVE  Answering'
<1>1. /\ stage' = "answered" /\ handled' = r /\ variants' = others
      /\ asked' = asked
      /\ response' = ApplyConditionalRequest(request, r)
      /\ request' = [request EXCEPT !.path = <<>>, !.authority = Nothing,
                                    !.parameters = 0]
  BY DEF Dispatched, LeaveRouter
<1>2. Asks(request', asked)
  BY <1>1 DEF Answering, Asks, RequestFields
<1>3. response' = r \/ response' = NotModifiedFrom(r)
  BY <1>1 DEF ApplyConditionalRequest
<1>4. WellFormed(response')
  BY <1>3, NotModifiedFormed
<1>5. Variants(handled', variants')
  BY <1>1
<1> QED
  BY <1>1, <1>2, <1>3, <1>4, <1>5 DEF Answering

(* One that does not depend on the request's fields. *)
LEMMA ReturnAnswers ==
  ASSUME Answering, stage \in {"routed", "handling"}, NEW r, WellFormed(r),
         Returned(r)
  PROVE  Answering'
<1>1. Dispatched(r, Always(r))
  BY DEF Returned
<1>2. Variants(r, Always(r))
  BY AlwaysVariants
<1> QED
  BY <1>1, <1>2, DispatchAnswers

(* Every step of a request keeps track of what is being answered. *)
LEMMA AnsweringKept ==
  ASSUME Answering, Next
  PROVE  Answering'
<1>1. CASE Receive
  <2>1. PICK n, base :
          /\ input' = [input EXCEPT !.bytes = n, !.base = base]
          /\ result' = Parse(parser, input.message, n, base)
    BY <1>1 DEF Receive
  <2>2. /\ stage = "reading" /\ stage' = "reading" /\ asked' = asked
        /\ parser' = result'.parser
    BY <1>1 DEF Receive
  <2>3. Reads(parser, input.message.line.method) /\ asked = input.message.line.method
    BY <2>2 DEF Answering
  <2>4. Reads(parser', asked) /\ (result'.kind = "request" => Asks(result'.request, asked))
    BY <2>1, <2>2, <2>3, Parses
  <2>5. DOMAIN input' = {"message", "bytes", "base"} /\ input'.message = input.message
    BY <2>1, <2>2 DEF Answering
  <2> QED
    BY <2>2, <2>3, <2>4, <2>5 DEF Answering
<1>2. CASE Adopt
  <2>1. Asks([result.request EXCEPT !.views = NoViews], asked)
    BY <1>2 DEF Adopt, Answering, Asks, RequestFields
  <2> QED
    BY <1>2, <2>1 DEF Adopt, Answering
<1>3. ASSUME NEW status, SerializeError(status)
      PROVE  Answering'
  <2>1. Variants(handled', variants')
    BY <1>3, AlwaysVariants DEF SerializeError
  <2> QED
    BY <1>3, <2>1, RouterFormed DEF SerializeError, Answering
<1>4. CASE RejectRequest \/ RequestTimeout
  BY <1>3, <1>4 DEF RejectRequest, RequestTimeout
<1>5. CASE CloseEarly
  BY <1>5 DEF CloseEarly, Answering
<1>6. ASSUME NEW t, Register(t)
      PROVE  Answering'
  BY <1>6 DEF Register, Answering
<1>7. CASE RegisterRoute \/ RegisterMount \/ RegisterMiddleware \/ RegisterFallback
  BY <1>6, <1>7 DEF RegisterRoute, RegisterMount, RegisterMiddleware, RegisterFallback
<1>8. CASE StartDispatch \/ MiddlewarePasses \/ SelectAnswer
  BY <1>8 DEF StartDispatch, MiddlewarePasses, SelectAnswer, Answering
<1>9. CASE CallHandler
  <2>1. /\ stage \in {"middleware", "routed"} /\ stage' = "handling"
        /\ handled' \in Responses /\ asked' = asked
        /\ request' = [request EXCEPT !.path = <<>>, !.authority = Nothing,
                                      !.parameters = 0]
    BY <1>9 DEF CallHandler, LeaveRouter
  <2>2. Asks(request', asked)
    BY <2>1 DEF Answering, Asks, RequestFields
  <2>3. WellFormed(handled')
    BY <2>1, PathAssumption
  <2> QED
    BY <2>1, <2>2, <2>3 DEF Answering
<1>10. CASE SetField
  <2>1. PICK call \in HeaderCalls :
          handled' = SetHeader(handled, call.field, call.valid)
    BY <1>10 DEF SetField
  <2>2. /\ stage = "handling" /\ stage' = "handling" /\ asked' = asked
        /\ request' = request
    BY <1>10 DEF SetField
  <2>3. WellFormed(handled) /\ IsField(call.field)
    BY <2>2, PathAssumption DEF Answering
  <2>4. WellFormed(handled')
    BY <2>1, <2>3, PathAssumption, FieldIsSet
  <2> QED
    BY <2>2, <2>4 DEF Answering
<1>11. CASE HandlerAnswers
  <2>1. stage = "handling" /\ (Returned(handled) \/ Returned(ErrorResponse(500)))
    BY <1>11 DEF HandlerAnswers
  <2>2. WellFormed(handled) /\ WellFormed(ErrorResponse(500))
    BY <2>1, RouterFormed DEF Answering
  <2> QED
    BY <2>1, <2>2, ReturnAnswers
<1>12. CASE AssetAnswers
  <2>1. PICK asset :
          Dispatched(AssetResponse(asset, request),
                     [wanted \in BOOLEAN |->
                        AssetResponse(asset, Unconditional(wanted))])
    BY <1>12 DEF AssetAnswers
  <2>2. stage = "routed" /\ WellFormed(AssetResponse(asset, request))
    BY <1>12, AssetFormed DEF AssetAnswers
  <2> DEFINE others == [wanted \in BOOLEAN |->
                          AssetResponse(asset, Unconditional(wanted))]
  <2>3. /\ others[TRUE] = AssetResponse(asset, Unconditional(TRUE))
        /\ others[FALSE] = AssetResponse(asset, Unconditional(FALSE))
    OBVIOUS
  <2>4. /\ Unconditional(TRUE).condition = <<>>
        /\ Unconditional(FALSE).condition = <<>>
    BY <2>2 DEF Unconditional, Answering, Asks, RequestFields
  <2> HIDE DEF others
  <2>5. Variants(AssetResponse(asset, request), others)
    BY <2>3, <2>4, AssetVariants
  <2> QED
    BY <2>1, <2>2, <2>5, DispatchAnswers DEF others
<1>13. CASE RouterRefuses
  <2>1. /\ stage = "routed"
        /\ \/ Returned(ErrorResponse(404))
           \/ Returned(MethodNotAllowed(routed.methods))
    BY <1>13 DEF RouterRefuses
  <2>2. WellFormed(ErrorResponse(404)) /\ WellFormed(MethodNotAllowed(routed.methods))
    BY RouterFormed
  <2> QED
    BY <2>1, <2>2, ReturnAnswers
<1>14. CASE Serialize \/ StartWrite \/ Write
  BY <1>14 DEF Serialize, StartWrite, Write, Answering
<1>15. CASE Finished
  BY <1>15 DEF Finished, vars, Answering
<1> QED
  BY <1>1, <1>2, <1>4, <1>5, <1>7, <1>8, <1>9, <1>10, <1>11, <1>12, <1>13, <1>14,
     <1>15 DEF Next

(* Nothing but Serialize makes a head, and nothing changes one.            *)
LEMMA HeadsKept ==
  ASSUME Next, ~Serialize
  PROVE  stage' # "encoded"
BY Zenon DEF Next, Receive, Adopt, RejectRequest, RequestTimeout, SerializeError,
  CloseEarly, RegisterRoute, RegisterMount, RegisterMiddleware, RegisterFallback,
  Register, StartDispatch, MiddlewarePasses, CallHandler, SetField, SelectAnswer,
  HandlerAnswers, AssetAnswers, RouterRefuses, Returned, Dispatched, StartWrite,
  Write, Finished, vars

(* The heads of all responses, by induction over the steps of a request.   *)
THEOREM HeadsAgree == Spec => [](Answering /\ FramingAgrees /\ CacheKeyed)
<1>1. Init => Answering /\ FramingAgrees /\ CacheKeyed
  <2>1. SUFFICES ASSUME Init
                 PROVE  Answering /\ FramingAgrees /\ CacheKeyed
    OBVIOUS
  <2>2. PICK m \in Messages, base \in Addresses :
          input = [message |-> m, bytes |-> 0, base |-> base]
    BY <2>1 DEF Init
  <2>3. /\ stage = "reading" /\ parser = FreshParser
        /\ result = Outcome("more", FreshParser, "NeedsMoreData")
        /\ asked = input.message.line.method
    BY <2>1 DEF Init
  <2>4. DOMAIN input = {"message", "bytes", "base"}
    BY <2>2
  <2>5. Reads(parser, asked) /\ result.kind = "more"
    BY <2>3 DEF Reads, FreshParser, ParserFields, Outcome
  <2> QED
    BY <2>3, <2>4, <2>5 DEF Answering, FramingAgrees, CacheKeyed
<1>2. Answering /\ FramingAgrees /\ CacheKeyed /\ [Next]_vars
        => (Answering /\ FramingAgrees /\ CacheKeyed)'
  <2>1. SUFFICES ASSUME Answering, FramingAgrees, CacheKeyed, [Next]_vars
                 PROVE  (Answering /\ FramingAgrees /\ CacheKeyed)'
    OBVIOUS
  <2>2. CASE Serialize
    BY <2>1, <2>2, AnsweringKept, SerializeFrames, SerializeKeys DEF Next
  <2>3. CASE Next /\ ~Serialize
    <3>1. stage' # "encoded"
      BY <2>3, HeadsKept
    <3> QED
      BY <2>1, <2>3, <3>1, AnsweringKept DEF FramingAgrees, CacheKeyed
  <2>4. CASE UNCHANGED vars
    <3>1. /\ stage' = stage /\ input' = input /\ parser' = parser /\ result' = result
          /\ request' = request /\ asked' = asked /\ handled' = handled
          /\ response' = response /\ encoded' = encoded /\ variants' = variants
      BY <2>4 DEF vars
    <3>2. Answering'
      BY <2>1, <3>1 DEF Answering
    <3>3. FramingAgrees'
      BY <2>1, <3>1 DEF FramingAgrees, Named, Announced, PeerExpects, BytesSent
    <3>4. CacheKeyed'
      BY <2>1, <3>1 DEF CacheKeyed, CodingMatters, Sent, AssetNotModified,
                        VaryNamesCoding, Named, Announced
    <3> QED
      BY <3>2, <3>3, <3>4
  <2> QED
    BY <2>1, <2>2, <2>3, <2>4
<1> QED
  BY <1>1, <1>2, PTL DEF Spec

(* Whatever fields a handler sets, in whatever case and order, the head    *)
(* is framed by the encoder alone and announces the bytes that follow, and *)
(* no name occurs twice but Content-Encoding, and that only as the         *)
(* handler's empty field beside the encoder's gzip (encode_response,       *)
(* dispatch_and_serialize).                                                *)
THEOREM HeadAnnouncesBody == Spec => []FramingAgrees
<1> QED
  BY HeadsAgree, PTL

(* The answer of a resource whose bytes or status depend on                *)
(* Accept-Encoding says so in Vary (encode_response, asset_response), a    *)
(* 304 in its place too (not_modified_from), and the only answer that does *)
(* not is the 304 of asset_response for an asset that is not precompressed.*)
THEOREM CachesAreTold == Spec => []CacheKeyed
<1> QED
  BY HeadsAgree, PTL
=============================================================================
