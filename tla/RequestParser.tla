---------------------------- MODULE RequestParser ----------------------------
(***************************************************************************)
(* The incremental request parser (src/src/request.cpp).                   *)
(*                                                                         *)
(* A message is a record of what the parser can tell apart:                *)
(*   crlf     it starts with one empty line                                *)
(*   line     bytes, shape ("ok" or "bad": the spaces), method, version    *)
(*            ("1.1", "1.0", "other", "bad") and target                    *)
(*   target   bytes, form ("origin", "absolute", "bad"), authority, path   *)
(*            (its segments; <<"">> is "/") and query (one kind a pair:    *)
(*            "pair", "escape" for a bad escape, "skip" for no name)       *)
(*   fields   each with bytes, ok (the line is well formed), name, value   *)
(*            and blank (the value is empty)                               *)
(*   body     bytes behind the header block                                *)
(* A value is the list of its members, of Host the authority, of           *)
(* Content-Length the number, NotANumber for anything else.  Bytes are     *)
(* counted: the parser sees the first n bytes of a message, at an address  *)
(* that may change between two calls.                                      *)
(***************************************************************************)
EXTENDS Integers, Sequences, FiniteSets, FiniteSetsExt, SequencesExt

CONSTANTS
  MaxLine, MaxBlock, MaxFields, MaxTarget, MaxBody,  \* RequestLimits
  Capacity,    \* kMaxParsedHeaders, of fields and of query parameters
  MaxWord,     \* largest uint64_t
  BadAuthorities  \* nonempty, and refused by authority_is_well_formed

ASSUME ParserAssumption ==
  /\ {MaxLine, MaxBlock, MaxFields, MaxTarget, MaxBody, Capacity, MaxWord}
       \subseteq Nat
  /\ MaxBody <= MaxWord

IsMessage(m) ==
  /\ m.crlf \in BOOLEAN /\ m.line.bytes \in Nat /\ m.body \in Nat
  /\ m.line.target.path \in Seq(ToSet(m.line.target.path))
  /\ m.fields \in Seq(ToSet(m.fields))
  /\ \A i \in DOMAIN m.fields :
       /\ m.fields[i].bytes \in Nat
       /\ m.fields[i].name = "content-length" => m.fields[i].value \in Int

NotANumber == -1
Nothing == ""                    \* an empty view

-----------------------------------------------------------------------------
(* The layout: line CRLF, every field CRLF, CRLF, body.                     *)

Prologue(m) == IF m.crlf THEN 2 ELSE 0

Terminator(m) ==
  LET end[i \in 0 .. Len(m.fields)] ==
        IF i = 0 THEN m.line.bytes ELSE end[i - 1] + m.fields[i].bytes + 2
  IN  end[Len(m.fields)]

HeaderBlock(m) == Terminator(m) + 4
BodyOffset(m) == Prologue(m) + HeaderBlock(m)

\* What is left of the first n bytes behind the empty line, which shows only
\* when both of its bytes are there.
RequestBytes(m, n) == IF n >= 2 THEN n - Prologue(m) ELSE n

LineEndSeen(m, n) == RequestBytes(m, n) >= m.line.bytes + 2
TerminatorSeen(m, n) == RequestBytes(m, n) >= HeaderBlock(m)

-----------------------------------------------------------------------------
(* Every check of parse_head, in the order in which it is made: the first   *)
(* that fails names the error.                                              *)

Check(fails, error) == IF fails THEN error ELSE "none"

FirstOf(errors) ==
  LET found == {i \in DOMAIN errors : errors[i] # "none"}
  IN  IF found = {} THEN "none" ELSE errors[Min(found)]

\* The fields of a name, and the value of the first.
At(fields, name) == {i \in DOMAIN fields : fields[i].name = name}
FirstValue(fields, name) == fields[Min(At(fields, name))].value

Members(fields, name) ==
  FlattenSeq([i \in DOMAIN fields |->
    IF i \in At(fields, name) THEN fields[i].value ELSE <<>>])

\* The limit of the line, tested on what has arrived of it.
LineBytes(m, n) ==
  IF LineEndSeen(m, n) THEN m.line.bytes ELSE RequestBytes(m, n)

ArrivalError(m, n) ==
  FirstOf(<< Check(LineBytes(m, n) > MaxLine, "TargetTooLong"),
             Check(~TerminatorSeen(m, n) /\ RequestBytes(m, n) > MaxBlock,
                   "TooManyHeaders"),
             Check(~TerminatorSeen(m, n), "NeedsMoreData"),
             Check(HeaderBlock(m) > MaxBlock, "TooManyHeaders") >>)

RequestLineError(line) ==
  FirstOf(<< Check(line.shape = "bad", "MalformedRequestLine"),
             Check(line.method = "unknown", "UnknownMethod"),
             Check(line.version = "bad", "MalformedRequestLine"),
             Check(line.version = "other", "UnsupportedVersion"),
             Check(line.target.bytes > MaxTarget, "TargetTooLong") >>)

FieldError(fields) ==
  FirstOf([i \in DOMAIN fields |->
    FirstOf(<< Check(~fields[i].ok, "MalformedHeader"),
               Check(i > MaxFields \/ i > Capacity, "TooManyHeaders") >>)])

\* Of every Content-Length, of any Transfer-Encoding, of the length they name.
LengthError(fields) ==
  LET lengths == At(fields, "content-length")
      Differs(i) == \/ fields[i].value = NotANumber
                    \/ fields[i].value # FirstValue(fields, "content-length")
  IN  FirstOf(
        << FirstOf([i \in DOMAIN fields |->
             FirstOf(<< Check(i \in lengths /\ fields[i].value > MaxWord,
                              "BodyTooLarge"),
                        Check(i \in lengths /\ Differs(i),
                              "MalformedHeader") >>)]),
           Check(At(fields, "transfer-encoding") # {},
                 "UnsupportedTransferEncoding"),
           Check(lengths # {} /\ FirstValue(fields, "content-length") > MaxBody,
                 "BodyTooLarge") >>)

ContentLength(fields) ==
  IF At(fields, "content-length") = {} THEN 0
  ELSE FirstValue(fields, "content-length")

\* resolve_authority, with the authority of an absolute target.
AuthorityError(m) ==
  LET hosts == At(m.fields, "host")
      named == m.line.target.authority
  IN  FirstOf(
        << Check(Cardinality(hosts) > 1, "MalformedHost"),
           Check(hosts = {} /\ m.line.version = "1.1", "MissingHost"),
           Check(\E i \in hosts :
                   m.fields[i].value \in BadAuthorities \cup {Nothing},
                 "MalformedHost"),
           Check(named \in BadAuthorities, "MalformedHost"),
           Check(named # Nothing /\ hosts # {}
                   /\ FirstValue(m.fields, "host") # named,
                 "MalformedHost") >>)

Authority(m) ==
  IF m.line.target.authority # Nothing THEN m.line.target.authority
  ELSE IF At(m.fields, "host") = {} THEN Nothing
  ELSE FirstValue(m.fields, "host")

\* split_target: an absolute target without a path names the static "/".
Path(target) == IF target.path = <<>> THEN <<"">> ELSE target.path

IsCanonical(path) ==
  \A i \in DOMAIN path :
    /\ path[i] \notin {".", "..", "%", "\\"}
    /\ path[i] = "" => i = Len(path)

Parameters(query) == SelectSeq(query, LAMBDA pair : pair # "skip")

QueryError(query) ==
  LET pairs == Parameters(query)
  IN  FirstOf([i \in DOMAIN pairs |->
        FirstOf(<< Check(i > Capacity, "TargetTooLong"),
                   Check(pairs[i] = "escape", "BadPercentEncoding") >>)])

HeadError(m, n) ==
  FirstOf(<< ArrivalError(m, n),
             RequestLineError(m.line),
             FieldError(m.fields),
             LengthError(m.fields),
             Check(m.line.target.form = "bad", "MalformedRequestLine"),
             AuthorityError(m),
             Check(~IsCanonical(Path(m.line.target)), "MalformedRequestLine"),
             QueryError(m.line.target.query) >>)

\* status_for
StatusFor(error) ==
  CASE error = "TooManyHeaders" -> 431
    [] error = "TargetTooLong" -> 414
    [] error = "BodyTooLarge" -> 413
    [] error = "UnsupportedTransferEncoding" -> 501
    [] error = "UnsupportedVersion" -> 421
    [] OTHER -> 400

-----------------------------------------------------------------------------
(* What the head asks for.                                                  *)

ResolveKeepAlive(m) ==
  LET options == ToSet(Members(m.fields, "connection"))
  IN  /\ "close" \notin options
      /\ m.line.version = "1.1" \/ "keep-alive" \in options

\* A member of Accept-Encoding is a coding and whether its weight is zero;
\* the last member that names a coding decides.
ResolveWantsGzip(m) ==
  LET codings == Members(m.fields, "accept-encoding")
      LastOf(names) == SelectLastInSeq(codings, LAMBDA c : c.coding \in names)
      gzip == LastOf({"gzip", "x-gzip"})
      any == LastOf({"*"})
  IN  CASE gzip # 0 -> ~codings[gzip].zero
        [] gzip = 0 /\ any # 0 -> ~codings[any].zero
        [] OTHER -> FALSE

\* The nonempty views of the request that lie in the read buffer.  Decoded
\* query parameters lie in the request's own arena, the root path of a target
\* without one in static storage.
Views(m) ==
  LET target == m.line.target
  IN  {<<"raw_target", 0>>}
      \cup {<<"path", 0>> : x \in {1} \cap DOMAIN target.path}
      \cup {<<"query", 0>> : x \in {1} \cap DOMAIN target.query}
      \cup {<<"authority", 0>> : x \in {Authority(m)} \ {Nothing}}
      \cup {<<"name", i>> : i \in DOMAIN m.fields}
      \cup {<<"value", i>> : i \in {j \in DOMAIN m.fields :
                                      ~m.fields[j].blank}}

NoViews == [v \in {} |-> 0]

\* Request::reset
NoRequest ==
  [method |-> "None", path |-> <<>>, authority |-> Nothing,
   parameters |-> 0, keepAlive |-> FALSE, wantsGzip |-> FALSE,
   namesCodings |-> FALSE, condition |-> <<>>, views |-> NoViews]

\* namesCodings and condition stand for the lookups header("Accept-Encoding")
\* and header("If-None-Match"), which return the first field of the name.
RequestOf(m, base) ==
  LET conditions == At(m.fields, "if-none-match")
  IN  [method |-> m.line.method,
       path |-> Path(m.line.target),
       authority |-> Authority(m),
       parameters |-> Len(Parameters(m.line.target.query)),
       keepAlive |-> ResolveKeepAlive(m),
       wantsGzip |-> ResolveWantsGzip(m),
       namesCodings |-> At(m.fields, "accept-encoding") # {},
       condition |-> IF conditions = {} THEN <<>>
                     ELSE FirstValue(m.fields, "if-none-match"),
       views |-> [v \in Views(m) |-> base]]

-----------------------------------------------------------------------------
(* RequestParser: the head it has validated, and the address of the bytes   *)
(* its views were taken from.                                               *)

FreshParser ==
  [head |-> FALSE, request |-> NoRequest, borrowed |-> {}, base |-> 0,
   bodyOffset |-> 0, bodyBytes |-> 0]

\* remember_buffer_offsets: the views that point into the buffer.
Borrowed(request, base) ==
  {v \in DOMAIN request.views : request.views[v] = base}

ParseHead(m, base) ==
  LET request == RequestOf(m, base)
  IN  [head |-> TRUE, request |-> request,
       borrowed |-> Borrowed(request, base), base |-> base,
       bodyOffset |-> BodyOffset(m), bodyBytes |-> ContentLength(m.fields)]

(* Fault: the address is taken over, the views are not. *)
RebaseForgetsViews(p, base) == [p EXCEPT !.base = base]

\* rebase_borrowed_views
Rebase(p, base) ==
  [p EXCEPT !.base = base,
            !.request = [p.request EXCEPT !.views =
               [v \in DOMAIN p.request.views |->
                  IF v \in p.borrowed THEN base ELSE p.request.views[v]]]]

Outcome(kind, p, error) ==
  [kind |-> kind, error |-> error, parser |-> p, request |-> NoRequest,
   consumed |-> 0]

\* RequestParser::parse on the first n bytes of m, which are at base.
Parse(p, m, n, base) ==
  LET error == IF p.head THEN "none" ELSE HeadError(m, n)
      q == IF p.head THEN Rebase(p, base) ELSE ParseHead(m, base)
  IN  CASE error = "NeedsMoreData" -> Outcome("more", p, error)
        [] error \notin {"NeedsMoreData", "none"} -> Outcome("error", p, error)
        [] error = "none" /\ n - q.bodyOffset < q.bodyBytes ->
             Outcome("more", q, "NeedsMoreData")
        [] OTHER ->
             [kind |-> "request", error |-> "none", parser |-> FreshParser,
              request |-> [q.request EXCEPT !.views = @ @@
                             [v \in {<<"body", 0>>} |-> base]],
              consumed |-> q.bodyOffset + q.bodyBytes]
=============================================================================
