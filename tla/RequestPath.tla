----------------------------- MODULE RequestPath -----------------------------
(***************************************************************************)
(* One request from its first byte to the last byte of its response: the   *)
(* read buffer and the parser, the router, a handler, the conditional      *)
(* request and the encoder, and the writer, in the order in which          *)
(* Connection (src/src/connection.cpp) drives them.  What connections and  *)
(* timers do between requests is the subject of module Connection.         *)
(*                                                                         *)
(* A stage keeps only what later stages read.  The routes are registered   *)
(* before the server starts and never change; here they are registered     *)
(* when a parsed request first needs them, which nothing can observe.      *)
(***************************************************************************)
EXTENDS RequestParser, Router, ResponseWriter

CONSTANTS
  Messages,        \* what the peer may send
  Addresses,       \* where the read buffer may lie
  Patterns, MethodSets, MountPrefixes, Bundles, MaxRegistrations,
  Responses,       \* what a handler or a middleware starts with
  HeaderCalls, MaxCalls,   \* fields it may set on it; bound: how many
  HeadUnits, BodyUnits   \* bound: units a head, and a nonempty body, is cut in

ASSUME PathAssumption ==
  /\ HeadUnits \in Nat \ {0} /\ BodyUnits \in Nat \ {0}
  /\ \A m \in Messages : IsMessage(m)
  /\ \A p \in Patterns \cup MountPrefixes : IsPattern(p)
  /\ \A b \in Bundles : IsBundle(b)
  /\ \A methods \in MethodSets : methods \subseteq Methods
  /\ \A r \in Responses : WellFormed(r)
  /\ \A call \in HeaderCalls : IsField(call.field) /\ call.valid \in BOOLEAN

VARIABLES
  stage,    \* reading, registering, middleware, routed, handling, answered,
            \* encoded, writing, closed
  input,    \* the message, the bytes of it that have arrived, their address
  parser,   \* request_parser_
  result,   \* what parse() returned last
  router, steps,   \* the Router, the registrations and middlewares run so far
  request,  \* request_
  asked,    \* the method the peer sent
  routed,   \* the answer dispatch selects
  handled, response,  \* the response dispatch returns; pending_response_
  encoded,  \* what encode_response makes of it
  variants  \* history: what dispatch returns for the same request without a
            \* condition, with gzip wanted and with gzip refused

vars == <<stage, input, parser, result, router, steps, request, asked, routed,
          handled, response, encoded, variants, w>>

reading == <<input, parser, result>>
routing == <<router, steps, routed>>
answering == <<handled, response, encoded, variants>>

Clear == "none"   \* of a variable the stage does not use

Idle == StartWriting(FALSE, 0, 0, 0)

Init ==
  /\ stage = "reading"
  /\ \E m \in Messages, base \in Addresses :
       input = [message |-> m, bytes |-> 0, base |-> base]
  /\ parser = FreshParser
  /\ result = Outcome("more", FreshParser, "NeedsMoreData")
  /\ router = EmptyRouter /\ steps = 0 /\ routed = Clear
  /\ request = NoRequest /\ asked = input.message.line.method
  /\ handled = Clear /\ response = Clear /\ encoded = Clear
  /\ variants = Clear
  /\ w = Idle

-----------------------------------------------------------------------------
(* Reading                                                                  *)

\* The message, and one byte of the next one that may arrive with it.
Size(m) == BodyOffset(m) + m.body + 1

\* A read of drive_read_headers or drive_read_body, which may have grown the
\* buffer, and the parse of all that has arrived.
Receive ==
  /\ stage = "reading" /\ result.kind = "more"
  /\ \E n \in input.bytes + 1 .. Size(input.message), base \in Addresses :
       /\ input' = [input EXCEPT !.bytes = n, !.base = base]
       /\ result' = Parse(parser, input.message, n, base)
  /\ parser' = result'.parser
  /\ UNCHANGED <<stage, request, asked, routing, answering, w>>

\* adopt_parsed_request.  The views end with the stage: no property of a later
\* one is about them.
Adopt ==
  /\ stage = "reading" /\ result.kind = "request"
  /\ stage' = "registering"
  /\ request' = [result.request EXCEPT !.views = NoViews]
  /\ input' = Clear /\ parser' = FreshParser /\ result' = Clear
  /\ UNCHANGED <<asked, routing, answering, w>>

\* Of an answer that the library does not choose by the request's fields.
Always(r) == [wanted \in BOOLEAN |-> r]

\* serialize_error: the request is forgotten, and with it keep-alive.
SerializeError(status) ==
  /\ stage' = "answered"
  /\ request' = NoRequest
  /\ handled' = ErrorResponse(status) /\ response' = ErrorResponse(status)
  /\ variants' = Always(ErrorResponse(status))
  /\ input' = Clear /\ parser' = FreshParser /\ result' = Clear
  /\ UNCHANGED <<asked, routing, encoded, w>>

RejectRequest ==
  /\ stage = "reading" /\ result.kind = "error"
  /\ SerializeError(StatusFor(result.error))

\* on_deadline_expired while a part of a request has arrived.
RequestTimeout ==
  /\ stage = "reading" /\ result.kind = "more" /\ input.bytes > 0
  /\ SerializeError(408)

\* The peer closes its side, or the idle deadline passes.
CloseEarly ==
  /\ stage = "reading" /\ result.kind = "more"
  /\ stage' = "closed"
  /\ input' = Clear /\ parser' = FreshParser /\ result' = Clear
  /\ UNCHANGED <<request, asked, routing, answering, w>>

-----------------------------------------------------------------------------
(* Registration and dispatch                                                *)

Register(t) ==
  /\ stage = "registering" /\ steps < MaxRegistrations
  /\ router' = t /\ steps' = steps + 1
  /\ UNCHANGED <<stage, reading, request, asked, routed, answering, w>>

\* A rejected registration throws and leaves the router as it was.
RegisterRoute ==
  \E methods \in MethodSets, pattern \in Patterns :
    /\ RouteAccepted(router, methods, pattern)
    /\ Register(AddRoute(router, methods, pattern))

RegisterMount ==
  \E prefix \in MountPrefixes, bundle \in Bundles :
    /\ MountAccepted(prefix)
    /\ Register(AddMount(router, prefix, bundle))

\* Router::use and Router::fallback
RegisterMiddleware == Register([router EXCEPT !.middleware = @ + 1])

RegisterFallback ==
  ~router.fallback /\ Register([router EXCEPT !.fallback = TRUE])

StartDispatch ==
  /\ stage = "registering"
  /\ stage' = "middleware" /\ steps' = 0
  /\ UNCHANGED <<reading, request, asked, router, routed, answering, w>>

\* A middleware lets the request pass.
MiddlewarePasses ==
  /\ stage = "middleware" /\ steps < router.middleware
  /\ steps' = steps + 1
  /\ UNCHANGED <<stage, reading, request, asked, router, routed, answering, w>>

SelectAnswer ==
  /\ stage = "middleware" /\ steps = router.middleware
  /\ stage' = "routed"
  /\ routed' = Select(router, request.method, request.path)
  /\ UNCHANGED <<reading, request, asked, router, steps, answering, w>>

LeaveRouter ==
  /\ request' = [request EXCEPT !.path = <<>>, !.authority = Nothing,
                                !.parameters = 0]
  /\ router' = EmptyRouter /\ steps' = 0 /\ routed' = Clear

\* dispatch returns r and apply_conditional_request runs.
Dispatched(r, others) ==
  /\ stage' = "answered"
  /\ handled' = r /\ response' = ApplyConditionalRequest(request, r)
  /\ variants' = others
  /\ LeaveRouter
  /\ UNCHANGED <<reading, asked, encoded, w>>

Returned(r) == Dispatched(r, Always(r))

\* A middleware answers instead of the router, or a handler is called.
CallHandler ==
  /\ \/ stage = "middleware" /\ steps < router.middleware
     \/ stage = "routed" /\ routed.by \in {"route", "fallback"}
  /\ stage' = "handling"
  /\ handled' \in Responses
  /\ LeaveRouter
  /\ UNCHANGED <<reading, asked, response, encoded, variants, w>>

\* Response::header, etag, cache_for and the like.
SetField ==
  /\ stage = "handling" /\ steps < MaxCalls
  /\ \E call \in HeaderCalls :
       handled' = SetHeader(handled, call.field, call.valid)
  /\ steps' = steps + 1
  /\ UNCHANGED <<stage, reading, request, asked, router, routed, response,
                 encoded, variants, w>>

\* invoke_handler, invoke_middleware: a response, or 500 for an exception.
HandlerAnswers ==
  /\ stage = "handling"
  /\ Returned(handled) \/ Returned(ErrorResponse(500))

Unconditional(wanted) ==
  [request EXCEPT !.condition = <<>>, !.namesCodings = TRUE,
                  !.wantsGzip = wanted]

AssetAnswers ==
  /\ stage = "routed" /\ routed.by = "asset"
  /\ LET mount == router.mounts[routed.index]
         asset == mount.bundle[AssetOf(mount, request.path)]
     IN  Dispatched(AssetResponse(asset, request),
                    [wanted \in BOOLEAN |->
                       AssetResponse(asset, Unconditional(wanted))])

RouterRefuses ==
  /\ stage = "routed"
  /\ \/ routed.by = "not found" /\ Returned(ErrorResponse(404))
     \/ routed.by = "not allowed" /\ Returned(MethodNotAllowed(routed.methods))

-----------------------------------------------------------------------------
(* Encoding and writing                                                     *)

\* dispatch_and_serialize, from the response on.  last: the connection serves
\* no request after this one.
Serialize ==
  /\ stage = "answered" /\ stage' = "encoded"
  /\ \E last, secure, server \in BOOLEAN, gzip \in GzipOutcomes(response) :
       LET keepAlive == ~response.stream /\ request.keepAlive /\ ~last
           options == [keepAlive |-> keepAlive, secure |-> secure,
                       server |-> server]
           encoding == EncodeResponse(request, response, options, gzip)
       IN  /\ encoded' = encoding
           /\ w' = StartWriting(secure, HeadUnits,
                     IF encoding.suppressed \/ encoding.body = 0 THEN 0
                     ELSE BodyUnits,
                     IF response.stream /\ request.method # "Head"
                     THEN MaxFrames ELSE 0)
  /\ UNCHANGED <<reading, request, asked, routing, handled, response, variants>>

StartWrite ==
  /\ stage = "encoded" /\ stage' = "writing"
  /\ request' = NoRequest /\ asked' = Clear
  /\ handled' = Clear /\ response' = Clear /\ encoded' = Clear
  /\ variants' = Clear
  /\ UNCHANGED <<reading, routing, w>>

Write ==
  /\ stage = "writing" /\ WriteStep
  /\ UNCHANGED <<stage, reading, request, asked, routing, answering>>

\* The next request, or the close, is the connection's.
Finished ==
  /\ stage = "closed" \/ (stage = "writing" /\ w.state # "writing")
  /\ UNCHANGED vars

Next ==
  \/ Receive \/ Adopt \/ RejectRequest \/ RequestTimeout \/ CloseEarly
  \/ RegisterRoute \/ RegisterMount \/ RegisterMiddleware \/ RegisterFallback
  \/ StartDispatch \/ MiddlewarePasses \/ CallHandler \/ SetField
  \/ SelectAnswer \/ HandlerAnswers \/ AssetAnswers \/ RouterRefuses
  \/ Serialize \/ StartWrite \/ Write \/ Finished

Spec == Init /\ [][Next]_vars

-----------------------------------------------------------------------------
(* Properties                                                               *)

\* The outcome of a message that is all there at once.
Whole(m, base) == Parse(FreshParser, m, Size(m), base)

\* The line is exactly as long as allowed and its CR is the last byte seen:
\* the CR is counted to the line.
CutBehindCR(m, n) ==
  m.line.bytes = MaxLine /\ RequestBytes(m, n) = MaxLine + 1

\* With a header block limited below the request line, the part seen of a line
\* that is going to be too long is already too long for a block.
CutInLongLine(m, n) ==
  m.line.bytes > MaxLine /\ RequestBytes(m, n) \in (MaxBlock + 1)..MaxLine

CutMatters(m, n) == CutBehindCR(m, n) \/ CutInLongLine(m, n)

\* However a message is cut into reads, and wherever the buffer moves in
\* between, parse() ends with the outcome of the whole message: the same error,
\* or the same request and the same bytes consumed, with every view it lends in
\* the buffer of today.  A request is accepted only if all of its length fields
\* name the length used.  Only at the two cuts of CutMatters is the answer another.
ParsedAsIfWhole ==
  stage = "reading" /\ ~CutMatters(input.message, input.bytes) =>
    LET m == input.message
        whole == Whole(m, input.base)
    IN  /\ result.kind = "error" =>
             whole.kind = "error" /\ whole.error = result.error
        /\ result.kind = "request" =>
             /\ whole.kind = "request"
             /\ result.request = whole.request
             /\ result.consumed = whole.consumed
             /\ result.consumed <= input.bytes
             /\ \A i \in DOMAIN m.fields :
                  /\ m.fields[i].name # "transfer-encoding"
                  /\ m.fields[i].name = "content-length" =>
                       result.consumed = BodyOffset(m) + m.fields[i].value
        /\ result.kind = "more" /\ input.bytes = Size(m) => whole.kind = "more"

\* What a pattern promises, read off its pieces.
Covers(pattern, path) ==
  LET star == pattern[Len(pattern)].shape = "star"
      n == IF star THEN Len(pattern) - 1 ELSE Len(pattern)
  IN  /\ IF star THEN Len(path) >= Len(pattern) ELSE Len(path) = Len(pattern)
      /\ \A i \in 1 .. n : \/ pattern[i].shape = "plain"
                                /\ pattern[i].text = path[i]
                           \/ pattern[i].shape = "capture" /\ path[i] # ""

Holds(mount, path) ==
  /\ IsStrictPrefix(mount.prefix, path)
  /\ \E a \in ToSet(mount.bundle) : a.path = path \/ mount.prefix \o a.path = path

\* Whether a registration answers the method on the path.
Serves(method, path) ==
  \/ \E i \in DOMAIN router.routes : /\ method \in router.routes[i].methods
                                     /\ Covers(router.routes[i].pattern, path)
  \/ /\ method \in GetAndHead
     /\ \E i \in DOMAIN router.mounts : Holds(router.mounts[i], path)

\* Dispatch finds what was registered.  A route that answers covers the path,
\* has the method and is the first such of its kind, a static one before one
\* with captures or a wildcard; each capture is a nonempty segment of the path.
\* 405 lists exactly the methods the same path is served for, and 404 or the
\* fallback answers only a path nothing is registered for.
RoutedRight ==
  stage = "routed" =>
    LET path == request.path
        served == {method \in Methods : Serves(method, path)}
        fits == {i \in DOMAIN router.routes :
                   /\ request.method \in router.routes[i].methods
                   /\ Covers(router.routes[i].pattern, path)}
        static == {i \in fits : ~IsDynamic(router.routes[i].pattern)}
    IN  CASE routed.by = "route" ->
               /\ routed.index \in fits
               /\ \A i \in IF static # {} THEN static ELSE fits :
                    routed.index <= i
               /\ static # {} => routed.index \in static
               /\ LET pattern == router.routes[routed.index].pattern
                  IN  ToSet(routed.captures) =
                        {[name |-> pattern[i].text, value |-> path[i]] :
                           i \in {j \in DOMAIN pattern :
                                    pattern[j].shape = "capture"}}
          [] routed.by = "asset" ->
               /\ fits = {} /\ request.method \in served
               /\ Holds(router.mounts[routed.index], path)
          [] routed.by = "not allowed" ->
               request.method \notin served /\ routed.methods = served
          [] OTHER -> served = {}

Named(name) == {i \in DOMAIN encoded.fields : encoded.fields[i].field = name}

Announced(name) == encoded.fields[CHOOSE i \in Named(name) : TRUE].value

BytesSent == IF encoded.suppressed THEN 0 ELSE encoded.body

\* Whether the peer takes the response to end after n bytes (RFC 9112, 6.3);
\* without a length it reads until the close.
PeerExpects(n) ==
  IF asked = "Head" \/ Bodiless(encoded.status) THEN n = 0
  ELSE /\ Named("content-length") # {}
       /\ Announced("content-length") = Number(n)

\* The handler's empty Content-Encoding, which set_header accepts and which
\* encode_response takes for none but writes all the same, beside its own.
CodedTwice(x, y) ==
  {x, y} = {Line("content-encoding", <<>>), Line("content-encoding", <<"gzip">>)}

\* The head and the bytes behind it leave the peer one reading: whatever fields
\* the handler set, in whatever case, no name occurs twice, but for the one pair
\* of CodedTwice, which does occur; there is one Connection field and no transfer
\* coding; on a connection announced to stay, the end the peer derives is the end
\* of what is written, and on one announced to close a length is never announced
\* that is not written.
FramingAgrees ==
  stage = "encoded" =>
    /\ \A i, j \in DOMAIN encoded.fields :
         encoded.fields[i].field = encoded.fields[j].field =>
           i = j \/ CodedTwice(encoded.fields[i], encoded.fields[j])
    /\ Named("transfer-encoding") = {}
    /\ Announced("connection") \in {<<"keep-alive">>, <<"close">>}
    /\ Announced("connection") = <<"keep-alive">> => PeerExpects(BytesSent)
    /\ Named("content-length") # {} /\ asked # "Head" => PeerExpects(BytesSent)
    /\ response.stream =>
         Announced("connection") = <<"close">> /\ Named("content-length") = {}

\* What a client that wants gzip, or that refuses it, gets of the same resource.
Sent(wanted, gzip) ==
  LET options == [keepAlive |-> FALSE, secure |-> FALSE, server |-> FALSE]
      sent == EncodeResponse([request EXCEPT !.wantsGzip = wanted],
                             variants[wanted], options, gzip)
  IN  <<sent.status, sent.body>>

CodingMatters ==
  \E gzip \in GzipOutcomes(variants[TRUE]) : Sent(TRUE, gzip) # Sent(FALSE, gzip)

\* The 304 that asset_response makes itself, of an asset stored without a coding:
\* it has no Vary, although the 200 of the same asset varies when the encoder
\* could compress it.
AssetNotModified ==
  /\ handled.status = 304
  /\ variants[TRUE].status = 200 /\ ~HasHeader(variants[TRUE], "content-encoding")

VaryNamesCoding ==
  Named("vary") # {} /\ "accept-encoding" \in ToSet(Announced("vary"))

\* A cache that stores the response knows when to ask again: if a client that
\* wants gzip and one that refuses it could get different bytes, or one of them
\* a refusal, of the resource behind the request, the head says so in Vary.  So
\* do a 406 and every 304, but for the one of AssetNotModified, which does not.
CacheKeyed ==
  stage = "encoded" /\ CodingMatters /\ ~AssetNotModified => VaryNamesCoding
=============================================================================
