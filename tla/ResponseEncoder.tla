--------------------------- MODULE ResponseEncoder ---------------------------
(***************************************************************************)
(* Responses and their encoding (src/src/response.cpp,                     *)
(* response_encoder.cpp, conditional_request.cpp, compress.cpp).           *)
(*                                                                         *)
(* A response is its status, the size of its body, whether it streams, and *)
(* a set of header fields.  A field has a folded name, the spelling it was *)
(* set with, and as value the list of its members (<<>> is empty).  The    *)
(* wording of a body and the numbers in a date are left out.               *)
(***************************************************************************)
EXTENDS Integers, Sequences, FiniteSets, SequencesExt

CONSTANTS
  MinGzip, MaxGzip   \* sizes of a body that are worth compressing

ASSUME EncoderAssumption == MinGzip \in Nat \ {0} /\ MaxGzip \in Nat

Compressible == {"text/plain", "text/html", "application/json"}
Framing == {"content-length", "connection", "transfer-encoding"}
Bodiless(status) == status \in {204, 304}

NotCompressed == -1

-----------------------------------------------------------------------------
(* Response                                                                 *)

Field(name, spelling, value) ==
  [field |-> name, spelling |-> spelling, value |-> value]

IsList(value) == value \in Seq(ToSet(value))

\* What set_header accepts, an empty value included.
IsField(h) ==
  /\ DOMAIN h = {"field", "spelling", "value"}
  /\ h.field = "vary" => IsList(h.value)

\* What the constructors and set_header make: one field of a name.
WellFormed(r) ==
  /\ DOMAIN r = {"status", "body", "stream", "headers"}
  /\ IsFiniteSet(r.headers)
  /\ \A h \in r.headers : IsField(h)
  /\ \A g, h \in r.headers : g.field = h.field => g = h

HasHeader(r, name) == \E h \in r.headers : h.field = name

\* find_header(name).value_or({})
HeaderValue(r, name) ==
  IF HasHeader(r, name)
  THEN (CHOOSE h \in r.headers : h.field = name).value ELSE <<>>

(* Fault: the names are compared as they are spelled. *)
SetHeaderSpelled(r, h, valid) ==
  IF ~valid THEN r
  ELSE [r EXCEPT !.headers =
          {g \in @ : <<g.field, g.spelling>> # <<h.field, h.spelling>>} \cup {h}]

\* set_header: an invalid field is dropped; one of the same name, whatever its
\* case, has its value replaced and keeps its spelling.
SetHeader(r, h, valid) ==
  LET same == {g \in r.headers : g.field = h.field}
      name == IF same = {} THEN h ELSE CHOOSE g \in same : TRUE
  IN  IF ~valid THEN r
      ELSE [r EXCEPT !.headers =
              (@ \ same) \cup {Field(h.field, name.spelling, h.value)}]

WithField(r, name, value) == SetHeader(r, Field(name, "Own", value), TRUE)

\* Response::empty
EmptyResponse(status) ==
  [status |-> status, body |-> 0, stream |-> FALSE, headers |-> {}]

\* Response::text, html, json, prometheus and borrowed: they differ in the
\* content type and in who owns the bytes.
BodyResponse(status, type, bytes) ==
  LET r == [EmptyResponse(status) EXCEPT !.body = bytes]
  IN  IF type = "" THEN r ELSE WithField(r, "content-type", <<type>>)

\* Response::redirect
RedirectResponse(status, location) ==
  IF location = <<>> THEN EmptyResponse(status)
  ELSE WithField(EmptyResponse(status), "location", location)

\* Response::stream
StreamResponse(type) ==
  [WithField(BodyResponse(200, type, 0), "cache-control", <<"no-store">>)
     EXCEPT !.stream = TRUE]

-----------------------------------------------------------------------------
(* Conditional requests and content coding                                  *)

\* if_none_match_matches; tags are compared without the weak marker.
Matches(condition, etag) ==
  etag # <<>> /\ \E tag \in ToSet(condition) : tag \in {"*", etag[1]}

VariesOnAcceptEncoding(r) ==
  /\ HeaderValue(r, "content-encoding") = <<>>
  /\ r.body \in MinGzip .. MaxGzip
  /\ \E type \in ToSet(HeaderValue(r, "content-type")) : type \in Compressible

\* append_accept_encoding_vary
AcceptEncodingVary(declared) ==
  IF "accept-encoding" \in ToSet(declared) THEN declared
  ELSE Append(declared, "accept-encoding")

Preserved == {"cache-control", "content-location", "date", "etag", "expires"}

(* Fault: a 304 repeats the declared Vary as it is. *)
NotModifiedDeclaredVary(r) ==
  [EmptyResponse(304) EXCEPT !.headers =
     {Field(h.field, "Own", h.value) :
        h \in {g \in r.headers : g.field \in Preserved \cup {"vary"}}}]

NotModifiedFrom(r) ==
  LET kept == [EmptyResponse(304) EXCEPT !.headers =
                 {Field(h.field, "Own", h.value) :
                    h \in {g \in r.headers : g.field \in Preserved}}]
      declared == HeaderValue(r, "vary")
  IN  CASE VariesOnAcceptEncoding(r) ->
             WithField(kept, "vary", AcceptEncodingVary(declared))
        [] ~VariesOnAcceptEncoding(r) /\ HasHeader(r, "vary") ->
             WithField(kept, "vary", declared)
        [] OTHER -> kept

ApplyConditionalRequest(request, r) ==
  IF /\ request.method \in {"Get", "Head"}
     /\ r.status = 200 /\ ~r.stream
     /\ Matches(request.condition, HeaderValue(r, "etag"))
  THEN NotModifiedFrom(r) ELSE r

\* gzip_compress: the size it makes of the body, always smaller, or failure.
GzipOutcomes(r) == {NotCompressed} \cup (1 .. r.body - 1)

-----------------------------------------------------------------------------
(* encode_response.  options: keepAlive, secure (with HSTS on), server (a    *)
(* Server header is configured); gzip is the outcome of gzip_compress.       *)

Line(name, value) == [field |-> name, value |-> value]

Number(n) == <<ToString(n)>>

DefaultFields(r, options) ==
  LET default(name, value, applies) ==
        IF applies /\ ~HasHeader(r, name) THEN <<Line(name, value)>> ELSE <<>>
      html == \E t \in ToSet(HeaderValue(r, "content-type")) : t = "text/html"
  IN  default("date", <<"now">>, TRUE)
      \o default("server", <<"name">>, options.server)
      \o default("cache-control", <<"no-store">>, TRUE)
      \o default("x-content-type-options", <<"nosniff">>, TRUE)
      \o default("referrer-policy", <<"no-referrer">>, TRUE)
      \o default("content-security-policy", <<"policy">>, html)
      \o default("strict-transport-security", <<"max-age">>, options.secure)

FramingFields(r, options, bytes) ==
  LET persistence == IF options.keepAlive THEN "keep-alive" ELSE "close"
  IN  CASE r.stream -> <<Line("connection", <<"close">>)>>
        [] ~r.stream /\ Bodiless(r.status) ->
             <<Line("connection", <<persistence>>)>>
        [] OTHER -> <<Line("content-length", Number(bytes)),
                      Line("connection", <<persistence>>)>>

EncodeResponse(request, r, options, gzip) ==
  LET varies == ~Bodiless(r.status) /\ VariesOnAcceptEncoding(r)
      compressed == varies /\ request.wantsGzip /\ gzip # NotCompressed
      bytes == IF compressed THEN gzip ELSE r.body
      kept == {h \in r.headers : /\ h.field \notin Framing
                                 /\ ~(varies /\ h.field = "vary")}
      own == SetToSeq(kept)
  IN  [status |-> r.status,
       fields |->
         [i \in DOMAIN own |-> Line(own[i].field, own[i].value)]
         \o (IF compressed THEN <<Line("content-encoding", <<"gzip">>)>>
             ELSE <<>>)
         \o (IF varies
             THEN <<Line("vary", AcceptEncodingVary(HeaderValue(r, "vary")))>>
             ELSE <<>>)
         \o DefaultFields(r, options)
         \o FramingFields(r, options, bytes),
       body |-> bytes,
       suppressed |-> r.stream \/ request.method = "Head" \/ Bodiless(r.status)]
=============================================================================
