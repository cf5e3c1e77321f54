---------------------------- MODULE MCRequestPath ----------------------------
(* The messages cover every check of the parser, once met and once failed,  *)
(* and the limits at their exact value; the registrations every kind of     *)
(* pattern; the handlers' responses every constructor and the fields the    *)
(* encoder treats specially, set in two spellings.                          *)
EXTENDS RequestPath

Target(path, query) ==
  [bytes |-> 1, form |-> "origin", authority |-> "", path |-> path,
   query |-> query]
Absolute(authority, path, query) ==
  [Target(path, query) EXCEPT !.bytes = 2, !.form = "absolute",
                              !.authority = authority]
Header(name, value) ==
  [bytes |-> 2, ok |-> TRUE, name |-> name, value |-> value, blank |-> FALSE]
Host == Header("host", "a")
Length(n) == Header("content-length", n)
Coding(name, zero) == [coding |-> name, zero |-> zero]
Accepts(codings) == Header("accept-encoding", codings)

Message(method, target, fields, body) ==
  [crlf |-> FALSE, fields |-> fields, body |-> body,
   line |-> [bytes |-> target.bytes + 4, shape |-> "ok", method |-> method,
             version |-> "1.1", target |-> target]]
WithLine(m, key, value) == [m EXCEPT !.line = [@ EXCEPT ![key] = value]]

a == Target(<<"a">>, <<>>)
ab == Target(<<"a", "b">>, <<>>)
get == Message("Get", a, <<Host>>, 0)
gzip == Coding("gzip", FALSE)
Post(fields) == Message("Post", a, <<Host>> \o fields, 2)

Accepted ==
  { get,
    Message("Get", Target(<<"">>, <<>>), <<Host>>, 0),
    Message("Get", ab, <<Host, Accepts(<<gzip>>),
                         Header("if-none-match", <<"e2", "e1">>)>>, 0),
    Message("Head", ab, <<Host, Accepts(<<gzip, Coding("gzip", TRUE)>>),
                          Header("if-none-match", <<"*">>)>>, 0),
    [Message("Head", Target(<<"a", "">>, <<"skip", "pair">>),
             <<Host, Accepts(<<Coding("*", FALSE)>>), Length(2)>>, 2)
       EXCEPT !.crlf = TRUE],
    Post(<<Length(2), Length(2)>>),
    Post(<<Length(2), Header("connection", <<"keep-alive", "close">>)>>),
    WithLine(Message("Delete", ab, <<>>, 0), "version", "1.0"),
    WithLine(Message("Options", a,
                     <<Header("connection", <<"keep-alive">>)>>, 0),
             "version", "1.0"),
    Message("Get", Absolute("a", <<"x", "">>, <<"pair", "pair">>), <<Host>>, 0),
    Message("Get", Absolute("a", <<>>, <<"pair">>), <<Host>>, 0),
    WithLine(get, "bytes", MaxLine),
    [get EXCEPT !.fields = <<[Host EXCEPT !.bytes = MaxBlock - 5 - 4 - 2]>>] }

Rejected ==
  { Post(<<Length(2), Length(1)>>), Post(<<Length(NotANumber), Length(2)>>),
    Post(<<Length(MaxWord + 1)>>), Post(<<Length(MaxBody + 1)>>),
    Post(<<Length(2), Header("transfer-encoding", <<"chunked">>)>>),
    [get EXCEPT !.fields = <<Host, Host>>], [get EXCEPT !.fields = <<>>],
    [get EXCEPT !.fields = <<Header("host", "a:0")>>],
    Message("Get", Absolute("a:0", <<"a">>, <<>>), <<Host>>, 0),
    Message("Get", Absolute("b", <<"a">>, <<>>), <<Host>>, 0),
    Message("Get", [a EXCEPT !.form = "bad"], <<Host>>, 0),
    Message("Get", Target(<<"a", "..">>, <<>>), <<Host>>, 0),
    Message("Get", Target(<<"", "a">>, <<>>), <<Host>>, 0),
    Message("Get", Target(<<"a">>, <<"pair", "escape">>), <<Host>>, 0),
    Message("Get", Target(<<"a">>, [i \in 1 .. Capacity + 1 |-> "pair"]),
            <<Host>>, 0),
    WithLine(get, "method", "unknown"), WithLine(get, "version", "other"),
    WithLine(get, "version", "bad"), WithLine(get, "shape", "bad"),
    WithLine(get, "bytes", MaxLine + 1),
    Message("Get", [a EXCEPT !.bytes = MaxTarget + 1], <<Host>>, 0),
    [get EXCEPT !.fields = <<[Host EXCEPT !.bytes = MaxBlock - 5 - 4 - 1]>>],
    [get EXCEPT !.fields = <<Host>> \o [i \in 1 .. MaxFields |-> Length(0)]],
    [get EXCEPT !.fields = <<[Host EXCEPT !.ok = FALSE]>>] }

MCMessages == Accepted \cup Rejected

-----------------------------------------------------------------------------
Plain(text) == [text |-> text, shape |-> "plain"]
Capture == [text |-> "id", shape |-> "capture"]
Star == [text |-> "*", shape |-> "star"]

MCPatterns ==
  { <<Plain("")>>, <<Plain("a")>>, <<Capture>>, <<Plain("a"), Capture>>,
    <<Plain("a"), Star>>, <<Capture, Plain("")>>, <<Star>>,
    <<Plain("a"), Plain("b")>>, <<Capture, Star>>,
    <<>>, <<Star, Plain("a")>>, <<Plain(""), Plain("a")>>, <<Capture, Capture>> }

MCMethodSets == {GetAndHead, {"Post"}, {"Get", "Delete"}, {}}
MCMountPrefixes == {<<Plain("")>>, <<Plain("a")>>, <<Capture>>}

Asset(path, encoding) ==
  [path |-> path, type |-> "text/html", bytes |-> 4, etag |-> <<"e1">>,
   encoding |-> encoding]
MCBundles == {<<Asset(<<"a", "b">>, <<"gzip">>), Asset(<<"a">>, <<>>)>>,
              <<Asset(<<"b">>, <<>>)>>}

-----------------------------------------------------------------------------
Set(name, spelling, value) ==
  [field |-> Field(name, spelling, value), valid |-> TRUE]

MCHeaderCalls ==
  { Set("content-length", "lower", <<"9">>),
    Set("connection", "lower", <<"keep-alive">>),
    Set("transfer-encoding", "lower", <<"chunked">>),
    Set("vary", "lower", <<"cookie">>), Set("vary", "Title", <<"origin">>),
    Set("vary", "Title", <<"accept-encoding">>),
    Set("etag", "lower", <<"e1">>),
    Set("content-encoding", "lower", <<"br">>),
    Set("content-encoding", "Title", <<>>),
    Set("content-type", "lower", <<"text/html">>),
    [Set("etag", "lower", <<"bad">>) EXCEPT !.valid = FALSE] }

MCResponses ==
  { BodyResponse(200, "text/plain", 4), BodyResponse(200, "image/png", 4),
    BodyResponse(200, "application/json", 2), BodyResponse(404, "", 6),
    EmptyResponse(204), EmptyResponse(304),
    RedirectResponse(308, <<"elsewhere">>), StreamResponse("text/plain") }
=============================================================================
