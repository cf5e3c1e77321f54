------------------------------- MODULE Router -------------------------------
(***************************************************************************)
(* Registration and dispatch (src/src/router.cpp, router.hpp, assets.cpp). *)
(*                                                                         *)
(* A path is the sequence of its segments, <<"">> for "/".  A piece of a   *)
(* pattern has a text and a shape: "plain", "star" for "*", "capture" for  *)
(* "{name}", "broken" for any other use of '*' and braces.  A pattern or   *)
(* prefix that does not start with '/' is <<>>.                            *)
(***************************************************************************)
EXTENDS ResponseEncoder

CONSTANTS
  MaxParameters   \* kMaxPathParameters

ASSUME RouterAssumption == MaxParameters \in Nat

IsPattern(p) ==
  /\ IsList(p)
  /\ \A i \in DOMAIN p : p[i].shape \in {"plain", "star", "capture", "broken"}

IsBundle(bundle) == IsList(bundle) /\ \A i \in DOMAIN bundle : IsList(bundle[i].path)

Methods == {"Get", "Head", "Post", "Put", "Patch", "Delete", "Options"}
GetAndHead == {"Get", "Head"}

EmptyRouter ==
  [routes |-> <<>>, exact |-> [path \in {} |-> <<>>], dynamic |-> <<>>,
   mounts |-> <<>>, middleware |-> 0, fallback |-> FALSE]

-----------------------------------------------------------------------------
(* Registration.  A rejected call throws ServerError and changes nothing.   *)

\* classify_segment
Classify(piece, isFinal) ==
  CASE piece.shape = "plain" ->
         IF piece.text \in {".", ".."} \/ (piece.text = "" /\ ~isFinal)
         THEN "Invalid" ELSE "Literal"
    [] piece.shape = "star" -> IF isFinal THEN "Wildcard" ELSE "Invalid"
    [] piece.shape = "capture" -> "Parameter"
    [] OTHER -> "Invalid"

KindOf(pattern, i) == Classify(pattern[i], i = Len(pattern))
Captures(pattern) == {i \in DOMAIN pattern : KindOf(pattern, i) = "Parameter"}

IsValidRoutePattern(pattern) ==
  /\ pattern # <<>>
  /\ \A i \in DOMAIN pattern : KindOf(pattern, i) # "Invalid"
  /\ Cardinality(Captures(pattern)) <= MaxParameters

IsDynamic(pattern) ==
  \E i \in DOMAIN pattern : KindOf(pattern, i) \in {"Parameter", "Wildcard"}

Texts(pattern) == [i \in DOMAIN pattern |-> pattern[i].text]

\* What a route is compiled to; a static one keeps no segments.
Compile(methods, pattern) ==
  LET wildcard == KindOf(pattern, Len(pattern)) = "Wildcard"
      segments == [i \in 1 .. Len(pattern) - (IF wildcard THEN 1 ELSE 0) |->
                     [parameter |-> i \in Captures(pattern),
                      text |-> pattern[i].text]]
  IN  [methods |-> methods, pattern |-> pattern, wildcard |-> wildcard,
       segments |-> IF IsDynamic(pattern) THEN segments ELSE <<>>]

\* reject_overlap, for the routes of the same pattern.
Overlaps(t, methods, pattern) ==
  LET existing == IF IsDynamic(pattern) THEN ToSet(t.dynamic)
                  ELSE UNION {ToSet(t.exact[p]) :
                                p \in {Texts(pattern)} \cap DOMAIN t.exact}
  IN  \E i \in existing : /\ t.routes[i].pattern = pattern
                          /\ t.routes[i].methods \cap methods # {}

\* Router::route, and get, post, put, patch, del and options, which call it.
RouteAccepted(t, methods, pattern) ==
  methods # {} /\ IsValidRoutePattern(pattern) /\ ~Overlaps(t, methods, pattern)

AddRoute(t, methods, pattern) ==
  LET index == Len(t.routes) + 1
      key == Texts(pattern)
      earlier == IF key \in DOMAIN t.exact THEN t.exact[key] ELSE <<>>
      added == [t EXCEPT !.routes = Append(@, Compile(methods, pattern))]
  IN  IF IsDynamic(pattern)
      THEN [added EXCEPT !.dynamic = Append(@, index)]
      ELSE [added EXCEPT !.exact =
              [path \in DOMAIN t.exact \cup {key} |->
                 IF path = key THEN Append(earlier, index) ELSE t.exact[path]]]

\* Router::mount.  The prefix is kept without its trailing slash.
MountAccepted(prefix) ==
  /\ \A i \in DOMAIN prefix : prefix[i].shape = "plain"
  /\ IsValidRoutePattern(prefix)

AddMount(t, prefix, bundle) ==
  LET texts == Texts(prefix)
      kept == IF texts[Len(texts)] = "" THEN Front(texts) ELSE texts
  IN  [t EXCEPT !.mounts = Append(@, [prefix |-> kept, bundle |-> bundle])]

-----------------------------------------------------------------------------
(* Dispatch.  The exact routes of the path, the dynamic ones that match and *)
(* the mounts that hold an asset are tried in this order: the first that    *)
(* has the method answers, the others add to the allowed methods.  The      *)
(* three are lists; what is found in them are positions.                    *)

\* The lambda match of dispatch.
RouteMatches(route, path) ==
  LET n == Len(route.segments)
  IN  /\ IF route.wildcard THEN Len(path) > n ELSE Len(path) = n
      /\ \A i \in 1 .. n :
           IF route.segments[i].parameter THEN path[i] # ""
           ELSE path[i] = route.segments[i].text

\* By the position of the segment.
CapturesOf(route, path) ==
  [i \in {j \in DOMAIN route.segments : route.segments[j].parameter} |->
     [name |-> route.segments[i].text, value |-> path[i]]]

\* AssetBundle::find, on a bundle without two assets of one path.
FindAsset(bundle, path) ==
  LET at == {i \in DOMAIN bundle : bundle[i].path = path}
  IN  IF at = {} THEN 0 ELSE Min(at)

\* The asset of a mount: by the whole path first, then below the prefix.
AssetOf(mount, path) ==
  LET n == Len(mount.prefix)
      whole == FindAsset(mount.bundle, path)
  IN  IF Len(path) <= n \/ SubSeq(path, 1, n) # mount.prefix THEN 0
      ELSE IF whole # 0 THEN whole
      ELSE FindAsset(mount.bundle, SubSeq(path, n + 1, Len(path)))

Answer(by, index, captures, methods) ==
  [by |-> by, index |-> index, captures |-> captures, methods |-> methods]

ExactOf(t, path) == IF path \in DOMAIN t.exact THEN t.exact[path] ELSE <<>>

Matching(t, path) ==
  {k \in DOMAIN t.dynamic : RouteMatches(t.routes[t.dynamic[k]], path)}

Holding(t, path) == {k \in DOMAIN t.mounts : AssetOf(t.mounts[k], path) # 0}

(* Fault: a mount hides the methods of the routes. *)
AllowedByMount(t, path) ==
  IF Holding(t, path) # {} THEN GetAndHead
  ELSE UNION {t.routes[i].methods :
                i \in ToSet(ExactOf(t, path))
                       \cup {t.dynamic[k] : k \in Matching(t, path)}}

Allowed(t, path) ==
  {method \in GetAndHead : Holding(t, path) # {}}
  \cup UNION {t.routes[i].methods :
                i \in ToSet(ExactOf(t, path))
                       \cup {t.dynamic[k] : k \in Matching(t, path)}}

\* Router::dispatch behind the middleware.
Select(t, method, path) ==
  LET exact == ExactOf(t, path)
      Has(i) == method \in t.routes[i].methods
      static == {k \in DOMAIN exact : Has(exact[k])}
      dynamic == {k \in Matching(t, path) : Has(t.dynamic[k])}
      assets == {k \in Holding(t, path) : method \in GetAndHead}
      allowed == Allowed(t, path)
      Route(i, captures) == Answer("route", i, captures, {})
  IN  IF static # {} THEN Route(exact[Min(static)], <<>>)
      ELSE IF dynamic # {}
      THEN LET i == t.dynamic[Min(dynamic)]
           IN  Route(i, CapturesOf(t.routes[i], path))
      ELSE IF assets # {} THEN Answer("asset", Min(assets), <<>>, {})
      ELSE IF allowed # {} THEN Answer("not allowed", 0, <<>>, allowed)
      ELSE IF t.fallback THEN Answer("fallback", 0, <<>>, {})
      ELSE Answer("not found", 0, <<>>, {})

-----------------------------------------------------------------------------
(* The router's own responses.  An asset: path, type, bytes, etag and       *)
(* encoding, the last two empty or of one member.                           *)

ErrorResponse(status) == BodyResponse(status, "text/plain", 1)

MethodNotAllowed(methods) ==
  WithField(ErrorResponse(405), "allow", SetToSeq(methods))

AssetResponse(asset, request) ==
  LET precompressed == asset.encoding # <<>>
      With(r, name, value, applies) ==
        IF applies THEN WithField(r, name, value) ELSE r
      Cached(r) ==
        With(With(With(r, "etag", asset.etag, asset.etag # <<>>),
                  "vary", <<"accept-encoding">>, precompressed),
             "cache-control", <<"immutable">>, TRUE)
  IN  IF precompressed /\ request.namesCodings /\ ~request.wantsGzip
      THEN WithField(ErrorResponse(406), "vary", <<"accept-encoding">>)
      ELSE IF Matches(request.condition, asset.etag)
      THEN Cached(EmptyResponse(304))
      ELSE With(Cached(BodyResponse(200, asset.type, asset.bytes)),
                "content-encoding", asset.encoding, precompressed)
=============================================================================
