---- MODULE MCAdmission ----
(* Two reactors and four descriptors: enough for two threads inside       *)
(* Reactor::admit while others hold slots at both limits.  The allow list *)
(* is what CidrAllowList makes of two entries.                            *)
EXTENDS FilteredAdmission

Entry(family, bytes, slashes, prefix) ==
  [family |-> family, bytes |-> bytes, slashes |-> slashes, prefix |-> prefix]

Socket(family, bytes) == [family |-> family, bytes |-> bytes]

Quad == <<10, 85, 204, 51>>
Mapped6 == MappedMarker \o Quad
Net6 == <<253, 0, 170, 85, 204, 51, 15, 240, 1, 2, 4, 8, 16, 32, 64, 129>>
Unspecified == [i \in 1 .. ByteCount |-> 0]

\* The bytes with one bit turned over.
Flip(bytes, k) ==
  LET i == (k - 1) \div 8 + 1
      weight == Weights[((k - 1) % 8) + 1]
  IN  [bytes EXCEPT ![i] = IF Bit(bytes, k) = 1 THEN @ - weight ELSE @ + weight]

\* Every prefix length of either family and one too many, a list of two, and
\* each way an entry can be wrong.
MCEntryLists ==
  {<<>>}
  \cup {<<Entry("inet", Quad, 1, <<n>>)>> : n \in 0 .. 33}
  \cup {<<Entry("inet6", b, 1, <<n>>)>> : b \in {Net6, Mapped6, Unspecified},
                                      n \in 0 .. 129}
  \cup {<<Entry("inet", Quad, 0, NotANumber)>>,
        <<Entry("inet6", Net6, 0, NotANumber)>>,
        <<Entry("inet", Quad, 1, <<8>>), Entry("inet6", Net6, 1, <<12>>)>>,
        <<Entry("inet", Quad, 1, <<8>>), Entry("none", <<>>, 1, <<8>>)>>,
        <<Entry("empty", <<>>, 1, <<8>>)>>, <<Entry("inet", Quad, 2, <<8>>)>>,
        <<Entry("inet", Quad, 1, NotANumber)>>}

\* The addresses themselves, and everything one bit away from them.
MCSockets ==
  {Socket("unix", <<>>), Socket("inet", Quad)}
  \cup {Socket("inet", Flip(Quad, k)) : k \in 1 .. 32}
  \cup {Socket("inet6", b) : b \in {Net6, Mapped6, Unspecified}}
  \cup {Socket("inet6", Flip(b, k)) : b \in {Net6, Mapped6}, k \in 1 .. 128}

\* The configured entries, and where the sources are: two that an entry covers,
\* one that differs from the second entry inside the last byte of its prefix.
CONSTANTS s1, s2, s3

MCConfigured ==
  <<Entry("inet", Quad, 1, <<8>>), Entry("inet6", Net6, 1, <<12>>)>>

MCSocketOf ==
  [s \in Sources |->
     CASE s = s1 -> Socket("inet", Quad)
       [] s = s2 -> Socket("inet6", Flip(Net6, 100))
       [] s = s3 -> Socket("inet6", Flip(Net6, 10))]

LetIn1 == LetIn(s1)
LetIn2 == LetIn(s2)
LetIn3 == LetIn(s3)

\* The sources that the parsed list lets in, one by one for TLC to evaluate once.
MCAllowList ==
  (IF LetIn1 THEN {s1} ELSE {}) \cup (IF LetIn2 THEN {s2} ELSE {})
  \cup (IF LetIn3 THEN {s3} ELSE {})
============================
