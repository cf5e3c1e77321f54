---- MODULE CidrAllowList ----
(***************************************************************************)
(* The allow list of src/src/cidr.cpp: entries in CIDR notation become     *)
(* rules over 128 bits, IPv4 in its IPv4-mapped form, and a peer's address *)
(* (peer_address_from in src/src/socket.cpp) is matched against them.      *)
(*                                                                         *)
(* The text of an entry is abstracted to what the parser finds in it: the  *)
(* number of slashes, the family inet_pton accepts the address as, the     *)
(* bytes it yields and the prefix as from_chars reads it.  Rule::is_v4,    *)
(* which nothing in the matching reads, is left out.                       *)
(***************************************************************************)
EXTENDS Naturals, Sequences

CONSTANTS
  EntryLists,   \* lists of entries an application may configure
  Sockets       \* addresses accept() may report

\* What the text of an entry can be: prefix has a number, or none.
Quads == [1 .. 4 -> 0 .. 255]
Addresses == [1 .. 16 -> 0 .. 255]

IsEntry(entry) ==
  /\ entry.family \in {"empty", "none", "inet", "inet6"}
  /\ entry.family = "inet" => entry.bytes \in Quads
  /\ entry.family = "inet6" => entry.bytes \in Addresses
  /\ entry.slashes \in Nat
  /\ entry.prefix \in Seq(Nat) /\ Len(entry.prefix) <= 1

IsSocket(socket) ==
  /\ socket.family \in {"inet", "inet6", "unix"}
  /\ socket.family = "inet" => socket.bytes \in Quads
  /\ socket.family = "inet6" => socket.bytes \in Addresses

ASSUME CidrAssumption ==
  /\ \A entries \in EntryLists :
       /\ Len(entries) \in Nat
       /\ entries = [i \in 1 .. Len(entries) |-> entries[i]]
       /\ \A i \in 1 .. Len(entries) : IsEntry(entries[i])
  /\ \A socket \in Sockets : IsSocket(socket)

ByteCount == 16
MappedBits == 96   \* ::ffff:0:0/96 holds the IPv4-mapped addresses
NotANumber == <<>>   \* of a prefix from_chars refuses; else <<its number>>

\* is_ipv4_mapped and the conversion to that form
MappedMarker == [i \in 1 .. 12 |-> IF i > 10 THEN 255 ELSE 0]
IsIpv4Mapped(bytes) == SubSeq(bytes, 1, 12) = MappedMarker
Mapped(quad) == MappedMarker \o quad

\* peer_address_from
PeerAddressFrom(socket) ==
  [bytes |-> CASE socket.family = "inet" -> Mapped(socket.bytes)
               [] socket.family = "inet6" -> socket.bytes
               [] socket.family = "unix" -> [i \in 1 .. ByteCount |-> 0],
   isUnix |-> socket.family = "unix"]

-----------------------------------------------------------------------------
(* parse                                                                    *)

Malformed(entry) == entry.family = "empty" \/ entry.slashes > 1

\* parse_prefix; no prefix at all means one host.
BadPrefix(entry) ==
  /\ entry.slashes = 1
  /\ \/ entry.prefix = NotANumber
     \/ entry.prefix[1] > IF entry.family = "inet" THEN 8 * ByteCount - MappedBits
                          ELSE 8 * ByteCount

PrefixBits(entry) ==
  IF entry.slashes = 0 THEN 8 * ByteCount
  ELSE IF entry.family = "inet" THEN entry.prefix[1] + MappedBits
  ELSE entry.prefix[1]

\* The first bits of a byte, from 1 to 7 of them.
Weights == <<128, 64, 32, 16, 8, 4, 2, 1>>
Mask(byte, bits) == byte - (byte % Weights[bits])

ClearHostBits(bytes, prefixBits) ==
  LET whole == prefixBits \div 8
      remaining == prefixBits % 8
  IN  [i \in 1 .. ByteCount |->
         IF i <= whole THEN bytes[i]
         ELSE IF i = whole + 1 /\ remaining # 0 THEN Mask(bytes[i], remaining)
         ELSE 0]

EntryError(entry) ==
  CASE Malformed(entry) -> "MalformedEntry"
    [] ~Malformed(entry) /\ entry.family = "none" -> "BadAddress"
    [] ~Malformed(entry) /\ entry.family # "none" /\ BadPrefix(entry) ->
         "BadPrefixLength"
    [] OTHER -> "none"

Rule(entry) ==
  [network |-> ClearHostBits(IF entry.family = "inet" THEN Mapped(entry.bytes)
                             ELSE entry.bytes, PrefixBits(entry)),
   prefixBits |-> PrefixBits(entry)]

\* CidrAllowList::parse: the first entry that is wrong refuses the list.
Parse(entries) ==
  LET wrong == {i \in 1 .. Len(entries) : EntryError(entries[i]) # "none"}
  IN  IF wrong = {}
      THEN [error |-> "none",
            rules |-> [i \in 1 .. Len(entries) |-> Rule(entries[i])]]
      ELSE [error |-> EntryError(entries[CHOOSE i \in wrong :
                                           \A j \in wrong : i <= j]),
            rules |-> <<>>]

-----------------------------------------------------------------------------
(* allows                                                                   *)

\* Fault: the bits of the prefix that end inside a byte are not compared.
MatchesWholeBytes(rule, address) ==
  \A i \in 1 .. rule.prefixBits \div 8 : address[i] = rule.network[i]

Matches(rule, address) ==
  LET whole == rule.prefixBits \div 8
      remaining == rule.prefixBits % 8
  IN  /\ \A i \in 1 .. whole : address[i] = rule.network[i]
      /\ \/ remaining = 0
         \/ Mask(address[whole + 1], remaining) =
              Mask(rule.network[whole + 1], remaining)

Allows(rules, from) ==
  \/ rules = <<>>
  \/ from.isUnix
  \/ \E i \in 1 .. Len(rules) : Matches(rules[i], from.bytes)

-----------------------------------------------------------------------------
(* What an entry means                                                      *)

BitOf(byte, j) == (byte \div Weights[j]) % 2
Bit(bytes, k) == BitOf(bytes[(k - 1) \div 8 + 1], ((k - 1) % 8) + 1)

SameBits(a, b, n) == \A k \in 1 .. n : Bit(a, k) = Bit(b, k)

\* The IPv4 address of a peer of either family, and what an IPv4 entry says
\* of it: its first bits, counted over 32.
Covers(entry, socket) ==
  LET quad == IF socket.family = "inet" THEN socket.bytes
              ELSE SubSeq(socket.bytes, 13, 16)
      isIpv4 == socket.family = "inet" \/ IsIpv4Mapped(socket.bytes)
      bits(width) == IF entry.slashes = 0 THEN width ELSE entry.prefix[1]
  IN  IF entry.family = "inet"
      THEN isIpv4 /\ SameBits(entry.bytes, quad, bits(32))
      ELSE SameBits(entry.bytes, PeerAddressFrom(socket).bytes, bits(128))

WellFormed(entry) ==
  /\ entry.family \in {"inet", "inet6"}
  /\ \/ entry.slashes = 0
     \/ /\ entry.slashes = 1 /\ entry.prefix # NotANumber
        /\ entry.prefix[1] \in 0 .. IF entry.family = "inet" THEN 32 ELSE 128

\* parse() takes exactly the lists whose entries are all well formed.
ListsReadAsWritten ==
  \A entries \in EntryLists :
    (Parse(entries).error = "none") <=>
      \A i \in 1 .. Len(entries) : WellFormed(entries[i])

\* Of a list it takes, exactly the covered peers get in; every Unix-domain peer
\* does, and with an empty list every peer.
PeersJudgedAsWritten ==
  \A entries \in EntryLists :
    LET parsed == Parse(entries)
    IN  parsed.error = "none" => \A socket \in Sockets :
          Allows(parsed.rules, PeerAddressFrom(socket)) <=>
            \/ entries = <<>> \/ socket.family = "unix"
            \/ \E i \in 1 .. Len(entries) : Covers(entries[i], socket)
====
