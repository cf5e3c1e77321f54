------------------------- MODULE FilteredAdmission -------------------------
(***************************************************************************)
(* Admission behind a parsed allow list: Reactor::admit asks the list that *)
(* start() made of ServerOptions::allow_cidrs before it asks ServerState   *)
(* (src/src/reactor.cpp).  start() has thrown if an entry was wrong.       *)
(***************************************************************************)
EXTENDS Admission, CidrAllowList

CONSTANTS
  Configured,   \* the entries of the application
  SocketOf      \* the address accept() reports of a source

LetIn(s) == Allows(Parse(Configured).rules, PeerAddressFrom(SocketOf[s]))

ASSUME FilterAssumption ==
  /\ Configured \in EntryLists /\ Parse(Configured).error = "none"
  /\ SocketOf \in [Sources -> {a \in Sockets : a.family # "unix"}]
  /\ AllowList = {s \in Sources : LetIn(s)}

\* A network peer that holds a slot is covered by a configured entry, bit by
\* bit; and the list that let it in would have been read and applied as written
\* whatever its entries and the address were: a list with a wrong entry is
\* refused whole, any other one lets exactly those peers in that an entry
\* covers, an IPv4 entry over the 32 bits of an IPv4 peer of either family.
\* CidrAllowList counts in bytes over 128 bits, with a mask for the last one;
\* Reactor::admit asks it before ServerState.
AllowListAsWritten ==
  \A f \in slots : peer[f] \in Sources =>
    /\ \/ Configured = <<>>
       \/ \E i \in 1 .. Len(Configured) : Covers(Configured[i], SocketOf[peer[f]])
    /\ ListsReadAsWritten
    /\ PeersJudgedAsWritten
=============================================================================
