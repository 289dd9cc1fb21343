---------------------------- MODULE AccountUri ----------------------------
(***************************************************************************)
(* What registerWithNumber and CTSoftPhoneConfig give the library: the     *)
(* address of the account, as a sequence of parts of which only "@"        *)
(* matters to the code, and the names and numbers of the transports.       *)
(***************************************************************************)
EXTENDS Integers, Sequences

Ats(s) == {i \in 1 .. Len(s) : s[i] = "@"}

\* componentsSeparatedByString:@"@" of a string with an "@": its first
\* component, and what the others are taken from.
FirstAt(s) == CHOOSE i \in Ats(s) : \A j \in Ats(s) : i <= j
Before(s) == IF Ats(s) = {} THEN s ELSE SubSeq(s, 1, FirstAt(s) - 1)
After(s) == SubSeq(s, FirstAt(s) + 1, Len(s))

\* newUri: the number at the host.
NewUri(number, host) == <<"sip:">> \o number \o <<"@">> \o host

\* Faulty variant: the URI is not taken apart.
AccountIdWhole(number, host) == NewUri(number, host)

\* cfg.id: the first two components of newUri, so that a number with a host of
\* its own keeps that one.
AccountId(number, host) ==
  LET uri == NewUri(number, host)
  IN  Before(uri) \o <<"@">> \o Before(After(uri))

-----------------------------------------------------------------------------
(* CTSoftPhoneConfig                                                       *)

TransportTypes == {"TCP", "UDP", "TLS", "TCPIPv6", "UDPIPv6", "TLSIPv6"}

\* Faulty variant: two of the IPv6 types are mixed up.
TransportDescriptionMixed ==
  [TCP |-> "tcp", UDP |-> "udp", TLS |-> "tls",
   TCPIPv6 |-> "udp", UDPIPv6 |-> "tcp", TLSIPv6 |-> "tls"]

TransportDescription ==
  [TCP |-> "tcp", UDP |-> "udp", TLS |-> "tls",
   TCPIPv6 |-> "tcp", UDPIPv6 |-> "udp", TLSIPv6 |-> "tls"]

\* pjsip_transport_type_e.
IPv6 == 128
PjTransportType ==
  [TCP |-> 2, UDP |-> 1, TLS |-> 3,
   TCPIPv6 |-> 2 + IPv6, UDPIPv6 |-> 1 + IPv6, TLSIPv6 |-> 3 + IPv6]

\* The name SIP gives a transport of the library, over either IP version.
ProtocolName(pjType) == <<"udp", "tcp", "tls">>[pjType % IPv6]

-----------------------------------------------------------------------------
(* Reference definition                                                    *)

\* The address of record of a URI is its part up to where a second "@" stands.
IsAddressOf(id, uri) ==
  /\ \E i \in Ats(id) : Ats(id) = {i}
  /\ Len(id) <= Len(uri) /\ \A i \in 1 .. Len(id) : id[i] = uri[i]
  /\ Len(id) = Len(uri) \/ uri[Len(id) + 1] = "@"
=============================================================================
