----------------------------- MODULE MCAccount -----------------------------
(* Small instances of Account for TLC. *)
EXTENDS Account

\* Three slots: a session, a switch and a switch back fit, a fourth fails.
MCTransportIds == 0 .. 2
\* Two protocols, one of them over both IP versions.
MCTypes == {"TCP", "UDP", "TCPIPv6"}
MCParts == {"sip:", "@", "n", "own", "u", "host"}
\* A number, and one with a host of its own; a host with an "@".
MCNumbers == {<<"n">>, <<"n", "@", "own">>}
MCHosts == {<<"u", "@", "host">>}
=============================================================================
