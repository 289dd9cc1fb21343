--------------------------- MODULE MCCallControl ---------------------------
(* Small instances of CallControl for TLC. *)
EXTENDS CallControl

OneCall == {0}
TwoCalls == {0, 1}
\* As many ports as calls, or one more: a port comes back to another call or
\* media session.
TwoPorts == {1, 2}
ThreePorts == {1, 2, 3}
\* What CTSoftPhone.h offers; answercall is not in it.
PublicOps == {"Hangup", "Mute", "Unmute"}
\* Media without a port, media that is connected, and media that keeps its port
\* but is not: the other two statuses only differ in the number reported.
ThreeStatuses == {"None", "Active", "LocalHold"}
=============================================================================
