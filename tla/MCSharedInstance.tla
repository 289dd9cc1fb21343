-------------------------- MODULE MCSharedInstance --------------------------
(* Small instances of SharedInstance for TLC. *)
EXTENDS SharedInstance

CONSTANTS a, b, c, d

\* Four calls: some race, others come before, between or after them.
FourCallers == {a, b, c, d}
=============================================================================
