------------------------ MODULE MCThreadRegistration ------------------------
(* A small instance of ThreadRegistration for TLC. *)
EXTENDS ThreadRegistration

CONSTANTS a, b

TwoThreads == {a, b}
=============================================================================
