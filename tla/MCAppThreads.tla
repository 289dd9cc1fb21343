---------------------------- MODULE MCAppThreads ----------------------------
(* Small instances of AppThreads for TLC. *)
EXTENDS AppThreads

CONSTANTS a, b, c

\* Two threads that overlap, and a third before, between or after them.
ThreeThreads == {a, b, c}
=============================================================================
