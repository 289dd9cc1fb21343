--------------------------- MODULE MCRegistration ---------------------------
(* Small instances of Registration for TLC. *)
EXTENDS Registration

\* Two account slots, so that a second account could be added beside a
\* forgotten first one.
MCAccIds == {0, 1}
=============================================================================
