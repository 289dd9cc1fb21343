-------------------------- MODULE SessionContract --------------------------
(***************************************************************************)
(* What the delegate may rely on, whatever the threads do: registration    *)
(* results come only from a library that is up, and Destroyed is said only *)
(* of one that is down.                                                    *)
(***************************************************************************)
VARIABLES
  up,   \* a library session is open
  told  \* last registration state the delegate was given

vars == <<up, told>>

Init == up = FALSE /\ told = "None"

Open  == ~up /\ up' = TRUE /\ UNCHANGED told
Close == up /\ up' = FALSE /\ UNCHANGED told

ReportSuccess == up /\ told' = "Success" /\ UNCHANGED up
ReportFail    == told' = "Fail" /\ UNCHANGED up
ReportDestroyed == ~up /\ told' = "Destroyed" /\ UNCHANGED up

Next == Open \/ Close \/ ReportSuccess \/ ReportFail \/ ReportDestroyed

Spec == Init /\ [][Next]_vars
=============================================================================
