----------------------------- MODULE AudioRoute -----------------------------
(***************************************************************************)
(* speakeron and speakeroff.  Unlike the other operations they do not go   *)
(* through the serial queue: each runs on its caller's thread and sets the *)
(* process-wide audio session up in three steps, so that calls interleave. *)
(***************************************************************************)
CONSTANT Threads \* one call of speakeron or speakeroff each

VARIABLES
  step,    \* what each call does next
  wish,    \* the route each call asks for
  success, \* its local success
  route,   \* where the audio session plays
  earlier  \* history: calls that had returned when each call began

vars == <<step, wish, success, route, earlier>>

Routes == {"Speaker", "Receiver"}
Steps == {"Idle", "Category", "Active", "Override", "Done"}

Init ==
  /\ step = [t \in Threads |-> "Idle"]
  /\ wish = [t \in Threads |-> "Receiver"]
  /\ success = [t \in Threads |-> FALSE]
  /\ route = "Receiver"
  /\ earlier = [t \in Threads |-> {}]

Returned == {t \in Threads : step[t] = "Done"}

\* speakeron or speakeroff is called.
Begin(t) ==
  /\ step[t] = "Idle"
  /\ \E r \in Routes : wish' = [wish EXCEPT ![t] = r]
  /\ earlier' = [earlier EXCEPT ![t] = Returned]
  /\ step' = [step EXCEPT ![t] = "Category"]
  /\ UNCHANGED <<success, route>>

\* One call of the session: success is overwritten, and a failure only logged.
Try(t, from, to, ok) ==
  /\ step[t] = from
  /\ success' = [success EXCEPT ![t] = ok]
  /\ step' = [step EXCEPT ![t] = to]
  /\ UNCHANGED <<wish, earlier>>

\* Setting the category may take an override back.
SetCategory(t) ==
  \E ok \in BOOLEAN :
    /\ Try(t, "Category", "Active", ok)
    /\ route' \in IF ok THEN {route, "Receiver"} ELSE {route}

SetActive(t) ==
  \E ok \in BOOLEAN : Try(t, "Active", "Override", ok) /\ UNCHANGED route

\* Faulty variant: what the last step returned is not stored.
OverrideUnread(t) ==
  \E ok \in BOOLEAN :
    /\ Try(t, "Override", "Done", success[t])
    /\ route' = IF ok THEN wish[t] ELSE route

Override(t) ==
  \E ok \in BOOLEAN :
    /\ Try(t, "Override", "Done", ok)
    /\ route' = IF ok THEN wish[t] ELSE route

\* An exception: @catch logs, and no success is claimed.
Caught(t) ==
  /\ step[t] \in {"Category", "Active", "Override"}
  /\ step' = [step EXCEPT ![t] = "Done"]
  /\ success' = [success EXCEPT ![t] = FALSE]
  /\ UNCHANGED <<wish, route, earlier>>

Speaker(t) ==
  Begin(t) \/ SetCategory(t) \/ SetActive(t) \/ Override(t) \/ Caught(t)

Next == \E t \in Threads : Speaker(t)

Spec == Init /\ [][Next]_vars

-----------------------------------------------------------------------------
(* Properties                                                              *)

TypeOK ==
  /\ step \in [Threads -> Steps] /\ wish \in [Threads -> Routes]
  /\ success \in [Threads -> BOOLEAN] /\ route \in Routes
  /\ earlier \in [Threads -> SUBSET Threads]

Quiet == \A t \in Threads : step[t] \in {"Idle", "Done"}
Last == {t \in Returned : \A u \in Threads : t \notin earlier[u]}

\* Without the queue the order of overlapping calls is anyone's, but it is an
\* order: when no call is in progress, and the calls that no later one followed
\* all claim success, the audio plays where one of those asked it to, whatever
\* earlier calls did or failed to do.
LastOnesRoute ==
  Quiet /\ Last # {} /\ (\A t \in Last : success[t])
    => \E t \in Last : route = wish[t]

\* The inductive invariant: a call still on its way is earlier than none, and
\* the last to return was heard or failed, unless another has set its category
\* since.
EarlierReturned == \A t \in Threads : earlier[t] \subseteq Returned
LastWasHeard ==
  \/ Last = {}
  \/ \E t \in Last : success[t] => route = wish[t]
  \/ \E t \in Threads : step[t] \in {"Active", "Override"}
IInv == TypeOK /\ EarlierReturned /\ LastWasHeard
=============================================================================
