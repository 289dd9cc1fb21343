--------------------------- MODULE SharedInstance ---------------------------
(***************************************************************************)
(* sharedInstanceWithDelegate called from several threads.  Reading the    *)
(* shared instance and publishing one are each @synchronized; testing the  *)
(* one read and publishing another are two steps.                          *)
(***************************************************************************)
CONSTANTS
  Callers, \* calls of sharedInstanceWithDelegate, each with its own delegate
  None     \* no instance

VARIABLES
  shared, \* _sharedInstance, named after the caller that made it
  at,     \* where each call is
  got,    \* the instance each call returned
  raced   \* history: two calls have been between the test and the publication

vars == <<shared, at, got, raced>>

Done(t) == at[t] = "Done"
Making == {t \in Callers : at[t] = "Make"}

Init ==
  /\ shared = None
  /\ at = [t \in Callers |-> "Call"]
  /\ got = [t \in Callers |-> None]
  /\ raced = FALSE

\* Faulty variant: what was read is not tested.
ReadAlwaysMakes(t) ==
  /\ at[t] = "Call"
  /\ shared' = t
  /\ got' = [got EXCEPT ![t] = t]
  /\ at' = [at EXCEPT ![t] = "Done"]
  /\ UNCHANGED raced

\* [self sharedInstance], and the test of what it returned.
Read(t) ==
  /\ at[t] = "Call"
  /\ got' = [got EXCEPT ![t] = shared]
  /\ at' = [at EXCEPT ![t] = IF shared = None THEN "Make" ELSE "Done"]
  /\ raced' = (raced \/ (shared = None /\ Making # {}))
  /\ UNCHANGED shared

\* initWithDelegate, then setSharedInstance.
Publish(t) ==
  /\ at[t] = "Make"
  /\ shared' = t
  /\ got' = [got EXCEPT ![t] = t]
  /\ at' = [at EXCEPT ![t] = "Done"]
  /\ UNCHANGED raced

Next == \E t \in Callers : Read(t) \/ Publish(t)

Spec == Init /\ [][Next]_vars

-----------------------------------------------------------------------------
\* "init sharedInstance with your delegate and config": the calls share one
\* instance.
OneInstance == \A t, u \in Callers : Done(t) /\ Done(u) => got[t] = got[u]

\* The race between the test and the publication is the only way to a second
\* instance: callers that overlap in any other way share one.
OneInstanceUnlessRaced == ~raced => OneInstance
=============================================================================
