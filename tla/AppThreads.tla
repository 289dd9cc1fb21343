----------------------------- MODULE AppThreads -----------------------------
(***************************************************************************)
(* The application's threads: each asks for the shared instance and, with  *)
(* the one it got, turns the speaker on or off.  What the instances share  *)
(* is the audio session.                                                   *)
(***************************************************************************)
CONSTANTS
  Threads, \* threads of the application
  None     \* no instance

ASSUME ThreadsAssumption == None \notin Threads

VARIABLES shared, at, got, raced, step, wish, success, route, earlier

Phone == INSTANCE SharedInstance WITH Callers <- Threads
Audio == INSTANCE AudioRoute

phoneVars == <<shared, at, got, raced>>
audioVars == <<step, wish, success, route, earlier>>
vars == <<phoneVars, audioVars>>

Init == Phone!Init /\ Audio!Init

\* sharedInstanceWithDelegate runs.
GetInstance(t) ==
  /\ Phone!Read(t) \/ Phone!Publish(t)
  /\ UNCHANGED audioVars

\* speakeron or speakeroff of the instance that was returned.
UseSpeaker(t) ==
  /\ got[t] # None
  /\ Audio!Speaker(t)
  /\ UNCHANGED phoneVars

Next == \E t \in Threads : GetInstance(t) \/ UseSpeaker(t)

Spec == Init /\ [][Next]_vars

-----------------------------------------------------------------------------
(* Properties of the parts, which the composition keeps                    *)

\* The calls of speakeron and speakeroff take effect in some order.
LastOnesRoute == Audio!LastOnesRoute

\* The threads share one instance, unless two of them were between its test and
\* its publication together.
OneInstanceUnlessRaced == Phone!OneInstanceUnlessRaced

\* What that rests on: without a race one thread makes an instance, while there
\* is none, and whoever returned was given the one there is.
SharedOnce ==
  ~raced =>
    /\ \A t, u \in Phone!Making : t = u
    /\ Phone!Making # {} => shared = None
    /\ \A t \in Threads : Phone!Done(t) => shared # None /\ got[t] = shared
=============================================================================
