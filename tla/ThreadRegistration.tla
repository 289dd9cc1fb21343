------------------------- MODULE ThreadRegistration -------------------------
(***************************************************************************)
(* registerThread and the threads it runs on.  A serial queue has no       *)
(* thread of its own: each block runs on some thread of a pool and first   *)
(* makes that thread known to the library, which keeps a descriptor for    *)
(* it until the thread ends or the library shuts down.                     *)
(***************************************************************************)
EXTENDS Integers

CONSTANTS
  Pool,     \* threads the system runs queues on
  None,     \* no thread
  MaxBlocks \* bound: blocks the queue runs

VARIABLES
  lib,      \* "Down" or "Up"
  desc,     \* where each thread's descriptor is kept
  runner,   \* the thread that runs a block
  at,       \* where that block is
  blocks    \* blocks run so far

vars == <<lib, desc, runner, at, blocks>>

\* A descriptor is the library's own, in a frame of registerThread that is
\* running, or in one that has returned.
Descriptors == {"None", "Library", "Frame", "Left"}

Init ==
  /\ lib = "Down" /\ desc = [t \in Pool |-> "None"]
  /\ runner = None /\ at = "Idle" /\ blocks = 0

\* A block of the queue starts on any thread.
Dispatch(t) ==
  /\ runner = None /\ blocks < MaxBlocks
  /\ runner' = t /\ at' = "Register" /\ blocks' = blocks + 1
  /\ UNCHANGED <<lib, desc>>

\* pj_thread_is_registered and pj_thread_register.  Before pjsua_create neither
\* leaves anything behind.
RegisterThread ==
  /\ at = "Register"
  /\ IF lib = "Up" /\ desc[runner] = "None"
     THEN desc' = [desc EXCEPT ![runner] = "Frame"]
     ELSE UNCHANGED desc
  /\ at' = "Registered"
  /\ UNCHANGED <<lib, runner, blocks>>

\* registerThread returns, and its aPJThreadDesc goes with its frame.
Return ==
  /\ at = "Registered"
  /\ desc' = [desc EXCEPT ![runner] = IF @ = "Frame" THEN "Left" ELSE @]
  /\ at' = "Work"
  /\ UNCHANGED <<lib, runner, blocks>>

\* pjsua_create registers the thread that calls it; pjsua_destroy forgets all
\* threads; other calls of the library leave them alone.
Work ==
  /\ at = "Work"
  /\ \/ lib = "Down" /\ lib' = "Up" /\ desc' = [desc EXCEPT ![runner] = "Library"]
     \/ lib = "Up" /\ lib' = "Down" /\ desc' = [t \in Pool |-> "None"]
     \/ UNCHANGED <<lib, desc>>
  /\ runner' = None /\ at' = "Idle"
  /\ UNCHANGED blocks

\* The pool ends a thread that is not in use.
ThreadEnds(t) ==
  /\ runner # t /\ desc[t] # "None"
  /\ desc' = [desc EXCEPT ![t] = "None"]
  /\ UNCHANGED <<lib, runner, at, blocks>>

Next ==
  \/ \E t \in Pool : Dispatch(t) \/ ThreadEnds(t)
  \/ RegisterThread \/ Return \/ Work

Spec == Init /\ [][Next]_vars

-----------------------------------------------------------------------------
(* Properties                                                              *)

\* "Thread descriptor, which must be available throughout the lifetime of the
\* thread": as long as the library keeps a descriptor, nothing else is put in
\* its place.
DescriptorLive == \A t \in Pool : desc[t] # "Left"

\* A block that calls the library does so from a thread the library knows,
\* whichever thread the system chose and however often threads end.
BlockIsRegistered == at = "Work" /\ lib = "Up" => desc[runner] # "None"

\* The inductive invariant: registerThread has run before the block's work.
RegisteredFirst ==
  /\ desc \in [Pool -> Descriptors] /\ lib \in {"Down", "Up"}
  /\ at # "Idle" => runner \in Pool
  /\ at \in {"Registered", "Work"} /\ lib = "Up" => desc[runner] # "None"
=============================================================================
