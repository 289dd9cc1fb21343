---------------------- MODULE ThreadRegistration_proofs ----------------------
(***************************************************************************)
(* What holds of ThreadRegistration for any pool of threads.               *)
(***************************************************************************)
EXTENDS ThreadRegistration, TLAPS

\* Every step of a block, and the end of a thread that runs none, keeps what
\* registerThread did.
LEMMA StepKeepsRegistered == RegisteredFirst /\ [Next]_vars => RegisteredFirst'
<1> SUFFICES ASSUME RegisteredFirst, [Next]_vars PROVE RegisteredFirst'
  OBVIOUS
<1> USE DEF RegisteredFirst, Descriptors
<1>1. ASSUME NEW t \in Pool, Dispatch(t) PROVE RegisteredFirst'
  BY <1>1 DEF Dispatch
<1>2. ASSUME NEW t \in Pool, ThreadEnds(t) PROVE RegisteredFirst'
  BY <1>2 DEF ThreadEnds
<1>3. CASE RegisterThread
  BY <1>3 DEF RegisterThread
<1>4. CASE Return
  BY <1>4 DEF Return
<1>5. CASE Work
  BY <1>5 DEF Work
<1>6. CASE UNCHANGED vars
  BY <1>6 DEF vars
<1> QED BY <1>1, <1>2, <1>3, <1>4, <1>5, <1>6 DEF Next

\* registerThread has always run before a block works on its thread.
LEMMA AlwaysRegistered == Spec => []RegisteredFirst
<1>1. Init => RegisteredFirst
  BY DEF Init, RegisteredFirst, Descriptors
<1> QED BY <1>1, StepKeepsRegistered, PTL DEF Spec

\* registerThread does its job: whichever threads run the blocks, and whenever
\* threads end, no block calls a library that is up from a thread unknown to it.
THEOREM BlocksAreRegistered == Spec => []BlockIsRegistered
<1>1. RegisteredFirst => BlockIsRegistered
  BY DEF RegisteredFirst, BlockIsRegistered
<1> QED BY <1>1, AlwaysRegistered, PTL
==============================================================================
