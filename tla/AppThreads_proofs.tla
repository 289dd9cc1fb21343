-------------------------- MODULE AppThreads_proofs --------------------------
(***************************************************************************)
(* What holds of AppThreads for any number of threads.                     *)
(***************************************************************************)
EXTENDS AppThreads, TLAPS

\* The shared instance's history, as far as the proofs need it.
PhoneType ==
  /\ at \in [Threads -> {"Call", "Make", "Done"}]
  /\ got \in [Threads -> Threads \cup {None}]
  /\ shared \in Threads \cup {None}
  /\ raced \in BOOLEAN

-----------------------------------------------------------------------------
(* The audio session                                                       *)

\* A call that returns now is one of the last: those under way began before.
LEMMA Returns ==
  ASSUME Audio!TypeOK, Audio!EarlierReturned, NEW t \in Threads,
         step[t] # "Done", step' = [step EXCEPT ![t] = "Done"],
         earlier' = earlier
  PROVE  t \in Audio!Last' /\ Audio!EarlierReturned'
<1>1. step \in [Threads -> Audio!Steps]
  BY DEF Audio!TypeOK
<1>2. \A u \in Threads : t \notin earlier[u]
  BY DEF Audio!EarlierReturned, Audio!Returned
<1>3. Audio!Returned' = Audio!Returned \cup {t}
  BY <1>1 DEF Audio!Returned
<1> QED BY <1>2, <1>3 DEF Audio!Last, Audio!EarlierReturned

\* A call that goes from one step to the next leaves the last ones be.
LEMMA GoesOn ==
  ASSUME Audio!TypeOK, Audio!EarlierReturned, NEW t \in Threads,
         step[t] # "Done", NEW to \in Audio!Steps \ {"Done"},
         step' = [step EXCEPT ![t] = to], earlier' = earlier
  PROVE  Audio!Last' = Audio!Last /\ Audio!EarlierReturned'
<1>1. step \in [Threads -> Audio!Steps]
  BY DEF Audio!TypeOK
<1>2. Audio!Returned' = Audio!Returned
  BY <1>1 DEF Audio!Returned
<1> QED BY <1>2 DEF Audio!Last, Audio!EarlierReturned

\* Every step of a call keeps the invariant of the audio session.
LEMMA SpeakerKeeps ==
  ASSUME Audio!IInv, NEW t \in Threads, Audio!Speaker(t)
  PROVE  Audio!IInv'
<1>1. /\ Audio!TypeOK /\ Audio!EarlierReturned
      /\ step \in [Threads -> Audio!Steps] /\ wish \in [Threads -> Audio!Routes]
      /\ success \in [Threads -> BOOLEAN] /\ route \in Audio!Routes
      /\ earlier \in [Threads -> SUBSET Threads]
  BY DEF Audio!IInv, Audio!TypeOK
<1>2. CASE Audio!Begin(t)
  <2>1. Audio!Returned' = Audio!Returned /\ Audio!Returned \subseteq Threads
    BY <1>1, <1>2 DEF Audio!Begin, Audio!Returned
  <2>2. Audio!TypeOK'
    BY <1>1, <1>2, <2>1 DEF Audio!Begin, Audio!TypeOK, Audio!Steps
  <2>3. earlier' = [earlier EXCEPT ![t] = Audio!Returned]
    BY <1>2 DEF Audio!Begin
  <2>4. Audio!EarlierReturned'
    BY <1>1, <2>1, <2>3 DEF Audio!EarlierReturned
  <2>5. earlier'[t] = Audio!Returned'
    BY <1>1, <2>1, <2>3
  <2>6. Audio!Last' = {}
    BY <2>5 DEF Audio!Last
  <2> QED BY <2>2, <2>4, <2>6 DEF Audio!IInv, Audio!LastWasHeard
<1>3. CASE Audio!SetCategory(t)
  <2>1. PICK ok \in BOOLEAN :
          /\ Audio!Try(t, "Category", "Active", ok)
          /\ route' \in IF ok THEN {route, "Receiver"} ELSE {route}
    BY <1>3 DEF Audio!SetCategory
  <2>2. Audio!TypeOK'
    BY <1>1, <2>1 DEF Audio!Try, Audio!TypeOK, Audio!Steps, Audio!Routes
  <2>3. /\ step' = [step EXCEPT ![t] = "Active"] /\ step[t] # "Done"
        /\ earlier' = earlier
    BY <2>1 DEF Audio!Try
  <2>4. Audio!EarlierReturned'
    BY <1>1, <2>3, GoesOn DEF Audio!Steps
  <2>5. step'[t] = "Active"
    BY <1>1, <2>3
  <2> QED BY <2>2, <2>4, <2>5 DEF Audio!IInv, Audio!LastWasHeard
<1>4. CASE Audio!SetActive(t)
  <2>1. PICK ok \in BOOLEAN : Audio!Try(t, "Active", "Override", ok)
                              /\ UNCHANGED route
    BY <1>4 DEF Audio!SetActive
  <2>2. Audio!TypeOK'
    BY <1>1, <2>1 DEF Audio!Try, Audio!TypeOK, Audio!Steps
  <2>3. /\ step' = [step EXCEPT ![t] = "Override"] /\ step[t] # "Done"
        /\ earlier' = earlier
    BY <2>1 DEF Audio!Try
  <2>4. Audio!EarlierReturned'
    BY <1>1, <2>3, GoesOn DEF Audio!Steps
  <2>5. step'[t] = "Override"
    BY <1>1, <2>3
  <2> QED BY <2>2, <2>4, <2>5 DEF Audio!IInv, Audio!LastWasHeard
<1>5. CASE Audio!Override(t)
  <2>1. PICK ok \in BOOLEAN : /\ Audio!Try(t, "Override", "Done", ok)
                              /\ route' = IF ok THEN wish[t] ELSE route
    BY <1>5 DEF Audio!Override
  <2>2. Audio!TypeOK'
    BY <1>1, <2>1 DEF Audio!Try, Audio!TypeOK, Audio!Steps
  <2>3. /\ step' = [step EXCEPT ![t] = "Done"] /\ step[t] # "Done"
        /\ earlier' = earlier
    BY <2>1 DEF Audio!Try
  <2>4. t \in Audio!Last' /\ Audio!EarlierReturned'
    BY <1>1, <2>3, Returns
  <2>5. success'[t] = ok /\ wish' = wish
    BY <1>1, <2>1 DEF Audio!Try
  <2>6. success'[t] => route' = wish'[t]
    BY <2>1, <2>5
  <2> QED BY <2>2, <2>4, <2>6 DEF Audio!IInv, Audio!LastWasHeard
<1>6. CASE Audio!Caught(t)
  <2>1. Audio!TypeOK'
    BY <1>1, <1>6 DEF Audio!Caught, Audio!TypeOK, Audio!Steps
  <2>2. /\ step' = [step EXCEPT ![t] = "Done"] /\ step[t] # "Done"
        /\ earlier' = earlier /\ success' = [success EXCEPT ![t] = FALSE]
    BY <1>6 DEF Audio!Caught
  <2>3. t \in Audio!Last' /\ Audio!EarlierReturned'
    BY <1>1, <2>2, Returns
  <2>4. ~success'[t]
    BY <1>1, <2>2
  <2> QED BY <2>1, <2>3, <2>4 DEF Audio!IInv, Audio!LastWasHeard
<1> QED BY <1>2, <1>3, <1>4, <1>5, <1>6 DEF Audio!Speaker

\* A step that leaves the audio session alone keeps its invariant.
LEMMA AudioStutters ==
  ASSUME Audio!IInv, UNCHANGED audioVars
  PROVE  Audio!IInv'
BY DEF audioVars, Audio!IInv, Audio!TypeOK, Audio!EarlierReturned,
   Audio!LastWasHeard, Audio!Last, Audio!Returned

-----------------------------------------------------------------------------
(* The theorems                                                            *)

\* For any number of threads the inductive invariant of the audio session holds
\* at every step.
THEOREM AudioInvariant == Spec => []Audio!IInv
<1>1. Init => Audio!IInv
  BY DEF Init, Audio!Init, Audio!IInv, Audio!TypeOK, Audio!Steps, Audio!Routes,
         Audio!EarlierReturned, Audio!LastWasHeard, Audio!Last, Audio!Returned
<1>2. Audio!IInv /\ [Next]_vars => Audio!IInv'
  <2> SUFFICES ASSUME Audio!IInv, [Next]_vars
               PROVE  Audio!IInv'
    OBVIOUS
  <2>1. CASE UNCHANGED audioVars
    BY <2>1, AudioStutters
  <2>2. ASSUME NEW t \in Threads, UseSpeaker(t)
        PROVE  Audio!IInv'
    BY <2>2, SpeakerKeeps DEF UseSpeaker
  <2> QED BY <2>1, <2>2 DEF Next, GetInstance, vars
<1> QED BY <1>1, <1>2, PTL DEF Spec

\* Whatever the interleaving of speakeron and speakeroff, once they are done and
\* the last of them claim success the audio plays where one of those asked.
THEOREM LastOnesAreHeard == Spec => []LastOnesRoute
<1>1. Audio!IInv => LastOnesRoute
  <2> SUFFICES ASSUME Audio!IInv, Audio!Quiet, Audio!Last # {},
                      \A t \in Audio!Last : success[t]
               PROVE  \E t \in Audio!Last : route = wish[t]
    BY DEF LastOnesRoute, Audio!LastOnesRoute
  <2>1. ~ \E t \in Threads : step[t] \in {"Active", "Override"}
    BY DEF Audio!Quiet
  <2> QED BY <2>1 DEF Audio!IInv, Audio!LastWasHeard
<1> QED BY <1>1, AudioInvariant, PTL

\* Every thread is at one step of sharedInstanceWithDelegate and was given an
\* instance or none.
LEMMA PhoneTypeCorrect == Spec => []PhoneType
<1>1. Init => PhoneType
  BY DEF Init, Phone!Init, PhoneType
<1>2. PhoneType /\ [Next]_vars => PhoneType'
  BY DEF PhoneType, Next, vars, phoneVars, GetInstance, UseSpeaker,
         Phone!Read, Phone!Publish
<1> QED BY <1>1, <1>2, PTL DEF Spec

\* A thread that makes the instance alone makes the only one there is.
LEMMA StepKeepsSharedOnce ==
  ASSUME PhoneType, SharedOnce, [Next]_vars
  PROVE  SharedOnce'
<1> USE DEF PhoneType, SharedOnce, Phone!Done, Phone!Making
<1>1. CASE UNCHANGED phoneVars
  BY <1>1 DEF phoneVars
<1>2. ASSUME NEW t \in Threads, Phone!Read(t)
      PROVE  SharedOnce'
  BY <1>2 DEF Phone!Read
<1>3. ASSUME NEW t \in Threads, Phone!Publish(t)
      PROVE  SharedOnce'
  <2> SUFFICES ASSUME ~raced PROVE SharedOnce'
    BY <1>3 DEF Phone!Publish
  <2>1. /\ at[t] = "Make" /\ shared' = t
        /\ at' = [at EXCEPT ![t] = "Done"] /\ got' = [got EXCEPT ![t] = t]
    BY <1>3 DEF Phone!Publish
  <2>2. \A u \in Threads \ {t} : at[u] = "Call"
    BY <2>1
  <2>3. t # None
    BY ThreadsAssumption
  <2> QED BY <2>1, <2>2, <2>3
<1> QED BY <1>1, <1>2, <1>3 DEF Next, vars, GetInstance, UseSpeaker

\* For any number of threads the race between the test of the shared instance and
\* its publication is the only way to a second instance: until two threads were
\* in it together, all that call sharedInstanceWithDelegate are given the same.
THEOREM OneUnlessRaced == Spec => []OneInstanceUnlessRaced
<1>1. Init => SharedOnce
  BY DEF Init, Phone!Init, SharedOnce, Phone!Done, Phone!Making
<1>2. PhoneType /\ SharedOnce /\ [Next]_vars => SharedOnce'
  BY StepKeepsSharedOnce
<1>3. SharedOnce => OneInstanceUnlessRaced
  BY DEF SharedOnce, OneInstanceUnlessRaced, Phone!OneInstanceUnlessRaced,
         Phone!OneInstance
<1> QED BY <1>1, <1>2, <1>3, PhoneTypeCorrect, PTL DEF Spec
=============================================================================
