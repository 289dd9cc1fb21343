--------------------------- MODULE Globals_proofs ---------------------------
(***************************************************************************)
(* What the globals of CallControl are good for, for every number of       *)
(* slots, ports, events and blocks.  As long as calls do not overlap, mute *)
(* and unmute find the call's port in ci, callId is what hangup should     *)
(* hang up, and the end of a call is the last the delegate hears of it.    *)
(* As long as nothing crosses a callback, active media is heard and a      *)
(* muted call is silent, however many calls there are.  Beyond that these  *)
(* fail: active_unheard, mute_undone and call_id_stale show how.           *)
(***************************************************************************)
EXTENDS CallControl_proofs

CallsInv == TypeInv /\ TurnsInv /\ MediaInv
\* What OneInv says of the globals.
Followed == ReportsOwnCall /\ ActiveIsFollowed /\ NewestIsCallId /\ EndIsFollowed

-----------------------------------------------------------------------------
(* One call, one thread in its callbacks                                   *)

LEMMA Alone ==
  ASSUME CallsInv, OneAtATime, NEW t \in Threads, InCallback(t)
  PROVE  /\ run[t].call \in Calls /\ state[run[t].call] # "Null"
         /\ \A c \in Calls : state[c] # "Null" => c = run[t].call
         /\ \A u \in Threads \ {t} : ~InCallback(u)
<1>1. ASSUME NEW u \in Threads, InCallback(u)
      PROVE  run[u].call \in Calls /\ state[run[u].call] # "Null"
  BY <1>1, PlacesAre
     DEF CallsInv, TypeInv, RunOK, FramesFit, FrameFits, InCallback, TurnsInv, HeldInUse
<1>2. \A c \in Calls : state[c] # "Null" => c = run[t].call
  BY <1>1 DEF OneAtATime
<1> QED BY <1>1, <1>2 DEF CallsInv, TurnsInv, TakeTurns

\* Nothing of a callback is about when no thread is in one.
LEMMA NotIn ==
  ASSUME NEW t \in Threads, ~InCallback(t)
  PROVE  /\ ~At(t, "Incoming") /\ ~At(t, "StateTell") /\ ~MediaAhead(t) /\ ~Reporting(t)
BY PlacesAre DEF InCallback, At, MediaAhead, Reporting

\* No callback is to come: ci has the active call's slot.
LEMMA NobodyFollows ==
  ASSUME ActiveIsFollowed, \A t \in Threads : ~InCallback(t),
         NEW c \in LiveCalls, media[c] = "Active"
  PROVE  ci.slot = port[c]
BY NotIn DEF ActiveIsFollowed

-----------------------------------------------------------------------------
(* Steps outside the callbacks                                             *)

\* A block goes on: what is true of the callbacks stays so.
LEMMA RestFollows ==
  ASSUME CallsInv, Followed, NEW t \in Threads, Moves(t), ~InCallback(t)
  PROVE  Followed'
<1>1. /\ UNCHANGED <<ci, told, callId, state, media, port>> /\ LiveCalls' = LiveCalls
      /\ ~InCallback(t)'
  BY DEF Moves, globals, LiveCalls
<1>2. \A u \in Threads : InCallback(u)' = InCallback(u)
  BY <1>1 DEF Moves, Others, InCallback
<1>3. \A u \in Threads : InCallback(u) => run'[u] = run[u]
  BY DEF Moves, Others
<1>4. ASSUME NEW u \in Threads
      PROVE  /\ At(u, "StateTell")' <=> At(u, "StateTell")
             /\ At(u, "Incoming")' <=> At(u, "Incoming")
             /\ MediaAhead(u)' <=> MediaAhead(u)
             /\ Reporting(u)' <=> Reporting(u)
  <2>1. CASE InCallback(u)
    BY <1>3, <2>1 DEF At, MediaAhead, Reporting, InCallback
  <2>2. CASE ~InCallback(u)
    <3>1. run'[u].at \in InBlock
      BY <1>2, <2>2 DEF InCallback
    <3>2. /\ ~At(u, "Incoming")' /\ ~At(u, "StateTell")' /\ ~MediaAhead(u)'
          /\ ~Reporting(u)'
      BY <3>1, PlacesAre DEF InCallback, At, MediaAhead, Reporting
    <3> QED BY <2>2, <3>2, NotIn
  <2> QED BY <2>1, <2>2
<1>5. ReportsOwnCall'
  BY <1>1, <1>3, <1>4, NotIn DEF Followed, ReportsOwnCall
<1>6. ActiveIsFollowed'
  BY <1>1, <1>4 DEF Followed, ActiveIsFollowed
<1>7. NewestIsCallId'
  BY <1>1, <1>3, <1>4, NotIn DEF Followed, NewestIsCallId
<1>8. EndIsFollowed'
  <2>1. \A c : Held(c) = \E u \in Threads : run[u].call = c /\ InCallback(u)
    BY DEF Held, InCallback
  <2>2. \A c : Held(c)' = \E u \in Threads : run'[u].call = c /\ InCallback(u)'
    BY DEF Held, InCallback
  <2>3. \A c : Held(c)' = Held(c)
    BY <1>2, <1>3, <2>1, <2>2
  <2> QED BY <1>1, <1>3, <1>4, <2>3, NotIn DEF Followed, EndIsFollowed
<1> QED BY <1>5, <1>6, <1>7, <1>8 DEF Followed

\* A call changes, and the callbacks it gets will see to what follows.
LEMMA TakesFollow ==
  ASSUME CallsInv, OneAtATime, OneAtATime', Followed,
         NEW t \in Threads, NEW c \in Calls, Takes(t, c)
  PROVE  Followed'
<1>1. /\ UNCHANGED <<ci, told>> /\ run'[t].call = c
      /\ callId' = IF At(t, "Incoming") THEN c ELSE callId
      /\ run'[t].at \in {"Incoming", "StateInfo", "MediaInfo"}
      /\ \A u \in Threads \ {t} : run'[u] = run[u]
  BY DEF Takes, Others
<1>2. \A d \in Calls : state'[d] # "Null" => d = c
  BY DEF OneAtATime, Takes
<1>3. \A d \in Calls \ {c} : state'[d] = state[d]
  BY DEF Takes, CallsInv, TypeInv, DataOK
\* No other thread is in a callback: it would be about another call.
<1>4. \A u \in Threads \ {t} : ~InCallback(u)
  <2> SUFFICES ASSUME NEW u \in Threads \ {t}, InCallback(u) PROVE FALSE
    OBVIOUS
  <2>1. run[u].call \in Calls /\ state[run[u].call] # "Null" /\ ~InCallback(t)
    BY Alone
  <2>2. run[u].call # c
    BY <2>1, InCallbacks DEF Takes
  <2> QED BY <1>2, <1>3, <2>1, <2>2
<1>5. \A u \in Threads \ {t} : ~At(u, "Incoming") /\ ~At(u, "StateTell")'
  BY <1>1, <1>4, PlacesAre DEF InCallback, At
<1>6. ReportsOwnCall'
  BY <1>1, <1>5 DEF ReportsOwnCall, At
<1>7. ActiveIsFollowed'
  <2> SUFFICES ASSUME NEW d \in Calls, d \in LiveCalls', media'[d] = "Active", ~MediaAhead(t)'
               PROVE  ci'.slot = port'[d]
    BY DEF ActiveIsFollowed, LiveCalls
  <2>1. d = c /\ state'[c] # "Disconnected"
    BY <1>2 DEF LiveCalls
  <2>2. ~InCallback(t) /\ UNCHANGED <<media, port, bridge>>
    BY <2>1 DEF Takes
  <2>3. state[c] # "Null"
    BY <2>1, <2>2 DEF CallsInv, MediaInv, QuietUntilAnswered
  <2>4. c \in LiveCalls
    BY <2>1, <2>3 DEF Takes, LiveCalls
  <2> QED BY <1>1, <1>4, <2>1, <2>2, <2>4, NobodyFollows DEF Followed
<1>8. NewestIsCallId'
  <2> SUFFICES ASSUME NEW d \in Calls, d \in LiveCalls', ~At(t, "Incoming")'
               PROVE  callId' = d
    BY <1>1, <1>2 DEF NewestIsCallId, LiveCalls
  <2>1. d = c /\ c \in LiveCalls
    BY <1>2 DEF Takes, LiveCalls, At
  <2> QED BY <1>1, <1>5, <2>1 DEF Followed, NewestIsCallId
<1>9. EndIsFollowed'
  BY <1>1, <1>2 DEF EndIsFollowed, Takes
<1> QED BY <1>6, <1>7, <1>8, <1>9 DEF Followed

\* With every slot free, and no callback, there is nothing to follow.
LEMMA EmptyFollows ==
  ASSUME \A c \in Calls : state'[c] = "Null", \A t \in Threads : ~InCallback(t)'
  PROVE  Followed'
<1>1. \A t \in Threads : ~At(t, "StateTell")'
  BY PlacesAre DEF InCallback, At
<1> QED BY <1>1 DEF Followed, ReportsOwnCall, ActiveIsFollowed, NewestIsCallId, EndIsFollowed,
                    LiveCalls

LEMMA FreesFollow ==
  ASSUME CallsInv, OneAtATime, NEW c \in Calls, Frees(c)
  PROVE  Followed'
<1>1. \A d \in Calls : state'[d] = "Null"
  BY DEF Frees, OneAtATime, CallsInv, TypeInv, DataOK
<1>2. ASSUME NEW t \in Threads, InCallback(t) PROVE FALSE
  BY <1>2, Alone, InCallbacks DEF Frees
<1>3. \A t \in Threads : ~InCallback(t)'
  BY <1>2 DEF Frees, InCallback
<1> QED BY <1>1, <1>3, EmptyFollows

-----------------------------------------------------------------------------
(* The callbacks                                                           *)

\* What a step of a callback has to see to, for the call it is about.
LEMMA SoloFollows ==
  ASSUME CallsInv, OneAtATime, Followed, NEW t \in Threads, InCallback(t), Moves(t),
         At(t, "StateTell")' => ci'.state = state[run[t].call],
         media[run[t].call] = "Active" /\ run[t].call \in LiveCalls =>
           MediaAhead(t)' \/ ci'.slot = port[run[t].call],
         state[run[t].call] = "Disconnected" =>
           \/ told' = [code |-> InvState["Disconnected"], from |-> "call"] /\ ~InCallback(t)'
           \/ Reporting(t)'
  PROVE  Followed'
<1> DEFINE c == run[t].call
<1>1. /\ c \in Calls /\ \A d \in Calls : state[d] # "Null" => d = c
      /\ \A u \in Threads \ {t} : ~InCallback(u)
  BY Alone
<1>2. /\ UNCHANGED <<state, media, port>> /\ LiveCalls' = LiveCalls
      /\ \A u \in Threads \ {t} : run'[u] = run[u]
      /\ InCallback(t)' => run'[t].call = c
  BY DEF Moves, Others, LiveCalls
<1>3. \A u \in Threads \ {t} : ~InCallback(u)' /\ ~At(u, "StateTell")' /\ ~At(u, "Incoming")
  BY <1>1, <1>2, PlacesAre DEF InCallback, At
<1> HIDE DEF c
<1>4. ReportsOwnCall'
  <2>1. At(t, "StateTell")' => InCallback(t)'
    BY PlacesAre DEF InCallback, At
  <2> QED BY <1>2, <1>3, <2>1 DEF ReportsOwnCall, c
<1>5. ActiveIsFollowed'
  BY <1>1, <1>2 DEF ActiveIsFollowed, LiveCalls, c
<1>6. NewestIsCallId'
  <2>1. c \in LiveCalls => callId' = c
    BY <1>3 DEF Followed, NewestIsCallId, Moves, c
  <2>2. \A d \in LiveCalls : d = c
    BY <1>1 DEF LiveCalls
  <2> QED BY <1>2, <2>1, <2>2 DEF NewestIsCallId
<1>7. EndIsFollowed'
  <2> SUFFICES ASSUME NEW d \in Calls, state[d] = "Disconnected"
               PROVE  \/ /\ told' = [code |-> InvState["Disconnected"], from |-> "call"]
                         /\ ~Held(d)'
                      \/ \E u \in Threads : run'[u].call = d /\ Reporting(u)'
    BY <1>2 DEF EndIsFollowed
  <2>1. d = c
    BY <1>1
  <2>2. Reporting(t)' => run'[t].call = c
    BY <1>2, PlacesAre DEF Reporting, InCallback, At
  <2>3. ~InCallback(t)' => ~Held(d)'
    BY <1>3 DEF InCallback, Held
  <2> QED BY <2>1, <2>2, <2>3 DEF c
<1> QED BY <1>4, <1>5, <1>6, <1>7 DEF Followed

\* A callback returns; what is to come is no less ahead.
LEMMA ReturnAhead ==
  ASSUME TypeInv, NEW t \in Threads, InCallback(t), Return(t)
  PROVE  /\ ~At(t, "StateTell")'
         /\ MediaAhead(t) /\ ~At(t, "MediaInfo") => MediaAhead(t)'
         /\ run[t].todo \notin {<<"MediaInfo">>, <<"StateInfo">>} => ~InCallback(t)'
<1>1. RunOK /\ run[t].at # "Idle"
  BY PlacesAre DEF TypeInv, InCallback
<1>2. \/ run[t].todo = <<>> /\ run'[t].at = "Idle"
      \/ run[t].todo = <<"MediaInfo">> /\ run'[t].at = "MediaInfo"
      \/ run[t].todo = <<"StateInfo">> /\ run'[t].at = "StateInfo"
      \/ run[t].todo = <<"NextCall">> /\ run'[t].at = "NextCall"
      \/ run[t].todo = <<"Closing">> /\ run'[t].at = "Closing"
  BY <1>1, RunReturn
<1>3. ~At(t, "StateTell")'
  BY <1>2 DEF At
<1>4. MediaAhead(t) /\ ~At(t, "MediaInfo") => MediaAhead(t)'
  <2>1. SUFFICES ASSUME run[t].todo = <<"MediaInfo">> PROVE run'[t].at = "MediaInfo"
    BY PlacesAre DEF MediaAhead, InCallback, At
  <2> QED BY <1>2, <2>1
<1>5. run[t].todo \notin {<<"MediaInfo">>, <<"StateInfo">>} => ~InCallback(t)'
  BY <1>2, PlacesAre DEF InCallback
<1> QED BY <1>3, <1>4, <1>5

\* A callback goes on to another place of its own.
LEMMA GotoAhead ==
  ASSUME TypeInv, NEW t \in Threads, InCallback(t), NEW p \in Places \ InBlock, Goto(t, p)
  PROVE  /\ run'[t].at = p /\ run'[t].todo = run[t].todo
         /\ MediaAhead(t) /\ ~At(t, "MediaInfo") => MediaAhead(t)'
<1>1. RunOK /\ run[t].at # "Idle" /\ p \in Places \ {"Idle"}
  BY PlacesAre DEF TypeInv, InCallback
<1>2. run'[t].at = p /\ run'[t].todo = run[t].todo
  BY <1>1, RunGoto DEF InCallback
<1> QED BY <1>2 DEF MediaAhead, InCallback, At

\* Unless a callback about its media is to come, ci has the active call's slot.
LEMMA SoloActive ==
  ASSUME CallsInv, OneAtATime, Followed, NEW t \in Threads, InCallback(t),
         media[run[t].call] = "Active", run[t].call \in LiveCalls, ~MediaAhead(t)
  PROVE  ci.slot = port[run[t].call]
<1>1. \A u \in Threads \ {t} : ~MediaAhead(u)
  BY Alone, NotIn
<1> QED BY <1>1 DEF Followed, ActiveIsFollowed

\* A call that ended has no callback but the one that reports it.
LEMMA SoloEnded ==
  ASSUME CallsInv, OneAtATime, Followed, NEW t \in Threads, InCallback(t),
         state[run[t].call] = "Disconnected"
  PROVE  Reporting(t)
<1>1. run[t].call \in Calls /\ \A u \in Threads \ {t} : ~Reporting(u)
  BY Alone, NotIn
<1> QED BY <1>1, InCallbacks DEF Followed, EndIsFollowed

LEMMA IncomingFollows ==
  ASSUME CallsInv, OneAtATime, Followed, NEW t \in Threads, OnIncomingCall(t), Moves(t)
  PROVE  Followed'
<1>1. TypeInv /\ DataOK /\ At(t, "Incoming") /\ InCallback(t) /\ run[t].call \in Calls
      /\ UNCHANGED state
  BY InCallbacks, Alone DEF CallsInv, TypeInv, OnIncomingCall, Moves
<1>2. state[run[t].call] = "Incoming" /\ media[run[t].call] = "None"
  BY <1>1 DEF CallsInv, TurnsInv, InvitedOnWorker, MediaInv, QuietUntilAnswered
<1>3. Return(t)
  BY <1>1, <1>2 DEF OnIncomingCall, Answer, DataOK
<1>4. ~At(t, "StateTell")'
  BY <1>1, <1>3, ReturnAhead
<1> QED BY <1>1, <1>2, <1>4, SoloFollows

LEMMA StateFollows ==
  ASSUME CallsInv, OneAtATime, Followed, NEW t \in Threads, OnCallState(t), Moves(t)
  PROVE  Followed'
<1> DEFINE c == run[t].call
<1>1. TypeInv /\ run[t].at \in {"StateInfo", "StateTell"} /\ UNCHANGED <<port, bridge>>
  BY DEF CallsInv, OnCallState, library, At
<1>2. InCallback(t) /\ ~At(t, "MediaInfo")
  BY <1>1, PlacesAre DEF InCallback, At
<1>3. CASE At(t, "StateInfo") /\ FetchInfo(t) /\ Goto(t, "StateTell")
  <2>1. run'[t].at = "StateTell" /\ run'[t].todo = run[t].todo
    BY <1>1, <1>2, <1>3, GotoAhead, PlacesAre
  <2>2. ci' = [state |-> state[c], media |-> media[c], slot |-> port[c]]
    BY <1>3 DEF FetchInfo
  <2>3. Reporting(t) => Reporting(t)'
    BY <2>1 DEF Reporting, At
  <2>5. state[c] = "Disconnected" => Reporting(t)'
    BY <1>2, <2>3, SoloEnded
  <2> QED BY <1>2, <2>2, <2>5, SoloFollows
<1>4. CASE /\ At(t, "StateTell") /\ Return(t) /\ UNCHANGED ci
           /\ told' = [code |-> InvState[ci.state], from |-> "call"]
  <2>1. /\ ~At(t, "StateTell")' /\ (MediaAhead(t) => MediaAhead(t)')
        /\ run[t].todo \notin {<<"MediaInfo">>, <<"StateInfo">>} => ~InCallback(t)'
    BY <1>1, <1>2, <1>4, ReturnAhead
  <2>2. ci.state = state[c]
    BY <1>4 DEF Followed, ReportsOwnCall
  <2>3. media[c] = "Active" /\ c \in LiveCalls =>
          MediaAhead(t)' \/ ci'.slot = port[c]
    BY <1>1, <1>2, <1>4, <2>1, SoloActive
  <2>4. state[c] = "Disconnected" =>
          told' = [code |-> InvState["Disconnected"], from |-> "call"] /\ ~InCallback(t)'
    BY <1>2, <1>4, <2>1, <2>2, SoloEnded DEF Reporting
  <2> QED BY <1>2, <2>1, <2>3, <2>4, SoloFollows
<1> QED BY <1>3, <1>4 DEF OnCallState

LEMMA MediaInfoFollows ==
  ASSUME CallsInv, OneAtATime, Followed, NEW t \in Threads, MediaInfo(t), Moves(t)
  PROVE  Followed'
<1> DEFINE c == run[t].call
<1>1. TypeInv /\ At(t, "MediaInfo") /\ InCallback(t) /\ ~Reporting(t)
  BY PlacesAre DEF CallsInv, MediaInfo, InCallback, Reporting, At
<1>2. run'[t].at = "MediaBranch"
  BY <1>1, GotoAhead, PlacesAre DEF MediaInfo
<1>3. ci' = [state |-> state[c], media |-> media[c], slot |-> port[c]]
  BY DEF MediaInfo, FetchInfo
<1>4. ~At(t, "StateTell")'
  BY <1>2 DEF At
<1>5. state[c] # "Disconnected"
  BY <1>1, SoloEnded
<1> QED BY <1>1, <1>3, <1>4, <1>5, SoloFollows

\* The rest of on_call_media_state leaves ci and what was told of the call alone.
LEMMA MediaFollows ==
  ASSUME CallsInv, OneAtATime, Followed, NEW t \in Threads, Moves(t),
         MediaBranch(t) \/ Listen(t) \/ Speak(t) \/ MediaTell(t)
  PROVE  Followed'
<1> DEFINE c == run[t].call
<1>1. /\ TypeInv /\ InCallback(t) /\ ~Reporting(t) /\ ~At(t, "MediaInfo") /\ UNCHANGED ci
      /\ ci.media \in Statuses
  BY PlacesAre, StatesAre
     DEF CallsInv, TypeInv, DataOK, MediaBranch, Listen, Speak, MediaTell, InCallback,
         Reporting, At, globals
<1>2. ~At(t, "StateTell")' /\ (MediaAhead(t) => MediaAhead(t)')
  <2>1. CASE \E p \in Places \ InBlock : Goto(t, p) /\ p # "StateTell"
    BY <1>1, <2>1, GotoAhead DEF At
  <2>2. CASE Return(t)
    BY <1>1, <2>2, ReturnAhead
  <2>3. /\ {"Listen", "Speak", "Active"} \cup Statuses \subseteq Places \ InBlock
        /\ "StateTell" \notin {"Listen", "Speak", "Active"} \cup Statuses
    BY StatesAre, PlacesAre
  <2> QED BY <1>1, <2>1, <2>2, <2>3 DEF MediaBranch, Listen, Speak, MediaTell
<1>3. state[c] # "Disconnected"
  BY <1>1, SoloEnded
<1>4. media[c] = "Active" /\ c \in LiveCalls => MediaAhead(t)' \/ ci'.slot = port[c]
  BY <1>1, <1>2, SoloActive
<1> QED BY <1>1, <1>2, <1>3, <1>4, SoloFollows

\* Every step, whichever it is.
LEMMA FollowedStep ==
  ASSUME CallsInv, OneAtATime, OneAtATime', Followed, [Step]_system
  PROVE  Followed'
<1>1. TypeInv /\ InvitedOnWorker
  BY DEF CallsInv, TurnsInv
<1>2. CASE UNCHANGED system
  BY <1>1, <1>2 DEF system, globals, library, Followed, ReportsOwnCall, ActiveIsFollowed,
                    NewestIsCallId, EndIsFollowed, MediaAhead, InCallback, Reporting, At, Held, LiveCalls
<1>3. ASSUME NEW t \in Threads, Callback(t) PROVE Followed'
  <2>1. run[t].call \in Calls /\ (Moves(t) \/ Takes(t, run[t].call))
    BY <1>1, <1>3, CallbackKind
  <2>2. CASE Takes(t, run[t].call)
    BY <1>1, <2>1, <2>2, TakesFollow
  <2>3. CASE Moves(t)
    BY <1>1, <1>3, <2>3, IncomingFollows, StateFollows, MediaInfoFollows, MediaFollows
       DEF Callback
  <2> QED BY <2>1, <2>2, <2>3
<1>4. "queue" \in Threads /\ "worker" \in Threads
  BY DEF Threads
<1>5. CASE Block
  <2>1. ~InCallback("queue")
    BY <1>5, PlacesAre
       DEF Block, Hangup, AnswerCall, Mute, Unmute, HangupAll, NextCall, CloseCall,
           CloseLibrary, InCallback, At
  <2>2. CASE CloseLibrary
    <3>1. \A c \in Calls : state'[c] = "Null"
      BY <2>2 DEF CloseLibrary
    <3> QED BY <1>1, <2>2, <3>1, CloseKeepsTurns, EmptyFollows
  <2> QED BY <1>1, <1>4, <1>5, <2>1, <2>2, BlockKind, RestFollows, TakesFollow
<1>6. CASE Peer
  BY <1>1, <1>4, <1>6, PeerKind, TakesFollow DEF Peer
<1>7. CASE \E op \in AppOps : StartOp(op)
  <2>1. ~InCallback("queue")
    BY <1>7, PlacesAre
       DEF StartOp, StartOnCall, StartOnSlot, StartDestroy, Register, StartBlock, InCallback, At
  <2> QED BY <1>1, <1>4, <1>7, <2>1, StartKind, RestFollows
<1>8. CASE \E c \in Calls : FreeCall(c)
  BY <1>8, FreesFollow DEF FreeCall, Frees
<1> QED BY <1>2, <1>3, <1>5, <1>6, <1>7, <1>8 DEF Step

-----------------------------------------------------------------------------
(* What holds as long as calls do not overlap                              *)

LEMMA InitOne == Init => OneInv
<1> SUFFICES ASSUME Init PROVE OneInv
  OBVIOUS
<1>1. \A t \in Threads : ~At(t, "StateTell")
  BY DEF Init, Idle, At
<1> QED BY <1>1 DEF Init, OneInv, OneAtATime, ReportsOwnCall, ActiveIsFollowed,
                    NewestIsCallId, EndIsFollowed, LiveCalls

LEMMA NextOne == CallsInv /\ OneInv /\ [Next]_vars => OneInv'
<1> SUFFICES ASSUME CallsInv, OneInv, [Next]_vars, ~overlapped' PROVE OneInv'
  BY DEF OneInv
<1>1. CASE UNCHANGED vars
  <2>1. [Step]_system /\ ~overlapped /\ OneAtATime'
    BY <1>1 DEF vars, history, system, library, OneInv, OneAtATime
  <2> QED BY <2>1, FollowedStep DEF OneInv, Followed
<1>2. CASE Next
  <2>1. Step /\ ~overlapped /\ OneAtATime'
    BY <1>2 DEF Next, Remember
  <2> QED BY <2>1, FollowedStep DEF OneInv, Followed
<1> QED BY <1>1, <1>2

\* As long as calls do not overlap, the callbacks keep up with the one there is.
THEOREM OneInvariant == Spec => [](CallsInv /\ OneInv)
<1>1. TypeInv /\ TurnsInv /\ MediaInv => CallsInv
  BY DEF CallsInv
<1> QED BY <1>1, InitOne, NextOne, TypeInvariant, TurnsInvariant, MediaInvariant, PTL DEF Spec

\* mute and unmute find the port of the active call in ci, whatever slots, ports
\* and sessions the calls came through, as long as they did not overlap.
THEOREM MuteFindsTheCall == Spec => []MuteFindsCall
<1>1. CallsInv /\ OneInv => MuteFindsCall
  <2> SUFFICES ASSUME CallsInv, OneInv, ~overlapped, NEW c \in Calls,
                      media[c] = "Active", c \in LiveCalls, ~Held(c)
               PROVE  ci.slot = port[c]
    BY DEF MuteFindsCall
  <2>1. ASSUME NEW t \in Threads, InCallback(t) PROVE FALSE
    <3>1. c = run[t].call
      BY <2>1, Alone DEF LiveCalls, OneInv
    <3> QED BY <2>1, <3>1, InCallbacks
  <2> QED BY <2>1, NobodyFollows DEF OneInv
<1> QED BY <1>1, OneInvariant, PTL

\* callId is a live call while a call is up: hangup hangs up the call there is,
\* as long as calls did not overlap.
THEOREM CallIdStaysLive == Spec => []CallIdServesOne
<1>1. CallsInv /\ OneInv => CallIdServesOne
  BY DEF CallsInv, TurnsInv, InvitedOnWorker, OneInv, NewestIsCallId, CallIdServesOne,
         CallIdIsLive, LiveCalls
<1> QED BY <1>1, OneInvariant, PTL

\* Before a slot is used again the delegate has been told that its call ended,
\* and nothing after that, as long as calls did not overlap.
THEOREM EndsAreTold == Spec => []EndToldBeforeReuse
<1>1. OneInv => EndToldBeforeReuse
  <2>1. \A t \in Threads, c \in Calls : run[t].call = c /\ Reporting(t) => Held(c)
    BY PlacesAre DEF Reporting, At, Held, InCallback
  <2> QED BY <2>1 DEF OneInv, EndIsFollowed, EndToldBeforeReuse
<1> QED BY <1>1, OneInvariant, PTL
-----------------------------------------------------------------------------
(* What holds as long as nothing crosses a callback                        *)

\* Only connecting adds connections, and only mute mutes.
LEMMA Quietens ==
  ASSUME TypeInv, [Step]_system
  PROVE  \/ bridge' \subseteq bridge /\ muted' \subseteq muted
         \/ Mute \/ Unmute
         \/ \E t \in Threads : Listen(t) \/ Speak(t)
<1>1. DataOK /\ "None" \in Statuses
  BY StatesAre DEF TypeInv
<1>2. ASSUME NEW c \in Calls, NEW status \in Statuses, SetMedia(c, status)
      PROVE  bridge' \subseteq bridge
  BY <1>1, <1>2, MediaSet
<1>3. \A t \in Threads, c \in Calls : Answer(t, c) => bridge' \subseteq bridge
  BY <1>2, OfferedAssumption DEF Answer, library
<1>4. ASSUME NEW t \in Threads, Callback(t), ~Listen(t), ~Speak(t)
      PROVE  bridge' \subseteq bridge /\ muted' \subseteq muted
  <2>1. CASE OnIncomingCall(t)
    <3>1. run[t].call \in Calls
      BY <2>1, CallOfFrame DEF OnIncomingCall, At, TypeInv
    <3> QED BY <1>3, <2>1, <3>1 DEF OnIncomingCall
  <2>2. CASE OnCallState(t) \/ MediaInfo(t) \/ MediaTell(t)
    BY <2>2 DEF OnCallState, MediaInfo, MediaTell, library
  <2>3. CASE MediaBranch(t)
    BY <2>3 DEF MediaBranch, Unlink
  <2> QED BY <1>4, <2>1, <2>2, <2>3 DEF Callback
<1>5. ASSUME Block, ~Mute, ~Unmute
      PROVE  bridge' \subseteq bridge /\ muted' \subseteq muted
  <2> DEFINE c == run["queue"].call
  <2>1. run["queue"].at # "Idle" => c \in Calls
    BY CallOfFrame DEF TypeInv, Threads
  <2>2. CASE Hangup \/ HangupAll
    <3>1. CASE UNCHANGED <<library, muted>>
      BY <3>1 DEF library
    <3>2. ASSUME NEW then, Disconnect("queue", c, then), SetMedia(c, "None")
          PROVE  bridge' \subseteq bridge /\ muted' \subseteq muted
      <4>1. c \in Calls
        BY <2>1, <2>2 DEF Hangup, HangupAll, At
      <4> QED BY <1>1, <1>2, <3>2, <4>1 DEF Disconnect
    <3> QED BY <2>2, <3>1, <3>2 DEF Hangup, HangupAll
  <2>3. CASE AnswerCall
    <3>1. c \in Calls /\ "queue" \in Threads
      BY <2>1, <2>3 DEF AnswerCall, At, Threads
    <3> QED BY <1>3, <2>3, <3>1 DEF AnswerCall
  <2>4. CASE NextCall \/ CloseLibrary
    BY <2>4 DEF NextCall, CloseLibrary, library
  <2>5. CASE CloseCall
    BY <1>1, <1>2, <2>5 DEF CloseCall, Disconnect, LiveCalls
  <2> QED BY <1>5, <2>2, <2>3, <2>4, <2>5 DEF Block
<1>6. CASE Peer
  <2>1. PICK c \in Calls : Invite(c) \/ Ack(c) \/ Reinvite(c) \/ Bye(c)
    BY <1>6 DEF Peer
  <2> QED BY <1>1, <1>2, <2>1, OfferedAssumption DEF Invite, Ack, Reinvite, Bye, Disconnect
<1>7. CASE \E op \in AppOps : StartOp(op)
  BY <1>7 DEF StartOp, StartOnCall, StartOnSlot, StartDestroy, Register, StartBlock, library
<1>8. CASE \E c \in Calls : FreeCall(c)
  BY <1>1, <1>2, <1>8 DEF FreeCall
<1>9. CASE UNCHANGED system
  BY <1>9 DEF system, library
<1> QED BY <1>4, <1>5, <1>6, <1>7, <1>8, <1>9 DEF Step

\* The port a muted call gets is connected to nothing.
LEMMA MutedPort ==
  ASSUME CallsInv, [Step]_system, NEW c \in muted', port'[c] \notin {port[c], NoPort}
  PROVE  <<Device, port'[c]>> \notin bridge
<1>1. TypeInv /\ DataOK /\ InvitedOnWorker /\ LinksAreOfCalls /\ "None" \in Statuses
  BY StatesAre DEF CallsInv, TypeInv, TurnsInv, MediaInv
<1>2. ASSUME NEW d \in Calls, NEW status \in Statuses, SetMedia(d, status), c \in Calls
      PROVE  <<Device, port'[c]>> \notin bridge
  <2>1. port'[c] \in FreePorts
    BY <1>1, <1>2, PortSet
  <2> QED BY <1>1, <2>1 DEF LinksAreOfCalls
<1>3. c \in Calls
  BY <1>1, NextTypes DEF TypeInv, DataOK
<1>4. CASE \E t \in Threads : Moves(t)
  BY <1>4 DEF Moves
<1>5. CASE \E t \in Threads, d \in Calls : Takes(t, d)
  BY <1>2, <1>3, <1>5 DEF Takes
<1>6. CASE \E d \in Calls : Frees(d)
  BY <1>1, <1>2, <1>3, <1>6 DEF Frees
<1>7. CASE CloseLibrary \/ UNCHANGED system
  BY <1>7 DEF CloseLibrary, system, library
<1> QED BY <1>1, <1>4, <1>5, <1>6, <1>7, Kinds

\* While one thread is in a callback, the other is in none and does not mute.
LEMMA Lone ==
  ASSUME ~Crossing, NEW t \in Threads, InCallback(t)
  PROVE  \A u \in Threads \ {t} : ~InCallback(u) /\ ~At(u, "Mute")
BY DEF Crossing, Threads

\* What CrossInv says of the media.
Minded == ActiveIsMinded /\ InfoIsOwn /\ MutedAreLeft

LEMMA NotJoining ==
  ASSUME NEW t \in Threads, ~InCallback(t)
  PROVE  ~Joining(t) /\ ~MediaAhead(t) /\ ~Connecting(t)
BY PlacesAre DEF InCallback, At, MediaAhead, Connecting, Joining

\* A block goes on.
LEMMA RestMinds ==
  ASSUME CallsInv, Minded, ~Crossing, NEW t \in Threads, Moves(t), ~InCallback(t)
  PROVE  Minded'
<1>1. /\ UNCHANGED <<ci, state, media, port>> /\ LiveCalls' = LiveCalls
      /\ \A p \in Ports : <<p, Device>> \in bridge => <<p, Device>> \in bridge'
      /\ ~InCallback(t)' /\ \A u \in Threads \ {t} : run'[u] = run[u]
  BY DEF Moves, Others, globals, LiveCalls
<1>2. ASSUME NEW u \in Threads
      PROVE  /\ Joining(u)' => u # t /\ Joining(u) /\ run'[u].call = run[u].call
             /\ MediaAhead(u) \/ Connecting(u) =>
                  (MediaAhead(u)' \/ Connecting(u)') /\ run'[u].call = run[u].call
  <2>1. CASE u = t
    BY <1>1, <2>1, NotJoining, PlacesAre DEF InCallback, Joining, At
  <2>2. CASE u # t
    BY <1>1, <2>2 DEF Joining, MediaAhead, Connecting, At, InCallback
  <2> QED BY <2>1, <2>2
<1>3. ActiveIsMinded'
  <2> SUFFICES ASSUME NEW c \in LiveCalls, media[c] = "Active"
               PROVE  \/ <<port[c], Device>> \in bridge'
                      \/ \E u \in Threads :
                           run'[u].call = c /\ (MediaAhead(u)' \/ Connecting(u)')
    BY <1>1 DEF ActiveIsMinded
  <2>1. port[c] \in Ports
    BY DEF CallsInv, MediaInv, ActiveHasPort, TypeInv, DataOK, LiveCalls
  <2> QED BY <1>1, <1>2, <2>1 DEF Minded, ActiveIsMinded
<1>4. InfoIsOwn'
  BY <1>1, <1>2 DEF Minded, InfoIsOwn
<1>5. MutedAreLeft'
  <2> SUFFICES ASSUME NEW u \in Threads, Joining(u)' PROVE run'[u].call \notin muted'
    BY DEF MutedAreLeft
  <2>1. u # t /\ Joining(u) /\ run'[u].call = run[u].call
    BY <1>2
  <2>2. ~At(t, "Mute")
    BY <2>1, InCallbacks, Lone
  <2> QED BY <2>1, <2>2 DEF Minded, MutedAreLeft, Moves
<1> QED BY <1>3, <1>4, <1>5 DEF Minded

\* A step of a callback, for the call it is about and for the others.
LEMMA LoneMinds ==
  ASSUME CallsInv, Minded, ~Crossing, NEW t \in Threads, Moves(t), InCallback(t),
         media[run[t].call] = "Active" /\ run[t].call \in LiveCalls =>
           \/ InCallback(t)' /\ (MediaAhead(t)' \/ Connecting(t)')
           \/ <<port[run[t].call], Device>> \in bridge',
         \A c \in LiveCalls \ {run[t].call} :
           media[c] = "Active" /\ <<port[c], Device>> \in bridge => <<port[c], Device>> \in bridge',
         Joining(t)' => ci'.slot = port[run[t].call] /\ ci'.media = media[run[t].call]
  PROVE  Minded'
<1>1. /\ UNCHANGED <<state, media, port>> /\ LiveCalls' = LiveCalls
      /\ InCallback(t)' => run'[t].call = run[t].call
      /\ \A u \in Threads \ {t} : run'[u] = run[u] /\ ~InCallback(u)
  BY Lone DEF Moves, Others, LiveCalls
<1>2. \A u \in Threads \ {t} : ~Joining(u) /\ ~MediaAhead(u) /\ ~Connecting(u)
  BY <1>1, NotJoining
<1>3. \A u \in Threads : Joining(u)' => u = t /\ InCallback(t)'
  <2>1. ASSUME NEW u \in Threads \ {t} PROVE ~Joining(u)'
    BY <1>1, <1>2 DEF Joining, At
  <2>2. Joining(t)' => InCallback(t)'
    BY PlacesAre DEF Joining, At, InCallback
  <2> QED BY <2>1, <2>2
<1>4. ActiveIsMinded'
  BY <1>1, <1>2 DEF Minded, ActiveIsMinded
<1>5. InfoIsOwn'
  BY <1>1, <1>3 DEF InfoIsOwn
<1>6. MutedAreLeft'
  BY <1>1, <1>3 DEF Minded, MutedAreLeft, Moves
<1> QED BY <1>4, <1>5, <1>6 DEF Minded

\* The port of live active media is a port of the bridge, and the call's own.
LEMMA ActivePort ==
  ASSUME CallsInv, NEW c \in LiveCalls, media[c] = "Active"
  PROVE  /\ c \in Calls /\ port[c] \in Ports /\ port[c] \notin FreePorts
         /\ \A d \in Calls \ {c} : port[d] # port[c]
         /\ NoPort # port[c] /\ Device # port[c] /\ Device \notin FreePorts
         /\ NoPort # Device
<1>1. c \in Calls /\ port[c] # NoPort /\ port[c] \in Ports
  BY DEF CallsInv, MediaInv, ActiveHasPort, TypeInv, DataOK, LiveCalls
<1> QED BY <1>1, PortsAssumption
           DEF CallsInv, MediaInv, PortsAreOwn, FreePorts, Device, NoPort

LEMMA CallbackMinds ==
  ASSUME CallsInv, Minded, ~Crossing, NEW t \in Threads, Callback(t), Moves(t)
  PROVE  Minded'
<1> DEFINE c == run[t].call
<1>1. TypeInv /\ InCallback(t) /\ c \in Calls /\ ci.media \in Statuses
  BY CallOfFrame, PlacesAre, StatesAre
     DEF CallsInv, TypeInv, DataOK, Callback, OnIncomingCall, OnCallState, MediaInfo,
         MediaBranch, Listen, Speak, MediaTell, InCallback, At
<1>2. media[c] = "Active" /\ c \in LiveCalls =>
        \/ MediaAhead(t) \/ Connecting(t) \/ <<port[c], Device>> \in bridge
  BY <1>1, Lone, NotJoining DEF Minded, ActiveIsMinded
<1>3. CASE OnIncomingCall(t)
  <2>1. At(t, "Incoming") /\ UNCHANGED state
    BY <1>3 DEF OnIncomingCall, Moves
  <2>2. state[c] = "Incoming" /\ media[c] = "None"
    BY <1>1, <2>1 DEF CallsInv, TurnsInv, InvitedOnWorker, MediaInv, QuietUntilAnswered
  <2>3. Return(t) /\ UNCHANGED bridge
    BY <1>1, <1>3, <2>1, <2>2 DEF OnIncomingCall, Answer, TypeInv, DataOK, library
  <2>4. ~Joining(t)'
    BY <1>1, <2>1, <2>3, Returns, PlacesAre DEF At
  <2> QED BY <1>1, <2>2, <2>3, <2>4, LoneMinds
<1>4. CASE OnCallState(t) \/ MediaTell(t)
  <2>1. /\ ~At(t, "MediaInfo") /\ ~Connecting(t) /\ UNCHANGED <<port, bridge>>
        /\ run[t].at \notin {"Idle", "Closing"}
    BY <1>4, StatesAre DEF OnCallState, MediaTell, Connecting, At, library
  <2>2. ~Joining(t)' /\ (MediaAhead(t) => MediaAhead(t)')
    <3>1. CASE Goto(t, "StateTell")
      BY <1>1, <2>1, <3>1, GotoAhead, PlacesAre DEF Joining, At
    <3>2. CASE Return(t)
      BY <1>1, <2>1, <3>2, Returns, ReturnAhead
    <3> QED BY <1>4, <3>1, <3>2 DEF OnCallState, MediaTell
  <2>3. MediaAhead(t)' => InCallback(t)'
    BY DEF MediaAhead
  <2> QED BY <1>1, <1>2, <2>1, <2>2, <2>3, LoneMinds
<1>5. CASE MediaInfo(t)
  <2>1. run'[t].at = "MediaBranch"
    BY <1>1, <1>5, GotoAhead, PlacesAre DEF MediaInfo
  <2>2. /\ ci' = [state |-> state[c], media |-> media[c], slot |-> port[c]]
        /\ UNCHANGED <<port, bridge>> /\ InCallback(t)' /\ Connecting(t)'
    BY <1>5, <2>1, PlacesAre DEF MediaInfo, FetchInfo, library, InCallback, Connecting, At
  <2> QED BY <1>1, <2>2, LoneMinds
<1>6. ASSUME Joining(t)
      PROVE  ci.slot = port[c] /\ ci.media = media[c] /\ ~At(t, "MediaInfo")
  BY <1>6 DEF Minded, InfoIsOwn, Joining, At
<1>7. CASE MediaBranch(t)
  <2> DEFINE p == IF ci.media = "Active" THEN "Listen" ELSE ci.media
  <2>1. /\ Joining(t) /\ Goto(t, p) /\ UNCHANGED <<ci, port>>
        /\ IF ci.media = "None" THEN Unlink(ci.slot, Device) ELSE UNCHANGED bridge
    BY <1>7 DEF MediaBranch, Joining, globals
  <2>2. p \in Places \ InBlock
    BY <1>1, StatesAre, PlacesAre
  <2>3. run'[t].at = p
    <3> HIDE DEF p
    <3> QED BY <1>1, <2>1, <2>2, GotoAhead
  <2>4. media[c] = "Active" => InCallback(t)' /\ Connecting(t)'
    BY <1>6, <2>1, <2>3, PlacesAre DEF InCallback, Connecting, At
  <2>5. \A d \in LiveCalls \ {c} : media[d] = "Active" /\ <<port[d], Device>> \in bridge
          => <<port[d], Device>> \in bridge'
    BY <1>1, <1>6, <2>1, ActivePort DEF Unlink
  <2> QED BY <1>1, <1>6, <2>1, <2>4, <2>5, LoneMinds
<1>8. CASE Listen(t) \/ Speak(t)
  <2>1. /\ Joining(t) /\ UNCHANGED <<ci, port>> /\ bridge \subseteq bridge'
        /\ Listen(t) => Connect(port[c], Device)
        /\ Speak(t) => ~Connecting(t)
    BY <1>6, <1>8 DEF Listen, Speak, Joining, Connecting, Connect, globals, At
  <2>2. PICK p \in {"Speak", "Active"} : Goto(t, p)
    BY <1>8 DEF Listen, Speak
  <2>3. MediaAhead(t) => MediaAhead(t)'
    BY <1>1, <1>6, <2>1, <2>2, GotoAhead, PlacesAre
  <2>4. media[c] = "Active" /\ c \in LiveCalls /\ Listen(t) => <<port[c], Device>> \in bridge'
    BY <2>1, ActivePort DEF Connect
  <2>5. MediaAhead(t)' => InCallback(t)'
    BY DEF MediaAhead
  <2> QED BY <1>1, <1>2, <1>6, <1>8, <2>1, <2>3, <2>4, <2>5, LoneMinds
<1> QED BY <1>3, <1>4, <1>5, <1>7, <1>8 DEF Callback

\* A call changes: it has its media callback to come, and the others their ports.
LEMMA TakesMind ==
  ASSUME CallsInv, Minded, ~Crossing', NEW t \in Threads, NEW c \in Calls, Takes(t, c)
  PROVE  Minded'
<1>1. /\ run'[t].call = c /\ InCallback(t)' /\ ~Joining(t)'
      /\ \A u \in Threads \ {t} : run'[u] = run[u]
  BY PlacesAre DEF Takes, Others, InCallback, Joining, At
<1>2. \A u \in Threads \ {t} : ~InCallback(u)'
  BY <1>1 DEF Crossing, Threads
<1>3. \A u \in Threads \ {t} : ~InCallback(u) /\ ~Joining(u)'
  <2>1. ASSUME NEW u \in Threads \ {t} PROVE ~InCallback(u)
    BY <1>1, <1>2 DEF InCallback
  <2> QED BY <1>2, <2>1, PlacesAre DEF InCallback, Joining, At
<1>4. InfoIsOwn' /\ MutedAreLeft'
  BY <1>1, <1>3 DEF InfoIsOwn, MutedAreLeft
<1>5. ActiveIsMinded'
  <2> SUFFICES ASSUME NEW d \in Calls, d \in LiveCalls', media'[d] = "Active",
                      ~(d = c /\ MediaAhead(t)')
               PROVE  <<port'[d], Device>> \in bridge'
    BY <1>1 DEF ActiveIsMinded, LiveCalls
  <2>1. \A e \in Calls \ {c} : state'[e] = state[e]
    BY DEF Takes, CallsInv, TypeInv, DataOK
  <2>2. CASE d = c
    <3>1. ~InCallback(t) /\ UNCHANGED <<media, port, bridge>>
      BY <2>2 DEF Takes, LiveCalls
    <3>2. state[c] \notin {"Null", "Incoming"} /\ state'[c] # "Incoming"
      BY <2>2, <3>1 DEF CallsInv, MediaInv, QuietUntilAnswered, Takes
    <3>3. c \in LiveCalls
      BY <2>2, <3>2 DEF Takes, LiveCalls
    <3> QED BY <1>3, <2>2, <3>1, <3>3, NotJoining DEF Minded, ActiveIsMinded
  <2>3. CASE d # c
    <3>1. /\ d \in LiveCalls /\ port'[d] = port[d] /\ media[d] = "Active"
          /\ \/ bridge' = bridge
             \/ bridge' = {link \in bridge : port[c] \notin {link[1], link[2]}}
      <4>1. CASE UNCHANGED <<media, port, bridge>>
        BY <2>1, <2>3, <4>1 DEF LiveCalls
      <4>2. ASSUME NEW status \in Statuses, SetMedia(c, status)
            PROVE  /\ port'[d] = port[d] /\ media'[d] = media[d]
                   /\ \/ bridge' = bridge
                      \/ bridge' = {link \in bridge : port[c] \notin {link[1], link[2]}}
        BY <2>3, <4>2, MediaSet, PortSet DEF CallsInv, TypeInv
      <4> QED BY <2>1, <2>3, <4>1, <4>2 DEF Takes, LiveCalls
    <3>2. <<port[d], Device>> \in bridge
      BY <1>3, <2>3, <3>1, NotJoining DEF Minded, ActiveIsMinded, Takes, MediaAhead, Connecting
    <3>3. port[c] # port[d] /\ port[c] # Device
      BY <2>3, <3>1, ActivePort, PortsAssumption DEF CallsInv, TypeInv, DataOK, Device, NoPort
    <3> QED BY <3>1, <3>2, <3>3
  <2> QED BY <2>2, <2>3
<1> QED BY <1>4, <1>5 DEF Minded

LEMMA FreesMind ==
  ASSUME CallsInv, Minded, NEW c \in Calls, Frees(c)
  PROVE  Minded'
<1>1. /\ UNCHANGED <<ci, run, muted>> /\ SetMedia(c, "None") /\ "None" \in Statuses
      /\ state'[c] = "Null" /\ \A d \in Calls \ {c} : state'[d] = state[d]
  BY StatesAre DEF Frees, CallsInv, TypeInv, DataOK, globals
<1>2. /\ \A d \in Calls \ {c} : port'[d] = port[d] /\ media'[d] = media[d]
      /\ \/ bridge' = bridge
         \/ bridge' = {link \in bridge : port[c] \notin {link[1], link[2]}}
  BY <1>1, MediaSet, PortSet DEF CallsInv, TypeInv
<1>3. \A u \in Threads : /\ Joining(u)' = Joining(u) /\ MediaAhead(u)' = MediaAhead(u)
                         /\ Connecting(u)' = Connecting(u)
  BY <1>1 DEF Joining, MediaAhead, Connecting, At, InCallback
<1>4. InfoIsOwn' /\ MutedAreLeft'
  <2>1. ASSUME NEW u \in Threads, Joining(u) PROVE run[u].call \in Calls \ {c}
    <3>1. InCallback(u) /\ run[u].call \in Calls
      BY <2>1, InCallbacks, PlacesAre, CallOfFrame
         DEF InCallback, CallsInv, TypeInv
    <3> QED BY <3>1, InCallbacks DEF Frees
  <2> QED BY <1>1, <1>2, <1>3, <2>1 DEF Minded, InfoIsOwn, MutedAreLeft
<1>5. ActiveIsMinded'
  <2> SUFFICES ASSUME NEW d \in Calls \ {c}, d \in LiveCalls, media[d] = "Active"
               PROVE  \/ <<port'[d], Device>> \in bridge'
                      \/ \E u \in Threads : run[u].call = d /\ (MediaAhead(u) \/ Connecting(u))
    BY <1>1, <1>2, <1>3 DEF ActiveIsMinded, LiveCalls
  <2>1. port[c] # port[d] /\ port[c] # Device
    BY ActivePort, PortsAssumption DEF CallsInv, TypeInv, DataOK, Device, NoPort
  <2> QED BY <1>2, <2>1 DEF Minded, ActiveIsMinded
<1> QED BY <1>4, <1>5 DEF Minded

LEMMA MindedStep ==
  ASSUME CallsInv, Minded, ~Crossing, ~Crossing', [Step]_system
  PROVE  Minded'
<1>1. TypeInv /\ InvitedOnWorker /\ "queue" \in Threads /\ "worker" \in Threads
  BY DEF CallsInv, TurnsInv, Threads
<1>2. CASE UNCHANGED system
  BY <1>2 DEF system, globals, library, Minded, ActiveIsMinded, InfoIsOwn, MutedAreLeft,
              MediaAhead, InCallback, Connecting, Joining, At, LiveCalls
<1>3. ASSUME NEW t \in Threads, Callback(t) PROVE Minded'
  <2>1. run[t].call \in Calls /\ (Moves(t) \/ Takes(t, run[t].call))
    BY <1>1, <1>3, CallbackKind
  <2> QED BY <1>3, <2>1, CallbackMinds, TakesMind
<1>4. CASE Block
  <2>1. ~InCallback("queue")
    BY <1>4, PlacesAre
       DEF Block, Hangup, AnswerCall, Mute, Unmute, HangupAll, NextCall, CloseCall,
           CloseLibrary, InCallback, At
  <2>2. CASE CloseLibrary
    <3>1. (\A c \in Calls : state'[c] = "Null") /\ \A t \in Threads : ~InCallback(t)'
      BY <1>1, <2>2, CloseKeepsTurns DEF CloseLibrary
    <3>2. \A t \in Threads : ~Joining(t)'
      BY <3>1, PlacesAre DEF InCallback, Joining, At
    <3> QED BY <3>1, <3>2 DEF Minded, ActiveIsMinded, InfoIsOwn, MutedAreLeft, LiveCalls
  <2> QED BY <1>1, <1>4, <2>1, <2>2, BlockKind, RestMinds, TakesMind
<1>5. CASE Peer
  BY <1>1, <1>5, PeerKind, TakesMind DEF Peer
<1>6. CASE \E op \in AppOps : StartOp(op)
  <2>1. ~InCallback("queue")
    BY <1>6, PlacesAre
       DEF StartOp, StartOnCall, StartOnSlot, StartDestroy, Register, StartBlock, InCallback, At
  <2> QED BY <1>1, <1>6, <2>1, StartKind, RestMinds
<1>7. CASE \E c \in Calls : FreeCall(c)
  BY <1>7, FreesMind DEF FreeCall, Frees
<1> QED BY <1>2, <1>3, <1>4, <1>5, <1>6, <1>7 DEF Step

\* A callback that connects the microphone connects it to a call not muted.
LEMMA MutedStep ==
  ASSUME CallsInv, Minded, MutedIsSilent, [Step]_system
  PROVE  MutedIsSilent'
<1>1. TypeInv /\ DataOK /\ NoPort \notin Ports /\ Device \notin Ports /\ muted \subseteq Calls
  BY PortsAssumption DEF CallsInv, TypeInv, DataOK, NoPort, Device
<1>2. CASE bridge' \subseteq bridge /\ muted' \subseteq muted
  BY <1>2, MutedPort DEF MutedIsSilent
<1>3. CASE Mute
  BY <1>3 DEF Mute, Unlink, MutedIsSilent
<1>4. CASE Unmute
  BY <1>4 DEF Unmute, Connect, MutedIsSilent
<1>5. ASSUME NEW t \in Threads, Listen(t) \/ Speak(t)
      PROVE  MutedIsSilent'
  <2>1. Joining(t) /\ muted' = muted /\ port' = port /\ ci.slot = port[run[t].call]
        /\ run[t].call \notin muted
    BY <1>5 DEF Listen, Speak, Joining, Minded, InfoIsOwn, MutedAreLeft
  <2>2. run[t].call \in Calls
    BY <1>1, <2>1, CallOfFrame DEF Joining, At, TypeInv
  <2> SUFFICES ASSUME NEW c \in muted, port[c] # NoPort
               PROVE  <<Device, port[c]>> \notin bridge'
    BY <2>1 DEF MutedIsSilent
  <2>3. port[c] # ci.slot /\ port[c] # Device
    BY <1>1, <2>1, <2>2 DEF CallsInv, MediaInv, PortsAreOwn, TypeInv, DataOK
  <2> QED BY <1>5, <2>3 DEF Listen, Speak, Connect, MutedIsSilent
<1> QED BY <1>1, <1>2, <1>3, <1>4, <1>5, Quietens

LEMMA InitCross == Init => CrossInv
<1> SUFFICES ASSUME Init PROVE CrossInv
  OBVIOUS
<1>1. \A t \in Threads : ~InCallback(t) /\ ~At(t, "Mute") /\ ~Joining(t)
  BY PlacesAre DEF Init, Idle, At, InCallback, Joining
<1>2. ~Crossing
  BY <1>1 DEF Crossing, Threads
<1> QED BY <1>1, <1>2 DEF Init, CrossInv, ActiveIsMinded, InfoIsOwn, MutedAreLeft,
                          MutedIsSilent, LiveCalls

LEMMA NextCross == CallsInv /\ CrossInv /\ [Next]_vars => CrossInv'
<1> SUFFICES ASSUME CallsInv, CrossInv, [Next]_vars PROVE CrossInv'
  OBVIOUS
<1>1. [Step]_system
  BY Steps
<1>2. /\ Crossing' => crossed'
      /\ ~crossed' => ~crossed
  <2>1. CASE UNCHANGED vars
    BY <2>1 DEF vars, history, system, CrossInv, Crossing, InCallback, At
  <2>2. CASE Next
    BY <2>2 DEF Next, Remember
  <2> QED BY <2>1, <2>2
<1>3. ASSUME ~crossed'
      PROVE  ActiveIsMinded' /\ InfoIsOwn' /\ MutedAreLeft' /\ MutedIsSilent'
  <2>1. ~Crossing /\ ~Crossing' /\ Minded /\ MutedIsSilent
    BY <1>2, <1>3 DEF CrossInv, Minded
  <2> QED BY <1>1, <2>1, MindedStep, MutedStep DEF Minded
<1> QED BY <1>2, <1>3 DEF CrossInv

\* As long as nothing crosses a callback, each sees to its own call.
THEOREM CrossInvariant == Spec => [](CallsInv /\ CrossInv)
<1>1. TypeInv /\ TurnsInv /\ MediaInv => CallsInv
  BY DEF CallsInv
<1> QED BY <1>1, InitCross, NextCross, TypeInvariant, TurnsInvariant, MediaInvariant,
           PTL DEF Spec

\* Active media is heard once the callbacks about its call have returned, however
\* many calls there are, as long as no callback came into another.
THEOREM ActiveIsHeard == Spec => []HeardUnlessCrossed
<1>1. CrossInv => HeardUnlessCrossed
  <2> SUFFICES ASSUME CrossInv, ~crossed, NEW c \in Calls, media[c] = "Active",
                      c \in LiveCalls, ~Held(c)
               PROVE  <<port[c], Device>> \in bridge
    BY DEF HeardUnlessCrossed, ActiveMediaIsHeard
  <2>1. \A t \in Threads : run[t].call = c => ~InCallback(t)
    BY DEF Held
  <2> QED BY <2>1, NotJoining DEF CrossInv, ActiveIsMinded
<1> QED BY <1>1, CrossInvariant, PTL

\* A muted call stays silent until it is unmuted or its media is connected anew,
\* however many calls there are, as long as neither a mute nor another callback
\* came into a callback.
THEOREM MutedStaysSilent == Spec => []SilentUnlessCrossed
<1>1. CrossInv => SilentUnlessCrossed
  BY DEF CrossInv, SilentUnlessCrossed
<1> QED BY <1>1, CrossInvariant, PTL
=============================================================================
