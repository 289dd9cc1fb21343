------------------------- MODULE CallControl_proofs -------------------------
(***************************************************************************)
(* What holds in CallControl for every number of calls, ports, events and  *)
(* blocks: the types, with the callbacks a thread can be in or have to     *)
(* come, the turns the threads take on each call, and each call's own      *)
(* media and port.                                                         *)
(***************************************************************************)
EXTENDS CallControl, LeastNumber, TLAPS

Frame == [at : Places, call : Calls \cup {NoCall}, todo : Todos]

\* The type invariant with the callbacks that may be to come spelled out.
DataOK ==
  /\ callId \in Calls
  /\ ci \in [state : States, media : Statuses, slot : Ports \cup {Device, NoPort}]
  /\ told \in [code : 0 .. 10, from : {"call", "media"}]
  /\ state \in [Calls -> States] /\ media \in [Calls -> Statuses]
  /\ port \in [Calls -> Ports \cup {NoPort}]
  /\ bridge \subseteq (Ports \cup {Device}) \X (Ports \cup {Device})
  /\ up \in BOOLEAN
  /\ muted \subseteq Calls /\ refused \subseteq Calls /\ events \in Nat /\ blocks \in Nat
RunOK == run \in [Threads -> Frame] /\ FramesFit
HistoryOK == overlapped \in BOOLEAN /\ crossed \in BOOLEAN
TypeInv == DataOK /\ RunOK

-----------------------------------------------------------------------------
(* States, statuses and places                                             *)

LEMMA StatesAre ==
  /\ States = {"Null", "Incoming", "Connecting", "Confirmed", "Disconnected"}
  /\ Statuses = {"None", "Active", "LocalHold", "RemoteHold", "Error"}
  /\ \A s \in States : InvState[s] \in 0 .. 10
  /\ \A s \in Statuses : MediaState[s] \in 0 .. 10
BY DEF States, Statuses, InvState, MediaState

LEMMA PlacesAre ==
  /\ Places = {"Idle", "Hangup", "Answer", "Mute", "Unmute", "HangupAll",
               "NextCall", "Closing", "Incoming", "StateInfo", "StateTell",
               "MediaInfo", "MediaBranch", "Listen", "Speak", "None", "Active",
               "LocalHold", "RemoteHold", "Error"}
  /\ InBlock = {"Idle", "Hangup", "Answer", "Mute", "Unmute", "HangupAll",
                "NextCall", "Closing"}
BY StatesAre DEF Places, InBlock, Teardown

LEMMA TodosAreSeqs == Todos \subseteq Seq(Places)
BY PlacesAre DEF Todos

-----------------------------------------------------------------------------
(* Frames                                                                  *)

LEMMA IdleFits == FrameFits(Idle) /\ Idle \in Frame
BY PlacesAre DEF FrameFits, Frame, Idle, Todos

\* The library goes on to the callback that is to come, or is done.
LEMMA PendingFits ==
  ASSUME NEW f \in Frame, FrameFits(f), f.at # "Idle"
  PROVE  LET g == Callbacks(f.call, f.todo)
         IN  /\ FrameFits(g) /\ g \in Frame /\ g.todo = <<>>
             /\ \/ f.todo = <<>> /\ g.at = "Idle"
                \/ f.todo = <<"MediaInfo">> /\ g.at = "MediaInfo" /\ g.call = f.call
                \/ f.todo = <<"StateInfo">> /\ g.at = "StateInfo" /\ g.call = f.call
                \/ f.todo = <<"NextCall">> /\ g.at = "NextCall" /\ g.call = f.call
                \/ f.todo = <<"Closing">> /\ g.at = "Closing" /\ g.call = f.call
<1>1. f.call \in Calls /\ f.todo \in Todos
  BY DEF FrameFits
<1>2. CASE f.todo = <<>>
  BY <1>2, IdleFits DEF Callbacks, Idle
<1>3. ASSUME NEW p \in {"MediaInfo", "StateInfo", "NextCall", "Closing"},
             f.todo = <<p>>
      PROVE  /\ Callbacks(f.call, f.todo) = [at |-> p, call |-> f.call, todo |-> <<>>]
             /\ FrameFits(Callbacks(f.call, f.todo))
             /\ Callbacks(f.call, f.todo) \in Frame
  <2>1. <<p>> # <<>> /\ Head(<<p>>) = p /\ Tail(<<p>>) = <<>>
    OBVIOUS
  <2>2. Callbacks(f.call, f.todo) = [at |-> p, call |-> f.call, todo |-> <<>>]
    BY <1>3, <2>1 DEF Callbacks
  <2> QED BY <1>1, <2>2, PlacesAre DEF FrameFits, Frame, Todos
<1> QED BY <1>1, <1>2, <1>3 DEF Todos

\* The first callback about a call, with one or none to come.
LEMMA CallbacksFit ==
  ASSUME NEW c \in Calls, NEW p \in Places \ InBlock, NEW q \in Todos
  PROVE  LET g == Callbacks(c, <<p>> \o q)
         IN  /\ FrameFits(g) /\ g \in Frame
             /\ g.at = p /\ g.call = c /\ g.todo = q
<1>1. <<p>> \in Seq(Places) /\ q \in Seq(Places)
  BY TodosAreSeqs
<1>2. <<p>> \o q # <<>> /\ Head(<<p>> \o q) = p /\ Tail(<<p>> \o q) = q
  BY <1>1 DEF Todos
<1>3. Callbacks(c, <<p>> \o q) = [at |-> p, call |-> c, todo |-> q]
  BY <1>2 DEF Callbacks
<1> QED BY <1>3, PlacesAre DEF FrameFits, Frame, Todos

\* The callbacks an answered call gets, and those of other events.
LEMMA Lists ==
  /\ <<"MediaInfo", "StateInfo">> = <<"MediaInfo">> \o <<"StateInfo">>
  /\ <<"StateInfo", "MediaInfo">> = <<"StateInfo">> \o <<"MediaInfo">>
  /\ \A p \in Places : <<p>> = <<p>> \o <<>>
OBVIOUS

\* A thread's frame is replaced.
LEMMA RunSet ==
  ASSUME RunOK, NEW t \in Threads, NEW f \in Frame, FrameFits(f),
         run' = [run EXCEPT ![t] = f]
  PROVE  RunOK' /\ run'[t] = f /\ \A u \in Threads \ {t} : run'[u] = run[u]
<1>1. /\ run' \in [Threads -> Frame] /\ run'[t] = f
      /\ \A u \in Threads \ {t} : run'[u] = run[u]
  BY DEF RunOK
<1>2. \A u \in Threads : FrameFits(run'[u])
  BY <1>1 DEF RunOK, FramesFit
<1> QED BY <1>1, <1>2 DEF RunOK, FramesFit, FrameFits

\* A callback, or a teardown, moves on.
LEMMA RunGoto ==
  ASSUME RunOK, NEW t \in Threads, NEW p \in Places \ {"Idle"},
         run[t].at # "Idle", p \in InBlock => run[t].at \in InBlock, Goto(t, p)
  PROVE  /\ RunOK' /\ run'[t].at = p /\ run'[t].call = run[t].call
         /\ run'[t].todo = run[t].todo
         /\ \A u \in Threads \ {t} : run'[u] = run[u]
<1> DEFINE f == [run[t] EXCEPT !.at = p]
<1>1. run[t] \in Frame /\ FrameFits(run[t])
  BY DEF RunOK, FramesFit
<1>2. /\ f \in Frame /\ f.at = p /\ f.call = run[t].call
      /\ f.todo = run[t].todo
  BY <1>1 DEF Frame
<1>3. FrameFits(f)
  BY <1>1, <1>2 DEF FrameFits, Frame
<1>4. run' = [run EXCEPT ![t] = f]
  BY DEF Goto, RunOK
<1> HIDE DEF f
<1> QED BY <1>2, <1>3, <1>4, RunSet

\* A callback or a block returns.
LEMMA RunReturn ==
  ASSUME RunOK, NEW t \in Threads, run[t].at # "Idle", Return(t)
  PROVE  /\ RunOK' /\ run'[t].todo = <<>>
         /\ \/ run[t].todo = <<>> /\ run'[t].at = "Idle"
            \/ /\ run[t].todo = <<"MediaInfo">> /\ run'[t].at = "MediaInfo"
               /\ run'[t].call = run[t].call
            \/ /\ run[t].todo = <<"StateInfo">> /\ run'[t].at = "StateInfo"
               /\ run'[t].call = run[t].call
            \/ /\ run[t].todo = <<"NextCall">> /\ run'[t].at = "NextCall"
               /\ run'[t].call = run[t].call
            \/ /\ run[t].todo = <<"Closing">> /\ run'[t].at = "Closing"
               /\ run'[t].call = run[t].call
         /\ \A u \in Threads \ {t} : run'[u] = run[u]
<1> DEFINE f == Callbacks(run[t].call, run[t].todo)
<1>1. run[t] \in Frame /\ FrameFits(run[t])
  BY DEF RunOK, FramesFit
<1>2. /\ FrameFits(f) /\ f \in Frame /\ f.todo = <<>>
      /\ \/ run[t].todo = <<>> /\ f.at = "Idle"
         \/ run[t].todo = <<"MediaInfo">> /\ f.at = "MediaInfo" /\ f.call = run[t].call
         \/ run[t].todo = <<"StateInfo">> /\ f.at = "StateInfo" /\ f.call = run[t].call
         \/ run[t].todo = <<"NextCall">> /\ f.at = "NextCall" /\ f.call = run[t].call
         \/ run[t].todo = <<"Closing">> /\ f.at = "Closing" /\ f.call = run[t].call
  BY <1>1, PendingFits
<1>3. run' = [run EXCEPT ![t] = f]
  BY DEF Return
<1> HIDE DEF f
<1>4. RunOK' /\ run'[t] = f /\ \A u \in Threads \ {t} : run'[u] = run[u]
  BY <1>2, <1>3, RunSet
<1> QED BY <1>2, <1>4

\* Callbacks about a call begin on a thread.
LEMMA RunCallbacks ==
  ASSUME RunOK, NEW t \in Threads, NEW c \in Calls,
         NEW p \in Places \ InBlock, NEW q \in Todos,
         run' = [run EXCEPT ![t] = Callbacks(c, <<p>> \o q)]
  PROVE  /\ RunOK' /\ run'[t].at = p /\ run'[t].call = c /\ run'[t].todo = q
         /\ \A u \in Threads \ {t} : run'[u] = run[u]
<1> DEFINE f == Callbacks(c, <<p>> \o q)
<1>1. FrameFits(f) /\ f \in Frame /\ f.at = p /\ f.call = c /\ f.todo = q
  BY CallbacksFit
<1>2. run' = [run EXCEPT ![t] = f]
  OBVIOUS
<1> HIDE DEF f
<1> QED BY <1>1, <1>2, RunSet

-----------------------------------------------------------------------------
(* Media                                                                   *)

\* Whatever its status, media has a port exactly where it should, and only the
\* connections of the port that goes are cut.
LEMMA MediaSet ==
  ASSUME DataOK, NEW c \in Calls, NEW status \in Statuses, SetMedia(c, status)
  PROVE  /\ media' = [media EXCEPT ![c] = status]
         /\ media' \in [Calls -> Statuses] /\ port' \in [Calls -> Ports \cup {NoPort}]
         /\ bridge' \subseteq (Ports \cup {Device}) \X (Ports \cup {Device})
         /\ media'[c] = status
         /\ HasPort(status) => port'[c] # NoPort
         /\ \/ UNCHANGED <<port, bridge>>
            \/ bridge' = {link \in bridge : port[c] \notin {link[1], link[2]}}
<1>1. media \in [Calls -> Statuses] /\ port \in [Calls -> Ports \cup {NoPort}]
      /\ bridge \subseteq (Ports \cup {Device}) \X (Ports \cup {Device})
  BY DEF DataOK
<1>2. NoPort \notin Ports
  BY PortsAssumption DEF NoPort
<1>3. media' = [media EXCEPT ![c] = status] /\ media' \in [Calls -> Statuses]
      /\ media'[c] = status
  BY <1>1 DEF SetMedia
<1>4. CASE HasPort(status) /\ port[c] # NoPort /\ UNCHANGED <<port, bridge>>
  BY <1>1, <1>3, <1>4
<1>5. CASE /\ \E p \in IF HasPort(status) THEN FreePorts \cup ({port[c]} \ {NoPort})
                        ELSE {NoPort} :
                port' = [port EXCEPT ![c] = p]
           /\ Cut(port[c])
  <2>1. PICK p \in Ports \cup {NoPort} :
          port' = [port EXCEPT ![c] = p] /\ (HasPort(status) => p # NoPort)
    BY <1>1, <1>2, <1>5 DEF FreePorts
  <2>2. /\ port' \in [Calls -> Ports \cup {NoPort}]
        /\ HasPort(status) => port'[c] # NoPort
    BY <1>1, <2>1
  <2>3. bridge' = {link \in bridge : port[c] \notin {link[1], link[2]}}
    BY <1>5 DEF Cut
  <2>4. bridge' \subseteq (Ports \cup {Device}) \X (Ports \cup {Device})
    BY <1>1, <2>3
  <2> QED BY <1>3, <2>2, <2>3, <2>4
<1> QED BY <1>4, <1>5 DEF SetMedia

\* Connecting two ports of the bridge, or taking them apart.
LEMMA BridgeStays ==
  ASSUME DataOK, NEW from \in Ports \cup {Device, NoPort},
         NEW to \in Ports \cup {Device, NoPort},
         Connect(from, to) \/ Unlink(from, to)
  PROVE  bridge' \subseteq (Ports \cup {Device}) \X (Ports \cup {Device})
<1>1. bridge \subseteq (Ports \cup {Device}) \X (Ports \cup {Device})
  BY DEF DataOK
<1>2. CASE Connect(from, to)
  BY <1>1, <1>2 DEF Connect
<1>3. CASE Unlink(from, to)
  BY <1>1, <1>3 DEF Unlink
<1> QED BY <1>2, <1>3

-----------------------------------------------------------------------------
(* Type correctness, for every number of calls                             *)

LEMMA InitTypes == Init => TypeInv
<1> SUFFICES ASSUME Init PROVE TypeInv
  OBVIOUS
<1>1. DataOK
  BY StatesAre, CallsAssumption DEF Init, DataOK, Device, NoPort
<1>2. RunOK
  BY IdleFits DEF Init, RunOK, FramesFit
<1> QED BY <1>1, <1>2 DEF TypeInv

\* A callback about call 0 is of a call; a block may be of none.
LEMMA CallOfFrame ==
  ASSUME RunOK, NEW t \in Threads, run[t].at # "Idle"
  PROVE  run[t].call \in Calls /\ run[t].todo \in Todos
         /\ (run[t].at \in InBlock => run[t].todo = <<>>)
BY DEF RunOK, FramesFit, FrameFits

LEMMA FetchTypes ==
  ASSUME DataOK, RunOK, NEW t \in Threads, run[t].at # "Idle", FetchInfo(t)
  PROVE  ci' \in [state : States, media : Statuses, slot : Ports \cup {Device, NoPort}]
BY CallOfFrame DEF FetchInfo, DataOK

\* What answering a call does, on whichever thread.
LEMMA AnswerTypes ==
  ASSUME TypeInv, NEW t \in Threads, run[t].at # "Idle", NEW c \in Calls,
         Answer(t, c)
  PROVE  /\ state' \in [Calls -> States] /\ media' \in [Calls -> Statuses]
         /\ port' \in [Calls -> Ports \cup {NoPort}]
         /\ bridge' \subseteq (Ports \cup {Device}) \X (Ports \cup {Device})
         /\ refused' \subseteq Calls /\ RunOK'
<1>1. DataOK /\ RunOK
  BY DEF TypeInv
<1>2. CASE UNCHANGED library /\ Return(t) /\ refused' = refused \cup ({c} \cap LiveCalls)
  BY <1>1, <1>2, RunReturn DEF DataOK, library
<1>3. CASE /\ state' = [state EXCEPT ![c] = "Connecting"]
           /\ \E status \in Offered : SetMedia(c, status)
           /\ \E q \in {<<"MediaInfo", "StateInfo">>, <<"StateInfo", "MediaInfo">>} :
                run' = [run EXCEPT ![t] = Callbacks(c, q)]
           /\ refused' = refused \ {c}
  <2>1. PICK p \in {"MediaInfo", "StateInfo"}, q \in Todos :
          run' = [run EXCEPT ![t] = Callbacks(c, <<p>> \o q)]
    BY <1>3, Lists DEF Todos
  <2>2. RunOK'
    BY <1>1, <2>1, PlacesAre, RunCallbacks
  <2>3. /\ media' \in [Calls -> Statuses]
        /\ port' \in [Calls -> Ports \cup {NoPort}]
        /\ bridge' \subseteq (Ports \cup {Device}) \X (Ports \cup {Device})
    BY <1>1, <1>3, MediaSet, OfferedAssumption
  <2> QED BY <1>1, <1>3, <2>2, <2>3, StatesAre DEF DataOK
<1> QED BY <1>2, <1>3 DEF Answer

\* What the end of a call does, whatever follows it.
LEMMA DisconnectTypes ==
  ASSUME TypeInv, NEW t \in Threads, NEW c \in Calls, NEW then \in Todos,
         Disconnect(t, c, then)
  PROVE  /\ state' = [state EXCEPT ![c] = "Disconnected"]
         /\ state' \in [Calls -> States] /\ muted' \subseteq Calls
         /\ refused' \subseteq Calls /\ RunOK'
         /\ run'[t].at = "StateInfo" /\ run'[t].call = c /\ run'[t].todo = then
         /\ \A u \in Threads \ {t} : run'[u] = run[u]
<1>1. DataOK /\ RunOK
  BY DEF TypeInv
<1>2. "StateInfo" \in Places \ InBlock
  BY PlacesAre
<1>3. run' = [run EXCEPT ![t] = Callbacks(c, <<"StateInfo">> \o then)]
  BY DEF Disconnect
<1>4. /\ RunOK' /\ run'[t].at = "StateInfo" /\ run'[t].call = c /\ run'[t].todo = then
      /\ \A u \in Threads \ {t} : run'[u] = run[u]
  BY <1>1, <1>2, <1>3, RunCallbacks
<1> QED BY <1>1, <1>4, StatesAre DEF Disconnect, DataOK

LEMMA PeerTypes ==
  ASSUME TypeInv, NEW c \in Calls, Invite(c) \/ Ack(c) \/ Reinvite(c) \/ Bye(c)
  PROVE  TypeInv'
<1>1. DataOK /\ RunOK
  BY DEF TypeInv
<1>2. /\ events' \in Nat /\ UNCHANGED <<globals, up, blocks>>
      /\ <<>> \in Todos
      /\ {"Incoming", "StateInfo", "MediaInfo"} \subseteq Places \ InBlock
      /\ "worker" \in Threads
  BY <1>1, PlacesAre DEF Invite, Ack, Reinvite, Bye, PeerEvent, DataOK, Todos, Threads
<1>3. CASE Invite(c) \/ Ack(c)
  <2>1. PICK p \in {"Incoming", "StateInfo"} :
          run' = [run EXCEPT !["worker"] = Callbacks(c, <<p>> \o <<>>)]
    BY <1>2, <1>3, Lists DEF Invite, Ack
  <2>2. RunOK'
    BY <1>1, <1>2, <2>1, RunCallbacks
  <2>3. state' \in [Calls -> States] /\ UNCHANGED <<media, port, bridge, muted, refused>>
    BY <1>1, <1>3, StatesAre DEF Invite, Ack, DataOK
  <2> QED BY <1>1, <1>2, <2>2, <2>3 DEF TypeInv, DataOK, globals
<1>4. CASE Reinvite(c)
  <2>1. run' = [run EXCEPT !["worker"] = Callbacks(c, <<"MediaInfo">> \o <<>>)]
    BY <1>2, <1>4, Lists DEF Reinvite
  <2>2. RunOK'
    BY <1>1, <1>2, <2>1, RunCallbacks
  <2>3. PICK status \in Statuses : SetMedia(c, status)
    BY <1>4, OfferedAssumption DEF Reinvite
  <2>4. /\ media' \in [Calls -> Statuses] /\ port' \in [Calls -> Ports \cup {NoPort}]
        /\ bridge' \subseteq (Ports \cup {Device}) \X (Ports \cup {Device})
    BY <1>1, <2>3, MediaSet
  <2>5. UNCHANGED <<state, muted, refused>>
    BY <1>4 DEF Reinvite
  <2> QED BY <1>1, <1>2, <2>2, <2>4, <2>5 DEF TypeInv, DataOK, globals
<1>5. CASE Bye(c)
  <2>1. Disconnect("worker", c, <<>>)
    BY <1>5 DEF Bye
  <2>2. /\ state' \in [Calls -> States] /\ muted' \subseteq Calls
        /\ refused' \subseteq Calls /\ RunOK'
    BY <1>2, <2>1, DisconnectTypes
  <2>3. SetMedia(c, "None") \/ UNCHANGED <<media, port, bridge>>
    BY <1>5 DEF Bye
  <2>4. /\ media' \in [Calls -> Statuses] /\ port' \in [Calls -> Ports \cup {NoPort}]
        /\ bridge' \subseteq (Ports \cup {Device}) \X (Ports \cup {Device})
    <3>1. CASE SetMedia(c, "None")
      BY <1>1, <3>1, MediaSet, StatesAre
    <3>2. CASE UNCHANGED <<media, port, bridge>>
      BY <1>1, <3>2 DEF DataOK
    <3> QED BY <2>3, <3>1, <3>2
  <2> QED BY <1>1, <1>2, <2>2, <2>4 DEF TypeInv, DataOK, globals
<1> QED BY <1>3, <1>4, <1>5

LEMMA FreeTypes ==
  ASSUME TypeInv, NEW c \in Calls, FreeCall(c)
  PROVE  TypeInv'
<1>1. DataOK /\ RunOK
  BY DEF TypeInv
<1>2. /\ state' \in [Calls -> States]
      /\ UNCHANGED <<globals, up, run, muted, refused, events, blocks>>
  BY <1>1, StatesAre DEF FreeCall, DataOK
<1>3. SetMedia(c, "None")
  BY DEF FreeCall
<1>4. /\ media' \in [Calls -> Statuses] /\ port' \in [Calls -> Ports \cup {NoPort}]
      /\ bridge' \subseteq (Ports \cup {Device}) \X (Ports \cup {Device})
  BY <1>1, <1>3, MediaSet, StatesAre
<1>5. RunOK'
  BY <1>1, <1>2 DEF RunOK, FramesFit, FrameFits
<1> QED BY <1>1, <1>2, <1>4, <1>5 DEF TypeInv, DataOK, globals

\* The places of callbacks and blocks are not Idle.
LEMMA CallbackTypes ==
  ASSUME TypeInv, NEW t \in Threads, Callback(t)
  PROVE  TypeInv'
<1>1. DataOK /\ RunOK
  BY DEF TypeInv
<1>2. ci.media \in Statuses /\ ci.slot \in Ports \cup {Device, NoPort}
      /\ ci.state \in States
  BY <1>1 DEF DataOK
<1>3. CASE OnIncomingCall(t)
  <2>1. run[t].at # "Idle"
    BY <1>3 DEF OnIncomingCall, At
  <2>2. run[t].call \in Calls
    BY <1>1, <2>1, CallOfFrame
  <2>3. callId' = run[t].call /\ Answer(t, run[t].call)
        /\ UNCHANGED <<ci, told, up, muted, events, blocks>>
    BY <1>3 DEF OnIncomingCall
  <2>4. /\ state' \in [Calls -> States] /\ media' \in [Calls -> Statuses]
        /\ port' \in [Calls -> Ports \cup {NoPort}]
        /\ bridge' \subseteq (Ports \cup {Device}) \X (Ports \cup {Device})
        /\ refused' \subseteq Calls /\ RunOK'
    BY <2>1, <2>2, <2>3, AnswerTypes
  <2> QED BY <1>1, <2>2, <2>3, <2>4 DEF TypeInv, DataOK
<1>4. CASE At(t, "StateInfo") /\ FetchInfo(t) /\ Goto(t, "StateTell")
           /\ UNCHANGED <<callId, told, library, up, muted, refused, events, blocks>>
  <2>1. run[t].at # "Idle"
    BY <1>4 DEF At
  <2>2. RunOK'
    BY <1>1, <1>4, <2>1, RunGoto, PlacesAre
  <2>3. ci' \in [state : States, media : Statuses, slot : Ports \cup {Device, NoPort}]
    BY <1>1, <1>4, <2>1, FetchTypes
  <2> QED BY <1>1, <1>4, <2>2, <2>3 DEF TypeInv, DataOK, library
<1>5. CASE At(t, "StateTell") /\ told' = [code |-> InvState[ci.state], from |-> "call"]
           /\ Return(t)
           /\ UNCHANGED <<callId, ci, library, up, muted, refused, events, blocks>>
  <2>1. RunOK'
    BY <1>1, <1>5, RunReturn DEF At
  <2>2. told' \in [code : 0 .. 10, from : {"call", "media"}]
    BY <1>2, <1>5, StatesAre
  <2> QED BY <1>1, <1>5, <2>1, <2>2 DEF TypeInv, DataOK, library
<1>6. CASE MediaInfo(t)
  <2>1. run[t].at # "Idle"
    BY <1>6 DEF MediaInfo, At
  <2>2. FetchInfo(t) /\ Goto(t, "MediaBranch") /\ muted' = muted \ {run[t].call}
        /\ run[t].at = "MediaInfo"
        /\ UNCHANGED <<callId, told, library, up, refused, events, blocks>>
    BY <1>6 DEF MediaInfo, At
  <2>3. RunOK'
    BY <1>1, <2>1, <2>2, RunGoto, PlacesAre
  <2>4. ci' \in [state : States, media : Statuses, slot : Ports \cup {Device, NoPort}]
    BY <1>1, <2>1, <2>2, FetchTypes
  <2> QED BY <1>1, <2>2, <2>3, <2>4 DEF TypeInv, DataOK, library
<1>7. CASE MediaBranch(t)
  <2> DEFINE p == IF ci.media = "Active" THEN "Listen" ELSE ci.media
  <2>1. /\ run[t].at = "MediaBranch" /\ Goto(t, p)
        /\ Unlink(ci.slot, Device) \/ UNCHANGED bridge
        /\ UNCHANGED <<globals, state, media, port, up, muted, refused, events, blocks>>
    BY <1>7 DEF MediaBranch, At
  <2>2. p \in Places \ InBlock /\ p # "Idle"
    BY <1>2, StatesAre, PlacesAre
  <2>3. RunOK'
    <3> HIDE DEF p
    <3> QED BY <1>1, <2>1, <2>2, RunGoto
  <2>4. bridge' \subseteq (Ports \cup {Device}) \X (Ports \cup {Device})
    <3>1. CASE Unlink(ci.slot, Device)
      BY <1>1, <1>2, <3>1, BridgeStays
    <3>2. CASE UNCHANGED bridge
      BY <1>1, <3>2 DEF DataOK
    <3> QED BY <2>1, <3>1, <3>2
  <2> QED BY <1>1, <2>1, <2>3, <2>4 DEF TypeInv, DataOK, globals
<1>8. CASE Listen(t) \/ Speak(t)
  <2>1. PICK p \in {"Speak", "Active"} : Goto(t, p)
    BY <1>8 DEF Listen, Speak
  <2>2. /\ run[t].at \in {"Listen", "Speak"}
        /\ Connect(ci.slot, Device) \/ Connect(Device, ci.slot)
        /\ UNCHANGED <<globals, state, media, port, up, muted, refused, events, blocks>>
    BY <1>8 DEF Listen, Speak, At
  <2>3. RunOK'
    BY <1>1, <2>1, <2>2, RunGoto, PlacesAre
  <2>4. bridge' \subseteq (Ports \cup {Device}) \X (Ports \cup {Device})
    BY <1>1, <1>2, <2>2, BridgeStays
  <2> QED BY <1>1, <2>2, <2>3, <2>4 DEF TypeInv, DataOK, globals
<1>9. CASE MediaTell(t)
  <2>1. /\ run[t].at \in Statuses /\ Return(t)
        /\ told' = [code |-> MediaState[run[t].at], from |-> "media"]
        /\ UNCHANGED <<callId, ci, library, up, muted, refused, events, blocks>>
    BY <1>9 DEF MediaTell
  <2>2. RunOK'
    BY <1>1, <2>1, RunReturn, StatesAre
  <2>3. told' \in [code : 0 .. 10, from : {"call", "media"}]
    BY <2>1, StatesAre
  <2> QED BY <1>1, <2>1, <2>2, <2>3 DEF TypeInv, DataOK, library
<1> QED BY <1>3, <1>4, <1>5, <1>6, <1>7, <1>8, <1>9 DEF Callback, OnCallState

\* A call that is ended on the queue's thread loses its media.
LEMMA EndTypes ==
  ASSUME TypeInv, NEW c \in Calls, NEW then \in Todos,
         Disconnect("queue", c, then), SetMedia(c, "None"),
         UNCHANGED <<globals, up, events, blocks>>
  PROVE  TypeInv'
<1>1. DataOK /\ "queue" \in Threads /\ "None" \in Statuses
  BY StatesAre DEF TypeInv, Threads
<1>2. /\ state' \in [Calls -> States] /\ muted' \subseteq Calls
      /\ refused' \subseteq Calls /\ RunOK'
  BY <1>1, DisconnectTypes
<1>3. /\ media' \in [Calls -> Statuses] /\ port' \in [Calls -> Ports \cup {NoPort}]
      /\ bridge' \subseteq (Ports \cup {Device}) \X (Ports \cup {Device})
  BY <1>1, MediaSet
<1> QED BY <1>1, <1>2, <1>3 DEF TypeInv, DataOK, globals

LEMMA VisitFits ==
  ASSUME NEW S \in SUBSET Calls, S # {}
  PROVE  Visit(S) \in Frame /\ FrameFits(Visit(S))
<1>1. S \subseteq Nat
  BY CallsAssumption
<1>2. \E c \in S : \A d \in S : c <= d
  BY <1>1, Least
<1>3. (CHOOSE c \in S : \A d \in S : c <= d) \in S
  BY <1>2
<1> QED BY <1>3, PlacesAre DEF Visit, Frame, FrameFits, Todos

LEMMA BlockTypes ==
  ASSUME TypeInv, Block
  PROVE  TypeInv'
<1> DEFINE c == run["queue"].call
<1>1. DataOK /\ RunOK /\ "queue" \in Threads
  BY DEF TypeInv, Threads
<1>2. /\ ci.slot \in Ports \cup {Device, NoPort}
      /\ <<>> \in Todos /\ <<"NextCall">> \in Todos /\ <<"Closing">> \in Todos
  BY <1>1 DEF DataOK, Todos
<1>3. CASE Hangup \/ HangupAll
  <2>1. At("queue", "Hangup") \/ At("queue", "HangupAll")
    BY <1>3 DEF Hangup, HangupAll
  <2>2. c \in Calls
    BY <1>1, <2>1, CallOfFrame DEF At
  <2>3. UNCHANGED <<globals, up, events, blocks>>
    BY <1>3 DEF Hangup, HangupAll
  <2>4. CASE Return("queue") /\ UNCHANGED <<library, muted, refused>>
    <3>1. RunOK'
      BY <1>1, <2>1, <2>4, RunReturn DEF At
    <3> QED BY <1>1, <2>3, <2>4, <3>1 DEF TypeInv, DataOK, library, globals
  <2>5. CASE /\ At("queue", "HangupAll") /\ Goto("queue", "NextCall")
             /\ UNCHANGED <<library, muted, refused>>
    <3>1. RunOK'
      BY <1>1, <2>5, RunGoto, PlacesAre DEF At
    <3> QED BY <1>1, <2>3, <2>5, <3>1 DEF TypeInv, DataOK, library, globals
  <2>6. ASSUME NEW then \in {<<>>, <<"NextCall">>}, Disconnect("queue", c, then),
               SetMedia(c, "None")
        PROVE  TypeInv'
    <3> HIDE DEF c
    <3> QED BY <1>2, <2>2, <2>3, <2>6, EndTypes
  <2> QED BY <1>3, <2>4, <2>5, <2>6 DEF Hangup, HangupAll
<1>4. CASE AnswerCall
  <2>1. run["queue"].at # "Idle"
    BY <1>4 DEF AnswerCall, At
  <2>2. c \in Calls
    BY <1>1, <2>1, CallOfFrame
  <2>3. Answer("queue", c) /\ UNCHANGED <<globals, up, muted, events, blocks>>
    BY <1>4 DEF AnswerCall
  <2>4. /\ state' \in [Calls -> States] /\ media' \in [Calls -> Statuses]
        /\ port' \in [Calls -> Ports \cup {NoPort}]
        /\ bridge' \subseteq (Ports \cup {Device}) \X (Ports \cup {Device})
        /\ refused' \subseteq Calls /\ RunOK'
    BY <1>1, <2>1, <2>2, <2>3, AnswerTypes
  <2> QED BY <1>1, <2>3, <2>4 DEF TypeInv, DataOK, globals
<1>5. CASE Mute \/ Unmute
  <2>1. /\ run["queue"].at # "Idle" /\ Return("queue")
        /\ Unlink(Device, ci.slot) \/ Connect(Device, ci.slot)
        /\ UNCHANGED <<globals, state, media, port, up, refused, events, blocks>>
    BY <1>5 DEF Mute, Unmute, At
  <2>2. RunOK'
    BY <1>1, <2>1, RunReturn
  <2>3. bridge' \subseteq (Ports \cup {Device}) \X (Ports \cup {Device})
    BY <1>1, <1>2, <2>1, BridgeStays
  <2>4. muted' \subseteq Calls
    BY <1>1, <1>5 DEF Mute, Unmute, DataOK, LiveCalls
  <2> QED BY <1>1, <2>1, <2>2, <2>3, <2>4 DEF TypeInv, DataOK, globals
<1>6. CASE NextCall
  <2> DEFINE later == {d \in Calls : d > c}
  <2>1. At("queue", "NextCall") /\ UNCHANGED <<globals, library, muted, refused, events, blocks>>
    BY <1>6 DEF NextCall
  <2>2. CASE up' = FALSE /\ Goto("queue", "Closing")
    <3>1. RunOK'
      BY <1>1, <2>1, <2>2, RunGoto, PlacesAre DEF At
    <3> QED BY <1>1, <2>1, <2>2, <3>1 DEF TypeInv, DataOK, library, globals
  <2>3. CASE /\ later # {} /\ run' = [run EXCEPT !["queue"] = Visit(later)]
             /\ UNCHANGED up
    <3>1. RunOK'
      <4>1. Visit(later) \in Frame /\ FrameFits(Visit(later))
        BY <2>3, VisitFits
      <4> HIDE DEF later
      <4> QED BY <1>1, <2>3, <4>1, RunSet
    <3> QED BY <1>1, <2>1, <2>3, <3>1 DEF TypeInv, DataOK, library, globals
  <2> QED BY <1>6, <2>2, <2>3 DEF NextCall
<1>7. CASE CloseCall
  <2>1. PICK d \in LiveCalls : Disconnect("queue", d, <<"Closing">>) /\ SetMedia(d, "None")
    BY <1>7 DEF CloseCall
  <2>2. d \in Calls /\ UNCHANGED <<globals, up, events, blocks>>
    BY <1>7, <2>1 DEF CloseCall, LiveCalls
  <2> QED BY <1>2, <2>1, <2>2, EndTypes
<1>8. CASE CloseLibrary
  <2>1. /\ run' = [run EXCEPT !["queue"] = Idle]
        /\ state' = [d \in Calls |-> "Null"] /\ media' = [d \in Calls |-> "None"]
        /\ port' = [d \in Calls |-> NoPort]
        /\ bridge' = {} /\ muted' = {} /\ refused' = {}
        /\ UNCHANGED <<globals, up, events, blocks>>
    BY <1>8 DEF CloseLibrary
  <2>2. RunOK'
    BY <1>1, <2>1, IdleFits, RunSet
  <2> QED BY <1>1, <2>1, <2>2, StatesAre DEF TypeInv, DataOK, globals
<1> QED BY <1>3, <1>4, <1>5, <1>6, <1>7, <1>8 DEF Block

LEMMA StartTypes ==
  ASSUME TypeInv, NEW op \in AppOps, StartOp(op)
  PROVE  TypeInv'
<1>1. DataOK /\ RunOK /\ "queue" \in Threads /\ op \in Ops
  BY AppOpsAssumption DEF TypeInv, Threads
<1>2. Start("Hangup") \in Frame /\ FrameFits(Start("Hangup"))
  BY <1>1, PlacesAre DEF Start, Frame, FrameFits, Todos, DataOK
<1>3. /\ Start("Answer") \in Frame /\ FrameFits(Start("Answer"))
      /\ Start("Mute") \in Frame /\ FrameFits(Start("Mute"))
      /\ Start("Unmute") \in Frame /\ FrameFits(Start("Unmute"))
  BY <1>1, PlacesAre DEF Start, Frame, FrameFits, Todos, DataOK
<1>4. Visit(Calls) \in Frame /\ FrameFits(Visit(Calls))
  BY CallsAssumption, VisitFits
<1>5. \E f \in Frame : FrameFits(f) /\ StartBlock(f)
  <2>1. CASE StartOnCall(op)
    BY <1>2, <1>3, <2>1 DEF StartOnCall
  <2>2. CASE StartOnSlot(op)
    BY <1>3, <2>2, IdleFits DEF StartOnSlot
  <2>3. CASE StartDestroy(op)
    BY <1>4, <2>3, IdleFits DEF StartDestroy
  <2>4. CASE Register(op)
    BY <2>4, IdleFits DEF Register
  <2> QED BY <2>1, <2>2, <2>3, <2>4 DEF StartOp
<1>6. PICK f \in Frame : FrameFits(f) /\ StartBlock(f)
  BY <1>5
<1>7. RunOK'
  BY <1>1, <1>6, RunSet DEF StartBlock
<1>8. up' \in BOOLEAN
  BY <1>1 DEF StartOp, StartOnCall, StartOnSlot, StartDestroy, Register, DataOK
<1> QED BY <1>1, <1>6, <1>7, <1>8 DEF StartBlock, TypeInv, DataOK, globals, library

\* The history changes nothing of the system.
LEMMA Steps == [Next]_vars => [Step]_system
BY DEF Next, vars

LEMMA NextTypes == TypeInv /\ [Step]_system => TypeInv'
<1> SUFFICES ASSUME TypeInv, [Step]_system PROVE TypeInv'
  OBVIOUS
<1>1. CASE \E t \in Threads : Callback(t)
  BY <1>1, CallbackTypes
<1>2. CASE Block
  BY <1>2, BlockTypes
<1>3. CASE Peer
  BY <1>3, PeerTypes DEF Peer
<1>4. CASE \E op \in AppOps : StartOp(op)
  BY <1>4, StartTypes
<1>5. CASE \E c \in Calls : FreeCall(c)
  BY <1>5, FreeTypes
<1>6. CASE UNCHANGED system
  BY <1>6 DEF system, globals, library, TypeInv, DataOK, RunOK, FramesFit
<1> QED BY <1>1, <1>2, <1>3, <1>4, <1>5, <1>6 DEF Step

\* TypeInv holds in every reachable state.
THEOREM TypeInvariant == Spec => []TypeInv
BY InitTypes, NextTypes, Steps, PTL DEF Spec

LEMMA TypesAreOK == TypeInv /\ HistoryOK => TypeOK
<1> SUFFICES ASSUME TypeInv, HistoryOK PROVE TypeOK
  OBVIOUS
<1>1. run \in [Threads -> [at : Places, call : Calls \cup {NoCall}, todo : Seq(Places)]]
  BY TodosAreSeqs DEF TypeInv, RunOK, Frame
<1> QED BY <1>1 DEF TypeInv, DataOK, HistoryOK, TypeOK

\* For every number of calls, ports, events and blocks the variables keep their
\* types: no callback is made about a slot the library does not have, and no
\* thread is left with a callback the library never makes.
THEOREM TypeCorrect == Spec => []TypeOK
<1>1. Init => HistoryOK
  BY DEF Init, HistoryOK
<1>2. HistoryOK /\ [Next]_vars => HistoryOK'
  BY DEF HistoryOK, Next, Remember, vars, history
<1> QED BY <1>1, <1>2, TypeInvariant, TypesAreOK, PTL DEF Spec
-----------------------------------------------------------------------------
(* What a step does to the frames, the calls and their ports               *)

Others(t) == \A u \in Threads \ {t} : run'[u] = run[u]

\* A thread moves on in its callback or its block, or begins a block: no call
\* changes, and nothing but one connection of the bridge.
Moves(t) ==
  /\ Others(t) /\ UNCHANGED <<state, media, port>>
  /\ InCallback(t)' => /\ InCallback(t) /\ run'[t].call = run[t].call
                       /\ run'[t].at # "Incoming"
  /\ At(t, "Incoming") /\ run[t].call \in LiveCalls => run[t].call \in refused'
  /\ refused \subseteq refused'
  /\ muted' \subseteq muted \cup LiveCalls /\ (muted' \subseteq muted \/ At(t, "Mute"))
  /\ Joining(t)' => (Joining(t) /\ muted' = muted) \/ run'[t].call \notin muted'
  /\ callId' = IF At(t, "Incoming") THEN run[t].call ELSE callId
  /\ \/ InCallback(t)
     \/ /\ UNCHANGED globals
        /\ \A p \in Ports : <<p, Device>> \in bridge => <<p, Device>> \in bridge'
  /\ \/ bridge' = bridge
     \/ \E from, to \in Ports \cup {Device, NoPort} : Connect(from, to) \/ Unlink(from, to)

\* A call changes, and the thread that changes it gets callbacks about it: it
\* was in one already or no thread was.
Takes(t, c) ==
  /\ Others(t) /\ IF InCallback(t) THEN run[t].call = c ELSE ~Held(c)
  /\ run'[t].at \in {"Incoming", "StateInfo", "MediaInfo"} /\ run'[t].call = c
  /\ state' = [state EXCEPT ![c] = state'[c]]
  /\ state'[c] \in States \ {"Null"}
  /\ state'[c] \in {"Connecting", "Confirmed"} => c \in LiveCalls
  /\ state'[c] = "Incoming" => /\ state[c] = "Null" /\ UNCHANGED <<media, port, bridge>>
                               /\ run'[t].at = "Incoming"
  /\ run'[t].at = "Incoming" => t = "worker" /\ state'[c] = "Incoming"
  /\ state'[c] = "Disconnected" => c \notin muted' /\ Reporting(t)'
  /\ muted' \subseteq muted /\ refused \ {c} \subseteq refused'
  /\ UNCHANGED <<ci, told>> /\ callId' = IF At(t, "Incoming") THEN c ELSE callId
  /\ \/ MediaAhead(t)'
     \/ ~InCallback(t) /\ (state'[c] = "Disconnected" \/ UNCHANGED <<media, port, bridge>>)
  /\ \/ UNCHANGED <<media, port, bridge>>
     \/ \E status \in Statuses : SetMedia(c, status)

\* The slot of a call is freed.
Frees(c) ==
  /\ ~Held(c) /\ state[c] = "Disconnected"
  /\ state' = [state EXCEPT ![c] = "Null"] /\ SetMedia(c, "None")
  /\ UNCHANGED <<globals, up, run, muted, refused>>

\* Going on in a callback, or in a teardown.
LEMMA GoesOn ==
  ASSUME TypeInv, NEW t \in Threads, run[t].at \notin {"Idle", "Closing"},
         NEW p \in Places \ {"Idle", "Incoming"},
         p \in InBlock <=> run[t].at \in InBlock, Goto(t, p)
  PROVE  /\ Others(t) /\ run'[t].at = p /\ run'[t].call = run[t].call
         /\ InCallback(t)' => InCallback(t)
<1>1. RunOK
  BY DEF TypeInv
<1>2. /\ run'[t].at = p /\ run'[t].call = run[t].call /\ run'[t].todo = run[t].todo
      /\ \A u \in Threads \ {t} : run'[u] = run[u]
  BY <1>1, RunGoto
<1> QED BY <1>2 DEF Others, InCallback, At, Threads

\* Returning from a callback or a block, perhaps to the callback to come.
LEMMA Returns ==
  ASSUME TypeInv, NEW t \in Threads, run[t].at \notin {"Idle", "Closing"}, Return(t)
  PROVE  /\ Others(t) /\ ~Joining(t)'
         /\ InCallback(t)' => /\ InCallback(t) /\ run'[t].call = run[t].call
                              /\ run'[t].at # "Incoming"
<1>1. RunOK
  BY DEF TypeInv
<1>2. /\ \/ run[t].todo = <<>> /\ run'[t].at = "Idle"
         \/ /\ run[t].todo = <<"MediaInfo">> /\ run'[t].at = "MediaInfo"
            /\ run'[t].call = run[t].call
         \/ /\ run[t].todo = <<"StateInfo">> /\ run'[t].at = "StateInfo"
            /\ run'[t].call = run[t].call
         \/ /\ run[t].todo = <<"NextCall">> /\ run'[t].at = "NextCall"
            /\ run'[t].call = run[t].call
         \/ /\ run[t].todo = <<"Closing">> /\ run'[t].at = "Closing"
            /\ run'[t].call = run[t].call
      /\ \A u \in Threads \ {t} : run'[u] = run[u]
  BY <1>1, RunReturn
<1>3. InCallback(t)' => InCallback(t)
  <2>1. SUFFICES ASSUME run[t].at \in InBlock PROVE run'[t].at \in InBlock
    BY DEF InCallback
  <2>2. run[t].todo = <<>>
    BY <1>1, <2>1, CallOfFrame
  <2> QED BY <1>2, <2>2, PlacesAre
<1>5. run'[t].at \notin {"MediaBranch", "Listen", "Speak", "Incoming"}
  BY <1>2
<1>6. InCallback(t)' => run'[t].call = run[t].call
  BY <1>2, PlacesAre DEF InCallback
<1> QED BY <1>2, <1>3, <1>5, <1>6 DEF Others, Joining, At

\* A thread begins the callbacks about a call.
LEMMA Begins ==
  ASSUME TypeInv, NEW t \in Threads, NEW c \in Calls, NEW p \in Places \ InBlock,
         NEW q \in Todos, run' = [run EXCEPT ![t] = Callbacks(c, <<p>> \o q)]
  PROVE  /\ Others(t) /\ run'[t].at = p /\ run'[t].call = c /\ run'[t].todo = q
         /\ p = "MediaInfo" \/ q = <<"MediaInfo">> => MediaAhead(t)'
<1>1. RunOK
  BY DEF TypeInv
<1>2. /\ RunOK' /\ run'[t].at = p /\ run'[t].call = c /\ run'[t].todo = q
      /\ \A u \in Threads \ {t} : run'[u] = run[u]
  BY <1>1, RunCallbacks
<1> QED BY <1>2 DEF Others, MediaAhead, InCallback, At

\* Answering a call: it connects, or the library refuses and all stays as it is.
LEMMA AnswerKind ==
  ASSUME TypeInv, InvitedOnWorker, NEW t \in Threads, NEW c \in Calls, Answer(t, c),
         UNCHANGED <<ci, told, up, muted>>,
         callId' = IF At(t, "Incoming") THEN c ELSE callId,
         IF At(t, "Incoming") THEN run[t].call = c ELSE At(t, "Answer") /\ ~Held(c)
  PROVE  Moves(t) \/ Takes(t, c)
<1>1. RunOK /\ DataOK
  BY DEF TypeInv
<1>2. run[t].at \in {"Incoming", "Answer"}
  BY DEF At
<1>3. CASE UNCHANGED library /\ Return(t) /\ refused' = refused \cup ({c} \cap LiveCalls)
  <2>1. /\ Others(t) /\ ~Joining(t)'
        /\ InCallback(t)' => /\ InCallback(t) /\ run'[t].call = run[t].call
                             /\ run'[t].at # "Incoming"
    BY <1>2, <1>3, Returns
  <2>2. At(t, "Incoming") /\ run[t].call \in LiveCalls => run[t].call \in refused'
    BY <1>3
  <2>3. InCallback(t) \/ UNCHANGED globals
    BY PlacesAre DEF InCallback, At, globals
  <2> QED BY <1>3, <2>1, <2>2, <2>3 DEF Moves, library
<1>4. CASE /\ state[c] = "Incoming"
           /\ state' = [state EXCEPT ![c] = "Connecting"]
           /\ \E status \in Offered : SetMedia(c, status)
           /\ \E q \in {<<"MediaInfo", "StateInfo">>, <<"StateInfo", "MediaInfo">>} :
                run' = [run EXCEPT ![t] = Callbacks(c, q)]
           /\ refused' = refused \ {c}
  <2>1. ASSUME NEW p \in Places \ InBlock, NEW q \in Todos,
               p \in {"MediaInfo", "StateInfo"}, p = "MediaInfo" \/ q = <<"MediaInfo">>,
               run' = [run EXCEPT ![t] = Callbacks(c, <<p>> \o q)]
        PROVE  /\ Others(t) /\ run'[t].at \in {"MediaInfo", "StateInfo"}
               /\ run'[t].call = c /\ MediaAhead(t)'
    BY <2>1, Begins
  <2>2. /\ Others(t) /\ run'[t].at \in {"MediaInfo", "StateInfo"}
        /\ run'[t].call = c /\ MediaAhead(t)'
    <3>1. /\ {"MediaInfo", "StateInfo"} \subseteq Places \ InBlock
          /\ <<"MediaInfo">> \in Todos /\ <<"StateInfo">> \in Todos
      BY PlacesAre DEF Todos
    <3> QED BY <1>4, <2>1, <3>1, Lists
  <2>3. state'[c] = "Connecting" /\ "Connecting" \in States
    BY <1>1, <1>4, StatesAre DEF DataOK
  <2>4. IF InCallback(t) THEN run[t].call = c ELSE ~Held(c)
    BY <1>2, PlacesAre DEF InCallback, At
  <2> QED BY <1>4, <2>2, <2>3, <2>4, OfferedAssumption DEF Takes, LiveCalls
<1> QED BY <1>3, <1>4 DEF Answer

\* The end of a call that no thread was calling back about.
LEMMA EndKind ==
  ASSUME TypeInv, NEW t \in Threads, NEW c \in LiveCalls,
         NEW then \in {<<>>, <<"NextCall">>, <<"Closing">>},
         Disconnect(t, c, then), SetMedia(c, "None") \/ UNCHANGED <<media, port, bridge>>,
         ~InCallback(t), ~Held(c), UNCHANGED globals
  PROVE  Takes(t, c)
<1>1. c \in Calls /\ state[c] # "Null" /\ "None" \in Statuses /\ then \in Todos
  BY StatesAre DEF LiveCalls, Todos
<1>2. /\ state' = [state EXCEPT ![c] = "Disconnected"]
      /\ run'[t].at = "StateInfo" /\ run'[t].call = c /\ run'[t].todo = then
      /\ \A u \in Threads \ {t} : run'[u] = run[u]
  BY <1>1, DisconnectTypes
<1>3. state'[c] = "Disconnected" /\ "Disconnected" \in States
  BY <1>1, <1>2, StatesAre DEF TypeInv, DataOK
<1>4. muted' = muted \ {c} /\ refused' = refused \ {c}
  BY DEF Disconnect
<1>6. Reporting(t)' /\ ~At(t, "Incoming")
  <2>1. then \notin {<<"MediaInfo">>, <<"StateInfo">>}
    <3>1. /\ <<>> # <<"MediaInfo">> /\ <<>> # <<"StateInfo">>
          /\ <<"NextCall">>[1] = "NextCall" /\ <<"Closing">>[1] = "Closing"
          /\ <<"MediaInfo">>[1] = "MediaInfo" /\ <<"StateInfo">>[1] = "StateInfo"
      OBVIOUS
    <3> QED BY <3>1
  <2> QED BY <1>2, <2>1, PlacesAre DEF Reporting, InCallback, At
<1> QED BY <1>1, <1>2, <1>3, <1>4, <1>6 DEF Takes, Others, globals

LEMMA CallbackKind ==
  ASSUME TypeInv, InvitedOnWorker, NEW t \in Threads, Callback(t)
  PROVE  run[t].call \in Calls /\ (Moves(t) \/ Takes(t, run[t].call))
<1> DEFINE c == run[t].call
<1>1. DataOK /\ RunOK
  BY DEF TypeInv
<1>2. /\ run[t].at \in {"Incoming", "StateInfo", "StateTell", "MediaInfo", "MediaBranch",
                        "Listen", "Speak"} \cup Statuses
      /\ run[t].at \in Places \ InBlock /\ run[t].at \notin {"Idle", "Closing"}
  BY StatesAre, PlacesAre
     DEF Callback, OnIncomingCall, OnCallState, MediaInfo, MediaBranch, Listen, Speak,
         MediaTell, At
<1>3. c \in Calls /\ run[t].at \notin InBlock
  BY <1>1, <1>2, CallOfFrame
<1>4. ci.slot \in Ports \cup {Device, NoPort} /\ ci.media \in Statuses
  BY <1>1 DEF DataOK
<1>5. CASE OnIncomingCall(t)
  <2>1. /\ At(t, "Incoming") /\ Answer(t, c) /\ callId' = c
        /\ UNCHANGED <<ci, told, up, muted>>
    BY <1>5 DEF OnIncomingCall
  <2> QED BY <1>3, <2>1, AnswerKind
\* A step that stays in the callback and touches no call.
<1>6. ASSUME NEW p \in Places \ (InBlock \cup {"Incoming"}), Goto(t, p),
             ~At(t, "Incoming"), UNCHANGED <<callId, state, media, port, up, refused>>,
             \/ UNCHANGED muted /\ (p \in {"MediaBranch", "Listen", "Speak"} => Joining(t))
             \/ muted' = muted \ {c},
             \/ bridge' = bridge
             \/ \E from, to \in Ports \cup {Device, NoPort} :
                  Connect(from, to) \/ Unlink(from, to)
      PROVE  Moves(t)
  <2>1. p \in Places \ {"Idle", "Incoming"} /\ (p \in InBlock <=> run[t].at \in InBlock)
    BY <1>3, <1>6, PlacesAre
  <2>2. /\ Others(t) /\ run'[t].at = p /\ run'[t].call = run[t].call
        /\ InCallback(t)' => InCallback(t)
    BY <1>2, <1>6, <2>1, GoesOn
  <2>3. Joining(t)' => (Joining(t) /\ muted' = muted) \/ run'[t].call \notin muted'
    BY <1>6, <2>2 DEF Joining, At
  <2> QED BY <1>3, <1>6, <2>2, <2>3 DEF Moves, InCallback
<1>7. CASE At(t, "StateInfo") /\ Goto(t, "StateTell")
           /\ UNCHANGED <<callId, library, up, muted, refused>>
  <2>1. "StateTell" \in Places \ (InBlock \cup {"Incoming"}) /\ ~At(t, "Incoming")
    BY <1>7, PlacesAre DEF At
  <2> QED BY <1>3, <1>6, <1>7, <2>1 DEF library
<1>8. ASSUME Return(t), UNCHANGED <<callId, library, up, muted, refused>>, ~At(t, "Incoming")
      PROVE  Moves(t)
  <2>1. /\ Others(t) /\ ~Joining(t)'
        /\ InCallback(t)' => /\ InCallback(t) /\ run'[t].call = run[t].call
                             /\ run'[t].at # "Incoming"
    BY <1>2, <1>8, Returns
  <2> QED BY <1>3, <1>8, <2>1 DEF Moves, library, InCallback
<1>9. CASE OnCallState(t)
  BY <1>3, <1>7, <1>8, <1>9 DEF OnCallState, At
<1>10. CASE MediaInfo(t)
  <2>1. "MediaBranch" \in Places \ (InBlock \cup {"Incoming"}) /\ ~At(t, "Incoming")
    BY <1>10, PlacesAre DEF At, MediaInfo
  <2>2. /\ Goto(t, "MediaBranch") /\ muted' = muted \ {c}
        /\ UNCHANGED <<callId, state, media, port, bridge, up, refused>>
    BY <1>10 DEF MediaInfo, library
  <2> QED BY <1>3, <1>6, <2>1, <2>2
<1>11. CASE MediaBranch(t)
  <2> DEFINE p == IF ci.media = "Active" THEN "Listen" ELSE ci.media
  <2>1. /\ p \in Places \ (InBlock \cup {"Incoming"}) /\ ~At(t, "Incoming")
        /\ p # "Incoming" /\ Joining(t)
    BY <1>4, <1>11, StatesAre, PlacesAre DEF At, MediaBranch, Joining
  <2>2. /\ Goto(t, p) /\ UNCHANGED <<callId, state, media, port, up, refused, muted>>
        /\ \/ bridge' = bridge
           \/ \E from, to \in Ports \cup {Device, NoPort} :
                Connect(from, to) \/ Unlink(from, to)
    BY <1>4, <1>11 DEF MediaBranch, globals
  <2> HIDE DEF p
  <2> QED BY <1>3, <1>6, <2>1, <2>2
<1>12. CASE Listen(t) \/ Speak(t)
  <2>1. PICK p \in {"Speak", "Active"} : Goto(t, p)
    BY <1>12 DEF Listen, Speak
  <2>2. /\ p \in Places \ (InBlock \cup {"Incoming"}) /\ ~At(t, "Incoming") /\ Joining(t)
    BY <1>12, PlacesAre DEF At, Listen, Speak, Joining
  <2>3. /\ UNCHANGED <<callId, state, media, port, up, refused, muted>>
        /\ \E from, to \in Ports \cup {Device, NoPort} :
                Connect(from, to) \/ Unlink(from, to)
    BY <1>4, <1>12 DEF Listen, Speak, globals
  <2> QED BY <1>3, <1>6, <2>1, <2>2, <2>3
<1>13. CASE MediaTell(t)
  <2>1. ~At(t, "Incoming")
    BY <1>13, StatesAre DEF MediaTell, At
  <2> QED BY <1>3, <1>8, <1>13, <2>1 DEF MediaTell
<1> QED BY <1>5, <1>9, <1>10, <1>11, <1>12, <1>13 DEF Callback

\* A block that goes on or ends and changes no call.
LEMMA BlockMoves ==
  ASSUME TypeInv, run["queue"].at \in InBlock \ {"Idle", "Closing"},
         \/ Return("queue")
         \/ Goto("queue", "NextCall")
         \/ Goto("queue", "Closing"),
         UNCHANGED <<globals, state, media, port, refused>>,
         muted' \subseteq muted \cup LiveCalls, muted' \subseteq muted \/ At("queue", "Mute"),
         \/ bridge' = bridge
         \/ Connect(Device, ci.slot) \/ Unlink(Device, ci.slot)
  PROVE  Moves("queue")
<1>1. /\ RunOK /\ "queue" \in Threads /\ run["queue"].at \notin {"Idle", "Closing"}
      /\ ~InCallback("queue") /\ ~At("queue", "Incoming")
  BY PlacesAre DEF TypeInv, Threads, InCallback, At
<1>2. Others("queue") /\ ~Joining("queue")' /\ ~InCallback("queue")'
  <2>1. CASE Return("queue")
    BY <1>1, <2>1, Returns
  <2>2. ASSUME NEW p \in {"NextCall", "Closing"}, Goto("queue", p)
        PROVE  Others("queue") /\ ~Joining("queue")' /\ ~InCallback("queue")'
    <3>1. p \in Places \ {"Idle", "Incoming"} /\ (p \in InBlock <=> run["queue"].at \in InBlock)
      BY PlacesAre
    <3>2. Others("queue") /\ run'["queue"].at = p
      BY <1>1, <2>2, <3>1, GoesOn
    <3> QED BY <3>2, PlacesAre DEF InCallback, Joining, At
  <2> QED BY <2>1, <2>2
<1>3. refused' = refused /\ callId' = callId
  BY DEF globals
<1>4. \A p \in Ports : <<p, Device>> \in bridge => <<p, Device>> \in bridge'
  BY PortsAssumption DEF Connect, Unlink, Device
<1>5. ci.slot \in Ports \cup {Device, NoPort}
  BY DEF TypeInv, DataOK
<1> QED BY <1>1, <1>2, <1>3, <1>4, <1>5 DEF Moves

LEMMA BlockKind ==
  ASSUME TypeInv, InvitedOnWorker, Block
  PROVE  \/ Moves("queue") \/ CloseLibrary
         \/ \E c \in Calls : Takes("queue", c)
<1> DEFINE c == run["queue"].call
<1>1. /\ DataOK /\ RunOK /\ "queue" \in Threads
      /\ <<>> \in Todos /\ <<"NextCall">> \in Todos /\ <<"Closing">> \in Todos
  BY DEF TypeInv, Threads, Todos
<1>2. ASSUME run["queue"].at \in InBlock \ {"Idle"}
      PROVE  c \in Calls /\ run["queue"].todo = <<>> /\ ~InCallback("queue")
             /\ ~At("queue", "Incoming")
  BY <1>1, <1>2, CallOfFrame, PlacesAre DEF InCallback, At
<1>3. CASE Hangup \/ HangupAll
  <2>1. /\ run["queue"].at \in {"Hangup", "HangupAll"} /\ ~Held(c)
        /\ UNCHANGED <<globals, up>>
        /\ run["queue"].at \in InBlock \ {"Idle", "Closing"}
    BY <1>3, PlacesAre DEF Hangup, HangupAll, At
  <2>2. CASE UNCHANGED <<library, muted, refused>>
             /\ (Return("queue") \/ Goto("queue", "NextCall"))
    BY <2>1, <2>2, BlockMoves DEF library
  <2>3. ASSUME c \in LiveCalls, NEW then \in {<<>>, <<"NextCall">>}, Disconnect("queue", c, then),
               SetMedia(c, "None")
        PROVE  \E d \in Calls : Takes("queue", d)
    <3> HIDE DEF c
    <3>1. c \in Calls /\ ~InCallback("queue")
      BY <1>2, <2>1
    <3> QED BY <1>1, <2>1, <2>3, <3>1, EndKind
  <2> QED BY <1>1, <1>3, <2>2, <2>3 DEF Hangup, HangupAll
<1>4. CASE AnswerCall
  <2>1. /\ At("queue", "Answer") /\ ~Held(c) /\ Answer("queue", c)
        /\ UNCHANGED <<ci, told, up, muted>> /\ run["queue"].at \in InBlock \ {"Idle"}
        /\ callId' = callId
    BY <1>4, PlacesAre DEF AnswerCall, At, globals
  <2> HIDE DEF c
  <2>2. c \in Calls /\ ~At("queue", "Incoming")
    BY <1>2, <2>1
  <2> QED BY <1>1, <2>1, <2>2, AnswerKind
<1>5. CASE Mute \/ Unmute
  <2>1. /\ run["queue"].at \in {"Mute", "Unmute"} /\ Return("queue")
        /\ UNCHANGED <<globals, state, media, port, refused, up>>
        /\ Unlink(Device, ci.slot) \/ Connect(Device, ci.slot)
    BY <1>5 DEF Mute, Unmute, At
  <2>2. /\ run["queue"].at \in InBlock \ {"Idle", "Closing"}
    BY <2>1, PlacesAre
  <2>3. muted' \subseteq muted \cup LiveCalls /\ (muted' \subseteq muted \/ At("queue", "Mute"))
    BY <1>5 DEF Mute, Unmute
  <2> QED BY <2>1, <2>2, <2>3, BlockMoves
<1>6. CASE NextCall
  <2> DEFINE later == {d \in Calls : d > c}
  <2>1. /\ run["queue"].at = "NextCall" /\ run["queue"].at \in InBlock \ {"Idle", "Closing"}
        /\ UNCHANGED <<globals, state, media, port, bridge, muted, refused>>
    BY <1>6, PlacesAre DEF NextCall, At, library
  <2>2. CASE up' = FALSE /\ Goto("queue", "Closing")
    BY <2>1, <2>2, BlockMoves
  <2>3. CASE /\ later # {} /\ run' = [run EXCEPT !["queue"] = Visit(later)]
             /\ UNCHANGED up
    <3>1. Visit(later) \in Frame /\ FrameFits(Visit(later)) /\ Visit(later).at = "HangupAll"
      BY <2>3, VisitFits DEF Visit
    <3> HIDE DEF later
    <3>2. run'["queue"].at = "HangupAll" /\ \A u \in Threads \ {"queue"} : run'[u] = run[u]
      BY <1>1, <2>3, <3>1, RunSet
    <3>3. ~InCallback("queue")' /\ ~Joining("queue")'
      BY <3>2, PlacesAre DEF InCallback, Joining, At
    <3> QED BY <1>2, <2>1, <2>3, <3>2, <3>3 DEF Moves, Others, globals
  <2> QED BY <1>6, <2>2, <2>3 DEF NextCall
<1>7. CASE CloseCall
  <2>1. PICK d \in LiveCalls : Disconnect("queue", d, <<"Closing">>) /\ SetMedia(d, "None")
    BY <1>7 DEF CloseCall
  <2>2. /\ run["queue"].at = "Closing" /\ run["worker"].at = "Idle"
        /\ UNCHANGED <<globals, up>> /\ d \in Calls
    BY <1>7 DEF CloseCall, At, LiveCalls
  <2>3. ~InCallback("queue") /\ ~Held(d)
    BY <2>2, PlacesAre DEF InCallback, Held, Threads
  <2> QED BY <1>1, <2>1, <2>2, <2>3, EndKind
<1> QED BY <1>3, <1>4, <1>5, <1>6, <1>7 DEF Block

LEMMA StartKind ==
  ASSUME TypeInv, NEW op \in AppOps, StartOp(op)
  PROVE  Moves("queue")
<1>1. RunOK /\ "queue" \in Threads
  BY DEF TypeInv, Threads
<1>2. \E f : StartBlock(f) /\ f.at \in InBlock /\ (up' = up \/ up')
  <2>1. /\ Idle.at \in InBlock /\ \A S : Visit(S).at \in InBlock
        /\ \A p : Start(p).at = p
    BY PlacesAre DEF Idle, Visit, Start
  <2>2. {"Hangup", "Answer", "Mute", "Unmute"} \subseteq InBlock
    BY PlacesAre
  <2> QED BY <2>1, <2>2 DEF StartOp, StartOnCall, StartOnSlot, StartDestroy, Register
<1>3. PICK f : StartBlock(f) /\ f.at \in InBlock /\ (up' = up \/ up')
  BY <1>2
<1>4. /\ run["queue"].at = "Idle" /\ run' = [run EXCEPT !["queue"] = f]
      /\ UNCHANGED <<globals, state, media, port, bridge, muted, refused>>
  BY <1>3 DEF StartBlock, library, At
<1>5. run'["queue"] = f /\ \A u \in Threads \ {"queue"} : run'[u] = run[u]
  BY <1>1, <1>4 DEF RunOK
<1>6. ~InCallback("queue")' /\ ~Joining("queue")'
  BY <1>3, <1>5, PlacesAre DEF InCallback, Joining, At
<1>7. ~At("queue", "Incoming")
  BY <1>4 DEF At
<1> QED BY <1>3, <1>4, <1>5, <1>6, <1>7 DEF Moves, Others, globals

LEMMA PeerKind ==
  ASSUME TypeInv, NEW c \in Calls, Invite(c) \/ Ack(c) \/ Reinvite(c) \/ Bye(c)
  PROVE  Takes("worker", c)
<1>1. /\ DataOK /\ RunOK /\ "worker" \in Threads /\ <<>> \in Todos
      /\ {"Incoming", "StateInfo", "MediaInfo"} \subseteq Places \ InBlock
      /\ {"Incoming", "Confirmed"} \subseteq States \ {"Null"}
  BY PlacesAre, StatesAre DEF TypeInv, Threads, Todos
<1>2. /\ run["worker"].at = "Idle" /\ ~Held(c) /\ up /\ UNCHANGED <<globals, up>>
      /\ ~InCallback("worker") /\ ~At("worker", "Incoming")
  BY PlacesAre DEF Invite, Ack, Reinvite, Bye, PeerEvent, At, InCallback
<1>3. ASSUME NEW p \in Places \ InBlock,
             run' = [run EXCEPT !["worker"] = Callbacks(c, <<p>> \o <<>>)]
      PROVE  /\ Others("worker") /\ run'["worker"].at = p /\ run'["worker"].call = c
             /\ p = "MediaInfo" => MediaAhead("worker")'
  BY <1>1, <1>3, Begins
<1>4. CASE Invite(c)
  <2>1. /\ state[c] = "Null" /\ state' = [state EXCEPT ![c] = "Incoming"]
        /\ run' = [run EXCEPT !["worker"] = Callbacks(c, <<"Incoming">> \o <<>>)]
        /\ UNCHANGED <<media, port, bridge, muted, refused>>
    BY <1>1, <1>4, Lists DEF Invite
  <2>2. state'[c] = "Incoming"
    BY <1>1, <2>1 DEF DataOK
  <2> QED BY <1>1, <1>2, <1>3, <2>1, <2>2 DEF Takes, globals, LiveCalls
<1>5. CASE Ack(c)
  <2>1. /\ state[c] = "Connecting" /\ state' = [state EXCEPT ![c] = "Confirmed"]
        /\ run' = [run EXCEPT !["worker"] = Callbacks(c, <<"StateInfo">> \o <<>>)]
        /\ UNCHANGED <<media, port, bridge, muted, refused>>
    BY <1>1, <1>5, Lists DEF Ack
  <2>2. state'[c] = "Confirmed"
    BY <1>1, <2>1 DEF DataOK
  <2> QED BY <1>1, <1>2, <1>3, <2>1, <2>2 DEF Takes, globals, LiveCalls
<1>6. CASE Reinvite(c)
  <2>1. /\ state[c] = "Confirmed" /\ UNCHANGED <<state, muted, refused>>
        /\ run' = [run EXCEPT !["worker"] = Callbacks(c, <<"MediaInfo">> \o <<>>)]
        /\ \E status \in Statuses : SetMedia(c, status)
    BY <1>1, <1>6, Lists, OfferedAssumption DEF Reinvite
  <2>2. state'[c] = "Confirmed" /\ state' = [state EXCEPT ![c] = state'[c]]
    BY <1>1, <2>1 DEF DataOK
  <2> QED BY <1>1, <1>2, <1>3, <2>1, <2>2 DEF Takes, globals, LiveCalls
<1>7. CASE Bye(c)
  <2>1. /\ c \in LiveCalls /\ Disconnect("worker", c, <<>>)
        /\ SetMedia(c, "None") \/ UNCHANGED <<media, port, bridge>>
    BY <1>7 DEF Bye
  <2> QED BY <1>1, <1>2, <2>1, EndKind
<1> QED BY <1>4, <1>5, <1>6, <1>7

\* Every step is of one of four kinds.
LEMMA Kinds ==
  ASSUME TypeInv, InvitedOnWorker, [Step]_system
  PROVE  \/ UNCHANGED system
         \/ \E t \in Threads : Moves(t) \/ \E c \in Calls : Takes(t, c)
         \/ \E c \in Calls : Frees(c)
         \/ CloseLibrary
<1>1. "queue" \in Threads /\ "worker" \in Threads
  BY DEF Threads
<1>2. CASE \E t \in Threads : Callback(t)
  BY <1>2, CallbackKind
<1>3. CASE Block
  BY <1>1, <1>3, BlockKind
<1>4. CASE Peer
  BY <1>1, <1>4, PeerKind DEF Peer
<1>5. CASE \E op \in AppOps : StartOp(op)
  BY <1>1, <1>5, StartKind
<1>6. CASE \E c \in Calls : FreeCall(c)
  BY <1>6 DEF FreeCall, Frees
<1> QED BY <1>2, <1>3, <1>4, <1>5, <1>6 DEF Step

-----------------------------------------------------------------------------
(* The threads take turns, and no call is forgotten                        *)

\* A thread that joins two ports is in a callback, and one that holds a call.
LEMMA InCallbacks ==
  ASSUME NEW t \in Threads
  PROVE  /\ Joining(t) \/ At(t, "Incoming") => InCallback(t)
         /\ InCallback(t) => Held(run[t].call)
BY PlacesAre DEF Joining, At, InCallback, Held

LEMMA MovesKeepTurns ==
  ASSUME TypeInv, TurnsInv, NEW t \in Threads, Moves(t)
  PROVE  TurnsInv'
<1>1. ASSUME NEW u \in Threads \ {t}
      PROVE  /\ run'[u] = run[u] /\ InCallback(u)' = InCallback(u)
             /\ At(u, "Incoming")' = At(u, "Incoming") /\ Joining(u)' = Joining(u)
  BY DEF Moves, Others, InCallback, At, Joining
<1>2. /\ InCallback(t)' => InCallback(t) /\ run'[t].call = run[t].call
      /\ ~At(t, "Incoming")' /\ state' = state /\ LiveCalls' = LiveCalls
  BY PlacesAre DEF Moves, InCallback, At, LiveCalls
<1>3. TakeTurns' /\ HeldInUse' /\ InvitedOnWorker'
  BY <1>1, <1>2 DEF TurnsInv, TakeTurns, HeldInUse, InvitedOnWorker
<1>4. RingingIsAttended'
  <2> SUFFICES ASSUME NEW c \in Calls, state[c] = "Incoming", c \notin refused'
               PROVE  \E u \in Threads : At(u, "Incoming")' /\ run'[u].call = c
    BY <1>2 DEF RingingIsAttended
  <2>1. PICK u \in Threads : At(u, "Incoming") /\ run[u].call = c
    BY DEF TurnsInv, RingingIsAttended, Moves
  <2>2. u # t
    BY <2>1 DEF Moves, LiveCalls
  <2> QED BY <1>1, <2>1, <2>2
<1>5. MutedAreLive'
  BY <1>2 DEF TurnsInv, MutedAreLive, Moves
<1> QED BY <1>3, <1>4, <1>5 DEF TurnsInv

LEMMA TakesKeepTurns ==
  ASSUME TypeInv, TurnsInv, NEW t \in Threads, NEW c \in Calls, Takes(t, c)
  PROVE  TurnsInv'
<1>1. ASSUME NEW u \in Threads \ {t}
      PROVE  /\ run'[u] = run[u] /\ InCallback(u)' = InCallback(u)
             /\ At(u, "Incoming")' = At(u, "Incoming") /\ Joining(u)' = Joining(u)
  BY DEF Takes, Others, InCallback, At, Joining
<1>2. /\ run'[t].call = c /\ InCallback(t)' /\ ~Joining(t)'
      /\ state'[c] \in States \ {"Null"} /\ \A d \in Calls \ {c} : state'[d] = state[d]
  <2>1. InCallback(t)' /\ ~Joining(t)'
    BY PlacesAre DEF Takes, InCallback, Joining, At
  <2>2. \A d \in Calls \ {c} : state'[d] = state[d]
    BY DEF Takes, TypeInv, DataOK
  <2> QED BY <2>1, <2>2 DEF Takes
\* No other thread is in a callback about this call.
<1>3. ASSUME NEW u \in Threads \ {t}, InCallback(u)
      PROVE  run[u].call # c /\ run[u].call \in Calls
  <2>1. run[u].call \in Calls
    BY <1>3, PlacesAre DEF InCallback, TypeInv, RunOK, FramesFit, FrameFits
  <2> QED BY <1>3, <2>1, InCallbacks DEF Takes, TurnsInv, TakeTurns
<1>4. TakeTurns' /\ HeldInUse'
  BY <1>1, <1>2, <1>3 DEF TurnsInv, TakeTurns, HeldInUse
<1>5. InvitedOnWorker'
  <2>1. ASSUME NEW u \in Threads \ {t}, At(u, "Incoming")
        PROVE  u = "worker" /\ state'[run'[u].call] = "Incoming"
    BY <1>1, <1>2, <1>3, <2>1, InCallbacks DEF TurnsInv, InvitedOnWorker
  <2>2. At(t, "Incoming")' => t = "worker" /\ state'[run'[t].call] = "Incoming"
    BY <1>2 DEF Takes, At
  <2> QED BY <1>1, <2>1, <2>2 DEF InvitedOnWorker
<1>6. RingingIsAttended'
  <2> SUFFICES ASSUME NEW d \in Calls, state'[d] = "Incoming", d \notin refused'
               PROVE  \E u \in Threads : At(u, "Incoming")' /\ run'[u].call = d
    BY DEF RingingIsAttended
  <2>1. CASE d = c
    BY <1>2, <2>1 DEF Takes, At
  <2>2. CASE d # c
    <3>1. PICK u \in Threads : At(u, "Incoming") /\ run[u].call = d
      BY <1>2, <2>2 DEF TurnsInv, RingingIsAttended, Takes
    <3>2. u # t
      BY <2>2, <3>1, InCallbacks DEF Takes
    <3> QED BY <1>1, <3>1, <3>2
  <2> QED BY <2>1, <2>2
<1>7. MutedAreLive'
  <2> SUFFICES ASSUME NEW d \in muted' PROVE d \in LiveCalls'
    BY DEF MutedAreLive
  <2>1. d \in muted /\ d \in LiveCalls /\ d \in Calls
    BY DEF TurnsInv, MutedAreLive, Takes, LiveCalls
  <2>2. CASE d = c
    BY <1>2, <2>2, StatesAre DEF Takes, LiveCalls
  <2>3. CASE d # c
    BY <1>2, <2>1, <2>3 DEF LiveCalls
  <2> QED BY <2>2, <2>3
<1> QED BY <1>4, <1>5, <1>6, <1>7 DEF TurnsInv

LEMMA FreesKeepTurns ==
  ASSUME TypeInv, TurnsInv, NEW c \in Calls, Frees(c)
  PROVE  TurnsInv'
<1>1. /\ UNCHANGED <<up, run, muted, refused>> /\ state'[c] = "Null"
      /\ \A d \in Calls \ {c} : state'[d] = state[d]
      /\ state[c] = "Disconnected" /\ ~Held(c)
  BY DEF Frees, TypeInv, DataOK
<1>2. \A t \in Threads : /\ InCallback(t)' = InCallback(t) /\ Joining(t)' = Joining(t)
                         /\ At(t, "Incoming")' = At(t, "Incoming")
  BY <1>1 DEF InCallback, Joining, At
<1>3. ASSUME NEW t \in Threads, InCallback(t)
      PROVE  run[t].call # c /\ run[t].call \in Calls
  BY <1>1, <1>3, InCallbacks, PlacesAre DEF InCallback, TypeInv, RunOK, FramesFit, FrameFits
<1>4. TakeTurns' /\ HeldInUse' /\ InvitedOnWorker'
  BY <1>1, <1>2, <1>3, InCallbacks DEF TurnsInv, TakeTurns, HeldInUse, InvitedOnWorker
<1>5. RingingIsAttended'
  BY <1>1, <1>2 DEF TurnsInv, RingingIsAttended
<1>6. MutedAreLive'
  BY <1>1, <1>2 DEF TurnsInv, MutedAreLive, LiveCalls
<1> QED BY <1>4, <1>5, <1>6 DEF TurnsInv

LEMMA CloseKeepsTurns ==
  ASSUME TypeInv, CloseLibrary
  PROVE  TurnsInv' /\ \A t \in Threads : ~InCallback(t)'
<1>1. /\ run["worker"].at = "Idle" /\ run' = [run EXCEPT !["queue"] = Idle]
      /\ state' = [c \in Calls |-> "Null"] /\ muted' = {}
  BY DEF CloseLibrary, At
<1>2. \A t \in Threads : run'[t].at = "Idle"
  BY <1>1 DEF TypeInv, RunOK, Threads, Idle
<1>3. \A t \in Threads : ~InCallback(t)' /\ ~Joining(t)' /\ ~At(t, "Incoming")'
  BY <1>2, PlacesAre DEF InCallback, Joining, At
<1> QED BY <1>1, <1>3 DEF TurnsInv, TakeTurns, HeldInUse, InvitedOnWorker, RingingIsAttended,
                          MutedAreLive

LEMMA InitTurns == Init => TurnsInv
<1> SUFFICES ASSUME Init PROVE TurnsInv
  OBVIOUS
<1>1. \A t \in Threads : ~InCallback(t) /\ ~Joining(t) /\ ~At(t, "Incoming")
  BY PlacesAre DEF Init, Idle, InCallback, Joining, At
<1> QED BY <1>1 DEF Init, TurnsInv, TakeTurns, HeldInUse, InvitedOnWorker, RingingIsAttended,
                    MutedAreLive

LEMMA NextTurns == TypeInv /\ TurnsInv /\ [Step]_system => TurnsInv'
<1> SUFFICES ASSUME TypeInv, TurnsInv, [Step]_system PROVE TurnsInv'
  OBVIOUS
<1>1. CASE UNCHANGED system
  BY <1>1 DEF system, library, globals, TurnsInv, TakeTurns, HeldInUse, InvitedOnWorker,
              RingingIsAttended, MutedAreLive, InCallback, At, LiveCalls
<1>2. InvitedOnWorker
  BY DEF TurnsInv
<1> QED BY <1>1, <1>2, Kinds, MovesKeepTurns, TakesKeepTurns, FreesKeepTurns, CloseKeepsTurns

\* What the threads may do about a call, for every number of calls.
THEOREM TurnsInvariant == Spec => []TurnsInv
BY TypeInvariant, InitTurns, NextTurns, Steps, PTL DEF Spec

\* on_incoming_call is never skipped, however many calls come in together: a
\* call rings only until its callback, or because the library refused.
THEOREM AttendedCalls == Spec => []RingingIsAttended
<1>1. TurnsInv => RingingIsAttended
  BY DEF TurnsInv
<1> QED BY <1>1, TurnsInvariant, PTL

-----------------------------------------------------------------------------
(* Every call has its own media                                            *)

\* New media takes a port no call has, or keeps its own.
LEMMA PortSet ==
  ASSUME DataOK, NEW c \in Calls, NEW status \in Statuses, SetMedia(c, status)
  PROVE  /\ port'[c] \in FreePorts \cup {port[c], NoPort}
         /\ ~HasPort(status) => port'[c] = NoPort
         /\ \A d \in Calls \ {c} : port'[d] = port[d] /\ media'[d] = media[d]
<1>1. media \in [Calls -> Statuses] /\ port \in [Calls -> Ports \cup {NoPort}]
  BY DEF DataOK
<1>2. \A d \in Calls \ {c} : media'[d] = media[d]
  BY <1>1 DEF SetMedia
<1>3. CASE HasPort(status) /\ port[c] # NoPort /\ UNCHANGED <<port, bridge>>
  BY <1>2, <1>3
<1>4. CASE \E p \in IF HasPort(status) THEN FreePorts \cup ({port[c]} \ {NoPort})
                    ELSE {NoPort} :
             port' = [port EXCEPT ![c] = p]
  BY <1>1, <1>2, <1>4
<1> QED BY <1>3, <1>4 DEF SetMedia

\* A call that is given media leaves the others theirs.
LEMMA SetKeepsMedia ==
  ASSUME DataOK, MediaInv, NEW c \in Calls, NEW status \in Statuses, SetMedia(c, status),
         \A d \in Calls \ {c} : state'[d] = state[d],
         state'[c] \in {"Null", "Incoming"} => status = "None"
  PROVE  MediaInv'
<1>1. /\ media'[c] = status
      /\ HasPort(status) => port'[c] # NoPort
      /\ \/ UNCHANGED <<port, bridge>>
         \/ bridge' = {link \in bridge : port[c] \notin {link[1], link[2]}}
  BY MediaSet
<1>2. /\ port'[c] \in FreePorts \cup {port[c], NoPort}
      /\ ~HasPort(status) => port'[c] = NoPort
      /\ \A d \in Calls \ {c} : port'[d] = port[d] /\ media'[d] = media[d]
  BY PortSet
<1>3. QuietUntilAnswered'
  BY <1>1, <1>2 DEF MediaInv, QuietUntilAnswered, HasPort
<1>4. ActiveHasPort'
  BY <1>1, <1>2 DEF MediaInv, ActiveHasPort, HasPort
<1>5. PortsAreOwn'
  BY <1>2 DEF MediaInv, PortsAreOwn, FreePorts
<1>6. LinksAreOfCalls'
  <2>1. FreePorts' \subseteq FreePorts \cup {port[c]}
    BY <1>2 DEF FreePorts
  <2>2. CASE UNCHANGED <<port, bridge>>
    BY <2>2 DEF MediaInv, LinksAreOfCalls, FreePorts
  <2>3. CASE bridge' = {link \in bridge : port[c] \notin {link[1], link[2]}}
    BY <2>1, <2>3 DEF MediaInv, LinksAreOfCalls
  <2> QED BY <1>1, <2>2, <2>3
<1> QED BY <1>3, <1>4, <1>5, <1>6 DEF MediaInv

LEMMA NextMedia == TypeInv /\ TurnsInv /\ MediaInv /\ [Step]_system => MediaInv'
<1> SUFFICES ASSUME TypeInv, TurnsInv, MediaInv, [Step]_system PROVE MediaInv'
  OBVIOUS
<1>1. DataOK /\ InvitedOnWorker
  BY DEF TypeInv, TurnsInv
<1>2. CASE UNCHANGED system
  BY <1>2 DEF system, library, MediaInv, QuietUntilAnswered, ActiveHasPort, PortsAreOwn,
              LinksAreOfCalls, FreePorts
<1>3. ASSUME NEW t \in Threads, Moves(t) PROVE MediaInv'
  <2>1. UNCHANGED <<state, media, port>> /\ FreePorts' = FreePorts
    BY <1>3 DEF Moves, FreePorts
  <2>2. \A link \in bridge' : link \in bridge \/ {link[1], link[2]} \cap FreePorts = {}
    BY <1>3 DEF Moves, Connect, Unlink
  <2> QED BY <2>1, <2>2 DEF MediaInv, QuietUntilAnswered, ActiveHasPort, PortsAreOwn,
                            LinksAreOfCalls
<1>4. ASSUME NEW t \in Threads, NEW c \in Calls, Takes(t, c) PROVE MediaInv'
  <2>1. \A d \in Calls \ {c} : state'[d] = state[d]
    BY <1>1, <1>4 DEF Takes, DataOK
  <2>2. CASE UNCHANGED <<media, port, bridge>>
    <3>1. \A d \in Calls : state'[d] \in {"Null", "Incoming"} => state[d] \in {"Null", "Incoming"}
      BY <1>4, <2>1 DEF Takes
    <3> QED BY <2>2, <3>1 DEF MediaInv, QuietUntilAnswered, ActiveHasPort, PortsAreOwn,
                              LinksAreOfCalls, FreePorts
  <2>3. CASE ~UNCHANGED <<media, port, bridge>>
    <3>1. PICK status \in Statuses : SetMedia(c, status)
      BY <1>4, <2>3 DEF Takes
    <3>2. state'[c] \notin {"Null", "Incoming"}
      BY <1>4, <2>3 DEF Takes
    <3> QED BY <1>1, <2>1, <3>1, <3>2, SetKeepsMedia
  <2> QED BY <2>2, <2>3
<1>5. ASSUME NEW c \in Calls, Frees(c) PROVE MediaInv'
  <2>1. SetMedia(c, "None") /\ "None" \in Statuses
        /\ \A d \in Calls \ {c} : state'[d] = state[d]
    BY <1>1, <1>5, StatesAre DEF Frees, DataOK
  <2> QED BY <1>1, <2>1, SetKeepsMedia
<1>6. CASE CloseLibrary
  BY <1>6 DEF CloseLibrary, MediaInv, QuietUntilAnswered, ActiveHasPort, PortsAreOwn,
              LinksAreOfCalls
<1> QED BY <1>1, <1>2, <1>3, <1>4, <1>5, <1>6, Kinds

\* No two calls share a conference port, and the bridge connects none that has
\* been given back, for every number of calls.
THEOREM MediaInvariant == Spec => []MediaInv
<1>1. Init => MediaInv
  BY DEF Init, MediaInv, QuietUntilAnswered, ActiveHasPort, PortsAreOwn, LinksAreOfCalls
<1> QED BY <1>1, NextMedia, TypeInvariant, TurnsInvariant, Steps, PTL DEF Spec
=============================================================================
