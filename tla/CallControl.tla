---------------------------- MODULE CallControl ----------------------------
(***************************************************************************)
(* The calls of CTSoftPhone: the callbacks PJSUA makes about them, on its  *)
(* worker thread or on the serial queue's thread; the hangup, answer, mute *)
(* and unmute blocks of that queue; and the destroy block, which ends all  *)
(* calls and the library session they live in.                             *)
(*                                                                         *)
(* All of them work through two globals: callId, the call that came last,  *)
(* and ci, the call info fetched last, whatever the call and the thread.   *)
(* PJSUA holds a call's dialog while it calls back about that call, so the *)
(* two threads take turns on one call and are free on two.                 *)
(***************************************************************************)
EXTENDS Integers, Sequences, FiniteSets

CONSTANTS
  Calls,     \* call slots of the library, 0 among them
  Ports,     \* conference ports the library gives to calls, 0 being the device
  MaxEvents, \* bound: what the peers do (INVITE, ACK, re-INVITE, BYE)
  MaxBlocks, \* bound: blocks the queue runs
  AppOps,    \* operations the application uses
  Offered    \* media statuses an answer or a re-INVITE may bring about

Ops == {"Hangup", "Answer", "Mute", "Unmute", "Destroy", "Register"}

ASSUME CallsAssumption == 0 \in Calls /\ Calls \subseteq Nat
ASSUME PortsAssumption == Ports \subseteq Nat \ {0}
ASSUME EnoughPorts == Cardinality(Ports) >= Cardinality(Calls)
ASSUME AppOpsAssumption == AppOps \subseteq Ops
ASSUME BoundsAssumption == MaxEvents \in Nat /\ MaxBlocks \in Nat

VARIABLES
  callId,  \* the global callId
  ci,      \* the global ci: state, media status and conference slot
  told,    \* last onCallState: its code, and which callback it came from
  run,     \* what each thread is doing
  state,   \* library: invite session state of each call
  media,   \* library: media status of each call
  port,    \* library: conference port of each call
  bridge,  \* library: connections of the conference bridge
  up,      \* library: a session is up, with its account
  muted,   \* history: calls muted, not unmuted since, and whose info no media
           \* callback has fetched since
  refused, \* history: incoming calls whose 200 answer the library refused
  overlapped, \* history: two calls were there at once
  crossed, \* history: two callbacks, or one and a mute, were under way at once
  events, blocks

globals == <<callId, ci, told>>
library == <<state, media, port, bridge>>
history == <<overlapped, crossed>>
system == <<globals, library, up, run, muted, refused, events, blocks>>
vars == <<system, history>>

Threads == {"worker", "queue"}
Device == 0
NoPort == -1
NoCall == -1

(***************************************************************************)
(* The numbers the delegate is given: pjsip_inv_state for a call's state,  *)
(* CTSoftPhoneCallState for its media.                                     *)
(***************************************************************************)
InvState == [Null |-> 0, Incoming |-> 2, Connecting |-> 4, Confirmed |-> 5,
             Disconnected |-> 6]
MediaState == [None |-> 6, Active |-> 7, LocalHold |-> 8, RemoteHold |-> 9,
               Error |-> 10]
States == DOMAIN InvState
Statuses == DOMAIN MediaState
ASSUME OfferedAssumption == Offered \subseteq Statuses

LiveCalls == {c \in Calls : state[c] \in {"Incoming", "Connecting", "Confirmed"}}
HasPort(status) == status \in {"Active", "LocalHold", "RemoteHold"}

Idle == [at |-> "Idle", call |-> NoCall, todo |-> <<>>]
\* The callbacks the library still has to make about c, the first one next.
Callbacks(c, q) ==
  IF q = <<>> THEN Idle ELSE [at |-> Head(q), call |-> c, todo |-> Tail(q)]

At(t, place) == run[t].at = place
Goto(t, place) == run' = [run EXCEPT ![t].at = place]
Return(t) == run' = [run EXCEPT ![t] = Callbacks(run[t].call, run[t].todo)]

Teardown == {"HangupAll", "NextCall", "Closing"}
InBlock == {"Idle", "Hangup", "Answer", "Mute", "Unmute"} \cup Teardown
InCallback(t) == run[t].at \notin InBlock
Held(c) == \E t \in Threads : run[t].call = c /\ InCallback(t)

\* Two calls have slots; two threads use ci at once.
OneAtATime ==
  \A c, d \in Calls : state[c] # "Null" /\ state[d] # "Null" => c = d
Crossing == \A t \in Threads : InCallback(t) \/ At(t, "Mute")

\* Faulty variant: callId starts as no call.
InitNoCall ==
  /\ callId = NoCall
  /\ ci = [state |-> "Null", media |-> "None", slot |-> 0]
  /\ told = [code |-> 0, from |-> "call"]
  /\ run = [t \in Threads |-> Idle]
  /\ state = [c \in Calls |-> "Null"]
  /\ media = [c \in Calls |-> "None"]
  /\ port = [c \in Calls |-> NoPort]
  /\ bridge = {} /\ up = TRUE
  /\ muted = {} /\ refused = {} /\ events = 0 /\ blocks = 0
  /\ overlapped = FALSE /\ crossed = FALSE

\* After the first register.
Init ==
  /\ callId = 0
  /\ ci = [state |-> "Null", media |-> "None", slot |-> 0]
  /\ told = [code |-> 0, from |-> "call"]
  /\ run = [t \in Threads |-> Idle]
  /\ state = [c \in Calls |-> "Null"]
  /\ media = [c \in Calls |-> "None"]
  /\ port = [c \in Calls |-> NoPort]
  /\ bridge = {} /\ up = TRUE
  /\ muted = {} /\ refused = {} /\ events = 0 /\ blocks = 0
  /\ overlapped = FALSE /\ crossed = FALSE

-----------------------------------------------------------------------------
(* The library                                                             *)

Cut(p) == bridge' = {link \in bridge : p \notin {link[1], link[2]}}
FreePorts == Ports \ {port[c] : c \in Calls}

\* New media for c: its port goes with the connections made to it, and another
\* comes; a port that stays keeps them.
SetMedia(c, status) ==
  /\ media' = [media EXCEPT ![c] = status]
  /\ \/ HasPort(status) /\ port[c] # NoPort /\ UNCHANGED <<port, bridge>>
     \/ /\ \E p \in IF HasPort(status) THEN FreePorts \cup ({port[c]} \ {NoPort})
                  ELSE {NoPort} :
             port' = [port EXCEPT ![c] = p]
        /\ Cut(port[c])

\* pjsua_call_answer(c, 200): only an incoming call can be answered.  The media
\* starts, and the order of the two callbacks is not fixed.  The status returned
\* is not looked at.
Answer(t, c) ==
  \/ /\ state[c] = "Incoming"
     /\ state' = [state EXCEPT ![c] = "Connecting"]
     /\ \E status \in Offered : SetMedia(c, status)
     /\ \E q \in {<<"MediaInfo", "StateInfo">>, <<"StateInfo", "MediaInfo">>} :
          run' = [run EXCEPT ![t] = Callbacks(c, q)]
     /\ refused' = refused \ {c}
  \/ /\ refused' = refused \cup ({c} \cap LiveCalls)
     /\ Return(t)
     /\ UNCHANGED library

\* on_call_state reports the end of a call, before the thread goes on.
Disconnect(t, c, then) ==
  /\ state' = [state EXCEPT ![c] = "Disconnected"]
  /\ run' = [run EXCEPT ![t] = Callbacks(c, <<"StateInfo">> \o then)]
  /\ muted' = muted \ {c} /\ refused' = refused \ {c}

\* What a peer does reaches the worker thread when no callback about that call
\* is in progress.
PeerEvent(c) ==
  /\ up /\ At("worker", "Idle") /\ ~Held(c)
  /\ events < MaxEvents /\ events' = events + 1
  /\ UNCHANGED <<globals, up, blocks>>

Invite(c) ==
  /\ PeerEvent(c)
  /\ state[c] = "Null"
  /\ state' = [state EXCEPT ![c] = "Incoming"]
  /\ run' = [run EXCEPT !["worker"] = Callbacks(c, <<"Incoming">>)]
  /\ UNCHANGED <<media, port, bridge, muted, refused>>

Ack(c) ==
  /\ PeerEvent(c)
  /\ state[c] = "Connecting"
  /\ state' = [state EXCEPT ![c] = "Confirmed"]
  /\ run' = [run EXCEPT !["worker"] = Callbacks(c, <<"StateInfo">>)]
  /\ UNCHANGED <<media, port, bridge, muted, refused>>

Reinvite(c) ==
  /\ PeerEvent(c)
  /\ state[c] = "Confirmed"
  /\ \E status \in Offered : SetMedia(c, status)
  /\ run' = [run EXCEPT !["worker"] = Callbacks(c, <<"MediaInfo">>)]
  /\ UNCHANGED <<state, muted, refused>>

Bye(c) ==
  /\ PeerEvent(c)
  /\ c \in LiveCalls
  /\ Disconnect("worker", c, <<>>)
  /\ SetMedia(c, "None") \/ UNCHANGED <<media, port, bridge>>

\* The slot of a call can be used again once its callbacks have returned.
FreeCall(c) ==
  /\ state[c] = "Disconnected" /\ ~Held(c)
  /\ state' = [state EXCEPT ![c] = "Null"]
  /\ SetMedia(c, "None")
  /\ UNCHANGED <<globals, up, run, muted, refused, events, blocks>>

-----------------------------------------------------------------------------
(* Callbacks                                                               *)

\* Faulty variant: the call of callId is answered before callId is set.
OnIncomingCallLate(t) ==
  /\ At(t, "Incoming")
  /\ callId' = run[t].call
  /\ Answer(t, callId)
  /\ UNCHANGED <<ci, told, up, muted, events, blocks>>

\* Faulty variant: the first call stays the one of callId.
OnIncomingCallKeeps(t) ==
  /\ At(t, "Incoming")
  /\ Answer(t, run[t].call)
  /\ UNCHANGED <<globals, up, muted, events, blocks>>

\* on_incoming_call: the call becomes the one of callId and is answered at once.
OnIncomingCall(t) ==
  /\ At(t, "Incoming")
  /\ callId' = run[t].call
  /\ Answer(t, run[t].call)
  /\ UNCHANGED <<ci, told, up, muted, events, blocks>>

\* pjsua_call_get_info(call_id, &ci)
FetchInfo(t) ==
  LET c == run[t].call IN
  ci' = [state |-> state[c], media |-> media[c], slot |-> port[c]]

\* Faulty variant: a call without a port is not reported.
OnCallStateWithPort(t) ==
  \/ /\ At(t, "StateInfo")
     /\ FetchInfo(t) /\ Goto(t, "StateTell")
     /\ UNCHANGED <<callId, told, library, up, muted, refused, events, blocks>>
  \/ /\ At(t, "StateTell")
     /\ told' = IF ci.slot = NoPort THEN told
                ELSE [code |-> InvState[ci.state], from |-> "call"]
     /\ Return(t)
     /\ UNCHANGED <<callId, ci, library, up, muted, refused, events, blocks>>

\* on_call_state fetches the call's info, then reports what ci says by then.
OnCallState(t) ==
  \/ /\ At(t, "StateInfo")
     /\ FetchInfo(t) /\ Goto(t, "StateTell")
     /\ UNCHANGED <<callId, told, library, up, muted, refused, events, blocks>>
  \/ /\ At(t, "StateTell")
     /\ told' = [code |-> InvState[ci.state], from |-> "call"]
     /\ Return(t)
     /\ UNCHANGED <<callId, ci, library, up, muted, refused, events, blocks>>

\* pjsua_conf_connect and pjsua_conf_disconnect refuse a port that is not there.
Connect(from, to) ==
  bridge' = IF NoPort \in {from, to} \/ FreePorts \cap {from, to} # {}
            THEN bridge ELSE bridge \cup {<<from, to>>}
Unlink(from, to) == bridge' = bridge \ {<<from, to>>}

\* Faulty variant: a slot that is known is not asked for again.
MediaInfoCached(t) ==
  /\ At(t, "MediaInfo")
  /\ IF ci.slot \in Ports THEN UNCHANGED ci ELSE FetchInfo(t)
  /\ Goto(t, "MediaBranch")
  /\ muted' = muted \ {run[t].call}
  /\ UNCHANGED <<callId, told, library, up, refused, events, blocks>>

MediaInfo(t) ==
  /\ At(t, "MediaInfo")
  /\ FetchInfo(t) /\ Goto(t, "MediaBranch")
  /\ muted' = muted \ {run[t].call}
  /\ UNCHANGED <<callId, told, library, up, refused, events, blocks>>

\* ci is read again after every call made in between; the tests of its status
\* follow each other and see one value.
MediaBranch(t) ==
  /\ At(t, "MediaBranch")
  /\ Goto(t, IF ci.media = "Active" THEN "Listen" ELSE ci.media)
  /\ IF ci.media = "None" THEN Unlink(ci.slot, Device) ELSE UNCHANGED bridge
  /\ UNCHANGED <<globals, state, media, port, up, muted, refused, events, blocks>>

\* Faulty variant: source and sink swapped.
ListenSwapped(t) ==
  /\ At(t, "Listen")
  /\ Connect(Device, ci.slot) /\ Goto(t, "Speak")
  /\ UNCHANGED <<globals, state, media, port, up, muted, refused, events, blocks>>

Listen(t) ==
  /\ At(t, "Listen")
  /\ Connect(ci.slot, Device) /\ Goto(t, "Speak")
  /\ UNCHANGED <<globals, state, media, port, up, muted, refused, events, blocks>>

Speak(t) ==
  /\ At(t, "Speak")
  /\ Connect(Device, ci.slot) /\ Goto(t, "Active")
  /\ UNCHANGED <<globals, state, media, port, up, muted, refused, events, blocks>>

\* The place of a thread that reports a media status is that status.
MediaTell(t) ==
  /\ run[t].at \in Statuses
  /\ told' = [code |-> MediaState[run[t].at], from |-> "media"]
  /\ Return(t)
  /\ UNCHANGED <<callId, ci, library, up, muted, refused, events, blocks>>

-----------------------------------------------------------------------------
(* The blocks of the serial queue                                          *)

Start(op) == [at |-> op, call |-> callId, todo |-> <<>>]

StartBlock(frame) ==
  /\ At("queue", "Idle")
  /\ blocks < MaxBlocks /\ blocks' = blocks + 1
  /\ run' = [run EXCEPT !["queue"] = frame]
  /\ UNCHANGED <<globals, library, muted, refused, events>>

\* hangup and answercall read callId before they wait for the call.
StartOnCall(op) ==
  op \in {"Hangup", "Answer"} /\ StartBlock(Start(op)) /\ UNCHANGED up

\* mute and unmute do nothing for a slot that is 0 or -1.
StartOnSlot(op) ==
  /\ op \in {"Mute", "Unmute"}
  /\ StartBlock(IF ci.slot \in {Device, NoPort} THEN Idle ELSE Start(op))
  /\ UNCHANGED up

\* pjsua_call_hangup ends a live call, or fails; its status is not looked at.
Hangup ==
  LET c == run["queue"].call IN
  /\ At("queue", "Hangup") /\ ~Held(c)
  /\ \/ c \in LiveCalls /\ Disconnect("queue", c, <<>>) /\ SetMedia(c, "None")
     \/ Return("queue") /\ UNCHANGED <<library, muted, refused>>
  /\ UNCHANGED <<globals, up, events, blocks>>

\* answercall, for a call on_incoming_call could not answer.
AnswerCall ==
  LET c == run["queue"].call IN
  /\ At("queue", "Answer") /\ ~Held(c)
  /\ Answer("queue", c)
  /\ UNCHANGED <<globals, up, muted, events, blocks>>

\* Faulty variant: source and sink swapped.
MuteSwapped ==
  /\ At("queue", "Mute")
  /\ Unlink(ci.slot, Device) /\ Return("queue")
  /\ muted' = muted \cup {c \in LiveCalls : port[c] = ci.slot}
  /\ UNCHANGED <<globals, state, media, port, up, refused, events, blocks>>

Mute ==
  /\ At("queue", "Mute")
  /\ Unlink(Device, ci.slot) /\ Return("queue")
  /\ muted' = muted \cup {c \in LiveCalls : port[c] = ci.slot}
  /\ UNCHANGED <<globals, state, media, port, up, refused, events, blocks>>

Unmute ==
  /\ At("queue", "Unmute")
  /\ Connect(Device, ci.slot) /\ Return("queue")
  /\ muted' = {c \in muted : port[c] # ci.slot}
  /\ UNCHANGED <<globals, state, media, port, up, refused, events, blocks>>

-----------------------------------------------------------------------------
(* The destroy block, and the register that follows it                     *)

Visit(slots) ==
  [at |-> "HangupAll", call |-> CHOOSE c \in slots : \A d \in slots : c <= d,
   todo |-> <<>>]

\* Without a session there is no account to delete and pjsua_destroy does
\* nothing.
StartDestroy(op) ==
  /\ op = "Destroy"
  /\ StartBlock(IF up THEN Visit(Calls) ELSE Idle)
  /\ UNCHANGED up

\* pjsua_call_hangup_all goes through the slots once, and waits for each call; it
\* tells nobody of one it could not end.
HangupAll ==
  LET c == run["queue"].call IN
  /\ At("queue", "HangupAll") /\ ~Held(c)
  /\ \/ c \in LiveCalls /\ Disconnect("queue", c, <<"NextCall">>) /\ SetMedia(c, "None")
     \/ Goto("queue", "NextCall") /\ UNCHANGED <<library, muted, refused>>
  /\ UNCHANGED <<globals, up, events, blocks>>

\* Faulty variant: the same slot again.
NextCallStuck ==
  LET later == {c \in Calls : c >= run["queue"].call} IN
  /\ At("queue", "NextCall")
  /\ IF later = {}
     THEN up' = FALSE /\ Goto("queue", "Closing")
     ELSE run' = [run EXCEPT !["queue"] = Visit(later)] /\ UNCHANGED up
  /\ UNCHANGED <<globals, library, muted, refused, events, blocks>>

\* After the last slot pjsua_acc_del and pjsua_destroy: the worker thread takes
\* no more from the peers.
NextCall ==
  LET later == {c \in Calls : c > run["queue"].call} IN
  /\ At("queue", "NextCall")
  /\ IF later = {}
     THEN up' = FALSE /\ Goto("queue", "Closing")
     ELSE run' = [run EXCEPT !["queue"] = Visit(later)] /\ UNCHANGED up
  /\ UNCHANGED <<globals, library, muted, refused, events, blocks>>

\* pjsua_destroy waits for the worker thread, hangs up the calls that came in
\* behind hangup_all, and leaves nothing; callId and ci stay as they are.
CloseCall ==
  /\ At("queue", "Closing") /\ At("worker", "Idle")
  /\ \E c \in LiveCalls :
       Disconnect("queue", c, <<"Closing">>) /\ SetMedia(c, "None")
  /\ UNCHANGED <<globals, up, events, blocks>>

CloseLibrary ==
  /\ At("queue", "Closing") /\ At("worker", "Idle") /\ LiveCalls = {}
  /\ state' = [c \in Calls |-> "Null"]
  /\ media' = [c \in Calls |-> "None"]
  /\ port' = [c \in Calls |-> NoPort]
  /\ bridge' = {} /\ muted' = {} /\ refused' = {}
  /\ run' = [run EXCEPT !["queue"] = Idle]
  /\ UNCHANGED <<globals, up, events, blocks>>

\* A register that succeeds; one that fails leaves the session down.
Register(op) ==
  /\ op = "Register" /\ ~up
  /\ StartBlock(Idle) /\ up' = TRUE

-----------------------------------------------------------------------------
Callback(t) ==
  OnIncomingCall(t) \/ OnCallState(t) \/ MediaInfo(t) \/ MediaBranch(t)
    \/ Listen(t) \/ Speak(t) \/ MediaTell(t)
Block ==
  Hangup \/ AnswerCall \/ Mute \/ Unmute
    \/ HangupAll \/ NextCall \/ CloseCall \/ CloseLibrary
StartOp(op) ==
  StartOnCall(op) \/ StartOnSlot(op) \/ StartDestroy(op) \/ Register(op)

Peer == \E c \in Calls : Invite(c) \/ Ack(c) \/ Reinvite(c) \/ Bye(c)

Step ==
  \/ \E t \in Threads : Callback(t)
  \/ Block \/ Peer
  \/ \E op \in AppOps : StartOp(op)
  \/ \E c \in Calls : FreeCall(c)

Remember ==
  /\ overlapped' = (overlapped \/ ~OneAtATime')
  /\ crossed' = (crossed \/ Crossing')

Next == Step /\ Remember

\* The two threads run; peers and application need not do anything.
Fairness ==
  /\ WF_vars(Callback("worker") /\ Remember)
  /\ WF_vars((Callback("queue") \/ Block) /\ Remember)

Spec == Init /\ [][Next]_vars /\ Fairness

-----------------------------------------------------------------------------
(* Properties                                                              *)

Places == InBlock \cup {"Incoming", "StateInfo", "StateTell", "MediaInfo",
                   "MediaBranch", "Listen", "Speak"} \cup Statuses

TypeOK ==
  /\ callId \in Calls
  /\ ci \in [state : States, media : Statuses, slot : Ports \cup {Device, NoPort}]
  /\ told \in [code : 0 .. 10, from : {"call", "media"}]
  /\ run \in [Threads -> [at : Places, call : Calls \cup {NoCall}, todo : Seq(Places)]]
  /\ state \in [Calls -> States] /\ media \in [Calls -> Statuses]
  /\ port \in [Calls -> Ports \cup {NoPort}]
  /\ bridge \subseteq (Ports \cup {Device}) \X (Ports \cup {Device})
  /\ up \in BOOLEAN
  /\ muted \subseteq Calls /\ refused \subseteq Calls /\ events \in Nat /\ blocks \in Nat
  /\ overlapped \in BOOLEAN /\ crossed \in BOOLEAN

\* on_call_media_state: "When media is active, connect call to sound device".
\* Once the callbacks about a call have returned, its active media is heard.
ActiveMediaIsHeard ==
  \A c \in Calls :
    media[c] = "Active" /\ c \in LiveCalls /\ ~Held(c)
      => <<port[c], Device>> \in bridge

\* It is as long as no callback on one thread has overwritten the ci of one on the
\* other, however many calls there are.
HeardUnlessCrossed == ~crossed => ActiveMediaIsHeard

\* While a call is up, callId names a live one: what hangup would hang up.
CallIdIsLive ==
  (\E c \in Calls : state[c] \in {"Connecting", "Confirmed"}) => callId \in LiveCalls

\* It does, over calls in any slots, as long as one call never came before the
\* one before it was over.
CallIdServesOne == ~overlapped => CallIdIsLive

\* What mute and unmute read is current as long as calls did not overlap: the
\* slot in ci is that of the call whose media is active, through re-INVITEs,
\* reused ports and slots and new sessions.
MuteFindsCall ==
  ~overlapped => \A c \in Calls :
    media[c] = "Active" /\ c \in LiveCalls /\ ~Held(c) => ci.slot = port[c]

\* A muted call sends nothing from the microphone until it is unmuted or the info
\* that on_call_media_state reconnects it by is fetched anew.
MutedIsSilent ==
  \A c \in muted : port[c] # NoPort => <<Device, port[c]>> \notin bridge

\* It does not, however many calls there are, unless a mute or a second callback
\* came into a callback.
SilentUnlessCrossed == ~crossed => MutedIsSilent

\* destroy ends the session and every call in it, though it waits for calls
\* that the worker thread holds and for the worker thread itself.
TeardownEnds ==
  At("queue", "HangupAll") ~> ~up /\ \A c \in Calls : state[c] = "Null"

\* on_incoming_call is never skipped: a call rings only as long as the worker
\* thread is about to answer it, or because the library refused the answer.
RingingIsAttended ==
  \A c \in Calls : state[c] = "Incoming" =>
    c \in refused \/ \E t \in Threads : At(t, "Incoming") /\ run[t].call = c

\* As long as calls did not overlap, the delegate has been told that a call ended
\* before its slot is used again, and that was the last it was told.  The code is
\* 6, which CTSoftPhone.h names MediaNone: from tells the two apart, the delegate
\* cannot.
EndToldBeforeReuse ==
  ~overlapped => \A c \in Calls : state[c] = "Disconnected" /\ ~Held(c)
    => told = [code |-> InvState["Disconnected"], from |-> "call"]

-----------------------------------------------------------------------------
(* What holds for any number of calls                                      *)

\* A thread has at most one callback or one step of a teardown still to come,
\* and a block none.
Todos == {<<>>, <<"MediaInfo">>, <<"StateInfo">>, <<"NextCall">>, <<"Closing">>}
FrameFits(f) ==
  /\ f \in [at : Places, call : Calls \cup {NoCall}, todo : Todos]
  /\ f.at \in InBlock => f.todo = <<>>
  /\ f.at # "Idle" => f.call \in Calls
FramesFit == \A t \in Threads : FrameFits(run[t])

\* The threads take turns on a call, and its slot is in use meanwhile.
TakeTurns ==
  \A t, u \in Threads :
    InCallback(t) /\ InCallback(u) /\ run[t].call = run[u].call => t = u
HeldInUse == \A t \in Threads : InCallback(t) => state[run[t].call] # "Null"
InvitedOnWorker ==
  \A t \in Threads : At(t, "Incoming") => t = "worker" /\ state[run[t].call] = "Incoming"

\* A muted call is live.
MutedAreLive == muted \subseteq LiveCalls

TurnsInv ==
  /\ TakeTurns /\ HeldInUse /\ InvitedOnWorker /\ RingingIsAttended
  /\ MutedAreLive

\* A call has media only once it was answered, active media has a port, no two
\* calls share one, and the bridge connects no others.
QuietUntilAnswered ==
  \A c \in Calls : state[c] \in {"Null", "Incoming"} => media[c] = "None" /\ port[c] = NoPort
ActiveHasPort == \A c \in Calls : media[c] = "Active" => port[c] # NoPort
PortsAreOwn == \A c, d \in Calls : port[c] = port[d] /\ port[c] # NoPort => c = d
LinksAreOfCalls ==
  \A link \in bridge : {link[1], link[2]} \cap FreePorts = {}

MediaInv == QuietUntilAnswered /\ ActiveHasPort /\ PortsAreOwn /\ LinksAreOfCalls

-----------------------------------------------------------------------------
(* Why ci serves as long as nothing crosses a callback                     *)

\* Active media has its callback to come, or is connected or about to be.
MediaAhead(t) ==
  InCallback(t) /\ (At(t, "MediaInfo") \/ run[t].todo = <<"MediaInfo">>)
Connecting(t) == At(t, "MediaBranch") \/ At(t, "Listen")
ActiveIsMinded ==
  \A c \in LiveCalls : media[c] = "Active" =>
    \/ <<port[c], Device>> \in bridge
    \/ \E t \in Threads : run[t].call = c /\ (MediaAhead(t) \/ Connecting(t))

\* A callback that connects media reads its own call's, and no mute has come in.
Joining(t) == At(t, "MediaBranch") \/ At(t, "Listen") \/ At(t, "Speak")
InfoIsOwn ==
  \A t \in Threads : Joining(t) =>
    ci.slot = port[run[t].call] /\ ci.media = media[run[t].call]
MutedAreLeft == \A t \in Threads : Joining(t) => run[t].call \notin muted

CrossInv ==
  /\ Crossing => crossed
  /\ ~crossed => ActiveIsMinded /\ InfoIsOwn /\ MutedAreLeft /\ MutedIsSilent

-----------------------------------------------------------------------------
(* Why the globals serve as long as calls do not overlap                   *)

\* The state on_call_state reports is the state of the call it was called for.
ReportsOwnCall ==
  \A t \in Threads : At(t, "StateTell") => ci.state = state[run[t].call]

\* Active media has its callback to come, or ci has its slot.
ActiveIsFollowed ==
  \A c \in LiveCalls : media[c] = "Active" =>
    (\E t \in Threads : MediaAhead(t)) \/ ci.slot = port[c]

\* The live call is that of callId, or is about to be.
NewestIsCallId ==
  \A c \in LiveCalls : callId = c \/ \E t \in Threads : At(t, "Incoming") /\ run[t].call = c

\* A call that ended was reported, or is being reported and nothing after that.
Reporting(t) ==
  (At(t, "StateInfo") \/ At(t, "StateTell"))
    /\ run[t].todo \notin {<<"MediaInfo">>, <<"StateInfo">>}
EndIsFollowed ==
  \A c \in Calls : state[c] = "Disconnected" =>
    \/ told = [code |-> InvState["Disconnected"], from |-> "call"] /\ ~Held(c)
    \/ \E t \in Threads : run[t].call = c /\ Reporting(t)

\* The inductive invariant of calls that do not overlap, beside what holds of
\* any.
OneInv ==
  ~overlapped =>
    OneAtATime /\ ReportsOwnCall /\ ActiveIsFollowed /\ NewestIsCallId /\ EndIsFollowed
=============================================================================
