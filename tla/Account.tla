------------------------------ MODULE Account ------------------------------
(***************************************************************************)
(* The account of CTSoftPhone over the transports it uses: what            *)
(* registerWithNumber configures, what handleIpChange switches, and what   *)
(* destroy and a failed register take down.                                *)
(*                                                                         *)
(* The blocks run one at a time (SerialQueue), so a block is one step here *)
(* and acc_id >= 0 is "there is an account" (NoStaleAccount of             *)
(* Registration).  An IP change goes on in the library after the block     *)
(* that asked for it.                                                      *)
(***************************************************************************)
EXTENDS AccountUri

CONSTANTS
  TransportIds, \* transport slots of the library
  Types,        \* transports the application asks for
  Parts,        \* what numbers and hosts are made of
  Numbers,      \* numbers and
  Hosts,        \* hosts it registers with
  MaxCalls,     \* pjsua_config.max_calls
  MaxBlocks     \* bound: blocks the application starts

ASSUME TypesAssumption == Types # {} /\ Types \subseteq TransportTypes
ASSUME PartsAssumption ==
  /\ {"sip:", "@"} \subseteq Parts
  /\ Numbers \subseteq Seq(Parts) /\ Hosts \subseteq Seq(Parts)
ASSUME BoundsAssumption ==
  TransportIds \subseteq Nat /\ MaxCalls \in Nat /\ MaxBlocks \in Nat

VARIABLES
  configured,  \* self.config.transport, which outlives the sessions
  initialized, \* pjsuaInitialized
  lib,         \* "Down", "Up" or "Aborted"
  transports,  \* type of the transport in each slot of the library
  accounts,    \* the account, if there is one
  calls,       \* number of live calls
  changing,    \* the library has an IP change to finish
  blocks,      \* blocks started so far
  tried,       \* history: transport the last block tried to create, or "None"
  failed,      \* history: creating a transport failed in this session
  switched     \* history: handleIpChange bound the account since it was configured

phone == <<configured, initialized>>
pjsua == <<lib, transports, accounts, calls, changing>>
history == <<tried, failed, switched>>
vars == <<phone, pjsua, blocks, history>>

NoTransport == 0
Unbound == -1

Free == {id \in TransportIds : transports[id] = NoTransport}
Available(t) == \E id \in TransportIds : transports[id] = PjTransportType[t]

Init ==
  /\ configured \in Types /\ initialized = FALSE
  /\ lib = "Down" /\ transports = [id \in TransportIds |-> NoTransport]
  /\ accounts = {} /\ calls = 0 /\ changing = FALSE
  /\ blocks = 0 /\ tried = "None" /\ failed = FALSE /\ switched = FALSE

Block ==
  /\ lib # "Aborted" /\ blocks < MaxBlocks
  /\ blocks' = blocks + 1

-----------------------------------------------------------------------------
(* What the blocks share                                                   *)

\* pjsua_transport_create, into any free slot.
TransportCreate(type, id) ==
  /\ id \in Free
  /\ transports' = [transports EXCEPT ![id] = PjTransportType[type]]

\* ct_pjsua_destroy: the calls, the account and the library with its transports
\* go.
CtPjsuaDestroy ==
  /\ lib' = "Down" /\ accounts' = {} /\ calls' = 0 /\ changing' = FALSE
  /\ transports' = [id \in TransportIds |-> NoTransport]
  /\ tried' = "None" /\ failed' = FALSE /\ switched' = FALSE

\* The process dies in the library.
Abort ==
  /\ lib' = "Aborted"
  /\ UNCHANGED <<phone, transports, accounts, calls, changing, history>>

-----------------------------------------------------------------------------
(* registerWithNumber                                                      *)

\* Create, init and start: only the status of pjsua_transport_create is not
\* looked at.
Bring ==
  IF initialized
  THEN lib = "Up" /\ tried' = "None" /\ UNCHANGED <<lib, transports, failed>>
  ELSE /\ lib' = "Up" /\ tried' = configured
       /\ \/ \E id \in Free :
               TransportCreate(configured, id) /\ UNCHANGED failed
          \/ failed' = TRUE /\ UNCHANGED transports

NewAccount(number, host, bound) ==
  [id |-> AccountId(number, host), username |-> number,
   registrar |-> [host |-> host,
                  transport |-> TransportDescription[configured]],
   boundTo |-> bound, hangupCalls |-> FALSE]

\* Faulty variant: an account is added whether acc_id names one or not.
ConfigureAdds(number, host) ==
  /\ accounts' = accounts \cup {NewAccount(number, host, Unbound)}
  /\ switched' = FALSE

\* pjsua_acc_add or pjsua_acc_modify with a configuration made anew: what
\* handleIpChange set is reset; whether the library lifts the binding to a
\* transport is left open.
Configure(number, host) ==
  /\ accounts' = {NewAccount(number, host, Unbound)}
       \/ \E a \in accounts : accounts' = {NewAccount(number, host, a.boundTo)}
  /\ switched' = FALSE

\* A nil argument: @catch reports and leaves everything as it is.
Caught == UNCHANGED <<accounts, switched>>

Register(number, host) ==
  /\ Block
  /\ \/ /\ Bring
        /\ Configure(number, host) \/ Caught
        /\ initialized' = TRUE
        /\ UNCHANGED <<configured, calls, changing>>
     \/ CtPjsuaDestroy \* error_exit, from any step
        /\ initialized' = TRUE /\ UNCHANGED configured
     \/ initialized /\ lib = "Down" /\ Abort

-----------------------------------------------------------------------------
(* handleIpChange                                                          *)

\* pjsua_acc_set_transport, then pjsua_acc_modify with the flag to hang up.
\* The configuration is copied into an uninitialised pool: the changed one may
\* be accepted or not, and the account is switched all the same.
Rebind(id) ==
  /\ \/ accounts' = {[a EXCEPT !.boundTo = id, !.hangupCalls = TRUE] : a \in accounts}
     \/ accounts' = {[a EXCEPT !.boundTo = id] : a \in accounts}
  /\ switched' = TRUE

\* Without a transport transportId is unset: it may name any slot, or be
\* refused.
RebindUnset ==
  \/ \E id \in TransportIds : Rebind(id)
  \/ \E a \in accounts : Rebind(a.boundTo)

\* Faulty variant: config.transport is set once the transport is there.
SwitchLate(t) ==
  /\ configured' = t /\ tried' = t
  /\ \/ \E id \in Free :
          /\ TransportCreate(configured, id) /\ UNCHANGED failed
          /\ Rebind(id)
     \/ /\ failed' = TRUE /\ UNCHANGED transports
        /\ RebindUnset

Switch(t) ==
  /\ configured' = t /\ tried' = t
  /\ \/ \E id \in Free :
          /\ TransportCreate(t, id) /\ UNCHANGED failed
          /\ Rebind(id)
     \/ /\ failed' = TRUE /\ UNCHANGED transports
        /\ RebindUnset

\* callId starts as 0 and is never negative: only acc_id is tested.
HandleIpChange(t) ==
  /\ Block
  /\ IF accounts = {}
     THEN tried' = "None" /\ UNCHANGED <<phone, pjsua, failed, switched>>
     ELSE \/ /\ t # configured /\ Switch(t) /\ changing' = TRUE
             /\ UNCHANGED <<initialized, lib, calls>>
          \/ /\ t = configured /\ tried' = "None" /\ changing' = TRUE
             /\ UNCHANGED <<phone, lib, transports, accounts, calls,
                            failed, switched>>
          \/ t # configured /\ Abort

-----------------------------------------------------------------------------
Destroy ==
  /\ Block
  /\ CtPjsuaDestroy /\ initialized' = FALSE /\ UNCHANGED configured

\* The library restarts its listeners, registers anew, and hangs the calls up
\* where the account says so.
IpChangeDone ==
  /\ lib = "Up" /\ changing
  /\ changing' = FALSE
  /\ calls' = IF \E a \in accounts : a.hangupCalls THEN 0 ELSE calls
  /\ UNCHANGED <<phone, lib, transports, accounts, blocks, history>>

IncomingCall ==
  /\ lib = "Up" /\ accounts # {} /\ calls < MaxCalls
  /\ calls' = calls + 1
  /\ UNCHANGED <<phone, lib, transports, accounts, changing, blocks, history>>

CallEnds ==
  /\ lib = "Up" /\ calls > 0
  /\ calls' = calls - 1
  /\ UNCHANGED <<phone, lib, transports, accounts, changing, blocks, history>>

-----------------------------------------------------------------------------
Queue ==
  \/ \E number \in Numbers, host \in Hosts : Register(number, host)
  \/ \E t \in Types : HandleIpChange(t)
  \/ Destroy

Next == Queue \/ IpChangeDone \/ IncomingCall \/ CallEnds

Spec == Init /\ [][Next]_vars

-----------------------------------------------------------------------------
(* Properties                                                              *)

PjTypes == {PjTransportType[t] : t \in TransportTypes}
Bindings == TransportIds \cup {Unbound}
AccountType ==
  [id : Seq(Parts), username : Numbers,
   registrar : [host : Hosts, transport : {"tcp", "udp", "tls"}],
   boundTo : Bindings, hangupCalls : BOOLEAN]

TypeOK ==
  /\ configured \in Types /\ initialized \in BOOLEAN
  /\ lib \in {"Down", "Up", "Aborted"}
  /\ transports \in [TransportIds -> PjTypes \cup {NoTransport}]
  /\ \A a \in accounts : a \in AccountType /\ accounts = {a}
  /\ calls \in 0 .. MaxCalls /\ changing \in BOOLEAN /\ blocks \in Nat
  /\ tried \in Types \cup {"None"}
  /\ failed \in BOOLEAN /\ switched \in BOOLEAN

\* Through registers, switches and sessions, an account bound to a transport is
\* bound to one of the type the configuration names, as long as no transport
\* failed to be created: transportId is unset then.
BoundIsConfigured ==
  ~failed => \A a \in accounts :
               a.boundTo # Unbound
                 => transports[a.boundTo] = PjTransportType[configured]

\* An account that was configured and not switched since can register: the
\* transport it is bound to, or one of the library's if it is bound to none, speaks
\* the protocol its registrar's URI names, as long as none failed to be created.  A
\* register after a switch may leave the binding and makes a new URI; a switch
\* binds the account to another protocol and leaves the URI.
RegistrarReachable ==
  ~failed /\ ~switched =>
    \A a \in accounts :
      \E id \in (IF a.boundTo = Unbound THEN TransportIds ELSE {a.boundTo}) :
        /\ transports[id] # NoTransport
        /\ ProtocolName(transports[id]) = a.registrar.transport

\* The id of the account is the address asked for, at the number's own host
\* when it has one.
AorIsAsked ==
  \A a \in accounts :
    IsAddressOf(a.id, NewUri(a.username, a.registrar.host))

\* The inductive invariant: a session that is up and created every transport it
\* tried has one of the type configured, and an account lives in a session.
AccountInSession == accounts # {} => lib # "Down"
ConfiguredIsAvailable == lib = "Up" /\ ~failed => Available(configured)
IInv ==
  /\ TypeOK /\ BoundIsConfigured /\ RegistrarReachable /\ AorIsAsked
  /\ AccountInSession /\ ConfiguredIsAvailable

\* "create new transport, if it's not yet available".
CreatesWhenMissing ==
  [][\A t \in Types :
       HandleIpChange(t) /\ accounts # {} /\ ~Available(t) /\ lib' = "Up"
         => tried' = t]_vars

\* The condition under which that holds: no transport failed to be created since
\* the session began.
NoneFailed == ~failed
=============================================================================
