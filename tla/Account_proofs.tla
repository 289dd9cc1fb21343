--------------------------- MODULE Account_proofs ---------------------------
(***************************************************************************)
(* What holds of Account for every set of transports, slots, numbers and   *)
(* hosts, and for any number of calls and blocks: proved from the          *)
(* inductive invariant IInv.                                               *)
(***************************************************************************)
EXTENDS Account, AccountUri_proofs

-----------------------------------------------------------------------------
(* What the blocks do                                                      *)

\* A new transport fits its slot and leaves the others alone.
LEMMA Created ==
  ASSUME TypeOK, NEW type \in Types, NEW id, TransportCreate(type, id)
  PROVE  /\ transports' \in [TransportIds -> PjTypes \cup {NoTransport}]
         /\ id \in TransportIds /\ transports'[id] = PjTransportType[type]
         /\ PjTransportType[type] # NoTransport
         /\ \A i \in TransportIds :
              transports[i] # NoTransport => transports'[i] = transports[i]
<1>1. type \in TransportTypes /\ PjTransportType[type] \in PjTypes
  BY TypesAssumption DEF PjTypes
<1>2. PjTransportType[type] # NoTransport
  BY <1>1, NamedTransportFits DEF NoTransport
<1> QED BY <1>1, <1>2 DEF TransportCreate, Free, TypeOK

\* An account made anew is one of the type, at the address asked for, and names
\* the protocol configured.
LEMMA NewAccountFits ==
  ASSUME TypeOK, NEW number \in Numbers, NEW host \in Hosts,
         NEW bound \in Bindings
  PROVE  LET a == NewAccount(number, host, bound)
         IN  /\ a \in AccountType /\ a.boundTo = bound
             /\ IsAddressOf(a.id, NewUri(a.username, a.registrar.host))
             /\ a.registrar.transport = ProtocolName(PjTransportType[configured])
<1>1. configured \in TransportTypes
  BY TypesAssumption DEF TypeOK
<1>2. /\ TransportDescription[configured] \in {"tcp", "udp", "tls"}
      /\ ProtocolName(PjTransportType[configured])
           = TransportDescription[configured]
  BY <1>1, NamedTransportFits
<1>3. number \in Seq(Parts) /\ host \in Seq(Parts) /\ {"sip:", "@"} \subseteq Parts
  BY PartsAssumption
<1>4. /\ AccountId(number, host) \in Seq(Parts)
      /\ IsAddressOf(AccountId(number, host), NewUri(number, host))
  BY <1>3, AccountIdIsAddress
<1> QED BY <1>2, <1>4 DEF NewAccount, AccountType

\* When the configured type is available, an account made anew can reach its
\* registrar.
LEMMA AvailableReaches ==
  ASSUME TypeOK, Available(configured)
  PROVE  \E id \in TransportIds :
           /\ transports[id] # NoTransport
           /\ ProtocolName(transports[id])
                = ProtocolName(PjTransportType[configured])
<1>1. PjTransportType[configured] # NoTransport
  BY TypesAssumption, NamedTransportFits DEF TypeOK, NoTransport
<1> QED BY <1>1 DEF Available

\* Handing a changed configuration to the library: the account keeps what it
\* was made of, is bound to the transport given, and counts as switched.
LEMMA Rebound ==
  ASSUME TypeOK, accounts # {}, NEW id \in Bindings, Rebind(id)
  PROVE  /\ switched' = TRUE
         /\ \A b \in accounts' :
              /\ b \in AccountType /\ accounts' = {b} /\ b.boundTo = id
              /\ \E a \in accounts : /\ b.id = a.id /\ b.username = a.username
                                     /\ b.registrar = a.registrar
<1>1. PICK a \in accounts : a \in AccountType /\ accounts = {a}
  BY DEF TypeOK
<1>2. PICK hangup \in BOOLEAN :
        accounts' = {[c EXCEPT !.boundTo = id, !.hangupCalls = hangup] : c \in accounts}
  <2>1. CASE accounts' = {[c EXCEPT !.boundTo = id, !.hangupCalls = TRUE] : c \in accounts}
    BY <2>1
  <2>2. CASE accounts' = {[c EXCEPT !.boundTo = id] : c \in accounts}
    <3>1. /\ a.hangupCalls \in BOOLEAN
          /\ [a EXCEPT !.boundTo = id, !.hangupCalls = a.hangupCalls]
               = [a EXCEPT !.boundTo = id]
      BY <1>1 DEF AccountType
    <3> QED BY <1>1, <2>2, <3>1
  <2> QED BY <2>1, <2>2 DEF Rebind
<1> DEFINE b == [a EXCEPT !.boundTo = id, !.hangupCalls = hangup]
<1>3. accounts' = {b}
  BY <1>1, <1>2
<1>4. /\ b \in AccountType /\ b.boundTo = id
      /\ b.id = a.id /\ b.username = a.username /\ b.registrar = a.registrar
  BY <1>1 DEF AccountType
<1> QED BY <1>3, <1>4 DEF Rebind

\* With every account gone the invariant holds of whatever the session left.
LEMMA SessionEnds ==
  ASSUME IInv, CtPjsuaDestroy, configured' = configured,
         initialized' \in BOOLEAN, blocks' \in Nat
  PROVE  IInv'
<1>1. TypeOK'
  <2>1. configured' \in Types /\ blocks' \in Nat /\ initialized' \in BOOLEAN
    BY DEF IInv, TypeOK
  <2>2. transports' \in [TransportIds -> PjTypes \cup {NoTransport}]
    BY DEF CtPjsuaDestroy
  <2>3. /\ lib' = "Down" /\ accounts' = {} /\ calls' = 0 /\ changing' = FALSE
        /\ tried' = "None" /\ failed' = FALSE /\ switched' = FALSE
    BY DEF CtPjsuaDestroy
  <2>4. calls' \in 0 .. MaxCalls
    BY <2>3, BoundsAssumption
  <2> QED BY <2>1, <2>2, <2>3, <2>4 DEF TypeOK
<1>2. accounts' = {} /\ lib' = "Down" /\ switched' = FALSE
  BY DEF CtPjsuaDestroy
<1> QED BY <1>1, <1>2 DEF IInv, BoundIsConfigured, RegistrarReachable,
           AorIsAsked, AccountInSession, ConfiguredIsAvailable

\* The process dead: nothing else changed.
LEMMA ProcessDies ==
  ASSUME IInv, Abort, blocks' \in Nat
  PROVE  IInv'
<1>1. TypeOK'
  BY DEF IInv, Abort, TypeOK, phone, history
<1> QED BY <1>1 DEF IInv, Abort, phone, history, BoundIsConfigured,
           RegistrarReachable, AorIsAsked, AccountInSession,
           ConfiguredIsAvailable

\* A block counts one more.
LEMMA BlockCounts ==
  ASSUME IInv, Block
  PROVE  blocks' \in Nat
BY DEF IInv, TypeOK, Block

\* Bringing the library up, or finding it up, loses no transport, and leaves one
\* of the configured type unless that could not be created.
LEMMA Brought ==
  ASSUME IInv, Bring, configured' = configured
  PROVE  /\ lib' = "Up" /\ tried' \in Types \cup {"None"}
         /\ failed' \in BOOLEAN /\ (failed => failed')
         /\ transports' \in [TransportIds -> PjTypes \cup {NoTransport}]
         /\ \A i \in TransportIds :
              transports[i] # NoTransport => transports'[i] = transports[i]
         /\ ~failed' => Available(configured)'
<1>1. TypeOK /\ ConfiguredIsAvailable
  BY DEF IInv
<1>2. CASE initialized
  BY <1>1, <1>2 DEF Bring, TypeOK, ConfiguredIsAvailable, Available
<1>3. CASE ~initialized
  <2>1. CASE \E id \in Free : TransportCreate(configured, id) /\ UNCHANGED failed
    <3>1. PICK id \in Free : TransportCreate(configured, id)
      BY <2>1
    <3>2. configured \in Types
      BY <1>1 DEF TypeOK
    <3> QED BY <1>1, <1>3, <2>1, <3>1, <3>2, Created DEF Bring, TypeOK, Available
  <2>2. CASE failed' = TRUE /\ UNCHANGED transports
    BY <1>1, <1>3, <2>2 DEF Bring, TypeOK
  <2> QED BY <1>3, <2>1, <2>2 DEF Bring
<1> QED BY <1>2, <1>3

\* Registering keeps the invariant whether the account is configured anew, an
\* exception comes in between, or a step fails.
LEMMA RegisterKeeps ==
  ASSUME IInv, NEW number \in Numbers, NEW host \in Hosts,
         Register(number, host)
  PROVE  IInv'
<1>1. blocks' \in Nat
  BY BlockCounts DEF Register
<1>2. CASE /\ Bring /\ (Configure(number, host) \/ Caught)
           /\ initialized' = TRUE
           /\ UNCHANGED <<configured, calls, changing>>
  <2>1. /\ lib' = "Up" /\ tried' \in Types \cup {"None"}
        /\ failed' \in BOOLEAN /\ (failed => failed')
        /\ transports' \in [TransportIds -> PjTypes \cup {NoTransport}]
        /\ \A i \in TransportIds :
             transports[i] # NoTransport => transports'[i] = transports[i]
        /\ ~failed' => Available(configured)'
    BY <1>2, Brought
  <2>2. /\ TypeOK /\ configured' = configured /\ configured \in TransportTypes
        /\ PjTransportType[configured] # NoTransport
    BY <1>2, TypesAssumption, NamedTransportFits DEF IInv, TypeOK, NoTransport
  <2>3. CASE Configure(number, host)
    <3>1. PICK bound \in Bindings :
            /\ accounts' = {NewAccount(number, host, bound)}
            /\ bound = Unbound \/ \E a \in accounts : a.boundTo = bound
      BY <2>2, <2>3 DEF Configure, TypeOK, AccountType, Bindings
    <3>2. PICK b \in AccountType :
            /\ b = NewAccount(number, host, bound) /\ b.boundTo = bound
            /\ IsAddressOf(b.id, NewUri(b.username, b.registrar.host))
            /\ b.registrar.transport = ProtocolName(PjTransportType[configured])
      BY <2>2, NewAccountFits
    <3>3. accounts' = {b} /\ switched' = FALSE
      BY <2>3, <3>1, <3>2 DEF Configure
    <3>4. TypeOK'
      BY <1>1, <1>2, <2>1, <2>2, <3>3 DEF TypeOK
    <3>5. BoundIsConfigured'
      <4> SUFFICES ASSUME ~failed', bound # Unbound
                   PROVE  transports'[bound] = PjTransportType[configured]
        BY <2>2, <3>2, <3>3 DEF BoundIsConfigured
      <4>1. PICK a \in accounts : a.boundTo = bound /\ bound \in TransportIds
        BY <3>1 DEF Bindings
      <4>2. transports[bound] = PjTransportType[configured]
        BY <4>1, <2>1 DEF IInv, BoundIsConfigured
      <4> QED BY <2>1, <2>2, <4>1, <4>2
    <3>6. RegistrarReachable'
      <4> SUFFICES ASSUME ~failed'
                   PROVE  \E id \in (IF bound = Unbound THEN TransportIds ELSE {bound}) :
                            transports'[id] = PjTransportType[configured]
        BY <2>2, <3>2, <3>3 DEF RegistrarReachable
      <4>1. CASE bound = Unbound
        BY <2>1, <2>2, <4>1 DEF Available
      <4>2. CASE bound # Unbound
        BY <2>2, <3>2, <3>3, <3>5, <4>2 DEF BoundIsConfigured
      <4> QED BY <4>1, <4>2
    <3> QED BY <2>1, <3>2, <3>3, <3>4, <3>5, <3>6
            DEF IInv, AorIsAsked, AccountInSession, ConfiguredIsAvailable
  <2>4. CASE Caught
    <3>1. TypeOK'
      BY <1>1, <1>2, <2>1, <2>2, <2>4 DEF TypeOK, Caught
    <3>2. BoundIsConfigured'
      <4> SUFFICES ASSUME ~failed', NEW a \in accounts, a.boundTo # Unbound
                   PROVE  transports'[a.boundTo] = PjTransportType[configured]
        BY <2>2, <2>4 DEF BoundIsConfigured, Caught
      <4>1. a.boundTo \in TransportIds
        BY <2>2 DEF TypeOK, AccountType, Bindings
      <4>2. transports[a.boundTo] = PjTransportType[configured]
        BY <2>1 DEF IInv, BoundIsConfigured
      <4> QED BY <2>1, <2>2, <4>1, <4>2
    <3>3. RegistrarReachable'
      <4> SUFFICES ASSUME ~failed', ~switched, NEW a \in accounts
                   PROVE  \E id \in (IF a.boundTo = Unbound THEN TransportIds
                                     ELSE {a.boundTo}) :
                            /\ transports'[id] # NoTransport
                            /\ ProtocolName(transports'[id]) = a.registrar.transport
        BY <2>4 DEF RegistrarReachable, Caught
      <4>1. PICK id \in (IF a.boundTo = Unbound THEN TransportIds ELSE {a.boundTo}) :
              /\ transports[id] # NoTransport
              /\ ProtocolName(transports[id]) = a.registrar.transport
        BY <2>1 DEF IInv, RegistrarReachable
      <4>2. id \in TransportIds
        BY <2>2 DEF TypeOK, AccountType, Bindings
      <4> QED BY <2>1, <4>1, <4>2
    <3> QED BY <2>1, <2>2, <2>4, <3>1, <3>2, <3>3
            DEF IInv, AorIsAsked, AccountInSession, ConfiguredIsAvailable, Caught
  <2> QED BY <1>2, <2>3, <2>4
<1>3. CASE CtPjsuaDestroy /\ initialized' = TRUE /\ UNCHANGED configured
  BY <1>1, <1>3, SessionEnds
<1>4. CASE initialized /\ lib = "Down" /\ Abort
  BY <1>1, <1>4, ProcessDies
<1> QED BY <1>2, <1>3, <1>4 DEF Register

\* A switch keeps the invariant, with its transport created or not.
LEMMA SwitchKeeps ==
  ASSUME IInv, NEW t \in Types, accounts # {}, Switch(t),
         UNCHANGED <<initialized, lib, calls>>, changing' = TRUE, blocks' \in Nat
  PROVE  IInv'
<1>1. TypeOK /\ AorIsAsked /\ AccountInSession
  BY DEF IInv
<1>2. PICK id \in Bindings :
        /\ Rebind(id)
        /\ transports' \in [TransportIds -> PjTypes \cup {NoTransport}]
        /\ failed' \in BOOLEAN
        /\ ~failed' => /\ ~failed /\ id \in TransportIds
                       /\ transports'[id] = PjTransportType[t]
                       /\ \A i \in TransportIds :
                            transports[i] # NoTransport
                              => transports'[i] = transports[i]
  <2>1. CASE \E id \in Free : /\ TransportCreate(t, id) /\ UNCHANGED failed
                              /\ Rebind(id)
    <3>1. PICK id \in Free : /\ TransportCreate(t, id) /\ UNCHANGED failed
                             /\ Rebind(id)
      BY <2>1
    <3>2. failed \in BOOLEAN
      BY <1>1 DEF TypeOK
    <3> QED BY <1>1, <3>1, <3>2, Created DEF Bindings
  <2>2. CASE failed' = TRUE /\ UNCHANGED transports /\ RebindUnset
    <3>1. PICK id \in Bindings : Rebind(id)
      BY <1>1, <2>2 DEF RebindUnset, Bindings, TypeOK, AccountType
    <3> QED BY <1>1, <2>2, <3>1 DEF TypeOK
  <2> QED BY <2>1, <2>2 DEF Switch
<1>3. /\ switched' = TRUE
      /\ \A b \in accounts' :
           /\ b \in AccountType /\ accounts' = {b} /\ b.boundTo = id
           /\ \E a \in accounts : /\ b.id = a.id /\ b.username = a.username
                                  /\ b.registrar = a.registrar
  BY <1>1, <1>2, Rebound
<1>4. configured' = t /\ tried' = t
  BY DEF Switch
<1>5. TypeOK'
  BY <1>1, <1>2, <1>3, <1>4 DEF TypeOK
<1>6. BoundIsConfigured'
  BY <1>2, <1>3, <1>4 DEF BoundIsConfigured
<1>7. RegistrarReachable'
  BY <1>3 DEF RegistrarReachable
<1>8. AorIsAsked'
  <2> SUFFICES ASSUME NEW b \in accounts'
               PROVE  IsAddressOf(b.id, NewUri(b.username, b.registrar.host))
    BY DEF AorIsAsked
  <2>1. PICK a \in accounts : /\ b.id = a.id /\ b.username = a.username
                              /\ b.registrar = a.registrar
    BY <1>3
  <2>2. IsAddressOf(a.id, NewUri(a.username, a.registrar.host))
    BY <1>1 DEF AorIsAsked
  <2> QED BY <2>1, <2>2
<1>9. AccountInSession'
  BY <1>1 DEF AccountInSession
<1>10. ConfiguredIsAvailable'
  BY <1>2, <1>4 DEF ConfiguredIsAvailable, Available
<1> QED BY <1>3, <1>5, <1>6, <1>7, <1>8, <1>9, <1>10 DEF IInv

\* So does every IP change, with no account, another transport or the same one.
LEMMA HandleIpChangeKeeps ==
  ASSUME IInv, NEW t \in Types, HandleIpChange(t)
  PROVE  IInv'
<1>1. blocks' \in Nat
  BY BlockCounts DEF HandleIpChange
<1>2. CASE /\ tried' = "None"
           /\ UNCHANGED <<phone, lib, transports, accounts, calls,
                          failed, switched>>
           /\ changing' \in BOOLEAN
  <2>1. TypeOK'
    BY <1>1, <1>2 DEF IInv, TypeOK, phone
  <2> QED BY <1>2, <2>1
          DEF IInv, phone, BoundIsConfigured, RegistrarReachable, AorIsAsked,
              AccountInSession, ConfiguredIsAvailable, Available
<1>3. CASE /\ accounts # {} /\ Switch(t) /\ changing' = TRUE
           /\ UNCHANGED <<initialized, lib, calls>>
  BY <1>1, <1>3, SwitchKeeps
<1>4. CASE Abort
  BY <1>1, <1>4, ProcessDies
<1>5. changing \in BOOLEAN
  BY DEF IInv, TypeOK
<1> QED BY <1>2, <1>3, <1>4, <1>5 DEF HandleIpChange, pjsua

\* What the library does between the blocks touches only the calls and the IP
\* change it has to finish.
LEMMA LibraryKeeps ==
  ASSUME IInv, IpChangeDone \/ IncomingCall \/ CallEnds
  PROVE  IInv'
<1>1. calls' \in 0 .. MaxCalls /\ changing' \in BOOLEAN
  <2>1. MaxCalls \in Nat /\ calls \in 0 .. MaxCalls /\ changing \in BOOLEAN
    BY BoundsAssumption DEF IInv, TypeOK
  <2>2. CASE IpChangeDone
    <3>1. changing' = FALSE /\ (calls' = 0 \/ calls' = calls)
      BY <2>2 DEF IpChangeDone
    <3>2. 0 \in 0 .. MaxCalls
      BY <2>1
    <3> QED BY <2>1, <3>1, <3>2
  <2>3. CASE IncomingCall
    <3>1. calls' = calls + 1 /\ calls < MaxCalls /\ changing' = changing
      BY <2>3 DEF IncomingCall
    <3> QED BY <2>1, <3>1
  <2>4. CASE CallEnds
    <3>1. calls' = calls - 1 /\ calls > 0 /\ changing' = changing
      BY <2>4 DEF CallEnds
    <3> QED BY <2>1, <3>1
  <2> QED BY <2>2, <2>3, <2>4
<1>2. UNCHANGED <<phone, lib, transports, accounts, blocks, history>>
  BY DEF IpChangeDone, IncomingCall, CallEnds
<1>3. TypeOK'
  BY <1>1, <1>2 DEF IInv, TypeOK, phone, history
<1> QED BY <1>2, <1>3
        DEF IInv, phone, history, BoundIsConfigured, RegistrarReachable,
            AorIsAsked, AccountInSession, ConfiguredIsAvailable, Available

-----------------------------------------------------------------------------
(* The theorems                                                            *)

\* The initial state has no account and no session.
LEMMA InitInv == Init => IInv
<1> SUFFICES ASSUME Init
             PROVE  IInv
  OBVIOUS
<1>1. TypeOK
  <2>1. transports \in [TransportIds -> PjTypes \cup {NoTransport}]
    BY DEF Init
  <2>2. calls \in 0 .. MaxCalls /\ blocks \in Nat
    BY BoundsAssumption DEF Init
  <2> QED BY <2>1, <2>2 DEF Init, TypeOK
<1> QED BY <1>1 DEF Init, IInv, BoundIsConfigured, RegistrarReachable,
           AorIsAsked, AccountInSession, ConfiguredIsAvailable

\* Every step keeps the invariant.
LEMMA NextInv == IInv /\ [Next]_vars => IInv'
<1> SUFFICES ASSUME IInv, [Next]_vars
             PROVE  IInv'
  OBVIOUS
<1>1. ASSUME NEW number \in Numbers, NEW host \in Hosts, Register(number, host)
      PROVE  IInv'
  BY <1>1, RegisterKeeps
<1>2. ASSUME NEW t \in Types, HandleIpChange(t)
      PROVE  IInv'
  BY <1>2, HandleIpChangeKeeps
<1>3. CASE Destroy
  BY <1>3, BlockCounts, SessionEnds DEF Destroy
<1>4. CASE IpChangeDone \/ IncomingCall \/ CallEnds
  BY <1>4, LibraryKeeps
<1>5. CASE UNCHANGED vars
  <2>1. TypeOK'
    BY <1>5 DEF vars, IInv, TypeOK, phone, pjsua, history
  <2> QED BY <1>5, <2>1
          DEF vars, IInv, phone, pjsua, history, BoundIsConfigured,
              RegistrarReachable, AorIsAsked, AccountInSession,
              ConfiguredIsAvailable, Available
<1> QED BY <1>1, <1>2, <1>3, <1>4, <1>5 DEF Next, Queue

\* For any transports, slots, numbers and hosts the parts of IInv hold at every
\* step: the inductive invariant.
THEOREM AccountInvariant == Spec => []IInv
BY InitInv, NextInv, PTL DEF Spec

\* Every variable of Account keeps its type, and acc_id names at most one
\* account.
THEOREM TypeCorrect == Spec => []TypeOK
<1>1. IInv => TypeOK
  BY DEF IInv
<1> QED BY <1>1, AccountInvariant, PTL

\* handleIpChange and registerWithNumber never leave an account bound to a
\* transport of another type than the one configured, unless a transport could
\* not be created.
THEOREM BoundAsConfigured == Spec => []BoundIsConfigured
<1>1. IInv => BoundIsConfigured
  BY DEF IInv
<1> QED BY <1>1, AccountInvariant, PTL

\* An account configured and not switched since is bound to a transport of the
\* protocol its registrar's URI names, or the library has one, unless one could
\* not be created.
THEOREM ReachesRegistrar == Spec => []RegistrarReachable
<1>1. IInv => RegistrarReachable
  BY DEF IInv
<1> QED BY <1>1, AccountInvariant, PTL

\* The account's id is the address asked for, whatever the number and the host.
THEOREM AddressAsAsked == Spec => []AorIsAsked
<1>1. IInv => AorIsAsked
  BY DEF IInv
<1> QED BY <1>1, AccountInvariant, PTL

\* A transport that could not be created is the only way to an IP change that
\* finds its protocol configured and its transport missing: as long as none
\* failed, handleIpChange creates every transport that is not yet available.
THEOREM CreatesUnlessFailed == Spec /\ []NoneFailed => CreatesWhenMissing
<1>1. IInv /\ NoneFailed /\ [Next]_vars
        => [\A t \in Types :
              HandleIpChange(t) /\ accounts # {} /\ ~Available(t) /\ lib' = "Up"
                => tried' = t]_vars
  <2> SUFFICES ASSUME IInv, NoneFailed, NEW t \in Types, HandleIpChange(t),
                      accounts # {}, ~Available(t), lib' = "Up"
               PROVE  tried' = t
    OBVIOUS
  <2>1. CASE Abort
    BY <2>1 DEF Abort
  <2>2. CASE t # configured /\ Switch(t)
    BY <2>2 DEF Switch
  <2>3. CASE t = configured /\ lib' = lib
    BY <2>3 DEF IInv, ConfiguredIsAvailable, NoneFailed
  <2> QED BY <2>1, <2>2, <2>3 DEF HandleIpChange
<1> QED BY <1>1, AccountInvariant, PTL DEF Spec, CreatesWhenMissing
=============================================================================
