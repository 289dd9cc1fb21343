# A verification model of CTSoftPhone

CTSoftPhone is an Objective-C wrapper around PJSUA for VoIP calls on iOS. Its own
code is `Source/` (about 760 lines, nearly all in `CTSoftPhone.m`); the rest of the
repository is vendored PJSIP headers and binaries, build files and an empty test
template. The modules here model the wrapper's code line by line and PJSUA by the
contract its headers state.

## The system

The wrapper is a thin layer with most of its state in globals, used by three kinds
of thread:

* **application threads** call the public methods. Almost every method puts a block on
  a serial dispatch queue through `runAsync`;
* **the queue's thread** runs the blocks one after the other. PJSUA calls back on this
  same thread when a block hangs a call up, answers it or destroys the library;
* **the PJSUA worker thread** handles the network and calls back about incoming calls,
  call and media states and registration results.

A callback tells the delegate, and the delegate may call the API again. On the queue's
thread `runAsync` then runs the new block *immediately, inside the old one*; on any
other thread it dispatches it.

| Component | State | Operations | Hard behaviour | Correct when |
|---|---|---|---|---|
| Registration session | `acc_id`, `pjsuaInitialized`, the library's life | `registerWithNumber`, `destroy`, `error_exit`, `ct_pjsua_destroy`, `ct_pjsua_deleteAccount`, `on_reg_state2` | failure at each library call, worker racing teardown, blocks nested in a teardown | the library is created only when it is down and empty, no account is lost or stale, reports match the library's state, every register is answered |
| Call control | `callId`, `ci`; the library's calls and conference bridge | `on_incoming_call`, `on_call_state`, `on_call_media_state`, `hangup`, `answercall`, `mute`, `unmute` | callbacks about two calls on two threads through one global, calls reusing slots and ports | each call is answered, heard, reported truthfully and can be hung up; a muted call stays silent |
| Shared instance | `_sharedInstance` | `sharedInstanceWithDelegate`, `sharedInstance`, `setSharedInstance` | check-then-act on several threads | all callers share one instance |
| Serial queue | the dispatch queue | `runAsync`, `inSerialQueue` | inline execution on the queue's own thread | blocks run in order, one at a time or properly nested |
| IP change | `config.transport`, transports | `handleIpChange` | unread failures, uninitialised transport id | the account uses a transport that exists |
| Thread registration | PJSIP's thread descriptors | `registerThread` | a descriptor on the stack of a function that has returned | a registered descriptor outlives its use |
| Account URIs, configuration | port, transport | string building in `registerWithNumber`, `transportDescription`, `pjTransportType`, `isIPv6` | numbers with `@`, IPv6 | the account's URI names the number and the host |
| Speaker routing | the audio session | `speakeron`, `speakeroff` | three steps on the caller's thread | the last call wins |

How they interact: the methods share the queue; registration and calls share the
library's life (teardown hangs all calls up and their callbacks reach the delegate);
class methods send every report to the delegate of whatever instance is shared at
that moment; call control and `handleIpChange` share `callId` and `acc_id`.

## The modules

**`Registration`** is the core. `stack` holds the blocks in progress on the queue's
thread, innermost last; a frame is the operation, the place it is at, and how many
calls its `hangup_all` still visits. One action per step of the code that another
thread or the delegate can come between:

| Code | Actions |
|---|---|
| `runAsync` from another thread, from the delegate on the queue's thread, the queue itself | `Request`, `RequestInline`, `Dequeue`, `DelegateReturns` |
| `registerWithNumber` up to the account | `CheckInitialized`, `CreateLibrary`, `InitLibrary`, `StartLibrary`, each of the last three able to fail into `ErrorExit` |
| the account | `AccountAdd`, `AccountModify`, `AccountRefused`, `AccountCaught` (the `@catch`) |
| `ct_pjsua_destroy`, from `error_exit` and `destroy` | `DeleteAccount`, `HangupAllOne`, `HangupAllDone`, `AccDel`, `DestroyLibrary`, `ClosingOne`, `ClosingDone`, then `Tell` |
| worker thread | `RegEvent`, `RegDeliver` (with `RegOutcome`, the test of `on_reg_state2`), `IncomingCall`, `RemoteHangup` |
| calls against PJSUA's rules | `Abort`: the process may die of them; the same call may also be refused |

The registration result is fetched and delivered in two steps, so a teardown can come
between. `pjsua_destroy` waits for the worker thread's current callback before the
library is gone, as its documentation says of stopping the worker threads.
The delegate may call the API from any callback (`RequestInline`); `nested` remembers
that it did so from inside `onCallState`. `owed` says that the library began a
registration whose result it has not reported: adding an account begins one, modifying
one may (`AccountModify`). `asked` follows the answer to the last register.

**`SessionContract`** is the abstract specification: the library session opens and
closes; Success is reported only while it is open and Destroyed only while it is
closed. `Registration` implements it under `up <- lib \notin {"Null", "Aborted"}`.

**`SerialQueue`** is the other abstract specification: what `runAsync` and the dispatch
queue promise about blocks. `Registration` implements it under
`waiting <- queue, running <- Running`, the operations of the frames on `stack`.

**`CallControl`** models the two globals `callId` and `ci`, the calls, media, ports and
bridge of the library, and `run`, what each of the two threads is doing. A thread runs
the callbacks of one call after the other (`todo`), and holds that call meanwhile
(`Held`): PJSUA locks the call's dialog, so the threads alternate on one call and
interleave on two. Each use of `ci` after a call made in between reads it again
(`OnCallState` fetches and reports in two steps, `on_call_media_state` in up to four:
`MediaInfo`, `MediaBranch`, `Listen`, `Speak`, `MediaTell`). `Answer` and `Hangup` may
fail, for `HangupAll` too, and their status is ignored as in the code. When the peer ends a call the header does not
say whether the media goes before or after the callback, so both happen; for hangup
through the API it says before. The destroy block is here too (`StartDestroy`,
`HangupAll`, `NextCall`, `CloseCall`, `CloseLibrary`, then `Register`): it waits for calls the worker
holds and for the worker itself, and leaves `callId` and `ci` to the next session as
they are. Two history variables record what the globals are not made for: `overlapped`,
that two calls had slots at once, and `crossed`, that both threads were in callbacks, or
one in a callback and the other in a mute. Next is `Step /\ Remember`, so no step
can forget them. `muted` holds the calls muted and not unmuted since, until a media
callback fetches their info anew: that callback connects the microphone again.

**`SharedInstance`** models `sharedInstanceWithDelegate` as its two synchronized steps;
`raced` remembers that two callers were between them.

**`AccountUri`** has the pure part of `registerWithNumber` and `CTSoftPhoneConfig`: the
account's address as a sequence of parts of which only `@` is special (`AccountId`),
against a reference definition (`IsAddressOf`: the URI up to a second `@`), and the
names and `pjsip_transport_type_e` numbers of the transports.

**`Account`** extends it with the life of the account and its transports. A block is one
step there: `SerialQueue` says blocks do not interleave, and `NoStaleAccount` that
between blocks `acc_id >= 0` means "there is an account". `Bring` and `Configure` are the two halves of
`registerWithNumber`, `HandleIpChange` is the method of that name, `CtPjsuaDestroy` the
function that `Destroy` and a failed register run. What the library does after
`pjsua_handle_ip_change` has returned is `IpChangeDone`, a step of its own. Two
variables of `handleIpChange` are used uninitialised in the code: the transport id when
the creation failed (`RebindUnset`: any slot, or a refusal) and the pool into which the
configuration is copied (`Rebind`: the
changed copy is accepted or not; or the process dies). `switched` remembers, accepted or
not, that the account was bound anew since its last configuration.

**`AudioRoute`** models `speakeron` and `speakeroff`, three steps of the audio session
each, on the callers' threads. **`AppThreads`** composes it with `SharedInstance`: a
thread gets the instance, then uses its speaker, while others do the same.

**`ThreadRegistration`** models `registerThread` on the threads that a serial queue borrows
from a pool, and where the descriptor of each is kept.

**Proof modules**: `Registration_proofs`, `CallControl_proofs` (what holds for any number
of calls), `Globals_proofs` (what holds of `callId` and `ci` until calls overlap or callbacks cross),
`AccountUri_proofs`, `Account_proofs`, `AppThreads_proofs`, `ThreadRegistration_proofs`,
and `LeastNumber`, a lemma the visits of `hangup_all` need.

The `MC...` modules give the constants small values. Definitions commented "Faulty
variant" stand beside the definition they vary; no specification uses them. They record
which defect each property detects. The inductive invariants of the proofs stand in the
modules they are about: `IInv` in most, `TurnsInv`, `MediaInv`, `OneInv` and `CrossInv`
in `CallControl`.

## What the runs check

| Run | Checks | Shows |
|---|---|---|
| `registration` | `TypeOK`, `IInv`, `NoStaleAccount`, `NoOrphanAccount`, `CreateOnFreshLibrary`, `ContractSpec`, `SerialSpec`, `QueueDrains`, `RegisterAnswered` | whatever the delegate nests, no account is lost, the library is created fresh, reports match it and blocks keep their order; a delegate that stays out of `onCallState` never meets a stale `acc_id` and every block ends; every register that makes the library register gets a word |
| `calls` | `TypeOK`, `HeardUnlessCrossed`, `SilentUnlessCrossed`, `CallIdServesOne`, `MuteFindsCall`, `EndToldBeforeReuse`, `RingingIsAttended`, `TeardownEnds` | two calls on two threads: media is heard and mute lasts until something crosses a callback; `callId`, the slot in `ci` and the last report serve until calls overlap; each call gets its own answer; `destroy` ends both calls and the session and does not wait for ever |
| `account` | `TypeOK`, `BoundIsConfigured`, `RegistrarReachable`, `AorIsAsked` | the account, its transport and its address fit together over registers, switches and sessions |
| `app_threads` | `LastOnesRoute`, `OneInstanceUnlessRaced` | overlapping speaker calls act in some order; only a race of test and publication makes a second instance |

These runs show where the code departs from what it, its comments or PJSUA's headers
say (each with one property that TLC violates):

| Run | Property | Departure |
|---|---|---|
| `account_before_create` | `CreateBeforeUse` | after a failed start `pjsuaInitialized` stays set, and the next register adds an account to a library that is gone |
| `teardown_nested` | `DeletesItsAccount` | a destroy that the delegate calls from `onCallState` deletes the account and the library under the teardown that made the callback, which then deletes account -1 |
| `mute_undone` | `MutedIsSilent` | a mute between lines 502 and 503 is undone by line 503: the call is heard though it was muted last |
| `active_unheard` | `ActiveMediaIsHeard` | with two calls, `ci` is overwritten between fetch and test and active media is not connected |
| `call_id_stale` | `CallIdIsLive` | `callId` keeps a call that has ended while another is up, so hangup misses it |
| `transport_missing` | `CreatesWhenMissing` | a failed creation still sets the configuration, so the next change to that transport creates nothing |
| `two_instances` | `OneInstance` | two first callers get two instances |
| `descriptor_dead` | `DescriptorLive` | the descriptor given to PJLIB is in the frame of `registerThread`, which returns |

What the passing properties say should be read with their conditions:

* `NoStaleAccount` and `QueueDrains` are stated until the delegate starts a block from
  `onCallState`. After that an outer teardown may resume on a library that the nested
  blocks closed or created, which `teardown_nested` shows.
* `RegisterAnswered` stops at a `pjsua_acc_modify` that makes the library register
  nothing: the header says only that it may, and nothing in the wrapper reports then. A
  result that was fetched before the register does not count as its answer.
* `SilentUnlessCrossed` holds until the next `on_call_media_state` of the muted call, which
  connects the microphone again: a re-INVITE undoes a mute.
* `RegistrarReachable` and `BoundIsConfigured` hold as long as no transport failed to be
  created in the session; `transport_missing` shows what happens otherwise.
  `RegistrarReachable` also ends at a switch: it binds the account to a transport of
  another protocol and leaves the registrar's URI until the next register. The header
  says that all requests of the account then use the bound transport (pjsua.h:4910-4913);
  which of the two the library follows is inside it.
* `RingingIsAttended` excepts calls whose answer the library refused: the code does not
  read the status of `pjsua_call_answer`, nor that of `pjsua_call_hangup`, and tells nobody.
* `LastOnesRoute` speaks of calls that claim success. `success` is overwritten by each
  step, so the last one decides.
* `EndToldBeforeReuse` tells callbacks apart (`told.from`), which the delegate cannot: the
  state of a call that ended is 6, and `CTSoftPhone.h` has no name for it but MediaNone.

### Bounds

* `Registration`: two account slots (a second account beside a forgotten first), two
  calls (one hung up, one arriving meanwhile), four requests (171,304 states). Four are
  enough for register, a teardown, and a register and a destroy nested in it. The proofs
  remove these bounds.
* `CallControl`: `calls` has two calls, two ports (a port comes back to the other call or
  to a new media session), three events, two blocks and the operations of all
  kinds; 745,531 states. INVITE, ACK and a re-INVITE, a BYE or a second INVITE fit, with
  two of mute, unmute, hangup, answer, destroy and register between. `Offered` has three
  media statuses: none (no port), active, and one hold (a port, not connected); the other
  two only differ in the number reported. The violating runs use only the operations of
  `CTSoftPhone.h` (`PublicOps`); `answercall` is not among them. `mute_undone` needs only
  one call, `active_unheard` and `call_id_stale` have two, with five events.
* `Account`: three transport slots, the types TCP, UDP and TCP over IPv6 (two of them the
  same protocol), one call and five blocks (140,921 states): register, switch there and
  back, destroy, register. A type more, or a slot more, repeats these. Numbers with and without
  a host of their own are registered.
* `AppThreads`: three threads, one speaker call each (292,538 states): two overlap and a
  third is before, between or after. `SharedInstance`: four callers.
* `ThreadRegistration`: two threads of the pool and three blocks; the second block is on
  the other thread.

The theorems remove these bounds.

`CHECK_DEADLOCK FALSE` is set everywhere, since an application that has made its last
call leaves the system at rest.

### Fairness

The queue's thread and the worker's pending delivery are weakly fair: the operating
system schedules both, and no code waits for the application. `RegEvent` is weakly
fair only while the library owes a result (`owed`): `pjsua_acc_add` starts a registration
session and reports how it ends, `pjsua_acc_modify` need not start one, and a
registration that the library repeats by itself may come or not. In `CallControl` the callbacks
and blocks of each thread are weakly fair; the peers and the application are under no
obligation. A block
that waits for a call can go on when the callback holding that call returns; peers act
finitely often (`MaxEvents`), so weak fairness suffices. Nothing is claimed of peers that
keep a call busy for ever. `Request`, `RequestInline` and incoming calls are never fair.

## What is proved

TLAPS proves the following for arbitrary constants, from the named assumptions of the
modules (`AccIds` a nonempty set of naturals, `Calls` a set of naturals with 0, ports
other than the device's, and the like). The set of instances may be anything without `None`.

| Theorem | Establishes |
|---|---|
| `Registration_proofs`: `SessionInvariant`, `TypeCorrect` | `Spec => []IInv`, `Spec => []TypeOK` |
| `NoOrphans`, `CreatesOnFreshLibrary` | `NoOrphanAccount` and `CreateOnFreshLibrary` always hold |
| `ImplementsContract`, `RunsSerially` | the refinements of `SessionContract` and `SerialQueue` |
| `NeverStale` | `NoStaleAccount`: until a block is started from `onCallState`, `acc_id` is live or none between blocks |
| `CreatedBeforeUse` | `Spec /\ []RegistersSucceed => []CreateBeforeUse`, for every delegate |
| `NeverAborts` | `Spec /\ []RegistersSucceed /\ []~nested => []Survives` |
| `CallControl_proofs`: `TypeInvariant`, `TypeCorrect` | types, and that a thread is only in callbacks the library makes (`FramesFit`), for any calls and ports |
| `TurnsInvariant`, `AttendedCalls` | `TurnsInv` and `RingingIsAttended`, for any calls and ports |
| `MediaInvariant` | no two calls share a port and the bridge connects none that is free (`MediaInv`) |
| `Globals_proofs`: `OneInvariant`, `MuteFindsTheCall`, `CallIdStaysLive`, `EndsAreTold` | `OneInv`, `MuteFindsCall`, `CallIdServesOne`, `EndToldBeforeReuse`: what holds until calls overlap |
| `CrossInvariant`, `ActiveIsHeard`, `MutedStaysSilent` | `CrossInv`, `HeardUnlessCrossed`, `SilentUnlessCrossed`: what holds, for any number of calls at once, until something crosses a callback |
| `AccountUri_proofs`: `AccountIdIsAddress` | for every number and host without restriction, `AccountId` is what the reference definition says |
| `Account_proofs`: `TypeCorrect`, `BoundAsConfigured`, `ReachesRegistrar`, `AddressAsAsked` | the invariants of `account` |
| `CreatesUnlessFailed` | `Spec /\ []NoneFailed => CreatesWhenMissing` |
| `AppThreads_proofs`: `LastOnesAreHeard`, `OneUnlessRaced` | `LastOnesRoute` and `OneInstanceUnlessRaced` for any threads |
| `ThreadRegistration_proofs`: `BlocksAreRegistered` | no block calls a library that is up from a thread it does not know (`BlockIsRegistered`), for any pool |

Properties that a run finds violated are proved under the condition whose failure the run
exhibits: that condition is all the code lacks for them.

| Property | Proved as long as | The counterexample |
|---|---|---|
| `CreateBeforeUse` | no register is torn down (`RegistersSucceed`) | `account_before_create` fails a start, then registers again |
| `DeletesItsAccount` | that, and no block was started from `onCallState` (`~nested`): it is one of the rules in `Survives` | `teardown_nested` nests a destroy |
| `ActiveMediaIsHeard` | nothing crossed a callback (`~crossed`) | `active_unheard` has a callback on each thread |
| `MutedIsSilent` | the same | `mute_undone` has a mute in a callback |
| `CallIdIsLive` | calls did not overlap (`~overlapped`) | `call_id_stale` has a second call come and go |
| `CreatesWhenMissing` | no transport failed (`NoneFailed`) | `transport_missing` fails one |
| `OneInstance` | no two callers were between test and publication together (`~raced`) | `two_instances` has two there |

`DescriptorLive` is left: the code does nothing that would keep the descriptor of
a second thread.

**Registration.** `CreateOnFreshLibrary` is not inductive: `pjsua_create` is reached
through `pjsuaInitialized`, so one must know that the flag is false only while the
library is down (`UninitializedIsDown`), which `destroy` must establish, so one must
know that the block about to tell Destroyed sees a library that is down (`TopBlock`),
even if it has just regained control from nested blocks. It cannot have: a block
interrupted by another always waits at a point where the delegate has control
(`Waiting`), so a block popped to is never at its last report. A library that is down
has no accounts, calls or pending result (`NullIsFresh`), because the worker has ended
before `pjsua_destroy` returns; this also carries the refinement for Success.
`NoOrphanAccount` needs only that an account is added when `acc_id` is -1, and then
there is none. `NeverStale` adds `ForgottenFirst`: interrupted blocks all wait in
`onRegistrationState`, and `acc_id` is -1 from `pjsua_acc_del` until the library is gone.
`NeverAborts` adds `UpInTeardown`: until it is deleted the account is there, and
until it is destroyed the library is. `CreatedBeforeUse` needs the converse of
`UninitializedIsDown`, that the library is up wherever the flag is set
(`InitializedIsUp`); `destroy` clears the flag after the library is gone, so its teardown
is the exception. `error_exit` runs the same teardown and does not clear the flag, and
that is what `RegistersSucceed` excludes. With all of these no step of `Abort` is enabled.
The lemmas `StackGoto`, `StackReplace`, `StackPush` and `StackPop` say what moving,
starting and ending a block does to the others; every action's step rests on them.

**Calls.** Two invariants for any calls, the second resting on the first, are preserved by
four kinds of step, to which lemma `Kinds` reduces the actions: a thread goes on without
touching a call (`Moves`), it takes a call that no other holds and changes it (`Takes`), a
slot is freed (`Frees`), the library closes. PJSUA holds the call's dialog during
its callbacks, so two threads are never in callbacks of one call (`TakeTurns`), and a slot
is not freed under one (`HeldInUse`); new media takes a free port and whatever frees a
port cuts its links, so no link is left for the port's next owner (`LinksAreOfCalls`).
`RingingIsAttended` is part of the first.

The two globals need more, and two different things. `OneInv` holds until calls
overlap: a thread in a callback is then the only one (lemma `Alone`), and the invariant
says what it owes: active media has its callback to come or its slot in `ci`
(`ActiveIsFollowed`); the live call is that of `callId` or has `on_incoming_call` to come
(`NewestIsCallId`); a call that ended was reported or is being reported, and nothing comes
after that (`EndIsFollowed`). `CrossInv` holds until something crosses a callback, for any
number of calls: a callback that connects media reads the info of its own call
(`InfoIsOwn`), no call it connects is muted (`MutedAreLeft`), and active media has a
callback to come, is being connected or is connected (`ActiveIsMinded`). Calls may
overlap there, and an unmute may come into a callback without harm: only a callback on
the other thread, as from a hangup or a teardown, or a mute matters. What the peers do decides whether calls
overlap, so both conditions are history and not invariants.

**Account.** `BoundIsConfigured` needs that a switch binds to the transport it made and
that nothing else changes the configuration; a transport stays until the session ends.
`RegistrarReachable` follows at the register that writes the URI: the bound transport has
the configured type by `BoundIsConfigured`, or there is one of that type by
`ConfiguredIsAvailable`. The latter also gives `CreatesUnlessFailed`:
where nothing failed, a type whose protocol has no transport is not the configured one, so
`handleIpChange` does not skip it. The address is a
lemma about `AccountId`, proved from the first and second `@` of the URI.

**Threads.** `LastOnesRoute` needs `LastWasHeard`: of the calls that have returned and were
not followed by another, one was heard or failed, unless a call has set its category
since and will still override it.
`OneInstanceUnlessRaced` needs `SharedOnce`: without a race at most one thread makes an
instance, while there is none. `BlocksAreRegistered` needs that a thread known to the
library stays known while it runs a block.

Only model-checked: the liveness properties (`QueueDrains`, `RegisterAnswered`,
`TeardownEnds`; the prover handles neither fairness nor ENABLED). Every invariant and
refinement of a passing run is a theorem.

## What is not modelled, and why

* PJSUA's inside: only headers and binaries are in the repository. What the wrapper
  relies on is stated by external definitions after those headers. A `ci` fetched
  by one thread is seen whole by the other; torn fields are not modelled. What the
  library does with the conference slot -1 depends on how it was built.
* A delegate that calls the API from inside a call callback, in `CallControl`. Each
  callback reports as its last statement, so nothing of the callback itself is left to go
  wrong behind a nested block; what such a block does to a teardown is in `Registration`.
* The delegate is a weak reference: a report may reach nobody. Reports are modelled as
  made, whether anyone listens or not.
* `registerThread` runs before `pj_init` in the first block; the model lets it do
  nothing there.
* The guard of `handleIpChange` on `callId` never fires, as `callId` starts as 0 and is
  never negative, so `HandleIpChange` tests the account only. The URIs keep the protocol
  of the last register after a switch (that is in `Account`); `isIPv6` is used by no
  code; the port is only in the text of the URI; what an IPv6 transport means for media is
  left out, since a register never sets `ipv6_media_use` and no property is about media addresses.
* Logging, log levels, build and packaging.

## Plan

1. Done: the session (`Registration`, `SessionContract`, `SerialQueue`), the calls and
   their teardown (`CallControl`), the account (`AccountUri`, `Account`), the application's
   threads (`SharedInstance`, `AudioRoute`, `AppThreads`), `ThreadRegistration`, and the
   proofs listed above.
2. Open: a delegate that calls the API from inside the callbacks of `CallControl` (hangup
   from `onCallState`, on either thread), which brings the `stack` of `Registration` there.
3. Open: `CallControl` and `Registration` in one module, with the real calls of the first
   under the nested teardowns of the second. Each has the other's part in small now
   (`up` and the destroy block; a count of calls); `calls` alone has 745,531 states, so
   the product needs smaller bounds or a coarser call.
4. Open: with 3, the theorems about calls under nested teardowns, from `TurnsInv` and `IInv`.
