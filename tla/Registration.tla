---------------------------- MODULE Registration ----------------------------
(***************************************************************************)
(* The registration session of CTSoftPhone: the blocks that                *)
(* registerWithNumber and destroy put on the serial queue, the account     *)
(* they keep in acc_id, and the PJSUA worker thread that reports           *)
(* registration results and calls to them.                                 *)
(*                                                                         *)
(* A block runs on the queue's thread.  PJSUA calls back on that same      *)
(* thread while it hangs calls up, and the delegate told by a callback may *)
(* call the API again: runAsync then runs the new block at once, inside    *)
(* the old one.  `stack' holds the blocks in progress, innermost last.     *)
(***************************************************************************)
EXTENDS Integers, Sequences

CONSTANTS
  AccIds,      \* account slots of the library
  MaxCalls,    \* pjsua_config.max_calls
  MaxRequests  \* bound: API calls the application makes

Ops == {"register", "destroy"}

ASSUME AccIdsAssumption == AccIds # {} /\ AccIds \subseteq Nat
ASSUME BoundsAssumption == MaxCalls \in Nat /\ MaxRequests \in Nat

VARIABLES
  initialized, \* pjsuaInitialized of the shared instance
  accId,       \* the static acc_id
  queue,       \* blocks dispatched and not started
  stack,       \* blocks running on the queue's thread
  told,        \* last registration state the delegate was given
  lib,         \* state of the library
  accounts,    \* accounts the library holds
  calls,       \* number of live calls in the library
  worker,      \* result the worker thread is about to report, or "Idle"
  owed,        \* the library began a registration it has not reported
  requests,    \* API calls made so far
  asked,       \* history: how far the answer to the last register has come
  nested       \* history: a block was started from inside onCallState

phone == <<initialized, accId, told>>
pjsua == <<lib, accounts, calls, worker, owed>>
past == <<asked, nested>>
vars == <<phone, pjsua, queue, stack, requests, past>>

NoAcc == -1
Results == {"Success", "Fail"}

(***************************************************************************)
(* Where a block can be.  The delegate has control in the last three.      *)
(***************************************************************************)
Upcalls == {"InHangup", "InClosing", "Told"}
Places == {"Check", "Create", "Init", "Start", "Account", "Caught",
           "Delete", "HangupAll", "AccDel", "Destroy", "Closing", "Tell"}
            \cup Upcalls

\* The library's own states that matter; "Aborted" is the process dead of a
\* call made against the library's rules.
LibStates == {"Null", "Created", "Init", "Running", "Closing", "Aborted"}

(***************************************************************************)
(* The answer to a register: its block runs ("Block"), the library owes a  *)
(* result ("Owed"), the worker holds one ("Result").  After a modify that  *)
(* registers nothing none need come ("Silent").                            *)
(***************************************************************************)
Answers == {"No", "Block", "Owed", "Silent", "Result"}

Entry(op) == IF op = "register" THEN "Check" ELSE "Delete"

Top == stack[Len(stack)]
At(place) == stack # <<>> /\ Top.at = place
Goto(place) == stack' = [stack EXCEPT ![Len(stack)].at = place]
Push(op) == stack' = Append(stack, [op |-> op, at |-> Entry(op), left |-> 0])
Pop == stack' = SubSeq(stack, 1, Len(stack) - 1)

Init ==
  /\ initialized = FALSE /\ accId = NoAcc /\ told = "None"
  /\ queue = <<>> /\ stack = <<>>
  /\ lib = "Null" /\ accounts = {} /\ calls = 0 /\ worker = "Idle"
  /\ owed = FALSE /\ requests = 0 /\ asked = "No" /\ nested = FALSE

-----------------------------------------------------------------------------
(* runAsync                                                                *)

\* Called from any thread but the queue's: the block is dispatched.
Request(op) ==
  /\ requests < MaxRequests
  /\ requests' = requests + 1
  /\ queue' = Append(queue, op)
  /\ UNCHANGED <<phone, pjsua, stack, past>>

\* Called by the delegate on the queue's own thread: the block runs inside the
\* one that called the delegate.
RequestInline(op) ==
  /\ requests < MaxRequests
  /\ \E place \in Upcalls : At(place)
  /\ nested' = (nested \/ ~At("Told"))
  /\ requests' = requests + 1
  /\ Push(op)
  /\ UNCHANGED <<phone, pjsua, queue, asked>>

\* Faulty variant: a concurrent queue.
DequeueConcurrent ==
  /\ queue # <<>>
  /\ Push(Head(queue))
  /\ queue' = Tail(queue)
  /\ UNCHANGED <<phone, pjsua, requests, past>>

Dequeue ==
  /\ stack = <<>> /\ queue # <<>>
  /\ Push(Head(queue))
  /\ queue' = Tail(queue)
  /\ UNCHANGED <<phone, pjsua, requests, past>>

\* The delegate returns; a block has nothing left to do after its last report.
DelegateReturns ==
  /\ \/ At("InHangup") /\ Goto("HangupAll")
     \/ At("InClosing") /\ Goto("Closing")
     \/ At("Told") /\ Pop
  /\ UNCHANGED <<phone, pjsua, queue, requests, past>>

-----------------------------------------------------------------------------
(* registerWithNumber                                                      *)

\* Faulty variant: the flag is set only where the library has started.
CheckInitializedLate ==
  /\ At("Check")
  /\ Goto(IF initialized THEN "Account" ELSE "Create")
  /\ asked' = "Block"
  /\ UNCHANGED <<phone, pjsua, queue, requests, nested>>

CheckInitialized ==
  /\ At("Check")
  /\ initialized' = TRUE
  /\ Goto(IF initialized THEN "Account" ELSE "Create")
  /\ asked' = "Block"
  /\ UNCHANGED <<accId, told, pjsua, queue, requests, nested>>

\* error_exit tears the session down; pjsuaInitialized stays set.
ErrorExit == Goto("Delete")

\* pjsua_create, pjsua_init, pjsua_start: each succeeds or sends the block to
\* error_exit.  The status of pjsua_transport_create is overwritten unread.
Bring(from, to, next) ==
  /\ At(from)
  /\ \/ lib' = to /\ Goto(next)
     \/ UNCHANGED lib /\ ErrorExit
  /\ UNCHANGED <<phone, accounts, calls, worker, owed, queue, requests, past>>

CreateLibrary == Bring("Create", "Created", "Init")
InitLibrary   == Bring("Init", "Init", "Start")
StartLibrary  == Bring("Start", "Running", "Account")

\* Faulty variant: @catch only logs, as that of handleIpChange does.
AccountCaughtSilently ==
  /\ At("Account")
  /\ Pop
  /\ UNCHANGED <<phone, pjsua, queue, requests, past>>

\* Building the URIs throws on a nil argument; only @catch reports.
AccountCaught ==
  /\ At("Account")
  /\ Goto("Caught")
  /\ UNCHANGED <<phone, pjsua, queue, requests, past>>

AccountAdd ==
  /\ At("Account") /\ accId = NoAcc
  /\ lib \in {"Running", "Closing"}
  /\ \E a \in AccIds \ accounts :
       accounts' = accounts \cup {a} /\ accId' = a
  /\ owed' = TRUE /\ asked' = "Owed"
  /\ Pop
  /\ UNCHANGED <<initialized, told, lib, calls, worker, queue, requests, nested>>

\* pjsua_acc_modify "may trigger" a registration: of settings it knows it need
\* not.
AccountModify ==
  /\ At("Account") /\ accId \in accounts
  /\ owed' \in {owed, TRUE}
  /\ asked' = IF owed' THEN "Owed" ELSE "Silent"
  /\ Pop
  /\ UNCHANGED <<phone, lib, accounts, calls, worker, queue, requests, nested>>

\* Faulty variant: a refused account is tried again.
AccountRefusedRetries ==
  /\ At("Account")
  /\ Goto("Check")
  /\ UNCHANGED <<phone, pjsua, queue, requests, past>>

AccountRefused ==
  /\ At("Account")
  /\ ErrorExit
  /\ UNCHANGED <<phone, pjsua, queue, requests, past>>

-----------------------------------------------------------------------------
(* ct_pjsua_destroy and what follows it                                    *)

\* Faulty variants: one call too few is hung up; without an account the library
\* is left running.
DeleteAccountShort ==
  /\ At("Delete")
  /\ IF accId = NoAcc
     THEN Goto("Destroy")
     ELSE stack' = [stack EXCEPT ![Len(stack)] =
                      [Top EXCEPT !.at = "HangupAll", !.left = calls - 1]]
  /\ UNCHANGED <<phone, pjsua, queue, requests, past>>

DeleteAccountReturns ==
  /\ At("Delete")
  /\ IF accId = NoAcc
     THEN Goto("Tell")
     ELSE stack' = [stack EXCEPT ![Len(stack)] =
                      [Top EXCEPT !.at = "HangupAll", !.left = calls]]
  /\ UNCHANGED <<phone, pjsua, queue, requests, past>>

\* `left': pjsua_call_hangup_all visits the call slots once.
DeleteAccount ==
  /\ At("Delete")
  /\ IF accId = NoAcc
     THEN Goto("Destroy")
     ELSE stack' = [stack EXCEPT ![Len(stack)] =
                      [Top EXCEPT !.at = "HangupAll", !.left = calls]]
  /\ UNCHANGED <<phone, pjsua, queue, requests, past>>

\* Hanging a call up calls on_call_state on this thread before it returns.
HangupAllOne ==
  /\ At("HangupAll") /\ Top.left > 0 /\ calls > 0
  /\ calls' = calls - 1
  /\ stack' = [stack EXCEPT ![Len(stack)] =
                  [Top EXCEPT !.at = "InHangup", !.left = Top.left - 1]]
  /\ UNCHANGED <<phone, lib, accounts, worker, owed, queue, requests, past>>

HangupAllDone ==
  /\ At("HangupAll") /\ (Top.left = 0 \/ calls = 0)
  /\ Goto("AccDel")
  /\ UNCHANGED <<phone, pjsua, queue, requests, past>>

\* Faulty variants: acc_id keeps its value; the account is not deleted.
AccDelKeepsId ==
  /\ At("AccDel")
  /\ accounts' = accounts \ {accId} /\ owed' = FALSE
  /\ Goto("Destroy")
  /\ UNCHANGED <<phone, lib, calls, worker, queue, requests, past>>

AccDelForgets ==
  /\ At("AccDel")
  /\ accId' = NoAcc
  /\ Goto("Destroy")
  /\ UNCHANGED <<initialized, told, pjsua, queue, requests, past>>

\* acc_id is read again here: nothing keeps what DeleteAccount tested.
AccDel ==
  /\ At("AccDel")
  /\ accounts' = accounts \ {accId} /\ owed' = FALSE
  /\ accId' = NoAcc
  /\ Goto("Destroy")
  /\ UNCHANGED <<initialized, told, lib, calls, worker, queue, requests, past>>

\* Faulty variant: the end of the worker thread is not waited for.
DestroyLibraryHastily ==
  /\ At("Destroy")
  /\ lib' = IF lib = "Null" THEN "Null" ELSE "Closing"
  /\ Goto("Tell")
  /\ UNCHANGED <<phone, accounts, calls, worker, owed, queue, requests, past>>

\* pjsua_destroy tells the worker thread to quit, so it starts nothing more;
\* without a library it does nothing.
DestroyLibrary ==
  /\ At("Destroy")
  /\ IF lib = "Null"
     THEN UNCHANGED lib /\ Goto("Tell")
     ELSE lib' = "Closing" /\ Goto("Closing")
  /\ UNCHANGED <<phone, accounts, calls, worker, owed, queue, requests, past>>

\* Once the worker has ended, pjsua_destroy hangs up the calls that are left.
ClosingOne ==
  /\ At("Closing") /\ calls > 0 /\ worker = "Idle"
  /\ calls' = calls - 1
  /\ Goto("InClosing")
  /\ UNCHANGED <<phone, lib, accounts, worker, owed, queue, requests, past>>

ClosingDone ==
  /\ At("Closing") /\ calls = 0 /\ worker = "Idle"
  /\ lib' = "Null" /\ accounts' = {} /\ owed' = FALSE
  /\ Goto("Tell")
  /\ UNCHANGED <<phone, calls, worker, queue, requests, past>>

\* A failed register reports Fail; destroy clears pjsuaInitialized and reports
\* Destroyed.
Tell ==
  /\ At("Tell") \/ At("Caught")
  /\ IF Top.op = "destroy"
     THEN initialized' = FALSE /\ told' = "Destroyed"
     ELSE UNCHANGED initialized /\ told' = "Fail"
  /\ asked' = "No"
  /\ Goto("Told")
  /\ UNCHANGED <<accId, pjsua, queue, requests, nested>>

-----------------------------------------------------------------------------
(* The library breaks when it is used against its rules                    *)

\* An account added before pjsua_create, or modified when it does not exist.
BadAccountCall ==
  At("Account") /\ (lib = "Null" \/ accId \notin accounts \cup {NoAcc})

\* pjsua_acc_del of an account that does not exist.
BadAccDel == At("AccDel") /\ accId \notin accounts

\* The library was destroyed inside one of its own calls on this thread.
DestroyedUnderfoot ==
  \/ At("HangupAll") /\ lib = "Null"
  \/ At("Closing") /\ lib # "Closing"

Abort ==
  /\ BadAccountCall \/ BadAccDel \/ DestroyedUnderfoot
  /\ lib' = "Aborted"
  /\ UNCHANGED <<phone, accounts, calls, worker, owed, queue, stack, requests, past>>

-----------------------------------------------------------------------------
(* The PJSUA worker thread                                                 *)

\* on_reg_state2: the parameters of the registration callback.
RegInfos == [ok : BOOLEAN, class : {2, 4}, expires : {0, 60}, contacts : {0, 1}]

RegOutcome(info) ==
  IF info.ok /\ info.class = 2 /\ info.expires > 0 /\ info.contacts > 0
  THEN "Success" ELSE "Fail"

\* The result of a registration owed, or of one the library repeats itself.
RegEvent ==
  /\ lib = "Running" /\ accounts # {} /\ worker = "Idle"
  /\ \E info \in RegInfos : worker' = RegOutcome(info)
  /\ owed' = FALSE
  /\ asked' = IF asked \in {"Owed", "Silent"} THEN "Result" ELSE asked
  /\ UNCHANGED <<phone, lib, accounts, calls, queue, stack, requests, nested>>

\* A result older than the last register answers nothing.
RegDeliver ==
  /\ worker # "Idle"
  /\ told' = worker
  /\ worker' = "Idle"
  /\ asked' = IF asked = "Result" THEN "No" ELSE asked
  /\ UNCHANGED <<initialized, accId, lib, accounts, calls, owed, queue, stack,
                 requests, nested>>

IncomingCall ==
  /\ lib = "Running" /\ accounts # {} /\ worker = "Idle"
  /\ calls < MaxCalls
  /\ calls' = calls + 1
  /\ UNCHANGED <<phone, lib, accounts, worker, owed, queue, stack, requests, past>>

RemoteHangup ==
  /\ lib = "Running" /\ worker = "Idle"
  /\ calls > 0
  /\ calls' = calls - 1
  /\ UNCHANGED <<phone, lib, accounts, worker, owed, queue, stack, requests, past>>

-----------------------------------------------------------------------------
RegisterStep ==
  \/ CheckInitialized \/ CreateLibrary \/ InitLibrary \/ StartLibrary
  \/ AccountCaught \/ AccountAdd \/ AccountModify \/ AccountRefused

TeardownStep ==
  \/ DeleteAccount \/ HangupAllOne \/ HangupAllDone \/ AccDel
  \/ DestroyLibrary \/ ClosingOne \/ ClosingDone \/ Tell

QueueThread ==
  /\ lib # "Aborted"
  /\ Dequeue \/ RegisterStep \/ TeardownStep \/ DelegateReturns \/ Abort

WorkerThread ==
  /\ lib # "Aborted"
  /\ RegEvent \/ RegDeliver \/ IncomingCall \/ RemoteHangup

Application ==
  /\ lib # "Aborted"
  /\ \E op \in Ops : Request(op) \/ RequestInline(op)

Next == QueueThread \/ WorkerThread \/ Application

\* The queue's thread and the worker run, and the library ends a registration
\* it began; it need not begin one, nor the application do anything.
Fairness ==
  /\ WF_vars(QueueThread)
  /\ WF_vars(lib # "Aborted" /\ owed /\ RegEvent)
  /\ WF_vars(lib # "Aborted" /\ RegDeliver)

Spec == Init /\ [][Next]_vars /\ Fairness

-----------------------------------------------------------------------------
(* Properties                                                              *)

TypeOK ==
  /\ initialized \in BOOLEAN /\ accId \in AccIds \cup {NoAcc}
  /\ told \in Results \cup {"None", "Destroyed"}
  /\ queue \in Seq(Ops)
  /\ stack \in Seq([op : Ops, at : Places, left : Nat])
  /\ lib \in LibStates /\ accounts \subseteq AccIds
  /\ calls \in Nat /\ worker \in Results \cup {"Idle"}
  /\ owed \in BOOLEAN /\ requests \in Nat
  /\ asked \in Answers /\ nested \in BOOLEAN

\* The library never holds an account the phone has forgotten: whatever
\* operations the delegate runs inside a teardown, acc_id names every account
\* there is, so the next teardown deletes it.
NoOrphanAccount == accounts \subseteq {accId}

\* pjsua_create is only called with no library in place: pjsuaInitialized is
\* false only after a teardown that left no session, call, account or report
\* in progress behind.
CreateOnFreshLibrary ==
  At("Create") => /\ lib = "Null" /\ accounts = {}
                  /\ calls = 0 /\ worker = "Idle"

\* Between blocks acc_id is never stale: it names an account of the library or
\* none, as long as the delegate has started no block from inside onCallState.
NoStaleAccount ==
  ~nested /\ stack = <<>> /\ lib # "Aborted" => accId \in accounts \cup {NoAcc}

\* The delegate is told what SessionContract promises.
Contract == INSTANCE SessionContract WITH up <- lib \notin {"Null", "Aborted"}
ContractSpec == Contract!Spec

\* Blocks run one at a time in the order of their calls, nested ones inside the
\* block that called the delegate.
Running == [i \in 1 .. Len(stack) |-> stack[i].op]
Serial == INSTANCE SerialQueue
            WITH Blocks <- Ops, waiting <- queue, running <- Running
SerialSpec == Serial!Spec

\* Every block gets its turn and finishes, however calls and registration events
\* interleave with it, unless the delegate starts blocks from onCallState: those
\* bring the library up again under a teardown, which may then find ever new
\* calls to hang up.
QueueDrains ==
  (queue # <<>>) ~> ((queue = <<>> /\ stack = <<>>) \/ nested \/ lib = "Aborted")

\* A register is answered by some word to the delegate from @catch, error_exit,
\* a destroy that overtakes it or on_reg_state2 with a result that came after it,
\* unless it only modified an account and the library registers nothing anew.
RegisterAnswered ==
  asked \in {"Block", "Owed", "Result"} ~> asked \in {"No", "Silent"} \/ lib = "Aborted"

\* Where the innermost block is tells what the library and pjsuaInitialized
\* must look like, and the blocks it interrupted all wait for the delegate.
InterruptedAt(places) == \A i \in 1 .. Len(stack) - 1 : stack[i].at \in places
Waiting == InterruptedAt(Upcalls)
Bringing == \E place \in {"Create", "Init", "Start"} : At(place)
TopBlock ==
  /\ Bringing => initialized
  /\ Bringing \/ At("Check") \/ At("Account") \/ At("Caught") => Top.op = "register"
  /\ At("Create") \/ At("Tell") => lib = "Null"
NullIsFresh == lib = "Null" => accounts = {} /\ calls = 0 /\ worker = "Idle"
UninitializedIsDown == ~initialized => lib \in {"Null", "Aborted"}

\* The inductive invariant: pjsuaInitialized is false only while no library is
\* up, a library that is down has nothing left in it, acc_id names every
\* account, and Destroyed is said only where the library is down.
IInv ==
  /\ TypeOK /\ NoOrphanAccount
  /\ Waiting /\ TopBlock /\ NullIsFresh /\ UninitializedIsDown

\* What keeps acc_id from going stale while the delegate starts nothing inside
\* a teardown: the account is forgotten before the library drops it.
ForgottenFirst ==
  ~nested =>
    /\ InterruptedAt({"Told"})
    /\ accId \in accounts \cup {NoAcc}
    /\ At("Destroy") \/ At("Closing") \/ At("InClosing") => accId = NoAcc

\* The account is there until it is deleted, and the library until it is
\* destroyed.
UpInTeardown ==
  ~nested =>
    /\ At("HangupAll") \/ At("InHangup") \/ At("AccDel") => accId \in accounts
    /\ At("Closing") \/ At("InClosing") => lib = "Closing"

\* pjsua_acc_del is given the "Id of the account to be deleted": a teardown
\* never asks for the deletion of an account the library does not hold.
DeletesItsAccount == ~BadAccDel

\* "Application must call this function before calling any other functions":
\* no account call reaches a library that was not created.
CreateBeforeUse == At("Account") => lib # "Null"

\* The condition under which CreateBeforeUse holds: no register goes through
\* error_exit, which destroys the library and leaves pjsuaInitialized set.
RegistersSucceed ==
  \A i \in 1 .. Len(stack) :
    stack[i].op = "register" =>
      stack[i].at \in {"Check", "Create", "Init", "Start", "Account", "Caught", "Told"}

\* No rule of the library was broken.
Survives == lib # "Aborted"

\* Under RegistersSucceed pjsuaInitialized tells that the library is up, but
\* while a block is about to create it or has just destroyed it.
InitializedIsUp ==
  /\ initialized => lib # "Null" \/ At("Create") \/ At("Tell")
  /\ At("Account") => initialized
=============================================================================
