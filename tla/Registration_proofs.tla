------------------------ MODULE Registration_proofs ------------------------
(***************************************************************************)
(* What holds of Registration for every number of accounts, calls and      *)
(* requests, and whatever the delegate does inside onCallState: proved     *)
(* from the inductive invariant IInv.                                      *)
(***************************************************************************)
EXTENDS Registration, SequenceTheorems, TLAPS

Frames == [op : Ops, at : Places, left : Nat]

-----------------------------------------------------------------------------
(* The stack of blocks                                                     *)

\* Replacing the last element leaves the others alone.
LEMMA ReplaceTop ==
  ASSUME NEW s \in Seq(Frames), s # <<>>, NEW f \in Frames,
         NEW t, t = [s EXCEPT ![Len(s)] = f]
  PROVE  /\ t \in Seq(Frames) /\ t # <<>> /\ Len(t) = Len(s)
         /\ t[Len(t)] = f
         /\ \A i \in 1 .. Len(s) - 1 : t[i] = s[i]
<1>1. Len(s) \in Nat \ {0} /\ Len(s) \in 1 .. Len(s)
  BY EmptySeq
<1>2. /\ t \in Seq(Frames) /\ Len(t) = Len(s)
      /\ \A j \in 1 .. Len(s) : t[j] = IF j = Len(s) THEN f ELSE s[j]
  BY <1>1, ExceptSeq
<1>3. t # <<>>
  BY <1>1, <1>2, EmptySeq
<1>4. ASSUME NEW i \in 1 .. Len(s) - 1
      PROVE  t[i] = s[i]
  <2>1. i \in 1 .. Len(s) /\ i # Len(s)
    BY <1>1
  <2> QED BY <2>1, <1>2
<1>5. t[Len(t)] = f
  BY <1>1, <1>2
<1> QED BY <1>2, <1>3, <1>4, <1>5

\* Moving the innermost block: the blocks it interrupted still wait.
LEMMA StackGoto ==
  ASSUME stack \in Seq(Frames), stack # <<>>, NEW S, InterruptedAt(S),
         NEW p \in Places, Goto(p)
  PROVE  /\ stack' \in Seq(Frames) /\ stack' # <<>> /\ InterruptedAt(S)'
         /\ Top'.at = p /\ Top'.op = Top.op
<1> DEFINE f == [stack[Len(stack)] EXCEPT !.at = p]
<1>1. Len(stack) \in 1 .. Len(stack) /\ stack[Len(stack)] \in Frames
  BY EmptySeq, ElementOfSeq
<1>2. f \in Frames /\ f.at = p /\ f.op = stack[Len(stack)].op
  BY <1>1 DEF Frames
<1>3. stack' = [stack EXCEPT ![Len(stack)] = f]
  BY DEF Goto
<1>4. /\ stack' \in Seq(Frames) /\ stack' # <<>> /\ Len(stack') = Len(stack)
      /\ stack'[Len(stack')] = f
      /\ \A i \in 1 .. Len(stack) - 1 : stack'[i] = stack[i]
  <2> HIDE DEF f
  <2> QED BY <1>2, <1>3, ReplaceTop
<1> QED BY <1>2, <1>4 DEF Top, InterruptedAt

\* The same for a teardown that also sets how many calls it will hang up.
LEMMA StackReplace ==
  ASSUME stack \in Seq(Frames), stack # <<>>, NEW S, InterruptedAt(S),
         NEW f \in Frames,
         stack' = [stack EXCEPT ![Len(stack)] = f]
  PROVE  stack' \in Seq(Frames) /\ stack' # <<>> /\ InterruptedAt(S)' /\ Top' = f
<1>1. /\ stack' \in Seq(Frames) /\ stack' # <<>> /\ Len(stack') = Len(stack)
      /\ stack'[Len(stack')] = f
      /\ \A i \in 1 .. Len(stack) - 1 : stack'[i] = stack[i]
  BY ReplaceTop
<1> QED BY <1>1 DEF Top, InterruptedAt

\* A block starts when no other runs or when the innermost one waits for the
\* delegate.
LEMMA StackPush ==
  ASSUME stack \in Seq(Frames), NEW S, InterruptedAt(S),
         stack # <<>> => Top.at \in S,
         NEW op \in Ops, Push(op)
  PROVE  /\ stack' \in Seq(Frames) /\ stack' # <<>> /\ InterruptedAt(S)'
         /\ Top'.at = Entry(op) /\ Top'.op = op
<1> DEFINE f == [op |-> op, at |-> Entry(op), left |-> 0]
<1>1. f \in Frames /\ f.at = Entry(op) /\ f.op = op
  BY DEF Frames, Entry, Places
<1>2. stack' = Append(stack, f)
  BY DEF Push
<1> HIDE DEF f
<1>3. /\ stack' \in Seq(Frames) /\ Len(stack') = Len(stack) + 1
      /\ stack'[Len(stack')] = f /\ Len(stack) \in Nat
      /\ \A i \in 1 .. Len(stack) : stack'[i] = stack[i]
  BY <1>1, <1>2, LenProperties
<1>4. stack' # <<>>
  BY <1>3
<1>5. InterruptedAt(S)'
  <2> SUFFICES ASSUME NEW i \in 1 .. Len(stack)
               PROVE  stack[i].at \in S
    BY <1>3 DEF InterruptedAt
  <2>1. CASE i = Len(stack)
    BY <2>1, <1>3 DEF Top
  <2>2. CASE i # Len(stack)
    BY <2>2, <1>3 DEF InterruptedAt
  <2> QED BY <2>1, <2>2
<1> QED BY <1>1, <1>3, <1>4, <1>5 DEF Top

\* A block ends: the one it interrupted waits for the delegate.
LEMMA StackPop ==
  ASSUME stack \in Seq(Frames), stack # <<>>, NEW S, InterruptedAt(S), Pop
  PROVE  /\ stack' \in Seq(Frames) /\ InterruptedAt(S)'
         /\ stack' # <<>> => Top'.at \in S
<1>1. Len(stack) \in Nat \ {0}
  BY EmptySeq
<1>2. \A i \in 1 .. Len(stack) - 1 : stack[i] \in Frames
  BY <1>1, ElementOfSeq
<1>3. /\ stack' \in Seq(Frames) /\ Len(stack') = Len(stack) - 1
      /\ \A i \in 1 .. Len(stack) - 1 : stack'[i] = stack[i]
  <2> DEFINE n == Len(stack) - 1
  <2>1. n \in Nat /\ n - 1 + 1 = n /\ \A i \in 1 .. n : 1 + i - 1 = i
    BY <1>1
  <2>2. stack' = SubSeq(stack, 1, n) /\ \A i \in 1 .. n : stack[i] \in Frames
    BY <1>2 DEF Pop
  <2> HIDE DEF n
  <2>3. /\ SubSeq(stack, 1, n) \in Seq(Frames)
        /\ Len(SubSeq(stack, 1, n)) = n
        /\ \A i \in 1 .. n : SubSeq(stack, 1, n)[i] = stack[1 + i - 1]
    BY <2>1, <2>2, SubSeqProperties
  <2> QED BY <2>1, <2>2, <2>3 DEF n
<1>4. InterruptedAt(S)'
  BY <1>1, <1>3 DEF InterruptedAt
<1>5. stack' # <<>> => Top'.at \in S
  BY <1>1, <1>3, EmptySeq DEF InterruptedAt, Top
<1> QED BY <1>3, <1>4, <1>5

-----------------------------------------------------------------------------
(* The inductive invariant                                                 *)

LEMMA InitIInv == Init => IInv
<1> SUFFICES ASSUME Init PROVE IInv
  OBVIOUS
<1>1. TypeOK
  BY EmptySeq DEF Init, TypeOK, LibStates, Answers
<1>2. Waiting /\ TopBlock
  BY DEF Init, Waiting, InterruptedAt, TopBlock, Bringing, At
<1>3. NoOrphanAccount /\ NullIsFresh /\ UninitializedIsDown
  BY DEF Init, NoOrphanAccount, NullIsFresh, UninitializedIsDown
<1> QED BY <1>1, <1>2, <1>3 DEF IInv

\* Steps that leave the blocks alone: those of the worker thread, a dispatch
\* and the death of the process.
LEMMA OthersKeepIInv ==
  ASSUME IInv, lib # "Aborted",
         \/ \E op \in Ops : Request(op)
         \/ WorkerThread \/ Abort
  PROVE  IInv'
<1> USE DEF IInv, TypeOK, NoOrphanAccount, NullIsFresh, UninitializedIsDown,
            phone, pjsua, past, LibStates, Results, Answers
<1>1. stack' = stack => Waiting'
  BY DEF Waiting, InterruptedAt
<1>2. stack' = stack /\ initialized' = initialized /\ lib' = lib => TopBlock'
  BY DEF TopBlock, Bringing, At, Top
<1>3. CASE \E op \in Ops : Request(op)
  BY <1>1, <1>2, <1>3, AppendProperties DEF Request
<1>4. CASE RegEvent
  BY <1>1, <1>2, <1>4 DEF RegEvent, RegOutcome
<1>5. CASE RegDeliver
  BY <1>1, <1>2, <1>5 DEF RegDeliver
<1>6. CASE IncomingCall
  BY <1>1, <1>2, <1>6 DEF IncomingCall
<1>7. CASE RemoteHangup
  BY <1>1, <1>2, <1>7 DEF RemoteHangup
<1>8. CASE Abort
  <2>1. ~ (At("Create") \/ At("Tell"))
    BY <1>8 DEF Abort, BadAccountCall, BadAccDel, DestroyedUnderfoot, At
  <2>2. TopBlock'
    BY <2>1, <1>8 DEF Abort, TopBlock, Bringing, At, Top
  <2> QED BY <1>1, <1>8, <2>2 DEF Abort
<1> QED BY <1>3, <1>4, <1>5, <1>6, <1>7, <1>8 DEF WorkerThread

\* Blocks starting and ending, and the delegate handing control back.
LEMMA BlocksKeepIInv ==
  ASSUME IInv,
         \/ Dequeue \/ DelegateReturns
         \/ \E op \in Ops : RequestInline(op)
  PROVE  IInv'
<1> USE DEF phone, pjsua, past
<1>1. stack \in Seq(Frames) /\ Waiting /\ queue \in Seq(Ops)
  BY DEF IInv, TypeOK, Frames
<1>2. ASSUME stack' \in Seq(Frames), queue' \in Seq(Ops), Waiting', TopBlock',
             requests' \in Nat, nested' \in BOOLEAN,
             UNCHANGED <<phone, pjsua, asked>>
      PROVE  IInv'
  BY <1>2 DEF IInv, TypeOK, NoOrphanAccount, NullIsFresh, UninitializedIsDown,
              Frames
<1>3. CASE Dequeue
  <2>1. Head(queue) \in Ops /\ queue' \in Seq(Ops)
    BY <1>1, <1>3, HeadTailProperties DEF Dequeue
  <2>2. /\ stack' \in Seq(Frames) /\ stack' # <<>> /\ Waiting'
        /\ Top'.at = Entry(Head(queue)) /\ Top'.op = Head(queue)
    BY <1>1, <1>3, <2>1, StackPush DEF Waiting, Dequeue
  <2>3. TopBlock'
    BY <2>1, <2>2 DEF TopBlock, Bringing, At, Entry, Ops
  <2> QED BY <1>2, <1>3, <2>1, <2>2, <2>3 DEF Dequeue, IInv, TypeOK
<1>4. ASSUME NEW op \in Ops, RequestInline(op)
      PROVE  IInv'
  <2>1. stack # <<>> => Top.at \in Upcalls
    BY <1>4 DEF RequestInline, At, Upcalls
  <2>2. /\ stack' \in Seq(Frames) /\ stack' # <<>> /\ Waiting'
        /\ Top'.at = Entry(op) /\ Top'.op = op
    BY <1>1, <1>4, <2>1, StackPush DEF Waiting, RequestInline
  <2>3. TopBlock'
    BY <2>2 DEF TopBlock, Bringing, At, Entry, Ops
  <2> QED BY <1>1, <1>2, <1>4, <2>2, <2>3 DEF RequestInline, IInv, TypeOK
<1>5. CASE DelegateReturns
  <2>1. stack # <<>>
    BY <1>5 DEF DelegateReturns, At
  <2>2. CASE Goto("HangupAll") \/ Goto("Closing")
    <3>1. /\ stack' \in Seq(Frames) /\ stack' # <<>> /\ Waiting'
          /\ Top'.at \in {"HangupAll", "Closing"}
      BY <1>1, <2>1, <2>2, StackGoto DEF Waiting, Places
    <3>2. TopBlock'
      BY <3>1 DEF TopBlock, Bringing, At
    <3> QED BY <1>1, <1>2, <1>5, <3>1, <3>2 DEF DelegateReturns, IInv, TypeOK
  <2>3. CASE Pop
    <3>1. /\ stack' \in Seq(Frames) /\ Waiting'
          /\ stack' # <<>> => Top'.at \in Upcalls
      BY <1>1, <2>1, <2>3, StackPop DEF Waiting
    <3>2. TopBlock'
      BY <3>1 DEF TopBlock, Bringing, At, Upcalls
    <3> QED BY <1>1, <1>2, <1>5, <3>1, <3>2 DEF DelegateReturns, IInv, TypeOK
  <2> QED BY <1>5, <2>2, <2>3 DEF DelegateReturns
<1> QED BY <1>3, <1>4, <1>5

LEMMA RegisterKeepsIInv ==
  ASSUME IInv, RegisterStep, lib # "Aborted"
  PROVE  IInv'
<1> USE DEF phone, pjsua, past
<1>1. stack \in Seq(Frames) /\ Waiting /\ stack # <<>>
  BY DEF IInv, TypeOK, Frames, RegisterStep, CheckInitialized, CreateLibrary,
         InitLibrary, StartLibrary, Bring, AccountCaught, AccountAdd,
         AccountModify, AccountRefused, At
<1>2. CASE CheckInitialized
  <2> DEFINE p == IF initialized THEN "Account" ELSE "Create"
  <2>1. /\ stack' \in Seq(Frames) /\ stack' # <<>> /\ Waiting'
        /\ Top'.at = p /\ Top'.op = Top.op
    BY <1>1, <1>2, StackGoto DEF Waiting, CheckInitialized, Places
  <2>2. TopBlock'
    BY <1>2, <2>1 DEF CheckInitialized, IInv, TypeOK, TopBlock, Bringing, At,
                      UninitializedIsDown
  <2> QED BY <1>2, <2>1, <2>2 DEF CheckInitialized, IInv, TypeOK,
             NoOrphanAccount, NullIsFresh, UninitializedIsDown, Frames, Answers
<1>3. ASSUME NEW from \in {"Create", "Init", "Start"},
             NEW to \in {"Created", "Init", "Running"},
             NEW next \in {"Init", "Start", "Account"},
             Bring(from, to, next)
      PROVE  IInv'
  <2>1. initialized /\ Top.op = "register"
    BY <1>3 DEF Bring, IInv, TopBlock, Bringing
  <2>2. /\ stack' \in Seq(Frames) /\ stack' # <<>> /\ Waiting'
        /\ Top'.at \in {next, "Delete"} /\ Top'.op = Top.op
    BY <1>1, <1>3, StackGoto DEF Waiting, Bring, ErrorExit, Places
  <2>3. TopBlock'
    BY <1>3, <2>1, <2>2 DEF Bring, TopBlock, Bringing, At
  <2> QED BY <1>3, <2>1, <2>2, <2>3 DEF Bring, IInv, TypeOK, NoOrphanAccount,
             NullIsFresh, UninitializedIsDown, Frames, LibStates
<1>4. CASE AccountCaught \/ AccountRefused
  <2>1. Top.op = "register"
    BY <1>4 DEF AccountCaught, AccountRefused, IInv, TopBlock
  <2>2. /\ stack' \in Seq(Frames) /\ stack' # <<>> /\ Waiting'
        /\ Top'.at \in {"Caught", "Delete"} /\ Top'.op = Top.op
    BY <1>1, <1>4, StackGoto
     DEF Waiting, AccountCaught, AccountRefused, ErrorExit, Places
  <2>3. TopBlock'
    BY <2>1, <2>2 DEF TopBlock, Bringing, At
  <2> QED BY <1>4, <2>2, <2>3 DEF AccountCaught, AccountRefused, IInv, TypeOK,
             NoOrphanAccount, NullIsFresh, UninitializedIsDown, Frames
<1>5. ASSUME AccountAdd \/ AccountModify
      PROVE  stack' \in Seq(Frames) /\ Waiting' /\ TopBlock'
  <2>1. /\ stack' \in Seq(Frames) /\ Waiting'
        /\ stack' # <<>> => Top'.at \in Upcalls
    BY <1>1, <1>5, StackPop DEF Waiting, AccountAdd, AccountModify
  <2>2. TopBlock'
    BY <2>1 DEF TopBlock, Bringing, At, Upcalls
  <2> QED BY <2>1, <2>2
<1>6. CASE AccountAdd
  <2>1. accounts = {}
    BY <1>6, AccIdsAssumption DEF AccountAdd, IInv, TypeOK, NoOrphanAccount, NoAcc
  <2>2. PICK a \in AccIds : accounts' = accounts \cup {a} /\ accId' = a
    BY <1>6 DEF AccountAdd
  <2> QED BY <1>5, <1>6, <2>1, <2>2 DEF AccountAdd, IInv, TypeOK,
             NoOrphanAccount, NullIsFresh, UninitializedIsDown, Frames, Answers
<1>7. CASE AccountModify
  <2>1. owed' \in BOOLEAN /\ asked' \in Answers
    BY <1>7 DEF AccountModify, IInv, TypeOK, Answers
  <2> QED BY <1>5, <1>7, <2>1 DEF AccountModify, IInv, TypeOK, NoOrphanAccount,
             NullIsFresh, UninitializedIsDown, Frames
<1> QED BY <1>2, <1>3, <1>4, <1>6, <1>7
        DEF RegisterStep, CreateLibrary, InitLibrary, StartLibrary

LEMMA TeardownKeepsIInv ==
  ASSUME IInv, TeardownStep, lib # "Aborted"
  PROVE  IInv'
<1> USE DEF phone, pjsua, past
<1>1. stack \in Seq(Frames) /\ Waiting /\ stack # <<>>
  BY DEF IInv, TypeOK, Frames, TeardownStep, DeleteAccount, HangupAllOne,
         HangupAllDone, AccDel, DestroyLibrary, ClosingOne, ClosingDone, Tell, At
<1>2. ASSUME stack' # <<>>, Top'.at \in {"Destroy", "HangupAll", "AccDel",
                              "Closing", "Told", "InHangup", "InClosing"}
      PROVE  TopBlock'
  BY <1>2 DEF TopBlock, Bringing, At
<1>3. Top \in Frames
  BY <1>1, EmptySeq, ElementOfSeq DEF Top
<1>4. CASE DeleteAccount
  <2> DEFINE f == [Top EXCEPT !.at = "HangupAll", !.left = calls]
  <2>1. f \in Frames /\ f.at = "HangupAll"
    BY <1>3 DEF Frames, Places, IInv, TypeOK
  <2>2. /\ stack' \in Seq(Frames) /\ stack' # <<>> /\ Waiting'
        /\ Top'.at \in {"HangupAll", "Destroy"}
    BY <1>1, <1>4, <2>1, StackGoto, StackReplace DEF Waiting, DeleteAccount, Top, Places
  <2> QED BY <1>2, <1>4, <2>2 DEF DeleteAccount, IInv, TypeOK, NoOrphanAccount,
             NullIsFresh, UninitializedIsDown, Frames
<1>5. CASE HangupAllOne
  <2> DEFINE f == [Top EXCEPT !.at = "InHangup", !.left = Top.left - 1]
  <2>1. Top.left - 1 \in Nat
    BY <1>3, <1>5 DEF Frames, HangupAllOne
  <2>2. f \in Frames /\ f.at = "InHangup"
    BY <1>3, <2>1 DEF Frames, Places, Upcalls
  <2>3. stack' = [stack EXCEPT ![Len(stack)] = f]
    BY <1>5 DEF HangupAllOne, Top
  <2> HIDE DEF f
  <2>4. stack' \in Seq(Frames) /\ stack' # <<>> /\ Waiting' /\ Top'.at = "InHangup"
    BY <1>1, <2>2, <2>3, StackReplace DEF Waiting
  <2> QED BY <1>2, <1>5, <2>4 DEF HangupAllOne, IInv, TypeOK, NoOrphanAccount,
             NullIsFresh, UninitializedIsDown, Frames
<1>6. CASE HangupAllDone
  <2>1. stack' \in Seq(Frames) /\ stack' # <<>> /\ Waiting' /\ Top'.at = "AccDel"
    BY <1>1, <1>6, StackGoto DEF Waiting, HangupAllDone, Places
  <2> QED BY <1>2, <1>6, <2>1 DEF HangupAllDone, IInv, TypeOK, NoOrphanAccount,
             NullIsFresh, UninitializedIsDown, Frames
<1>7. CASE AccDel
  <2>1. stack' \in Seq(Frames) /\ stack' # <<>> /\ Waiting' /\ Top'.at = "Destroy"
    BY <1>1, <1>7, StackGoto DEF Waiting, AccDel, Places
  <2>2. accounts' = {}
    BY <1>7 DEF AccDel, IInv, NoOrphanAccount
  <2> QED BY <1>2, <1>7, <2>1, <2>2 DEF AccDel, IInv, TypeOK, NoOrphanAccount,
             NullIsFresh, UninitializedIsDown, Frames
<1>8. CASE DestroyLibrary
  <2>1. /\ stack' \in Seq(Frames) /\ stack' # <<>> /\ Waiting'
        /\ Top'.at = IF lib = "Null" THEN "Tell" ELSE "Closing"
    BY <1>1, <1>8, StackGoto DEF Waiting, DestroyLibrary, Places
  <2>2. TopBlock'
    BY <1>8, <2>1 DEF DestroyLibrary, TopBlock, Bringing, At
  <2> QED BY <1>8, <2>1, <2>2 DEF DestroyLibrary, IInv, TypeOK,
             NoOrphanAccount, NullIsFresh, UninitializedIsDown, Frames, LibStates
<1>9. CASE ClosingOne
  <2>1. stack' \in Seq(Frames) /\ stack' # <<>> /\ Waiting' /\ Top'.at = "InClosing"
    BY <1>1, <1>9, StackGoto DEF Waiting, ClosingOne, Places, Upcalls
  <2> QED BY <1>2, <1>9, <2>1 DEF ClosingOne, IInv, TypeOK, NoOrphanAccount,
             NullIsFresh, UninitializedIsDown, Frames
<1>10. CASE ClosingDone
  <2>1. stack' \in Seq(Frames) /\ stack' # <<>> /\ Waiting' /\ Top'.at = "Tell"
    BY <1>1, <1>10, StackGoto DEF Waiting, ClosingDone, Places
  <2>2. TopBlock'
    BY <1>10, <2>1 DEF ClosingDone, TopBlock, Bringing, At
  <2> QED BY <1>10, <2>1, <2>2 DEF ClosingDone, IInv, TypeOK, NoOrphanAccount,
             NullIsFresh, UninitializedIsDown, Frames, LibStates
<1>11. CASE Tell
  <2>1. stack' \in Seq(Frames) /\ stack' # <<>> /\ Waiting' /\ Top'.at = "Told"
    BY <1>1, <1>11, StackGoto DEF Waiting, Tell, Places, Upcalls
  <2>2. Top.op = "destroy" => lib = "Null"
    BY <1>11 DEF Tell, IInv, TopBlock
  <2>3. /\ initialized' \in BOOLEAN /\ told' \in {"Destroyed", "Fail"}
        /\ ~initialized' => lib \in {"Null", "Aborted"}
    BY <1>11, <2>2 DEF Tell, IInv, TypeOK, UninitializedIsDown
  <2> QED BY <1>2, <1>11, <2>1, <2>3 DEF Tell, IInv, TypeOK, NoOrphanAccount,
             NullIsFresh, UninitializedIsDown, Frames, Results, Answers
<1> QED BY <1>4, <1>5, <1>6, <1>7, <1>8, <1>9, <1>10, <1>11 DEF TeardownStep

\* Every step of any thread keeps the invariant.
LEMMA NextKeepsIInv == IInv /\ [Next]_vars => IInv'
<1> SUFFICES ASSUME IInv, [Next]_vars PROVE IInv'
  OBVIOUS
<1>1. CASE QueueThread
  BY <1>1, BlocksKeepIInv, RegisterKeepsIInv, TeardownKeepsIInv, OthersKeepIInv
     DEF QueueThread
<1>2. CASE WorkerThread
  BY <1>2, OthersKeepIInv DEF WorkerThread
<1>3. CASE Application
  BY <1>3, OthersKeepIInv, BlocksKeepIInv DEF Application
<1>4. CASE UNCHANGED vars
  BY <1>4 DEF vars, phone, pjsua, past, IInv, TypeOK, NoOrphanAccount, Waiting, InterruptedAt,
              TopBlock, Bringing, At, Top, NullIsFresh, UninitializedIsDown
<1> QED BY <1>1, <1>2, <1>3, <1>4 DEF Next

\* pjsuaInitialized, acc_id and the library agree at every step, whatever the
\* threads and the delegate do.
THEOREM SessionInvariant == Spec => []IInv
<1> QED BY InitIInv, NextKeepsIInv, PTL DEF Spec

-----------------------------------------------------------------------------
(* Safety                                                                  *)

\* Every variable keeps its type.
THEOREM TypeCorrect == Spec => []TypeOK
<1>1. IInv => TypeOK
  BY DEF IInv
<1> QED BY <1>1, SessionInvariant, PTL

\* The library never holds an account that acc_id does not name.
THEOREM NoOrphans == Spec => []NoOrphanAccount
<1>1. IInv => NoOrphanAccount
  BY DEF IInv
<1> QED BY <1>1, SessionInvariant, PTL

\* registerWithNumber calls pjsua_create on a library that is down and empty.
THEOREM CreatesOnFreshLibrary == Spec => []CreateOnFreshLibrary
<1>1. IInv => CreateOnFreshLibrary
  BY DEF IInv, TopBlock, NullIsFresh, CreateOnFreshLibrary
<1> QED BY <1>1, SessionInvariant, PTL

-----------------------------------------------------------------------------
(* The delegate is told what SessionContract promises                      *)

LEMMA ContractStep == IInv /\ [Next]_vars => [Contract!Next]_Contract!vars
<1> SUFFICES ASSUME IInv, [Next]_vars PROVE [Contract!Next]_Contract!vars
  OBVIOUS
<1> USE DEF Contract!Next, Contract!vars, Contract!Open, Contract!Close,
            Contract!ReportSuccess, Contract!ReportFail, Contract!ReportDestroyed
<1>1. CASE told' = told
  BY <1>1
<1>2. CASE RegDeliver /\ lib # "Aborted"
  <2>1. lib # "Null" /\ lib' = lib /\ told' = worker /\ worker \in Results
    BY <1>2 DEF RegDeliver, IInv, TypeOK, NullIsFresh
  <2> QED BY <1>2, <2>1 DEF Results
<1>3. CASE Tell
  <2>1. told' = "Fail" \/ (told' = "Destroyed" /\ lib = "Null")
    BY <1>3 DEF Tell, IInv, TopBlock
  <2>2. lib' = lib
    BY <1>3 DEF Tell, pjsua
  <2> QED BY <2>1, <2>2
<1>4. told' = told \/ (RegDeliver /\ lib # "Aborted") \/ Tell
  BY DEF Next, vars, phone, QueueThread, WorkerThread, Application, Request,
         RequestInline, Dequeue, DelegateReturns, RegisterStep, TeardownStep,
         CheckInitialized, CreateLibrary, InitLibrary, StartLibrary, Bring,
         AccountCaught, AccountAdd, AccountModify, AccountRefused,
         DeleteAccount, HangupAllOne, HangupAllDone, AccDel, DestroyLibrary,
         ClosingOne, ClosingDone, Abort, RegEvent, IncomingCall, RemoteHangup
<1> QED BY <1>1, <1>2, <1>3, <1>4

\* Success is reported only of a library that is up and Destroyed only of one
\* that is down: Registration implements SessionContract.
THEOREM ImplementsContract == Spec => ContractSpec
<1>1. Init => Contract!Init
  BY DEF Init, Contract!Init
<1> QED BY <1>1, SessionInvariant, ContractStep, PTL
        DEF Spec, ContractSpec, Contract!Spec

-----------------------------------------------------------------------------
(* Blocks run as SerialQueue promises                                      *)

\* Moving the innermost block changes no block that runs.
LEMMA RunningKept ==
  ASSUME stack \in Seq(Frames), stack # <<>>, NEW f \in Frames, f.op = Top.op,
         stack' = [stack EXCEPT ![Len(stack)] = f]
  PROVE  Running' = Running
<1>1. /\ stack' \in Seq(Frames) /\ Len(stack') = Len(stack)
      /\ stack'[Len(stack')] = f
      /\ \A i \in 1 .. Len(stack) - 1 : stack'[i] = stack[i]
  BY ReplaceTop
<1>2. ASSUME NEW i \in 1 .. Len(stack)
      PROVE  stack'[i].op = stack[i].op
  <2>1. CASE i = Len(stack)
    BY <2>1, <1>1 DEF Top
  <2>2. CASE i # Len(stack)
    <3>1. Len(stack) \in Nat
      OBVIOUS
    <3>2. i \in 1 .. Len(stack) - 1
      BY <2>2, <3>1
    <3> QED BY <3>2, <1>1
  <2> QED BY <2>1, <2>2
<1> QED BY <1>1, <1>2 DEF Running

LEMMA RunningGoto ==
  ASSUME stack \in Seq(Frames), stack # <<>>, NEW p \in Places, Goto(p)
  PROVE  Running' = Running
<1> DEFINE f == [stack[Len(stack)] EXCEPT !.at = p]
<1>1. stack[Len(stack)] \in Frames
  BY EmptySeq, ElementOfSeq
<1>2. f \in Frames /\ f.op = Top.op
  BY <1>1 DEF Frames, Top
<1>3. stack' = [stack EXCEPT ![Len(stack)] = f]
  BY DEF Goto
<1> HIDE DEF f
<1> QED BY <1>2, <1>3, RunningKept

LEMMA RunningPush ==
  ASSUME stack \in Seq(Frames), NEW op \in Ops, Push(op)
  PROVE  Running' = Append(Running, op)
<1> DEFINE f == [op |-> op, at |-> Entry(op), left |-> 0]
           n == Len(stack)
<1>1. f \in Frames /\ f.op = op
  BY DEF Frames, Entry, Places
<1>2. stack' = Append(stack, f)
  BY DEF Push
<1>3. Running \in Seq(Ops) /\ Len(Running) = n /\ n \in Nat
  <2>1. \A i \in 1 .. n : stack[i] \in Frames
    BY ElementOfSeq
  <2>2. \A i \in 1 .. n : stack[i].op \in Ops
    BY <2>1 DEF Frames
  <2> QED BY <2>2 DEF Running
<1> HIDE DEF f
<1>4. /\ Len(stack') = n + 1 /\ stack'[n + 1] = f
      /\ \A i \in 1 .. n : stack'[i] = stack[i]
  BY <1>1, <1>2, LenProperties
<1>5. /\ Append(Running, op) \in Seq(Ops) /\ Len(Append(Running, op)) = n + 1
      /\ Append(Running, op)[n + 1] = op
      /\ \A i \in 1 .. n : Append(Running, op)[i] = Running[i]
  BY <1>3, AppendProperties
<1>6. ASSUME NEW i \in 1 .. n + 1
      PROVE  stack'[i].op = Append(Running, op)[i]
  <2>1. CASE i = n + 1
    BY <2>1, <1>1, <1>4, <1>5
  <2>2. CASE i # n + 1
    BY <2>2, <1>3, <1>4, <1>5 DEF Running
  <2> QED BY <2>1, <2>2
<1>7. Running' = [i \in 1 .. n + 1 |-> Append(Running, op)[i]]
  BY <1>4, <1>6 DEF Running
<1>8. Append(Running, op) = [i \in 1 .. n + 1 |-> Append(Running, op)[i]]
  <2> DEFINE r == Append(Running, op)
  <2>1. r \in Seq(Ops) /\ Len(r) = n + 1
    BY <1>5
  <2> HIDE DEF r
  <2>2. r \in [1 .. Len(r) -> Ops]
    BY <2>1, LenProperties
  <2> QED BY <2>1, <2>2 DEF r
<1> QED BY <1>7, <1>8

LEMMA RunningPop ==
  ASSUME stack \in Seq(Frames), stack # <<>>, Pop
  PROVE  Running # <<>> /\ Running' = SubSeq(Running, 1, Len(Running) - 1)
<1> DEFINE n == Len(stack)
<1>1. n \in Nat \ {0} /\ Running \in Seq(Ops) /\ Len(Running) = n
  <2>1. \A i \in 1 .. n : stack[i] \in Frames
    BY ElementOfSeq
  <2>2. \A i \in 1 .. n : stack[i].op \in Ops
    BY <2>1 DEF Frames
  <2> QED BY <2>2, EmptySeq DEF Running
<1>2. Len(stack') = n - 1 /\ \A i \in 1 .. n - 1 : stack'[i] = stack[i]
  <2>1. stack' = SubSeq(stack, 1, n - 1)
    BY DEF Pop
  <2> QED BY <1>1, <2>1
<1>3. SubSeq(Running, 1, n - 1) = [i \in 1 .. n - 1 |-> Running[i]]
  BY <1>1
<1>4. \A i \in 1 .. n - 1 : Running[i] = stack[i].op
  BY <1>1 DEF Running
<1>5. Running # <<>>
  BY <1>1
<1> QED BY <1>1, <1>2, <1>3, <1>4, <1>5 DEF Running

LEMMA SerialStep == IInv /\ [Next]_vars => [Serial!Next]_Serial!vars
<1> SUFFICES ASSUME IInv, [Next]_vars PROVE [Serial!Next]_Serial!vars
  OBVIOUS
<1> USE DEF phone, pjsua, Serial!Next, Serial!vars, Serial!Send, Serial!Start,
            Serial!Nest, Serial!Finish
<1>1. stack \in Seq(Frames) /\ queue \in Seq(Ops)
  BY DEF IInv, TypeOK, Frames
<1>2. CASE UNCHANGED <<queue, stack>>
  BY <1>2 DEF Running
<1>3. CASE \E op \in Ops : Request(op)
  BY <1>3 DEF Request, Running
<1>4. ASSUME NEW op \in Ops, RequestInline(op)
      PROVE  [Serial!Next]_Serial!vars
  <2>1. stack # <<>> /\ Running # <<>>
    BY <1>1, <1>4, EmptySeq DEF RequestInline, At, Running
  <2>2. Running' = Append(Running, op) /\ queue' = queue
    BY <1>1, <1>4, RunningPush DEF RequestInline
  <2> QED BY <2>1, <2>2
<1>5. CASE Dequeue
  <2>1. Head(queue) \in Ops /\ Running = <<>>
    BY <1>1, <1>5, HeadTailProperties, EmptySeq DEF Dequeue, Running
  <2>2. Running' = Append(<<>>, Head(queue))
    BY <1>1, <1>5, <2>1, RunningPush DEF Dequeue
  <2> QED BY <1>5, <2>1, <2>2 DEF Dequeue
<1>6. ASSUME Pop, stack # <<>>, queue' = queue
      PROVE  [Serial!Next]_Serial!vars
  BY <1>1, <1>6, RunningPop
<1>7. ASSUME NEW p \in Places, Goto(p), stack # <<>>, queue' = queue
      PROVE  [Serial!Next]_Serial!vars
  BY <1>1, <1>7, RunningGoto
<1>8. CASE AccountAdd \/ AccountModify
  BY <1>6, <1>8 DEF AccountAdd, AccountModify, At
<1>9. CASE CheckInitialized \/ AccountCaught \/ AccountRefused
  BY <1>7, <1>9 DEF CheckInitialized, AccountCaught, AccountRefused, ErrorExit,
                    At, Places
<1>10. CASE CreateLibrary \/ InitLibrary \/ StartLibrary
  BY <1>7, <1>10 DEF CreateLibrary, InitLibrary, StartLibrary, Bring, ErrorExit,
                     At, Places
<1>11. CASE DelegateReturns
  BY <1>6, <1>7, <1>11 DEF DelegateReturns, At, Places
<1>12. CASE HangupAllDone \/ AccDel \/ Tell
  BY <1>7, <1>12 DEF HangupAllDone, AccDel, Tell, At, Places, Upcalls
<1>13. CASE DestroyLibrary \/ ClosingOne \/ ClosingDone
  BY <1>7, <1>13 DEF DestroyLibrary, ClosingOne, ClosingDone, At, Places, Upcalls
<1>14. stack # <<>> => Top \in Frames
  BY <1>1, EmptySeq, ElementOfSeq DEF Top
<1>15. CASE DeleteAccount
  <2> DEFINE f == [Top EXCEPT !.at = "HangupAll", !.left = calls]
  <2>1. CASE accId = NoAcc
    BY <1>7, <1>15, <2>1 DEF DeleteAccount, At, Places
  <2>2. CASE accId # NoAcc
    <3>1. f \in Frames /\ f.op = Top.op
      BY <1>14, <1>15 DEF DeleteAccount, At, Frames, Places, IInv, TypeOK
    <3> QED BY <1>1, <1>15, <2>2, <3>1, RunningKept DEF DeleteAccount, At
  <2> QED BY <2>1, <2>2
<1>16. CASE HangupAllOne
  <2> DEFINE f == [Top EXCEPT !.at = "InHangup", !.left = Top.left - 1]
  <2>1. Top.left - 1 \in Nat
    BY <1>14, <1>16 DEF Frames, HangupAllOne, At
  <2>2. f \in Frames /\ f.op = Top.op
    BY <1>14, <1>16, <2>1 DEF HangupAllOne, At, Frames, Places, Upcalls
  <2> QED BY <1>1, <1>16, <2>2, RunningKept DEF HangupAllOne, At
<1>17. \/ UNCHANGED <<queue, stack>> \/ \E op \in Ops : Request(op) \/ RequestInline(op)
       \/ Dequeue \/ DelegateReturns \/ RegisterStep \/ TeardownStep
  BY DEF Next, vars, QueueThread, WorkerThread, Application, Abort, RegEvent,
         RegDeliver, IncomingCall, RemoteHangup
<1> QED BY <1>2, <1>3, <1>4, <1>5, <1>8, <1>9, <1>10, <1>11, <1>12, <1>13, <1>15,
           <1>16, <1>17 DEF RegisterStep, TeardownStep

\* Registration implements SerialQueue: blocks run one at a time in the order
\* they were dispatched, and a nested block ends before the one around it goes on.
THEOREM RunsSerially == Spec => SerialSpec
<1>1. Init => Serial!Init
  BY DEF Init, Serial!Init, Running
<1> QED BY <1>1, SessionInvariant, SerialStep, PTL DEF Spec, SerialSpec, Serial!Spec

-----------------------------------------------------------------------------
(* A delegate that starts no block inside onCallState                      *)

\* The blocks that start, end or move keep the innermost one's claim.
LEMMA QueueKeepsForgotten ==
  ASSUME ~nested, ~nested', IInv, ForgottenFirst,
         \/ Dequeue \/ DelegateReturns \/ RegisterStep \/ TeardownStep
         \/ \E op \in Ops : RequestInline(op)
  PROVE  ForgottenFirst'
<1> USE DEF phone, pjsua, past
<1>1. stack \in Seq(Frames) /\ queue \in Seq(Ops) /\ InterruptedAt({"Told"})
  BY DEF IInv, TypeOK, Frames, ForgottenFirst
<1>2. ASSUME NEW op \in Ops, Push(op), stack # <<>> => Top.at = "Told",
             UNCHANGED <<accId, accounts>>
      PROVE  ForgottenFirst'
  <2>1. InterruptedAt({"Told"})' /\ Top'.at = Entry(op)
    BY <1>1, <1>2, StackPush
  <2> QED BY <1>2, <2>1 DEF ForgottenFirst, At, Entry
<1>3. CASE Dequeue
  <2>1. Head(queue) \in Ops
    BY <1>1, <1>3, HeadTailProperties DEF Dequeue
  <2> QED BY <1>2, <1>3, <2>1 DEF Dequeue
<1>4. ASSUME NEW op \in Ops, RequestInline(op)
      PROVE  ForgottenFirst'
  BY <1>2, <1>4 DEF RequestInline, At
<1>5. ASSUME Pop, stack # <<>>, accId' \in accounts' \cup {NoAcc}
      PROVE  ForgottenFirst'
  <2>1. InterruptedAt({"Told"})' /\ (stack' # <<>> => Top'.at \in {"Told"})
    BY <1>1, <1>5, StackPop
  <2> QED BY <1>5, <2>1 DEF ForgottenFirst, At
<1>6. CASE AccountAdd \/ AccountModify
  BY <1>5, <1>6 DEF AccountAdd, AccountModify, At
<1>7. ASSUME NEW p \in Places, Goto(p), stack # <<>>,
             accId' \in accounts' \cup {NoAcc},
             p \in {"Destroy", "Closing", "InClosing"} => accId' = NoAcc
      PROVE  ForgottenFirst'
  <2>1. InterruptedAt({"Told"})' /\ Top'.at = p
    BY <1>1, <1>7, StackGoto
  <2> QED BY <1>7, <2>1 DEF ForgottenFirst, At
<1>8. CASE CheckInitialized \/ AccountCaught \/ AccountRefused
  BY <1>7, <1>8 DEF CheckInitialized, AccountCaught, AccountRefused, ErrorExit,
                    At, ForgottenFirst, Places
<1>9. CASE CreateLibrary \/ InitLibrary \/ StartLibrary
  BY <1>7, <1>9 DEF CreateLibrary, InitLibrary, StartLibrary, Bring, ErrorExit,
                    At, ForgottenFirst, Places
<1>10. CASE DelegateReturns
  BY <1>5, <1>7, <1>10 DEF DelegateReturns, At, ForgottenFirst, Places
<1>11. CASE HangupAllDone \/ AccDel \/ Tell
  BY <1>7, <1>11 DEF HangupAllDone, AccDel, Tell, At, ForgottenFirst, Places,
                     Upcalls
<1>12. CASE DestroyLibrary \/ ClosingOne \/ ClosingDone
  BY <1>7, <1>12 DEF DestroyLibrary, ClosingOne, ClosingDone, At,
                     ForgottenFirst, Places, Upcalls
<1>13. CASE DeleteAccount /\ accId = NoAcc
  BY <1>7, <1>13 DEF DeleteAccount, At, Places
<1>14. ASSUME NEW f \in Frames, stack' = [stack EXCEPT ![Len(stack)] = f],
              stack # <<>>, f.at \in {"HangupAll", "InHangup"},
              UNCHANGED <<accId, accounts>>
       PROVE  ForgottenFirst'
  <2>1. InterruptedAt({"Told"})' /\ Top' = f
    BY <1>1, <1>14, StackReplace
  <2> QED BY <1>14, <2>1 DEF ForgottenFirst, At
<1>15. stack # <<>> => Top \in Frames
  BY <1>1, EmptySeq, ElementOfSeq DEF Top
<1>16. CASE DeleteAccount /\ accId # NoAcc
  <2> DEFINE f == [Top EXCEPT !.at = "HangupAll", !.left = calls]
  <2>1. f \in Frames /\ f.at = "HangupAll"
    BY <1>15, <1>16 DEF DeleteAccount, At, Frames, Places, IInv, TypeOK
  <2> QED BY <1>14, <1>16, <2>1 DEF DeleteAccount, At
<1>17. CASE HangupAllOne
  <2> DEFINE f == [Top EXCEPT !.at = "InHangup", !.left = Top.left - 1]
  <2>1. Top.left - 1 \in Nat
    BY <1>15, <1>17 DEF Frames, HangupAllOne, At
  <2>2. f \in Frames /\ f.at = "InHangup"
    BY <1>15, <1>17, <2>1 DEF HangupAllOne, At, Frames, Places, Upcalls
  <2> QED BY <1>14, <1>17, <2>2 DEF HangupAllOne, At
<1> QED BY <1>3, <1>4, <1>6, <1>8, <1>9, <1>10, <1>11, <1>12, <1>13, <1>16, <1>17
        DEF RegisterStep, TeardownStep

\* Steps that neither move a block nor touch an account.
LEMMA OthersKeepForgotten ==
  ASSUME ForgottenFirst, UNCHANGED <<stack, accId, accounts, nested>>
  PROVE  ForgottenFirst'
BY DEF ForgottenFirst, InterruptedAt, At, Top

\* A step that starts nothing inside onCallState follows no such step.
LEMMA NestedStays ==
  ASSUME [Next]_vars, ~nested'
  PROVE  ~nested
BY DEF Next, vars, past, QueueThread, WorkerThread, Application, Request,
       RequestInline, Dequeue, DelegateReturns, RegisterStep, TeardownStep,
       CheckInitialized, CreateLibrary, InitLibrary, StartLibrary, Bring,
       AccountCaught, AccountAdd, AccountModify, AccountRefused, DeleteAccount,
       HangupAllOne, HangupAllDone, AccDel, DestroyLibrary, ClosingOne,
       ClosingDone, Tell, Abort, RegEvent, RegDeliver, IncomingCall, RemoteHangup

\* As long as the delegate has started no block from inside onCallState acc_id is
\* not stale: between blocks it names an account the library holds, or none.
THEOREM NeverStale == Spec => []NoStaleAccount
<1>1. Init => ForgottenFirst
  BY DEF Init, ForgottenFirst, InterruptedAt, At
<1>2. IInv /\ ForgottenFirst /\ [Next]_vars => ForgottenFirst'
  <2> SUFFICES ASSUME IInv, ForgottenFirst, [Next]_vars, ~nested'
               PROVE  ForgottenFirst'
    BY DEF ForgottenFirst
  <2>1. \/ UNCHANGED <<stack, accId, accounts, nested>>
        \/ Dequeue \/ DelegateReturns \/ RegisterStep \/ TeardownStep
        \/ \E op \in Ops : RequestInline(op)
    BY DEF Next, vars, phone, pjsua, past, QueueThread, WorkerThread, Application,
           Request, Abort, RegEvent, RegDeliver, IncomingCall, RemoteHangup
  <2> QED BY <2>1, NestedStays, QueueKeepsForgotten, OthersKeepForgotten
<1>3. ForgottenFirst => NoStaleAccount
  BY DEF ForgottenFirst, NoStaleAccount
<1> QED BY <1>1, <1>2, <1>3, SessionInvariant, PTL DEF Spec

\* Blocks that start or end leave no teardown innermost; the others move on
\* with their account and their library.
LEMMA QueueKeepsUp ==
  ASSUME ~nested, ~nested', IInv, ForgottenFirst, UpInTeardown,
         \/ Dequeue \/ DelegateReturns \/ RegisterStep \/ TeardownStep
         \/ \E op \in Ops : RequestInline(op)
  PROVE  UpInTeardown'
<1> USE DEF phone, pjsua, past
<1>1. stack \in Seq(Frames) /\ queue \in Seq(Ops) /\ InterruptedAt({"Told"})
  BY DEF IInv, TypeOK, Frames, ForgottenFirst
<1>2. ASSUME NEW op \in Ops, Push(op), stack # <<>> => Top.at = "Told"
      PROVE  UpInTeardown'
  <2>1. Top'.at = Entry(op)
    BY <1>1, <1>2, StackPush
  <2> QED BY <2>1 DEF UpInTeardown, At, Entry
<1>3. CASE Dequeue
  <2>1. Head(queue) \in Ops
    BY <1>1, <1>3, HeadTailProperties DEF Dequeue
  <2> QED BY <1>2, <1>3, <2>1 DEF Dequeue
<1>4. ASSUME NEW op \in Ops, RequestInline(op)
      PROVE  UpInTeardown'
  BY <1>2, <1>4 DEF RequestInline, At
<1>5. ASSUME Pop, stack # <<>>
      PROVE  UpInTeardown'
  <2>1. stack' # <<>> => Top'.at \in {"Told"}
    BY <1>1, <1>5, StackPop
  <2> QED BY <2>1 DEF UpInTeardown, At
<1>6. CASE AccountAdd \/ AccountModify
  BY <1>5, <1>6 DEF AccountAdd, AccountModify, At
<1>7. ASSUME NEW p \in Places, Goto(p), stack # <<>>,
             p \in {"HangupAll", "InHangup", "AccDel"} => accId' \in accounts',
             p \in {"Closing", "InClosing"} => lib' = "Closing"
      PROVE  UpInTeardown'
  <2>1. Top'.at = p
    BY <1>1, <1>7, StackGoto
  <2> QED BY <1>7, <2>1 DEF UpInTeardown, At
<1>8. CASE CheckInitialized \/ AccountCaught \/ AccountRefused \/ Tell
  BY <1>7, <1>8 DEF CheckInitialized, AccountCaught, AccountRefused, ErrorExit,
                    Tell, At, Places, Upcalls
<1>9. CASE CreateLibrary \/ InitLibrary \/ StartLibrary
  BY <1>7, <1>9 DEF CreateLibrary, InitLibrary, StartLibrary, Bring, ErrorExit,
                    At, Places
<1>10. CASE DelegateReturns
  BY <1>5, <1>7, <1>10 DEF DelegateReturns, At, UpInTeardown, Places
<1>11. CASE HangupAllDone \/ AccDel
  BY <1>7, <1>11 DEF HangupAllDone, AccDel, At, UpInTeardown, Places
<1>12. CASE DestroyLibrary \/ ClosingOne \/ ClosingDone
  BY <1>7, <1>12 DEF DestroyLibrary, ClosingOne, ClosingDone, At,
                     UpInTeardown, Places, Upcalls
<1>13. CASE DeleteAccount /\ accId = NoAcc
  BY <1>7, <1>13 DEF DeleteAccount, At, Places
<1>14. ASSUME NEW f \in Frames, stack' = [stack EXCEPT ![Len(stack)] = f],
              stack # <<>>, f.at \in {"HangupAll", "InHangup"},
              accId' \in accounts'
       PROVE  UpInTeardown'
  <2>1. Top' = f
    BY <1>1, <1>14, StackReplace
  <2> QED BY <1>14, <2>1 DEF UpInTeardown, At
<1>15. stack # <<>> => Top \in Frames
  BY <1>1, EmptySeq, ElementOfSeq DEF Top
<1>16. CASE DeleteAccount /\ accId # NoAcc
  <2> DEFINE f == [Top EXCEPT !.at = "HangupAll", !.left = calls]
  <2>1. f \in Frames /\ f.at = "HangupAll"
    BY <1>15, <1>16 DEF DeleteAccount, At, Frames, Places, IInv, TypeOK
  <2> QED BY <1>14, <1>16, <2>1 DEF DeleteAccount, At, ForgottenFirst
<1>17. CASE HangupAllOne
  <2> DEFINE f == [Top EXCEPT !.at = "InHangup", !.left = Top.left - 1]
  <2>1. Top.left - 1 \in Nat
    BY <1>15, <1>17 DEF Frames, HangupAllOne, At
  <2>2. f \in Frames /\ f.at = "InHangup"
    BY <1>15, <1>17, <2>1 DEF HangupAllOne, At, Frames, Places, Upcalls
  <2> QED BY <1>14, <1>17, <2>2 DEF HangupAllOne, At, UpInTeardown
<1> QED BY <1>3, <1>4, <1>6, <1>8, <1>9, <1>10, <1>11, <1>12, <1>13, <1>16, <1>17
        DEF RegisterStep, TeardownStep

\* The process does not die in a teardown, and the worker thread does not end it.
LEMMA OthersKeepUp ==
  ASSUME ~nested, ~nested', IInv, UpInTeardown,
         \/ Abort \/ UNCHANGED <<stack, accId, accounts, lib>>
  PROVE  UpInTeardown'
<1> USE DEF UpInTeardown, At, Top
<1>1. CASE Abort
  BY <1>1 DEF Abort, BadAccountCall, BadAccDel, DestroyedUnderfoot, phone
<1>2. CASE UNCHANGED <<stack, accId, accounts, lib>>
  BY <1>2
<1> QED BY <1>1, <1>2

\* A teardown keeps its account and its library to the end.
LEMMA TeardownStaysUp == Spec => [](ForgottenFirst /\ UpInTeardown)
<1>1. Init => ForgottenFirst /\ UpInTeardown
  BY DEF Init, ForgottenFirst, UpInTeardown, InterruptedAt, At
<1>2. IInv /\ (ForgottenFirst /\ UpInTeardown) /\ [Next]_vars
        => (ForgottenFirst /\ UpInTeardown)'
  <2> SUFFICES ASSUME IInv, ForgottenFirst, UpInTeardown, [Next]_vars, ~nested'
               PROVE  ForgottenFirst' /\ UpInTeardown'
    BY DEF ForgottenFirst, UpInTeardown
  <2>1. \/ UNCHANGED <<stack, accId, accounts, lib, nested>>
        \/ Abort /\ UNCHANGED <<stack, accId, accounts, nested>>
        \/ Dequeue \/ DelegateReturns \/ RegisterStep \/ TeardownStep
        \/ \E op \in Ops : RequestInline(op)
    BY DEF Next, vars, phone, pjsua, past, QueueThread, WorkerThread, Application,
           Request, Abort, RegEvent, RegDeliver, IncomingCall, RemoteHangup
  <2>2. ForgottenFirst'
    BY <2>1, NestedStays, QueueKeepsForgotten, OthersKeepForgotten
  <2>3. UpInTeardown'
    BY <2>1, NestedStays, QueueKeepsUp, OthersKeepUp
  <2> QED BY <2>2, <2>3
<1> QED BY <1>1, <1>2, SessionInvariant, PTL DEF Spec

-----------------------------------------------------------------------------
(* Registers that do not fail                                              *)

\* Only error_exit, a register in a teardown, destroys the library and leaves
\* pjsuaInitialized set.
LEMMA StepKeepsInitializedIsUp ==
  ASSUME IInv, RegistersSucceed, RegistersSucceed', InitializedIsUp, [Next]_vars
  PROVE  InitializedIsUp'
<1> USE DEF phone, pjsua, past
<1>1. stack \in Seq(Frames) /\ queue \in Seq(Ops) /\ Waiting
  BY DEF IInv, TypeOK, Frames
<1>2. ASSUME stack # <<>>
      PROVE  Top.op = "register" =>
                 Top.at \notin {"Delete", "HangupAll", "AccDel", "Destroy",
                              "Closing", "Tell"}
  <2>1. Len(stack) \in 1 .. Len(stack)
    BY <1>1, <1>2, EmptySeq
  <2> QED BY <2>1 DEF RegistersSucceed, Top
<1>3. ASSUME stack' # <<>>, stack' \in Seq(Frames)
      PROVE  Top'.op = "register" => Top'.at # "Delete"
  <2>1. Len(stack') \in 1 .. Len(stack')
    BY <1>3, EmptySeq
  <2> QED BY <2>1 DEF RegistersSucceed, Top
<1>4. ASSUME UNCHANGED <<stack, initialized>>, lib' # "Null" \/ lib' = lib
      PROVE  InitializedIsUp'
  BY <1>4 DEF InitializedIsUp, At, Top
<1>5. ASSUME UNCHANGED <<initialized, lib>>, stack = <<>> \/ Top.at \in Upcalls,
             NEW op \in Ops, Push(op)
      PROVE  InitializedIsUp'
  <2>1. Top'.at = Entry(op)
    BY <1>1, <1>5, StackPush DEF Waiting
  <2> QED BY <1>5, <2>1 DEF InitializedIsUp, At, Entry, Upcalls
<1>6. ASSUME UNCHANGED <<initialized, lib>>, stack # <<>>, Pop,
             ~At("Create"), ~At("Tell")
      PROVE  InitializedIsUp'
  <2>1. stack' # <<>> => Top'.at \in Upcalls
    BY <1>1, <1>6, StackPop DEF Waiting
  <2> QED BY <1>6, <2>1 DEF InitializedIsUp, At, Upcalls
<1>7. ASSUME NEW p \in Places, Goto(p), stack # <<>>
      PROVE  /\ stack' # <<>> /\ Top'.at = p /\ Top'.op = Top.op
             /\ stack' \in Seq(Frames)
  BY <1>1, <1>7, StackGoto DEF Waiting
<1>8. CASE Dequeue
  <2>1. Head(queue) \in Ops
    BY <1>1, <1>8, HeadTailProperties DEF Dequeue
  <2> QED BY <1>5, <1>8, <2>1 DEF Dequeue
<1>9. CASE \E op \in Ops : RequestInline(op)
  BY <1>5, <1>9 DEF RequestInline, At, Upcalls
<1>10. CASE AccountAdd \/ AccountModify
  BY <1>6, <1>10 DEF AccountAdd, AccountModify, At
<1>11. CASE DelegateReturns
  BY <1>6, <1>7, <1>11 DEF DelegateReturns, At, InitializedIsUp, Places
<1>12. CASE CheckInitialized
  <2>1. stack' # <<>> /\ Top'.at = IF initialized THEN "Account" ELSE "Create"
    BY <1>7, <1>12 DEF CheckInitialized, At, Places
  <2> QED BY <1>12, <2>1 DEF CheckInitialized, At, InitializedIsUp
<1>13. ASSUME NEW from \in {"Create", "Init", "Start"},
              NEW to \in {"Created", "Init", "Running"},
              NEW next \in {"Init", "Start", "Account"},
              Bring(from, to, next)
       PROVE  InitializedIsUp'
  <2>1. stack # <<>> /\ Top.op = "register" /\ initialized' = initialized /\ initialized
    BY <1>13 DEF Bring, At, IInv, TopBlock, Bringing
  <2>2. ~ErrorExit
    BY <1>3, <1>7, <2>1 DEF ErrorExit, Places
  <2>3. lib' = to
    BY <1>13, <2>2 DEF Bring
  <2> QED BY <2>1, <2>3 DEF InitializedIsUp
<1>14. CASE CreateLibrary \/ InitLibrary \/ StartLibrary
  BY <1>13, <1>14 DEF CreateLibrary, InitLibrary, StartLibrary
<1>15. CASE AccountCaught \/ AccountRefused
  BY <1>7, <1>15 DEF AccountCaught, AccountRefused, ErrorExit, At, Places,
                     InitializedIsUp
<1>16. CASE DeleteAccount \/ HangupAllOne
  <2>1. UNCHANGED <<initialized, lib>> /\ stack # <<>> /\ ~At("Create") /\ ~At("Tell")
    BY <1>16 DEF DeleteAccount, HangupAllOne, At
  <2>2. Top \in Frames
    BY <1>1, <2>1, EmptySeq, ElementOfSeq DEF Top
  <2>3. calls \in Nat /\ (HangupAllOne => Top.left - 1 \in Nat)
    BY <2>2 DEF IInv, TypeOK, HangupAllOne, Frames
  <2>4. stack' # <<>> => Top'.at # "Account"
    <3> DEFINE f == [Top EXCEPT !.at = "HangupAll", !.left = calls]
               g == [Top EXCEPT !.at = "InHangup", !.left = Top.left - 1]
    <3>1. f \in Frames /\ f.at = "HangupAll"
      BY <2>2, <2>3 DEF Frames, Places
    <3>2. HangupAllOne => g \in Frames /\ g.at = "InHangup"
      BY <2>2, <2>3 DEF Frames, Places, Upcalls
    <3>3. \/ Goto("Destroy") \/ stack' = [stack EXCEPT ![Len(stack)] = f]
          \/ HangupAllOne /\ stack' = [stack EXCEPT ![Len(stack)] = g]
      BY <1>16 DEF DeleteAccount, HangupAllOne
    <3> HIDE DEF f, g
    <3>4. CASE Goto("Destroy")
      BY <1>7, <2>1, <3>4 DEF Places
    <3>5. CASE stack' = [stack EXCEPT ![Len(stack)] = f]
      BY <1>1, <2>1, <3>1, <3>5, StackReplace DEF Waiting
    <3>6. CASE HangupAllOne /\ stack' = [stack EXCEPT ![Len(stack)] = g]
      BY <1>1, <2>1, <3>2, <3>6, StackReplace DEF Waiting
    <3> QED BY <3>3, <3>4, <3>5, <3>6
  <2> QED BY <2>1, <2>4 DEF InitializedIsUp, At
<1>17. CASE HangupAllDone \/ AccDel \/ ClosingOne
  BY <1>7, <1>17 DEF HangupAllDone, AccDel, ClosingOne, At, Places, Upcalls,
                     InitializedIsUp
<1>18. CASE DestroyLibrary \/ ClosingDone
  BY <1>7, <1>18 DEF DestroyLibrary, ClosingDone, At, Places, InitializedIsUp
<1>19. CASE Tell
  <2>1. stack # <<>> /\ stack' # <<>> /\ Top'.at = "Told" /\ lib' = lib
    BY <1>7, <1>19 DEF Tell, At, Places, Upcalls
  <2>2. Top \in Frames
    BY <1>1, <2>1, EmptySeq, ElementOfSeq DEF Top
  <2>3. initialized' => initialized /\ ~At("Tell") /\ ~At("Create")
    BY <1>2, <1>19, <2>2 DEF Tell, At, Ops, Frames
  <2> QED BY <2>1, <2>3 DEF InitializedIsUp, At
<1>20. \/ UNCHANGED <<stack, initialized>> /\ (lib' # "Null" \/ lib' = lib)
       \/ Dequeue \/ DelegateReturns \/ RegisterStep \/ TeardownStep
       \/ \E op \in Ops : RequestInline(op)
  BY DEF Next, vars, QueueThread, WorkerThread, Application,
         Request, Abort, RegEvent, RegDeliver, IncomingCall, RemoteHangup
<1> QED BY <1>4, <1>8, <1>9, <1>10, <1>11, <1>12, <1>14, <1>15, <1>16, <1>17,
           <1>18, <1>19, <1>20 DEF RegisterStep, TeardownStep

\* In a session none of whose registers fails, the library is up wherever
\* pjsuaInitialized says so.
LEMMA InitializedStaysUp == Spec /\ []RegistersSucceed => []InitializedIsUp
<1>1. Init => InitializedIsUp
  BY DEF Init, InitializedIsUp, At
<1>2. IInv /\ RegistersSucceed /\ RegistersSucceed' /\ InitializedIsUp /\ [Next]_vars
        => InitializedIsUp'
  BY StepKeepsInitializedIsUp
<1> QED BY <1>1, <1>2, SessionInvariant, PTL DEF Spec

\* The error path is the only way to an account call on a library that was not
\* created: as long as no register is torn down, whatever the delegate runs
\* inside onCallState, pjsua_create comes first.
THEOREM CreatedBeforeUse == Spec /\ []RegistersSucceed => []CreateBeforeUse
<1>1. InitializedIsUp => CreateBeforeUse
  BY DEF InitializedIsUp, CreateBeforeUse, At
<1> QED BY <1>1, InitializedStaysUp, PTL

\* A delegate that starts nothing inside onCallState and registers that do not
\* fail never break a rule of the library: the process survives.
THEOREM NeverAborts == Spec /\ []RegistersSucceed /\ []~nested => []Survives
<1>1. Init => Survives
  BY DEF Init, Survives
<1>2. IInv /\ ForgottenFirst /\ UpInTeardown /\ ~nested /\ CreateBeforeUse => ~Abort
  BY DEF IInv, NullIsFresh, ForgottenFirst, UpInTeardown, CreateBeforeUse, Abort,
         BadAccountCall, BadAccDel, DestroyedUnderfoot, At
<1>3. Survives /\ ~Abort /\ [Next]_vars => Survives'
  BY DEF Survives, Next, vars, phone, pjsua, QueueThread, WorkerThread, Application,
         Request, RequestInline, Dequeue, DelegateReturns, RegisterStep,
         TeardownStep, CheckInitialized, CreateLibrary, InitLibrary, StartLibrary,
         Bring, AccountCaught, AccountAdd, AccountModify, AccountRefused,
         DeleteAccount, HangupAllOne, HangupAllDone, AccDel, DestroyLibrary,
         ClosingOne, ClosingDone, Tell, RegEvent, RegDeliver, IncomingCall,
         RemoteHangup
<1>4. /\ Spec => []IInv
      /\ Spec => [](ForgottenFirst /\ UpInTeardown)
      /\ Spec /\ []RegistersSucceed => []CreateBeforeUse
  BY SessionInvariant, TeardownStaysUp, CreatedBeforeUse
<1> QED BY <1>1, <1>2, <1>3, <1>4, PTL DEF Spec

=============================================================================
