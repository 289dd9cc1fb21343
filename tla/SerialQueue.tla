---------------------------- MODULE SerialQueue ----------------------------
(***************************************************************************)
(* What runAsync and the serial dispatch queue promise together: blocks    *)
(* sent from other threads start one at a time and in the order they were  *)
(* sent; a block sent by the block that is running runs inside it and ends *)
(* before it goes on.                                                      *)
(***************************************************************************)
EXTENDS Integers, Sequences

CONSTANT Blocks \* what there is to run

VARIABLES
  waiting, \* blocks sent and not started, oldest first
  running  \* the block that runs, then the ones running inside it

vars == <<waiting, running>>

Init == waiting = <<>> /\ running = <<>>

Send(b) ==
  waiting' = Append(waiting, b) /\ UNCHANGED running

Start ==
  /\ running = <<>> /\ waiting # <<>>
  /\ running' = <<Head(waiting)>>
  /\ waiting' = Tail(waiting)

Nest(b) ==
  /\ running # <<>>
  /\ running' = Append(running, b)
  /\ UNCHANGED waiting

Finish ==
  /\ running # <<>>
  /\ running' = SubSeq(running, 1, Len(running) - 1)
  /\ UNCHANGED waiting

Next == Start \/ Finish \/ \E b \in Blocks : Send(b) \/ Nest(b)

Spec == Init /\ [][Next]_vars
=============================================================================
