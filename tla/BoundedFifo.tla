---------------------------- MODULE BoundedFifo ----------------------------
(***************************************************************************)
(* What a user of LockFreeCircularQueueSPSC may rely on: a first-in        *)
(* first-out queue of at most Size items between one producer and one      *)
(* consumer.  A push or a pop takes effect at one instant between its call *)
(* and its return, is refused only if the queue is full or empty at such   *)
(* an instant, and every call returns.                                     *)
(***************************************************************************)
EXTENDS Integers, Sequences

CONSTANTS Values, Size

VARIABLES
  queue,      \* the items in the queue, oldest first
  putting,    \* <<v>> while push(v) is in progress, <<>> otherwise
  putOk,      \* what the last push returned
  getting,    \* a pop is in progress
  got         \* <<v>> if the last pop returned v, <<>> if it was refused

fifoVars == <<queue, putting, putOk, getting, got>>

Init ==
  /\ queue = <<>>
  /\ putting = <<>> /\ putOk = FALSE
  /\ getting = FALSE /\ got = <<>>

CallPush(v) ==
  /\ putting = <<>>
  /\ putting' = <<v>>
  /\ UNCHANGED <<queue, putOk, getting, got>>

Push ==
  /\ putting # <<>> /\ Len(queue) < Size
  /\ queue' = Append(queue, putting[1])
  /\ putting' = <<>> /\ putOk' = TRUE
  /\ UNCHANGED <<getting, got>>

RefusePush ==
  /\ putting # <<>> /\ Len(queue) = Size
  /\ putting' = <<>> /\ putOk' = FALSE
  /\ UNCHANGED <<queue, getting, got>>

CallPop ==
  /\ ~getting
  /\ getting' = TRUE
  /\ UNCHANGED <<queue, putting, putOk, got>>

Pop ==
  /\ getting /\ queue # <<>>
  /\ got' = <<Head(queue)>>
  /\ queue' = Tail(queue)
  /\ getting' = FALSE
  /\ UNCHANGED <<putting, putOk>>

RefusePop ==
  /\ getting /\ queue = <<>>
  /\ got' = <<>>
  /\ getting' = FALSE
  /\ UNCHANGED <<queue, putting, putOk>>

Next ==
  \/ \E v \in Values : CallPush(v)
  \/ Push \/ RefusePush
  \/ CallPop \/ Pop \/ RefusePop

Safety == Init /\ [][Next]_fifoVars

FairSpec ==
  /\ Safety
  /\ WF_fifoVars(Push \/ RefusePush)
  /\ WF_fifoVars(Pop \/ RefusePop)

=============================================================================
