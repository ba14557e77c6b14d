----------------------------- MODULE SpscQueue -----------------------------
(***************************************************************************)
(* LockFreeCircularQueueSPSC (base/component/lock_free_circular_queue_ss.h)*)
(* between one producer thread and one consumer thread, one memory access  *)
(* per step.  The status of a cell is the only atomic: its release stores  *)
(* and acquire loads order the plain accesses to the item, so the steps    *)
(* interleave; NoRace shows that plain accesses never overlap.             *)
(*                                                                         *)
(* The counters m_begin and m_end wrap at Width (2 ^ 64 for the build's    *)
(* uint_fast32_t, small here so that TLC wraps them), and Size, a power of *)
(* two, divides it: realPos masks the low bits, which is c % Size.         *)
(*                                                                         *)
(* Operators named _Slip<What> are mutated forms, as in SingleFail.        *)
(***************************************************************************)
EXTENDS Integers, Sequences

CONSTANTS
  Values,     \* items
  NoItem,     \* T(), what a cell holds when it was never filled or was reset
  Size,       \* m_data.size()
  Width       \* the number of values of a uint_fast32_t

ASSUME SizeAssumption  == Size \in Nat \ {0}
ASSUME WidthAssumption == Width \in Nat \ {0} /\ \E n \in 1..Width : Width = n * Size
ASSUME ItemAssumption  == NoItem \notin Values

VARIABLES
  status, item,                     \* the cells: Cell::status and Cell::t
  mEnd, ppc, ppos, arg, plooks,     \* the producer: m_end, locals of push
  mBegin, cpc, cpos, out, clooks,   \* the consumer: m_begin, locals of pop
  putOk, got,                       \* what the last push and the last pop returned
  sawItem                           \* empty() returned false since the last pop

producer == <<mEnd, ppc, ppos, arg, plooks, putOk>>
consumer == <<mBegin, cpc, cpos, out, clooks, got, sawItem>>
vars == <<status, item, producer, consumer>>

Cells == 0..(Size - 1)

RealPos(c) == c % Size
Succ(c)    == (c + 1) % Width

Init ==
  /\ status = [c \in Cells |-> "empty"]
  /\ item = [c \in Cells |-> NoItem]
  /\ mEnd = 0 /\ ppc = "idle" /\ ppos = 0 /\ arg = NoItem /\ plooks = 0
  /\ mBegin = 0 /\ cpc = "idle" /\ cpos = 0 /\ out = NoItem /\ clooks = 0
  /\ putOk = FALSE /\ got = <<>>
  /\ sawItem = FALSE

(***************************************************************************)
(* push.                                                                   *)
(***************************************************************************)

CallPush(v) ==
  /\ ppc = "idle"
  /\ arg' = v /\ ppos' = RealPos(mEnd) /\ plooks' = 0
  /\ ppc' = "look"
  /\ UNCHANGED <<status, item, mEnd, putOk, consumer>>

\* The acquire load of the tail cell's status finds it empty.
PushSeesRoom ==
  /\ ppc = "look" /\ status[ppos] = "empty"
  /\ ppc' = "advance"
  /\ UNCHANGED <<status, item, mEnd, ppos, arg, plooks, putOk, consumer>>

\* It finds the cell full: one more try, then refuse.
PushSeesFull ==
  /\ ppc = "look" /\ status[ppos] = "full"
  /\ plooks' = plooks + 1
  /\ IF plooks' < 2 THEN UNCHANGED <<ppc, putOk>>
                    ELSE ppc' = "idle" /\ putOk' = FALSE
  /\ UNCHANGED <<status, item, mEnd, ppos, arg, consumer>>

PushAdvance_SlipPublish ==
  /\ ppc = "advance"
  /\ mEnd' = Succ(mEnd)
  /\ status' = [status EXCEPT ![ppos] = "full"]
  /\ ppc' = "fill"
  /\ UNCHANGED <<item, ppos, arg, plooks, putOk, consumer>>

PushAdvance ==
  /\ ppc = "advance"
  /\ mEnd' = Succ(mEnd)
  /\ ppc' = "fill"
  /\ UNCHANGED <<status, item, ppos, arg, plooks, putOk, consumer>>

PushFill ==
  /\ ppc = "fill"
  /\ item' = [item EXCEPT ![ppos] = arg]
  /\ ppc' = "publish"
  /\ UNCHANGED <<status, mEnd, ppos, arg, plooks, putOk, consumer>>

PushPublish ==
  /\ ppc = "publish"
  /\ status' = [status EXCEPT ![ppos] = "full"]
  /\ ppc' = "idle" /\ putOk' = TRUE
  /\ UNCHANGED <<item, mEnd, ppos, arg, plooks, consumer>>

(***************************************************************************)
(* pop and empty.                                                          *)
(***************************************************************************)

\* empty(), called by the consumer before a pop; only a false answer commits it.
SeeItem ==
  /\ cpc = "idle" /\ status[RealPos(mBegin)] = "full"
  /\ sawItem' = TRUE
  /\ UNCHANGED <<status, item, producer, mBegin, cpc, cpos, out, clooks, got>>

CallPop ==
  /\ cpc = "idle"
  /\ cpos' = RealPos(mBegin) /\ clooks' = 0
  /\ cpc' = "look"
  /\ UNCHANGED <<status, item, producer, mBegin, out, got, sawItem>>

PopSeesItem ==
  /\ cpc = "look" /\ status[cpos] = "full"
  /\ cpc' = "advance"
  /\ UNCHANGED <<status, item, producer, mBegin, cpos, out, clooks, got, sawItem>>

PopSeesEmpty ==
  /\ cpc = "look" /\ status[cpos] = "empty"
  /\ clooks' = clooks + 1
  /\ IF clooks' < 3 THEN UNCHANGED <<cpc, got, sawItem>>
                    ELSE cpc' = "idle" /\ got' = <<>> /\ sawItem' = FALSE
  /\ UNCHANGED <<status, item, producer, mBegin, cpos, out>>

PopAdvance_SlipRelease ==
  /\ cpc = "advance"
  /\ mBegin' = Succ(mBegin)
  /\ status' = [status EXCEPT ![cpos] = "empty"]
  /\ cpc' = "take"
  /\ UNCHANGED <<item, producer, cpos, out, clooks, got, sawItem>>

PopAdvance ==
  /\ cpc = "advance"
  /\ mBegin' = Succ(mBegin)
  /\ cpc' = "take"
  /\ UNCHANGED <<status, item, producer, cpos, out, clooks, got, sawItem>>

PopTake ==
  /\ cpc = "take"
  /\ out' = item[cpos]
  /\ cpc' = "reset"
  /\ UNCHANGED <<status, item, producer, mBegin, cpos, clooks, got, sawItem>>

PopReset ==
  /\ cpc = "reset"
  /\ item' = [item EXCEPT ![cpos] = NoItem]
  /\ cpc' = "release"
  /\ UNCHANGED <<status, producer, mBegin, cpos, out, clooks, got, sawItem>>

PopRelease ==
  /\ cpc = "release"
  /\ status' = [status EXCEPT ![cpos] = "empty"]
  /\ cpc' = "idle" /\ got' = <<out>> /\ sawItem' = FALSE
  /\ UNCHANGED <<item, producer, mBegin, cpos, out, clooks>>

PushStep ==
  \/ PushSeesRoom \/ PushSeesFull
  \/ PushAdvance \/ PushFill \/ PushPublish

PopStep ==
  \/ PopSeesItem \/ PopSeesEmpty
  \/ PopAdvance \/ PopTake \/ PopReset \/ PopRelease

Next ==
  \/ \E v \in Values : CallPush(v)
  \/ PushStep
  \/ SeeItem \/ CallPop
  \/ PopStep

Safety == Init /\ [][Next]_vars

\* Either thread keeps running while it is inside a call: neither ever blocks.
Spec == Safety /\ WF_vars(PushStep) /\ WF_vars(PopStep)

(***************************************************************************)
(* Properties.                                                             *)
(***************************************************************************)

TypeOK ==
  /\ status \in [Cells -> {"empty", "full"}]
  /\ item \in [Cells -> Values \cup {NoItem}]
  /\ mEnd \in 0..(Width - 1) /\ mBegin \in 0..(Width - 1)
  /\ ppc \in {"idle", "look", "advance", "fill", "publish"}
  /\ cpc \in {"idle", "look", "advance", "take", "reset", "release"}
  /\ ppos \in Cells /\ cpos \in Cells
  /\ arg \in Values \cup {NoItem} /\ out \in Values \cup {NoItem}
  /\ plooks \in 0..2 /\ (ppc = "look" => plooks < 2)
  /\ clooks \in 0..3 /\ (cpc = "look" => clooks < 3)
  /\ putOk \in BOOLEAN /\ got \in {<<>>} \cup {<<v>> : v \in Values \cup {NoItem}}
  /\ sawItem \in BOOLEAN

\* The item of a cell is never written by one thread while the other accesses it.
NoRace ==
  ~ (/\ ppc = "fill" /\ cpc \in {"take", "reset"} /\ ppos = cpos)

\* A consumer that saw empty() = false has its pop succeed: the branch "queue
\* not empty but pop failed", which ends the database thread, is dead.
SeenItemStays ==
  sawItem => /\ cpc \in {"idle", "look"} => status[RealPos(mBegin)] = "full"
             /\ cpc = "look" => clooks = 0

(***************************************************************************)
(* The shape of the ring, and the inductive invariant of the proofs.       *)
(***************************************************************************)

\* The j-th cell from p on, around the ring.
At(p, j) == IF p + j < Size THEN p + j ELSE p + j - Size

\* How many items lie from cell h up to cell t; if these are one cell the ring
\* is full or empty, as that cell is.
Distance(h, t, full) ==
  IF t > h THEN t - h ELSE IF t = h /\ ~full THEN 0 ELSE t - h + Size

\* The cell of the oldest item, and the cell the next item is published in.
HeadCell == IF cpc \in {"take", "reset", "release"} THEN cpos ELSE RealPos(mBegin)
TailCell == IF ppc \in {"fill", "publish"} THEN ppos ELSE RealPos(mEnd)

Count == Distance(HeadCell, TailCell, status[HeadCell] = "full")

\* A position in use is the one its counter names, or the one before it.
PositionsFollowCounters ==
  /\ ppc \in {"look", "advance"} => ppos = RealPos(mEnd)
  /\ ppc \in {"fill", "publish"} => RealPos(mEnd) = At(ppos, 1)
  /\ cpc \in {"look", "advance"} => cpos = RealPos(mBegin)
  /\ cpc \in {"take", "reset", "release"} => RealPos(mBegin) = At(cpos, 1)

\* The full cells are the Count cells from the head on, no other.
FullCellsInOrder ==
  \A j \in Cells :
    status[At(HeadCell, j)] = IF j < Count THEN "full" ELSE "empty"

\* What a thread has seen of the cell it works on stays so until it changes it.
LookStaysTrue ==
  /\ ppc \in {"advance", "fill", "publish"} => status[ppos] = "empty"
  /\ cpc \in {"advance", "take", "reset", "release"} => status[cpos] = "full"

\* The producer publishes the item it was called with.
ItemInPlace ==
  /\ ppc # "idle" => arg \in Values
  /\ ppc = "publish" => item[ppos] = arg

\* The ring between any two memory accesses of the two threads: their private
\* counters and positions agree with the statuses, which are all they share.
RingInv ==
  /\ TypeOK
  /\ PositionsFollowCounters
  /\ FullCellsInOrder
  /\ LookStaysTrue
  /\ ItemInPlace

\* What the callers of the ring rely on: no access races, and what empty() said stays.
RingSafe == RingInv /\ NoRace /\ SeenItemStays

(***************************************************************************)
(* The queue it implements.                                                *)
(***************************************************************************)

\* The items from the head on; the consumer may already hold the first one.
ItemAt(j) ==
  IF j = 1 /\ cpc \in {"reset", "release"} THEN out ELSE item[At(HeadCell, j - 1)]

Items == [j \in 1..Count |-> ItemAt(j)]

Fifo == INSTANCE BoundedFifo WITH
  queue   <- Items,
  putting <- IF ppc = "idle" THEN <<>> ELSE <<arg>>,
  getting <- cpc # "idle"

\* The ring is a linearizable bounded FIFO queue, and both operations return.
ImplementsFifo == Fifo!FairSpec

=============================================================================
