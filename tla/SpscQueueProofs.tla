-------------------------- MODULE SpscQueueProofs --------------------------
(***************************************************************************)
(* Proofs about SpscQueue for every capacity, every width of the counters  *)
(* that the capacity divides, and every set of items: the two threads      *)
(* never touch one item at the same time, a pop announced by empty()       *)
(* succeeds, and the ring implements the safety part of BoundedFifo.       *)
(***************************************************************************)
EXTENDS SpscQueue, SequenceTheorems, TLAPS

USE SizeAssumption

(***************************************************************************)
(* Positions on the ring.                                                  *)
(***************************************************************************)

\* realPos only yields cells.
LEMMA RealPosCell == \A c \in Nat : RealPos(c) \in Cells
  BY DEF RealPos, Cells

\* The remainder is the only number below Size that completes a multiple of it.
LEMMA ModUnique ==
  \A q \in Nat, r \in 0..(Size - 1) : (Size * q + r) % Size = r
  OBVIOUS

\* m_end++ and m_begin++ move the position to the next cell, also when the
\* counter wraps: its width is a multiple of the number of cells.
LEMMA RealPosSucc ==
  \A c \in 0..(Width - 1) :
    Succ(c) \in 0..(Width - 1) /\ RealPos(Succ(c)) = At(RealPos(c), 1)
<1> SUFFICES ASSUME NEW c \in 0..(Width - 1)
             PROVE  Succ(c) \in 0..(Width - 1) /\ RealPos(Succ(c)) = At(RealPos(c), 1)
  OBVIOUS
<1>1. PICK n \in 1..Width : Width = n * Size
  BY WidthAssumption
<1>2. Succ(c) = IF c + 1 = Width THEN 0 ELSE c + 1
  BY WidthAssumption DEF Succ
<1>3. /\ c = Size * (c \div Size) + RealPos(c)
      /\ RealPos(c) \in 0..(Size - 1)
      /\ c \div Size \in Nat
  BY WidthAssumption DEF RealPos
<1>4. CASE c + 1 = Width
  <2> DEFINE q == c \div Size
  <2> HIDE DEF q
  <2>1. q \in Nat /\ Size * (n - q) = RealPos(c) + 1
    BY <1>1, <1>3, <1>4, WidthAssumption DEF q
  <2>2. n - q >= 1
    BY <2>1, <1>3, <1>1
  <2>3. RealPos(c) + 1 >= Size
    BY <2>1, <2>2, <1>1
  <2>4. RealPos(c) = Size - 1
    BY <2>3, <1>3
  <2>5. 0 % Size = 0
    OBVIOUS
  <2>6. QED
    BY <2>4, <2>5, <1>2, <1>4, WidthAssumption DEF At, RealPos
<1>5. CASE c + 1 # Width
  <2> DEFINE q == c \div Size
             r == RealPos(c)
  <2>1. q \in Nat /\ r \in 0..(Size - 1) /\ c = Size * q + r
    BY <1>3
  <2>2. Succ(c) = c + 1 /\ c + 1 \in 0..(Width - 1)
    BY <1>2, <1>5, WidthAssumption
  <2> HIDE DEF q, r
  <2>3. CASE r + 1 < Size
    <3>1. c + 1 = Size * q + (r + 1) /\ r + 1 \in 0..(Size - 1)
      BY <2>1, <2>3
    <3>2. (c + 1) % Size = r + 1
      BY <3>1, <2>1, ModUnique
    <3>3. QED
      BY <3>2, <2>2, <2>3 DEF At, RealPos, r
  <2>4. CASE r + 1 >= Size
    <3>1. r + 1 = Size
      BY <2>1, <2>4
    <3>2. c + 1 = Size * (q + 1) + 0
      BY <2>1, <3>1
    <3>3. (c + 1) % Size = 0
      BY <3>2, <2>1, ModUnique
    <3>4. QED
      BY <3>1, <3>3, <2>2 DEF At, RealPos, r
  <2>5. QED
    BY <2>1, <2>3, <2>4
<1>6. QED
  BY <1>4, <1>5

\* The cells h, h + 1, ... are cells, Size of them different, and then h again.
LEMMA AtFacts ==
  \A h \in Cells :
    /\ \A j \in 0..Size : At(h, j) \in Cells
    /\ \A i, j \in Cells : At(h, i) = At(h, j) => i = j
    /\ \A j \in Cells : At(At(h, 1), j) = At(h, j + 1)
    /\ At(h, 0) = h /\ At(h, Size) = h
  BY DEF At, Cells

\* Distance counts the steps from one cell to the other.
LEMMA DistanceFacts ==
  \A h, t \in Cells, full \in BOOLEAN :
    Distance(h, t, full) \in 0..Size /\ At(h, Distance(h, t, full)) = t
  BY DEF At, Cells, Distance

\* An item more at the tail.
LEMMA DistancePush ==
  \A h, t \in Cells, full \in BOOLEAN :
    Distance(h, t, full) < Size /\ (0 < Distance(h, t, full) => full) =>
      Distance(h, At(t, 1), TRUE) = Distance(h, t, full) + 1
  BY DEF At, Cells, Distance

\* An item less at the head.
LEMMA DistancePop ==
  \A h, t \in Cells, full \in BOOLEAN :
    (full <=> 1 < Distance(h, t, TRUE)) =>
      Distance(At(h, 1), t, full) = Distance(h, t, TRUE) - 1
  BY DEF At, Cells, Distance

(***************************************************************************)
(* The inductive invariant.                                                *)
(***************************************************************************)

\* What RingInv says about the two ends of the ring.
LEMMA RingFacts ==
  ASSUME RingInv
  PROVE  /\ HeadCell \in Cells /\ TailCell \in Cells
         /\ Count \in 0..Size /\ At(HeadCell, Count) = TailCell
         /\ status[HeadCell] = "full" <=> 0 < Count
         /\ status[TailCell] = "full" <=> Count = Size
<1>1. HeadCell \in Cells /\ TailCell \in Cells
  BY RealPosCell, WidthAssumption DEF RingInv, TypeOK, HeadCell, TailCell
<1>2. Count \in 0..Size /\ At(HeadCell, Count) = TailCell
  BY <1>1, DistanceFacts DEF Count
<1>3. status[HeadCell] = "full" <=> 0 < Count
  <2>1. 0 \in Cells /\ At(HeadCell, 0) = HeadCell
    BY <1>1, AtFacts DEF Cells
  <2>2. QED
    BY <2>1, <1>2 DEF RingInv, FullCellsInOrder
<1>4. status[TailCell] = "full" <=> Count = Size
  <2>1. CASE Count = Size
    BY <2>1, <1>1, <1>2, <1>3, AtFacts
  <2>2. CASE Count # Size
    <3>1. Count \in Cells
      BY <1>2, <2>2 DEF Cells
    <3>2. QED
      BY <3>1, <2>2, <1>2 DEF RingInv, FullCellsInOrder
  <2>3. QED
    BY <2>1, <2>2
<1>5. QED
  BY <1>1, <1>2, <1>3, <1>4

\* A step that moves neither end and changes no status keeps the full cells.
LEMMA SameShape ==
  ASSUME HeadCell' = HeadCell, TailCell' = TailCell, status' = status
  PROVE  Count' = Count /\ (FullCellsInOrder => FullCellsInOrder')
  BY DEF Count, FullCellsInOrder

\* The variables keep their types.
LEMMA TypeStep == TypeOK /\ [Next]_vars => TypeOK'
<1> SUFFICES ASSUME TypeOK, [Next]_vars PROVE TypeOK'
  OBVIOUS
<1> USE DEF TypeOK, producer, consumer
<1>1. ASSUME NEW v \in Values, CallPush(v) PROVE TypeOK'
  BY <1>1, RealPosCell, WidthAssumption DEF CallPush
<1>2. CASE PushSeesRoom
  BY <1>2 DEF PushSeesRoom
<1>3. CASE PushSeesFull
  <2>1. plooks' \in 1..2
    BY <1>3 DEF PushSeesFull
  <2>2. CASE plooks' < 2
    BY <1>3, <2>1, <2>2 DEF PushSeesFull
  <2>3. CASE ~(plooks' < 2)
    <3>1. ppc' = "idle" /\ putOk' = FALSE
      BY <1>3, <2>3 DEF PushSeesFull
    <3>2. plooks' \in 0..2 /\ UNCHANGED <<status, item, mEnd, ppos, arg, consumer>>
      BY <1>3, <2>1 DEF PushSeesFull
    <3>3. QED
      BY <3>1, <3>2
  <2>4. QED
    BY <2>2, <2>3
<1>4. CASE PushAdvance
  BY <1>4, RealPosSucc DEF PushAdvance
<1>5. CASE PushFill
  BY <1>5 DEF PushFill
<1>6. CASE PushPublish
  BY <1>6 DEF PushPublish
<1>7. CASE SeeItem
  BY <1>7 DEF SeeItem
<1>8. CASE CallPop
  BY <1>8, RealPosCell, WidthAssumption DEF CallPop
<1>9. CASE PopSeesItem
  BY <1>9 DEF PopSeesItem
<1>10. CASE PopSeesEmpty
  <2>1. clooks' \in 1..3
    BY <1>10 DEF PopSeesEmpty
  <2>2. CASE clooks' < 3
    BY <1>10, <2>1, <2>2 DEF PopSeesEmpty
  <2>3. CASE ~(clooks' < 3)
    <3>1. cpc' = "idle" /\ got' = <<>> /\ sawItem' = FALSE
      BY <1>10, <2>3 DEF PopSeesEmpty
    <3>2. clooks' \in 0..3 /\ UNCHANGED <<status, item, producer, mBegin, cpos, out>>
      BY <1>10, <2>1 DEF PopSeesEmpty
    <3>3. QED
      BY <3>1, <3>2
  <2>4. QED
    BY <2>2, <2>3
<1>11. CASE PopAdvance
  BY <1>11, RealPosSucc DEF PopAdvance
<1>12. CASE PopTake
  BY <1>12 DEF PopTake
<1>13. CASE PopReset
  BY <1>13 DEF PopReset
<1>14. CASE PopRelease
  BY <1>14 DEF PopRelease
<1>15. CASE UNCHANGED vars
  BY <1>15 DEF vars
<1>16. QED
  BY <1>1, <1>2, <1>3, <1>4, <1>5, <1>6, <1>7, <1>8, <1>9, <1>10, <1>11,
     <1>12, <1>13, <1>14, <1>15 DEF Next, PushStep, PopStep

(***************************************************************************)
(* The ring keeps its shape.                                               *)
(***************************************************************************)

\* The steps that change no status.
Quiet ==
  \/ \E v \in Values : CallPush(v)
  \/ PushSeesRoom \/ PushSeesFull \/ PushAdvance \/ PushFill
  \/ SeeItem \/ CallPop \/ PopSeesItem \/ PopSeesEmpty
  \/ PopAdvance \/ PopTake \/ PopReset

\* They do not move the ends either: a counter moves while the position it
\* named is in use.
LEMMA QuietShape ==
  ASSUME RingInv, Quiet
  PROVE  /\ HeadCell' = HeadCell /\ TailCell' = TailCell /\ status' = status
         /\ Count' = Count /\ FullCellsInOrder'
<1> USE DEF RingInv, PositionsFollowCounters, HeadCell, TailCell, producer, consumer
<1> DEFINE Same == HeadCell' = HeadCell /\ TailCell' = TailCell /\ status' = status
<1>1. ASSUME NEW v \in Values, CallPush(v) PROVE Same
  BY <1>1 DEF CallPush
<1>2. ASSUME PushSeesRoom PROVE Same
  BY <1>2 DEF PushSeesRoom
<1>3. ASSUME PushSeesFull PROVE Same
  BY <1>3 DEF PushSeesFull
<1>4. ASSUME PushAdvance PROVE Same
  BY <1>4 DEF PushAdvance
<1>5. ASSUME PushFill PROVE Same
  BY <1>5 DEF PushFill
<1>6. ASSUME SeeItem PROVE Same
  BY <1>6 DEF SeeItem
<1>7. ASSUME CallPop PROVE Same
  BY <1>7 DEF CallPop
<1>8. ASSUME PopSeesItem PROVE Same
  BY <1>8 DEF PopSeesItem
<1>9. ASSUME PopSeesEmpty PROVE Same
  BY <1>9 DEF PopSeesEmpty
<1>10. ASSUME PopAdvance PROVE Same
  BY <1>10 DEF PopAdvance
<1>11. ASSUME PopTake PROVE Same
  BY <1>11 DEF PopTake
<1>12. ASSUME PopReset PROVE Same
  BY <1>12 DEF PopReset
<1>13. Same
  BY <1>1, <1>2, <1>3, <1>4, <1>5, <1>6, <1>7, <1>8, <1>9, <1>10, <1>11, <1>12 DEF Quiet
<1>14. QED
  BY <1>13, SameShape

\* Publishing adds a full cell at the tail.
LEMMA PublishShape ==
  ASSUME RingInv, PushPublish
  PROVE  /\ ppos = TailCell /\ HeadCell' = HeadCell
         /\ status' = [status EXCEPT ![TailCell] = "full"]
         /\ Count < Size /\ Count' = Count + 1 /\ FullCellsInOrder'
<1>1. /\ HeadCell \in Cells /\ TailCell \in Cells
      /\ Count \in 0..Size /\ At(HeadCell, Count) = TailCell
      /\ status[HeadCell] = "full" <=> 0 < Count
      /\ status[TailCell] = "full" <=> Count = Size
  BY RingFacts
<1>2. /\ ppos = TailCell /\ status[TailCell] = "empty"
      /\ status \in [Cells -> {"empty", "full"}]
      /\ HeadCell' = HeadCell /\ TailCell' = At(TailCell, 1)
      /\ status' = [status EXCEPT ![TailCell] = "full"]
  BY DEF PushPublish, RingInv, PositionsFollowCounters, LookStaysTrue, TypeOK,
         HeadCell, TailCell, consumer
<1>3. Count < Size
  BY <1>1, <1>2
<1>4. (status'[HeadCell] = "full") = TRUE
  BY <1>1, <1>2, <1>3, AtFacts
<1>5. Count' = Count + 1
  BY <1>1, <1>2, <1>3, <1>4, DistancePush DEF Count
<1>6. ASSUME NEW j \in Cells
      PROVE  status'[At(HeadCell, j)] = IF j < Count + 1 THEN "full" ELSE "empty"
  <2>1. Count \in Cells /\ j \in 0..Size
    BY <1>1, <1>3 DEF Cells
  <2>2. At(HeadCell, j) \in Cells /\ (At(HeadCell, j) = TailCell => j = Count)
    BY <2>1, <1>1, AtFacts
  <2>3. status[At(HeadCell, j)] = IF j < Count THEN "full" ELSE "empty"
    BY DEF RingInv, FullCellsInOrder
  <2>4. CASE j = Count
    BY <2>4, <1>1, <1>2
  <2>5. CASE j # Count
    <3>1. status'[At(HeadCell, j)] = status[At(HeadCell, j)]
      BY <2>5, <2>2, <1>2
    <3>2. j < Count + 1 <=> j < Count
      BY <2>5, <2>1, <1>1
    <3>3. QED
      BY <3>1, <3>2, <2>3
  <2>6. QED
    BY <2>4, <2>5
<1>7. FullCellsInOrder'
  BY <1>2, <1>5, <1>6 DEF FullCellsInOrder
<1>8. QED
  BY <1>2, <1>3, <1>5, <1>7

\* Releasing takes the full cell at the head away.
LEMMA ReleaseShape ==
  ASSUME RingInv, PopRelease
  PROVE  /\ cpos = HeadCell /\ HeadCell' = At(HeadCell, 1)
         /\ status' = [status EXCEPT ![HeadCell] = "empty"]
         /\ 0 < Count /\ Count' = Count - 1 /\ FullCellsInOrder'
<1>1. /\ HeadCell \in Cells /\ TailCell \in Cells
      /\ Count \in 0..Size
      /\ status[HeadCell] = "full" <=> 0 < Count
  BY RingFacts
<1>2. /\ cpos = HeadCell /\ status[HeadCell] = "full"
      /\ status \in [Cells -> {"empty", "full"}]
      /\ HeadCell' = At(HeadCell, 1) /\ TailCell' = TailCell
      /\ status' = [status EXCEPT ![HeadCell] = "empty"]
  BY DEF PopRelease, RingInv, PositionsFollowCounters, LookStaysTrue, TypeOK,
         HeadCell, TailCell, producer
<1>3. 0 < Count /\ Count = Distance(HeadCell, TailCell, TRUE)
  BY <1>1, <1>2 DEF Count
<1>4. ASSUME NEW j \in Cells
      PROVE  status'[At(At(HeadCell, 1), j)] = IF j < Count - 1 THEN "full" ELSE "empty"
  <2>1. At(At(HeadCell, 1), j) = At(HeadCell, j + 1) /\ j \in Nat
    BY <1>1, AtFacts DEF Cells
  <2>2. CASE j + 1 = Size
    BY <2>1, <2>2, <1>1, <1>2, AtFacts
  <2>3. CASE j + 1 # Size
    <3>1. j + 1 \in Cells /\ 0 \in Cells /\ j + 1 # 0
      BY <2>3 DEF Cells
    <3>2. status'[At(HeadCell, j + 1)] = status[At(HeadCell, j + 1)]
      BY <3>1, <1>1, <1>2, AtFacts
    <3>3. status[At(HeadCell, j + 1)] = IF j + 1 < Count THEN "full" ELSE "empty"
      BY <3>1 DEF RingInv, FullCellsInOrder
    <3>4. j + 1 < Count <=> j < Count - 1
      BY <2>1, <1>1
    <3>5. QED
      BY <2>1, <3>2, <3>3, <3>4
  <2>4. QED
    BY <2>2, <2>3
<1>5. (status'[At(HeadCell, 1)] = "full") <=> 1 < Count
  <2>1. 0 \in Cells /\ At(HeadCell, 1) \in Cells
    BY <1>1, AtFacts DEF Cells
  <2>2. At(At(HeadCell, 1), 0) = At(HeadCell, 1)
    BY <2>1, AtFacts
  <2>3. QED
    BY <2>1, <2>2, <1>4, <1>1
<1>6. Count' = Count - 1
  BY <1>1, <1>2, <1>3, <1>5, DistancePop DEF Count
<1>7. FullCellsInOrder'
  BY <1>2, <1>4, <1>6 DEF FullCellsInOrder
<1>8. QED
  BY <1>2, <1>3, <1>6, <1>7

\* RingInv holds of the empty ring...
LEMMA RingInit == Init => RingInv
<1> SUFFICES ASSUME Init PROVE RingInv
  OBVIOUS
<1>1. RealPos(0) = 0 /\ 0 \in Cells
  BY DEF RealPos, Cells
<1>2. HeadCell = 0 /\ TailCell = 0 /\ Count = 0
  BY <1>1 DEF Init, HeadCell, TailCell, Count, Distance
<1>3. FullCellsInOrder
  BY <1>1, <1>2, AtFacts DEF Init, FullCellsInOrder, Cells
<1>4. TypeOK
  BY <1>1, WidthAssumption DEF Init, TypeOK
<1>5. QED
  BY <1>3, <1>4 DEF Init, RingInv, PositionsFollowCounters, LookStaysTrue, ItemInPlace

\* ... and every memory access of the two threads preserves it.
LEMMA RingStep == RingInv /\ [Next]_vars => RingInv'
<1> SUFFICES ASSUME RingInv, [Next]_vars PROVE RingInv'
  OBVIOUS
<1> DEFINE Local == PositionsFollowCounters /\ LookStaysTrue /\ ItemInPlace
<1> USE DEF RingInv, PositionsFollowCounters, LookStaysTrue, ItemInPlace, producer, consumer
<1>1. TypeOK'
  BY TypeStep
<1>2. CASE Quiet
  <2>1. FullCellsInOrder'
    BY <1>2, QuietShape
  <2>2. ASSUME NEW v \in Values, CallPush(v) PROVE Local'
    BY <2>2 DEF CallPush
  <2>3. ASSUME PushSeesRoom PROVE Local'
    BY <2>3 DEF PushSeesRoom
  <2>4. ASSUME PushSeesFull PROVE Local'
    BY <2>4 DEF PushSeesFull
  <2>5. ASSUME PushAdvance PROVE Local'
    BY <2>5, RealPosSucc DEF PushAdvance, TypeOK
  <2>6. ASSUME PushFill PROVE Local'
    BY <2>6 DEF PushFill, TypeOK
  <2>7. ASSUME SeeItem PROVE Local'
    BY <2>7 DEF SeeItem
  <2>8. ASSUME CallPop PROVE Local'
    BY <2>8 DEF CallPop
  <2>9. ASSUME PopSeesItem PROVE Local'
    BY <2>9 DEF PopSeesItem
  <2>10. ASSUME PopSeesEmpty PROVE Local'
    BY <2>10 DEF PopSeesEmpty
  <2>11. ASSUME PopAdvance PROVE Local'
    BY <2>11, RealPosSucc DEF PopAdvance, TypeOK
  <2>12. ASSUME PopTake PROVE Local'
    BY <2>12 DEF PopTake
  <2>13. ASSUME PopReset PROVE Local'
    BY <2>13 DEF PopReset, TypeOK
  <2>14. QED
    BY <1>1, <1>2, <2>1, <2>2, <2>3, <2>4, <2>5, <2>6, <2>7, <2>8, <2>9, <2>10, <2>11, <2>12, <2>13 DEF Quiet
<1>3. CASE PushPublish
  <2>1. FullCellsInOrder'
    BY <1>3, PublishShape
  <2>2. Local'
    BY <1>3, PublishShape, RingFacts DEF PushPublish, TypeOK
  <2>3. QED
    BY <1>1, <2>1, <2>2
<1>4. CASE PopRelease
  <2>1. FullCellsInOrder'
    BY <1>4, ReleaseShape
  <2>2. Local'
    BY <1>4, ReleaseShape, RingFacts DEF PopRelease, TypeOK
  <2>3. QED
    BY <1>1, <2>1, <2>2
<1>5. CASE UNCHANGED vars
  BY <1>5 DEF vars, TypeOK, FullCellsInOrder, Count, HeadCell, TailCell
<1>6. QED
  BY <1>2, <1>3, <1>4, <1>5 DEF Next, PushStep, PopStep, Quiet

\* At every moment of every run the statuses tell exactly where the items lie,
\* and the counters and positions of the two threads agree with them: for every
\* capacity and every width of the counters that it divides.
THEOREM RingInvariant == Spec => []RingInv
<1>1. Init => RingInv
  BY RingInit
<1>2. RingInv /\ [Next]_vars => RingInv'
  BY RingStep
<1>3. QED
  BY <1>1, <1>2, PTL DEF Spec, Safety

\* The fields of the cells and the locals of push and pop keep their types.
THEOREM TypeCorrect == Spec => []TypeOK
<1>1. RingInv => TypeOK
  BY DEF RingInv
<1>2. QED
  BY <1>1, RingInvariant, PTL

\* The plain accesses to an item are never concurrent: the producer fills only
\* cells it saw empty, the consumer takes and resets only cells it saw full.
THEOREM ItemsNeverRace == Spec => []NoRace
<1>1. RingInv => NoRace
  BY DEF RingInv, LookStaysTrue, NoRace
<1>2. QED
  BY <1>1, RingInvariant, PTL

\* After empty() returned false the next pop finds an item at its first look:
\* DbConnection::exec never takes the branch for a failed pop.
THEOREM SeenItemIsPopped == Spec => []SeenItemStays
<1> DEFINE IInv == RingInv /\ SeenItemStays
<1>1. Init => IInv
  BY RingInit DEF Init, SeenItemStays
<1>2. IInv /\ [Next]_vars => IInv'
  <2> SUFFICES ASSUME RingInv, SeenItemStays, [Next]_vars PROVE SeenItemStays'
    BY RingStep
  <2> USE DEF SeenItemStays, producer, consumer
  <2>1. ASSUME Quiet PROVE SeenItemStays'
    <3>1. status' = status
      BY <2>1, QuietShape
    <3>2. ASSUME NEW v \in Values, CallPush(v) PROVE SeenItemStays'
      BY <3>2, <3>1 DEF CallPush
    <3>3. CASE PushSeesRoom \/ PushSeesFull \/ PushAdvance \/ PushFill
      BY <3>1, <3>3 DEF PushSeesRoom, PushSeesFull, PushAdvance, PushFill
    <3>4. CASE SeeItem
      BY <3>1, <3>4 DEF SeeItem
    <3>5. CASE CallPop \/ PopSeesItem \/ PopAdvance \/ PopTake \/ PopReset
      BY <3>1, <3>5 DEF CallPop, PopSeesItem, PopAdvance, PopTake, PopReset
    <3>6. CASE PopSeesEmpty
      BY <3>1, <3>6 DEF PopSeesEmpty, RingInv, PositionsFollowCounters
    <3>7. QED
      BY <2>1, <3>2, <3>3, <3>4, <3>5, <3>6 DEF Quiet
  <2>2. CASE PushPublish
    <3>1. RealPos(mBegin) \in Cells /\ status \in [Cells -> {"empty", "full"}] /\ ppos \in Cells
      BY RealPosCell, WidthAssumption DEF RingInv, TypeOK
    <3>2. QED
      BY <2>2, <3>1 DEF PushPublish
  <2>3. CASE PopRelease
    BY <2>3 DEF PopRelease
  <2>4. CASE UNCHANGED vars
    BY <2>4 DEF vars
  <2>5. QED
    BY <2>1, <2>2, <2>3, <2>4 DEF Next, PushStep, PopStep, Quiet
<1>3. QED
  BY <1>1, <1>2, PTL DEF Spec, Safety

\* All of it together: what the callers of the ring rely on.
THEOREM RingIsSafe == Spec => []RingSafe
<1>1. RingSafe <=> RingInv /\ NoRace /\ SeenItemStays
  BY DEF RingSafe
<1>2. QED
  BY <1>1, RingInvariant, ItemsNeverRace, SeenItemIsPopped, PTL

(***************************************************************************)
(* The ring implements the bounded FIFO queue.                             *)
(***************************************************************************)

ItemSet == Values \cup {NoItem}

\* The queue the ring stands for is a sequence of Count items.
LEMMA ItemsFacts ==
  ASSUME RingInv
  PROVE  Items \in Seq(ItemSet) /\ Len(Items) = Count /\ DOMAIN Items = 1..Count
<1>1. Count \in Nat /\ Count <= Size /\ HeadCell \in Cells
  BY RingFacts
<1>2. \A j \in 1..Count : ItemAt(j) \in ItemSet
  <2> TAKE j \in 1..Count
  <2>1. At(HeadCell, j - 1) \in Cells
    BY <1>1, AtFacts
  <2>2. QED
    BY <2>1 DEF RingInv, TypeOK, ItemAt, ItemSet
<1>3. QED
  BY <1>1, <1>2 DEF Items

\* It does not change while none of its items does.
LEMMA SameItems ==
  ASSUME Count' = Count, \A j \in 1..Count : ItemAt(j)' = ItemAt(j)
  PROVE  Items' = Items
  BY DEF Items

\* Filling a cell, taking an item out and resetting its cell, and moving a
\* counter leave the queue as it was: none is the instant a call takes effect.
LEMMA QuietItems ==
  ASSUME RingInv, Quiet
  PROVE  Items' = Items
<1>1. /\ HeadCell \in Cells /\ TailCell \in Cells
      /\ Count \in 0..Size /\ At(HeadCell, Count) = TailCell
  BY RingFacts
<1>2. HeadCell' = HeadCell /\ Count' = Count
  BY QuietShape
<1>3. \A j \in 1..Count :
        /\ j - 1 \in Cells /\ At(HeadCell, j - 1) \in Cells
        /\ status[At(HeadCell, j - 1)] = "full"
        /\ At(HeadCell, j - 1) = HeadCell => j = 1
  <2> TAKE j \in 1..Count
  <2>1. j - 1 \in Cells /\ 0 \in Cells /\ j - 1 < Count /\ j - 1 \in 0..Size
    BY <1>1 DEF Cells
  <2>2. status[At(HeadCell, j - 1)] = "full"
    BY <2>1 DEF RingInv, FullCellsInOrder
  <2>3. At(HeadCell, j - 1) = HeadCell => j - 1 = 0
    BY <2>1, <1>1, AtFacts
  <2>4. QED
    BY <2>1, <2>2, <2>3, <1>1, AtFacts
<1> USE DEF producer, consumer
<1>4. ASSUME NEW v \in Values, CallPush(v) PROVE Items' = Items
  BY <1>4, <1>2, SameItems DEF CallPush, ItemAt
<1>5. CASE PushSeesRoom \/ PushSeesFull \/ PushAdvance
  BY <1>5, <1>2, SameItems DEF PushSeesRoom, PushSeesFull, PushAdvance, ItemAt
<1>6. CASE PushFill
  <2>1. status[ppos] = "empty"
    BY <1>6 DEF PushFill, RingInv, LookStaysTrue
  <2>2. \A j \in 1..Count : item'[At(HeadCell, j - 1)] = item[At(HeadCell, j - 1)]
    BY <1>6, <1>3, <2>1 DEF PushFill, RingInv, TypeOK
  <2>3. QED
    BY <1>6, <1>2, <2>2, SameItems DEF PushFill, ItemAt
<1>7. CASE SeeItem
  BY <1>7, <1>2, SameItems DEF SeeItem, ItemAt
<1>8. CASE CallPop \/ PopSeesItem \/ PopAdvance
  BY <1>8, <1>2, SameItems DEF CallPop, PopSeesItem, PopAdvance, ItemAt
<1>9. CASE PopSeesEmpty
  BY <1>9, <1>2, SameItems DEF PopSeesEmpty, ItemAt
<1>10. CASE PopTake
  <2>1. cpos = HeadCell /\ At(HeadCell, 0) = HeadCell
    BY <1>10, <1>1, AtFacts DEF PopTake, HeadCell
  <2>2. \A j \in 1..Count : ItemAt(j)' = ItemAt(j)
    BY <1>10, <1>2, <2>1 DEF PopTake, ItemAt
  <2>3. QED
    BY <1>2, <2>2, SameItems
<1>11. CASE PopReset
  <2>1. cpos = HeadCell
    BY <1>11 DEF PopReset, HeadCell
  <2>2. \A j \in 1..Count : j # 1 =>
          item'[At(HeadCell, j - 1)] = item[At(HeadCell, j - 1)]
    BY <1>11, <1>3, <2>1 DEF PopReset, RingInv, TypeOK
  <2>3. \A j \in 1..Count : ItemAt(j)' = ItemAt(j)
    BY <1>11, <1>2, <2>2 DEF PopReset, ItemAt
  <2>4. QED
    BY <1>2, <2>3, SameItems
<1>12. QED
  BY <1>4, <1>5, <1>6, <1>7, <1>8, <1>9, <1>10, <1>11 DEF Quiet

\* Append and Tail element by element.
LEMMA AppendIsFunction ==
  ASSUME NEW S, NEW s \in Seq(S), NEW e \in S
  PROVE  Append(s, e) = [j \in 1..(Len(s) + 1) |-> IF j = Len(s) + 1 THEN e ELSE s[j]]
<1> DEFINE f == [j \in 1..(Len(s) + 1) |-> IF j = Len(s) + 1 THEN e ELSE s[j]]
<1>1. Len(s) \in Nat /\ \A j \in 1..Len(s) : s[j] \in S
  BY ElementOfSeq, LenProperties
<1>2. f \in Seq(S) /\ Len(f) = Len(s) + 1
  BY <1>1
<1>3. \A j \in 1..Len(f) : Append(s, e)[j] = f[j]
  BY <1>1, <1>2, AppendProperties
<1>4. Append(s, e) \in Seq(S) /\ Len(Append(s, e)) = Len(f)
  BY <1>2, AppendProperties
<1>5. QED
  BY <1>2, <1>3, <1>4, SeqEqual

\* The same for the queue without its first item.
LEMMA TailIsFunction ==
  ASSUME NEW S, NEW s \in Seq(S), s # <<>>
  PROVE  Tail(s) = [j \in 1..(Len(s) - 1) |-> s[j + 1]]
<1> DEFINE f == [j \in 1..(Len(s) - 1) |-> s[j + 1]]
<1>1. Len(s) \in Nat /\ Len(s) # 0 /\ \A j \in 1..Len(s) : s[j] \in S
  BY ElementOfSeq, LenProperties, EmptySeq
<1>2. f \in Seq(S) /\ Len(f) = Len(s) - 1
  BY <1>1
<1>3. \A j \in 1..Len(f) : Tail(s)[j] = f[j]
  BY <1>1, <1>2, HeadTailProperties
<1>4. Tail(s) \in Seq(S) /\ Len(Tail(s)) = Len(f)
  BY <1>2, HeadTailProperties
<1>5. QED
  BY <1>2, <1>3, <1>4, SeqEqual

\* Publishing appends the item push was called with.
LEMMA PublishItems ==
  ASSUME RingInv, RingInv', PushPublish
  PROVE  Items' = Append(Items, arg)
<1>1. /\ HeadCell \in Cells /\ Count \in 0..Size /\ At(HeadCell, Count) = TailCell
      /\ status[HeadCell] = "full" <=> 0 < Count
  BY RingFacts
<1>2. /\ ppos = TailCell /\ HeadCell' = HeadCell /\ Count' = Count + 1
      /\ item' = item /\ cpc' = cpc /\ out' = out
      /\ item[TailCell] = arg /\ arg \in ItemSet
  BY PublishShape DEF PushPublish, consumer, RingInv, ItemInPlace, ItemSet
<1>3. cpc \in {"reset", "release"} => 0 < Count
  BY <1>1 DEF RingInv, LookStaysTrue, HeadCell
<1>4. \A j \in 1..(Count + 1) : ItemAt(j)' = IF j = Count + 1 THEN arg ELSE ItemAt(j)
  BY <1>1, <1>2, <1>3 DEF ItemAt
<1>5. Items \in Seq(ItemSet) /\ Len(Items) = Count
  BY ItemsFacts
<1>6. Items' = [j \in 1..(Count + 1) |-> IF j = Count + 1 THEN arg ELSE Items[j]]
  <2>1. \A j \in 1..(Count + 1) : j # Count + 1 => Items[j] = ItemAt(j)
    BY <1>1 DEF Items
  <2>2. QED
    BY <1>2, <1>4, <2>1 DEF Items
<1>7. Append(Items, arg) = [j \in 1..(Count + 1) |-> IF j = Count + 1 THEN arg ELSE Items[j]]
  BY <1>2, <1>5, AppendIsFunction
<1>8. QED
  BY <1>6, <1>7

\* Releasing drops the oldest item, and that is the one pop returns.
LEMMA ReleaseItems ==
  ASSUME RingInv, PopRelease
  PROVE  Items # <<>> /\ Head(Items) = out /\ Items' = Tail(Items)
<1>1. HeadCell \in Cells /\ Count \in 0..Size
  BY RingFacts
<1>2. /\ HeadCell' = At(HeadCell, 1) /\ 0 < Count /\ Count' = Count - 1
      /\ item' = item /\ cpc = "release" /\ cpc' = "idle"
  BY ReleaseShape DEF PopRelease
<1>3. Items \in Seq(ItemSet) /\ Len(Items) = Count
  BY ItemsFacts
<1>4. Items # <<>> /\ Head(Items) = out
  BY <1>1, <1>2, <1>3 DEF Items, ItemAt
<1>5. \A j \in 1..(Count - 1) : ItemAt(j)' = Items[j + 1]
  <2> TAKE j \in 1..(Count - 1)
  <2>1. j - 1 \in Cells /\ (j - 1) + 1 = j /\ j + 1 \in 1..Count /\ j + 1 # 1 /\ (j + 1) - 1 = j
    BY <1>1 DEF Cells
  <2>2. At(At(HeadCell, 1), j - 1) = At(HeadCell, j)
    BY <2>1, <1>1, AtFacts
  <2>3. ItemAt(j)' = item[At(HeadCell, j)]
    BY <2>2, <1>2 DEF ItemAt
  <2>4. Items[j + 1] = item[At(HeadCell, j)]
    BY <2>1 DEF Items, ItemAt
  <2>5. QED
    BY <2>3, <2>4
<1>6. Items' = [j \in 1..(Count - 1) |-> Items[j + 1]]
  BY <1>2, <1>5 DEF Items
<1>7. Tail(Items) = [j \in 1..(Count - 1) |-> Items[j + 1]]
  BY <1>3, <1>4, TailIsFunction
<1>8. QED
  BY <1>4, <1>6, <1>7

\* A push is refused only in full, a pop only in empty: the cell that was looked
\* at was the tail or the head.
LEMMA RefusedForCause ==
  ASSUME RingInv
  PROVE  /\ PushSeesFull => Len(Items) = Size
         /\ PopSeesEmpty => Items = <<>>
<1>1. /\ Count \in 0..Size
      /\ status[HeadCell] = "full" <=> 0 < Count
      /\ status[TailCell] = "full" <=> Count = Size
  BY RingFacts
<1>2. Items \in Seq(ItemSet) /\ Len(Items) = Count
  BY ItemsFacts
<1>3. ASSUME PushSeesFull PROVE Len(Items) = Size
  BY <1>1, <1>2, <1>3 DEF PushSeesFull, RingInv, PositionsFollowCounters, TailCell
<1>4. ASSUME PopSeesEmpty PROVE Items = <<>>
  <2>1. cpos = HeadCell /\ status[cpos] = "empty"
    BY <1>4 DEF PopSeesEmpty, RingInv, PositionsFollowCounters, HeadCell
  <2>2. Count = 0
    BY <2>1, <1>1
  <2>3. QED
    BY <2>2, <1>2
<1>5. QED
  BY <1>3, <1>4

\* Every step of the ring is a step of the queue or leaves it alone.
LEMMA FifoStep ==
  ASSUME RingInv, RingInv', [Next]_vars
  PROVE  [Fifo!Next]_(Fifo!fifoVars)
<1> USE DEF producer, consumer
<1>1. ASSUME NEW v \in Values, CallPush(v) PROVE Fifo!CallPush(v)
  <2>1. Items' = Items
    BY <1>1, QuietItems DEF Quiet
  <2>2. QED
    BY <1>1, <2>1 DEF CallPush, Fifo!CallPush
<1>2. ASSUME PushSeesRoom \/ PushAdvance \/ PushFill PROVE UNCHANGED Fifo!fifoVars
  <2>1. Items' = Items
    BY <1>2, QuietItems DEF Quiet
  <2>2. QED
    BY <1>2, <2>1 DEF PushSeesRoom, PushAdvance, PushFill, Fifo!fifoVars
<1>3. ASSUME PushSeesFull PROVE Fifo!RefusePush \/ UNCHANGED Fifo!fifoVars
  <2>1. Items' = Items /\ Len(Items) = Size
    BY <1>3, QuietItems, RefusedForCause DEF Quiet
  <2>2. CASE plooks' < 2
    BY <1>3, <2>1, <2>2 DEF PushSeesFull, Fifo!fifoVars
  <2>3. CASE ~(plooks' < 2)
    <3>1. ppc = "look" /\ ppc' = "idle" /\ putOk' = FALSE
      BY <1>3, <2>3 DEF PushSeesFull
    <3>2. UNCHANGED consumer
      BY <1>3 DEF PushSeesFull
    <3>3. QED
      BY <2>1, <3>1, <3>2 DEF Fifo!RefusePush
  <2>4. QED
    BY <2>2, <2>3
<1>4. ASSUME PushPublish PROVE Fifo!Push
  <2>1. Items' = Append(Items, arg)
    BY <1>4, PublishItems
  <2>2. Len(Items) < Size
    BY <1>4, PublishShape, ItemsFacts
  <2>3. QED
    BY <1>4, <2>1, <2>2 DEF PushPublish, Fifo!Push
<1>5. ASSUME CallPop PROVE Fifo!CallPop
  <2>1. Items' = Items
    BY <1>5, QuietItems DEF Quiet
  <2>2. QED
    BY <1>5, <2>1 DEF CallPop, Fifo!CallPop
<1>6. ASSUME SeeItem \/ PopSeesItem \/ PopAdvance \/ PopTake \/ PopReset
      PROVE  UNCHANGED Fifo!fifoVars
  <2>1. Items' = Items
    BY <1>6, QuietItems DEF Quiet
  <2>2. QED
    BY <1>6, <2>1 DEF SeeItem, PopSeesItem, PopAdvance, PopTake, PopReset, Fifo!fifoVars
<1>7. ASSUME PopSeesEmpty PROVE Fifo!RefusePop \/ UNCHANGED Fifo!fifoVars
  <2>1. Items' = Items /\ Items = <<>>
    BY <1>7, QuietItems, RefusedForCause DEF Quiet
  <2>2. CASE clooks' < 3
    BY <1>7, <2>1, <2>2 DEF PopSeesEmpty, Fifo!fifoVars
  <2>3. CASE ~(clooks' < 3)
    <3>1. cpc = "look" /\ cpc' = "idle" /\ got' = <<>>
      BY <1>7, <2>3 DEF PopSeesEmpty
    <3>2. UNCHANGED producer
      BY <1>7 DEF PopSeesEmpty
    <3>3. QED
      BY <2>1, <3>1, <3>2 DEF Fifo!RefusePop
  <2>4. QED
    BY <2>2, <2>3
<1>8. ASSUME PopRelease PROVE Fifo!Pop
  <2>1. Items # <<>> /\ Head(Items) = out /\ Items' = Tail(Items)
    BY <1>8, ReleaseItems
  <2>2. QED
    BY <1>8, <2>1 DEF PopRelease, Fifo!Pop
<1>9. ASSUME UNCHANGED vars PROVE UNCHANGED Fifo!fifoVars
  BY <1>9 DEF vars, Fifo!fifoVars, Items, ItemAt, Count, HeadCell, TailCell
<1>10. QED
  BY <1>1, <1>2, <1>3, <1>4, <1>5, <1>6, <1>7, <1>8, <1>9
     DEF Next, PushStep, PopStep, Fifo!Next

\* The ring is a linearizable bounded FIFO queue: no item is lost, duplicated or
\* overtaken, a push takes effect when it publishes and a pop when it releases,
\* and the three looks of pop and the two of push refuse only what they may.
\* (That both calls return is left to TLC.)
THEOREM RingIsFifo == Safety => Fifo!Safety
<1>1. Init => Fifo!Init
  <2> SUFFICES ASSUME Init PROVE Fifo!Init
    OBVIOUS
  <2>1. RealPos(0) = 0 /\ 0 \in Cells
    BY DEF RealPos, Cells
  <2>2. Count = 0
    BY <2>1 DEF Init, HeadCell, TailCell, Count, Distance
  <2>3. Items = <<>>
    BY <2>2, RingInit, ItemsFacts
  <2>4. QED
    BY <2>3 DEF Init, Fifo!Init
<1>2. Init => RingInv
  BY RingInit
<1>3. RingInv /\ [Next]_vars => RingInv'
  BY RingStep
<1>4. RingInv /\ RingInv' /\ [Next]_vars => [Fifo!Next]_(Fifo!fifoVars)
  BY FifoStep
<1>5. QED
  BY <1>1, <1>2, <1>3, <1>4, PTL DEF Safety, Fifo!Safety

=============================================================================
