-------------------------- MODULE DbConnectionProofs --------------------------
(***************************************************************************)
(* Proofs about DbConnection for queues of any size and any number of      *)
(* statements and signals.                                                 *)
(***************************************************************************)
EXTENDS DbConnection, SequenceTheorems, FiniteSetTheorems, TLAPS

USE CapAssumption

\* What a statement is found in: a queue, the hands of the thread, one of the logs.
Types ==
  /\ in \in Seq(Query) /\ out \in Seq(Query)
  /\ executed \in Seq(Query) /\ handled \in Seq(Query)
  /\ Len(in) <= Cap /\ Len(out) <= Cap
  /\ \/ db # "query" /\ held = <<>>
     \/ db = "query" /\ \E q \in Query : held = <<q>>
  /\ issued \in 0..MaxQueries
  /\ refused \subseteq 1..issued /\ dropped \subseteq Ids(executed)
  /\ peak \in Nat /\ peak <= issued

Places ==
  /\ db \in {"off", "check", "drain", "query", "sleep", "ended"}
  /\ timer \in {"off", "wake", "tick", "callback", "handler", "ended"}
  /\ suspended \in BOOLEAN
  /\ on \subseteq {"db", "timer"} /\ threads \subseteq {"db", "timer"}
  /\ main \in {"init", "insert db", "run timer", "insert timer", "join", "exited"}
  /\ stopping \in {"", "db", "timer"} /\ signals \in 0..MaxSignals

Flow     == (executed \o held) \o in
Answered == handled \o out

\* Every statement that is outstanding is in one place: queued, in hand, or its
\* result is queued.
Accounted == Outstanding = Len(in) + Len(held) + Len(out)

\* Something is refused or dropped only at a full queue, and the peak has seen it.
PeakSeen ==
  /\ Outstanding <= peak
  /\ refused # {} \/ dropped # {} => peak > Cap

\* A thread that was started is switched off by a signal only; the main thread
\* waits for a thread until it has ended.
Launched ==
  /\ main = "init" => db = "off" /\ on = {}
  /\ main \in {"init", "insert db", "run timer"} => timer = "off" /\ "timer" \notin on
  /\ main \in {"init", "insert db"} => threads = {}
  /\ main \in {"run timer", "insert timer"} => threads = {"db"}
  /\ main \in {"join", "exited"} =>
       /\ "db" \in threads \/ db = "ended"
       /\ "timer" \in threads \/ timer = "ended"
  /\ main = "exited" => threads = {}
  /\ main # "init" => db # "off"
  /\ (db # "off" /\ "db" \notin on) \/ (timer # "off" /\ "timer" \notin on) => signals > 0
  /\ db = "ended" \/ timer = "ended" => signals > 0
  /\ stopping # "" => signals > 0

-----------------------------------------------------------------------------
(***************************************************************************)
(* Sequences of statements.                                                *)
(***************************************************************************)

LEMMA AppendStatement ==
  ASSUME NEW s \in Seq(Query), NEW q \in Query, Ascend(s), \A i \in DOMAIN s : s[i].id < q.id
  PROVE  /\ Append(s, q) \in Seq(Query) /\ Len(Append(s, q)) = Len(s) + 1
         /\ Ascend(Append(s, q))
         /\ Ids(Append(s, q)) = Ids(s) \cup {q.id}
         /\ {Append(s, q)[i] : i \in DOMAIN Append(s, q)} = {s[i] : i \in DOMAIN s} \cup {q}
<1> DEFINE t == Append(s, q)
<1>1. /\ t \in Seq(Query) /\ Len(t) = Len(s) + 1 /\ DOMAIN t = 1..(Len(s) + 1)
      /\ DOMAIN s = 1..Len(s) /\ Len(s) \in Nat
      /\ \A i \in 1..Len(s) : t[i] = s[i]
      /\ t[Len(s) + 1] = q
  BY AppendProperties, LenProperties
<1> HIDE DEF t
<1>2. \A i \in DOMAIN s : s[i].id \in Int
  <2>1. \A i \in DOMAIN s : s[i] \in Query
    BY <1>1, ElementOfSeq
  <2> QED
    BY <2>1 DEF Query
<1>3. Ascend(t)
  BY <1>1, <1>2 DEF Ascend
<1>4. Ids(t) = Ids(s) \cup {q.id}
  <2>1. \A i \in DOMAIN t : t[i].id \in Ids(s) \cup {q.id}
    BY <1>1 DEF Ids
  <2>2. \A i \in DOMAIN s : s[i].id \in Ids(t)
    BY <1>1 DEF Ids
  <2>3. q.id \in Ids(t)
    BY <1>1 DEF Ids
  <2> QED
    BY <2>1, <2>2, <2>3 DEF Ids
<1>5. {t[i] : i \in DOMAIN t} = {s[i] : i \in DOMAIN s} \cup {q}
  BY <1>1
<1> QED
  BY <1>1, <1>3, <1>4, <1>5 DEF t

\* The elements of two sequences, one behind the other.
LEMMA ConcatElements ==
  ASSUME NEW s \in Seq(Query), NEW t \in Seq(Query)
  PROVE  /\ s \o t \in Seq(Query) /\ Len(s \o t) = Len(s) + Len(t)
         /\ \A i \in DOMAIN s : i \in DOMAIN (s \o t) /\ (s \o t)[i] = s[i]
         /\ \A i \in DOMAIN t : Len(s) + i \in DOMAIN (s \o t) /\ (s \o t)[Len(s) + i] = t[i]
<1>1. /\ s \o t \in Seq(Query) /\ Len(s \o t) = Len(s) + Len(t)
      /\ \A i \in 1..(Len(s) + Len(t)) :
           (s \o t)[i] = IF i <= Len(s) THEN s[i] ELSE t[i - Len(s)]
  BY ConcatProperties
<1>2. /\ DOMAIN s = 1..Len(s) /\ DOMAIN t = 1..Len(t) /\ Len(s) \in Nat /\ Len(t) \in Nat
      /\ DOMAIN (s \o t) = 1..Len(s \o t)
  BY <1>1, LenProperties
<1>3. \A i \in DOMAIN s : i \in DOMAIN (s \o t) /\ (s \o t)[i] = s[i]
  BY <1>1, <1>2
<1>4. ASSUME NEW i \in DOMAIN t
      PROVE  Len(s) + i \in DOMAIN (s \o t) /\ (s \o t)[Len(s) + i] = t[i]
  <2>1. Len(s) + i \in 1..(Len(s) + Len(t)) /\ ~(Len(s) + i <= Len(s)) /\ (Len(s) + i) - Len(s) = i
    BY <1>2
  <2> QED
    BY <1>1, <1>2, <2>1
<1> QED
  BY <1>1, <1>3, <1>4

\* Ascending statements are no two of a kind: whoever comes later has the larger
\* number.
LEMMA LaterIsLarger ==
  ASSUME NEW s \in Seq(Query), NEW t \in Seq(Query), Ascend(s \o t)
  PROVE  \A i \in DOMAIN s, j \in DOMAIN t : s[i].id < t[j].id
<1> SUFFICES ASSUME NEW i \in DOMAIN s, NEW j \in DOMAIN t PROVE s[i].id < t[j].id
  OBVIOUS
<1>1. /\ i \in DOMAIN (s \o t) /\ (s \o t)[i] = s[i]
      /\ Len(s) + j \in DOMAIN (s \o t) /\ (s \o t)[Len(s) + j] = t[j]
  BY ConcatElements
<1>2. i < Len(s) + j
  BY LenProperties
<1> QED
  BY <1>1, <1>2 DEF Ascend

\* Who has no callback, among those executed.
Silent(s) == {i \in DOMAIN s : ~s[i].back}

LEMMA SilentGrows ==
  ASSUME NEW s \in Seq(Query), NEW q \in Query
  PROVE  /\ IsFiniteSet(Silent(s)) /\ Cardinality(Silent(s)) \in Nat
         /\ q.back => Cardinality(Silent(Append(s, q))) = Cardinality(Silent(s))
         /\ ~q.back => Cardinality(Silent(Append(s, q))) = Cardinality(Silent(s)) + 1
<1>1. /\ DOMAIN s = 1..Len(s) /\ Len(s) \in Nat
      /\ DOMAIN Append(s, q) = 1..(Len(s) + 1)
      /\ \A i \in 1..Len(s) : Append(s, q)[i] = s[i]
      /\ Append(s, q)[Len(s) + 1] = q
  BY AppendProperties, LenProperties
<1>2. IsFiniteSet(Silent(s)) /\ Cardinality(Silent(s)) \in Nat
  <2>1. Silent(s) \in SUBSET (1..Len(s)) /\ IsFiniteSet(1..Len(s))
    BY <1>1, FS_Interval DEF Silent
  <2> QED
    BY <2>1, FS_Subset, FS_CardinalityType
<1>3. Silent(Append(s, q)) = IF q.back THEN Silent(s) ELSE Silent(s) \cup {Len(s) + 1}
  BY <1>1 DEF Silent
<1>4. Len(s) + 1 \notin Silent(s)
  BY <1>1 DEF Silent
<1> QED
  BY <1>2, <1>3, <1>4, FS_AddElement

-----------------------------------------------------------------------------
(***************************************************************************)
(* The control of the three threads.                                       *)
(***************************************************************************)

Control == Places /\ Launched

\* The launch, the signals and the ends of the threads: each step of each thread.
LEMMA NextControl == Control /\ [Next]_vars => Control'
<1> SUFFICES ASSUME Control, [Next]_vars PROVE Control'
  OBVIOUS
<1>0. signals \in 0..MaxSignals /\ signals \in Nat
  <2>1. signals \in 0..MaxSignals
    BY DEF Control, Places
  <2> QED
    BY <2>1
<1> USE DEF Control, Places, Launched, queues, control, fates
<1>1. CASE ExeStoreSql
  BY <1>1 DEF ExeStoreSql
<1>2. CASE TimerWakes
  BY <1>2 DEF TimerWakes
<1>3. CASE TickEnds
  BY <1>3 DEF TickEnds
<1>4. CASE CallBackTimerExec
  BY <1>4 DEF CallBackTimerExec
<1>5. CASE CallBackPop
  BY <1>5 DEF CallBackPop
<1>6. CASE HandlerReturns
  BY <1>6 DEF HandlerReturns
<1>7. CASE Check
  BY <1>7 DEF Check
<1>8. CASE Drain
  BY <1>8 DEF Drain
<1>9. CASE QueryDone
  BY <1>9 DEF QueryDone
<1>10. CASE SleepEnds
  BY <1>10 DEF SleepEnds
<1>11. CASE RunDb
  BY <1>11 DEF RunDb
<1>12. CASE InsertDb
  BY <1>12 DEF InsertDb
<1>13. CASE RunTimer
  BY <1>13 DEF RunTimer
<1>14. CASE InsertTimer
  BY <1>14 DEF InsertTimer
<1>15. CASE Resume
  BY <1>15 DEF Resume
<1>16. CASE Join("db")
  BY <1>16 DEF Join
<1>17. CASE Join("timer")
  BY <1>17 DEF Join
<1>18. CASE Exit
  BY <1>18 DEF Exit
<1>19. CASE Signal
  <2> USE DEF Signal
  <2>1. signals' = signals + 1 /\ signals < MaxSignals
    BY <1>19
  <2> HIDE DEF Signal, Control, Places, Launched
  <2>2. signals' \in 0..MaxSignals /\ signals' > 0
    BY <1>0, <2>1
  <2> QED
    BY <1>19, <2>2 DEF Signal, Control, Places, Launched
<1>20. CASE StopThread
  BY <1>20 DEF StopThread
<1>21. CASE UNCHANGED vars
  <2>1. /\ db' = db /\ timer' = timer /\ suspended' = suspended
        /\ on' = on /\ threads' = threads
        /\ main' = main /\ stopping' = stopping /\ signals' = signals
    BY <1>21 DEF vars
  <2>2. Places'
    BY <2>1
  <2>3. Launched'
    BY <2>1
  <2> QED
    BY <2>2, <2>3
<1> QED
  BY <1>1, <1>2, <1>3, <1>4, <1>5, <1>6, <1>7, <1>8, <1>9, <1>10, <1>11, <1>12, <1>13,
     <1>14, <1>15, <1>16, <1>17, <1>18, <1>19, <1>20, <1>21
  DEF Next, Timer, DbThread, Launch, MainJoin

-----------------------------------------------------------------------------
(***************************************************************************)
(* The statements.                                                         *)
(***************************************************************************)

Fates == Types /\ ExecutedInOrder /\ AnswersInOrder /\ Accounted /\ PeakSeen

\* What the types say of the sequences and of the terms of Outstanding.
LEMMA Counted ==
  ASSUME Types
  PROVE  /\ in \in Seq(Query) /\ executed \in Seq(Query) /\ held \in Seq(Query)
         /\ out \in Seq(Query) /\ handled \in Seq(Query)
         /\ executed \o held \in Seq(Query) /\ Flow \in Seq(Query) /\ Answered \in Seq(Query)
         /\ Len(in) \in Nat /\ Len(out) \in Nat /\ Len(held) \in Nat /\ Len(handled) \in Nat
         /\ issued \in Nat /\ peak \in Nat
         /\ IsFiniteSet(refused) /\ Cardinality(refused) \in Nat
         /\ IsFiniteSet(dropped) /\ Cardinality(dropped) \in Nat
         /\ Cardinality(Silent(executed)) \in Nat
         /\ Outstanding = issued - Cardinality(refused) - Cardinality(dropped) - Len(handled)
                            - Cardinality(Silent(executed))
         /\ Outstanding \in Int /\ Outstanding <= issued
<1>1. /\ in \in Seq(Query) /\ executed \in Seq(Query) /\ out \in Seq(Query) /\ handled \in Seq(Query)
      /\ Len(in) \in Nat /\ Len(out) \in Nat /\ Len(handled) \in Nat
      /\ issued \in Nat /\ peak \in Nat
  BY LenProperties DEF Types
<1>2. held \in Seq(Query) /\ Len(held) \in Nat
  <2>1. CASE held = <<>>
    BY <2>1
  <2>2. CASE \E q \in Query : held = <<q>>
    BY <2>2
  <2> QED
    BY <2>1, <2>2 DEF Types
<1>3. executed \o held \in Seq(Query) /\ Flow \in Seq(Query) /\ Answered \in Seq(Query)
  BY <1>1, <1>2, ConcatElements DEF Flow, Answered
<1>4. IsFiniteSet(refused) /\ Cardinality(refused) \in Nat
  <2>1. refused \in SUBSET (1..issued)
    BY DEF Types
  <2>2. IsFiniteSet(1..issued)
    BY <1>1, FS_Interval
  <2> QED
    BY <2>1, <2>2, FS_Subset, FS_CardinalityType
<1>5. IsFiniteSet(dropped) /\ Cardinality(dropped) \in Nat
  <2>1. \A i \in DOMAIN executed : executed[i] \in Query
    BY <1>1, ElementOfSeq, LenProperties
  <2>2. \A i \in DOMAIN executed : executed[i].id \in 1..MaxQueries
    BY <2>1 DEF Query
  <2>3. dropped \in SUBSET (1..MaxQueries)
    BY <2>2 DEF Types, Ids
  <2>4. IsFiniteSet(1..MaxQueries)
    BY FS_Interval
  <2> QED
    BY <2>3, <2>4, FS_Subset, FS_CardinalityType
<1>6. Cardinality(Silent(executed)) \in Nat
  <2>1. DOMAIN executed = 1..Len(executed) /\ Len(executed) \in Nat
    BY <1>1, LenProperties
  <2>2. Silent(executed) \in SUBSET (1..Len(executed)) /\ IsFiniteSet(1..Len(executed))
    BY <2>1, FS_Interval DEF Silent
  <2> QED
    BY <2>2, FS_Subset, FS_CardinalityType
<1>7. Outstanding = issued - Cardinality(refused) - Cardinality(dropped) - Len(handled)
                      - Cardinality(Silent(executed))
  BY DEF Outstanding, Silent
<1> HIDE DEF Silent
<1>8. Outstanding \in Int /\ Outstanding <= issued
  BY <1>1, <1>4, <1>5, <1>6, <1>7
<1> QED
  BY <1>1, <1>2, <1>3, <1>4, <1>5, <1>6, <1>7, <1>8

\* Steps that leave the statements alone.
LEMMA QuietFates ==
  ASSUME Fates, UNCHANGED <<queues, held, issued, fates, peak>>,
         db' = "query" <=> db = "query"
  PROVE  Fates'
<1>1. UNCHANGED <<in, out, held, issued, refused, executed, dropped, handled, peak>>
  BY DEF queues, fates
<1>2. Types'
  BY <1>1 DEF Fates, Types, Ids
<1>3. ExecutedInOrder'
  BY <1>1 DEF Fates, ExecutedInOrder, Ids, Ascend
<1>4. AnswersInOrder'
  BY <1>1 DEF Fates, AnswersInOrder, Ascend
<1>5. Outstanding' = Outstanding
  BY <1>1 DEF Outstanding
<1>6. Accounted' /\ PeakSeen'
  BY <1>1, <1>5 DEF Fates, Accounted, PeakSeen
<1> QED
  BY <1>2, <1>3, <1>4, <1>6 DEF Fates

LEMMA StoreFates ==
  ASSUME Fates, ExeStoreSql
  PROVE  Fates'
<1>1. PICK back \in BOOLEAN :
        LET q == [id |-> issued + 1, back |-> back]
        IN IF Len(in) < Cap THEN in' = Append(in, q) /\ UNCHANGED refused
                            ELSE refused' = refused \cup {q.id} /\ UNCHANGED in
  BY DEF ExeStoreSql
<1> DEFINE q == [id |-> issued + 1, back |-> back]
<1>2. /\ issued \in Nat /\ issued < MaxQueries /\ issued' = issued + 1
      /\ q \in Query /\ q.id = issued + 1
      /\ UNCHANGED <<out, db, held, executed, dropped, handled>>
  BY DEF ExeStoreSql, Fates, Types, Query
<1>3. Types /\ ExecutedInOrder /\ AnswersInOrder /\ Accounted /\ PeakSeen
  BY DEF Fates
<1>4. /\ Flow \in Seq(Query) /\ executed \o held \in Seq(Query) /\ in \in Seq(Query)
      /\ Len(in) \in Nat /\ Len(out) \in Nat /\ Len(held) \in Nat /\ Len(handled) \in Nat
      /\ IsFiniteSet(refused) /\ Cardinality(refused) \in Nat
      /\ Cardinality(dropped) \in Nat /\ Cardinality(Silent(executed)) \in Nat
      /\ Outstanding = issued - Cardinality(refused) - Cardinality(dropped) - Len(handled)
                         - Cardinality(Silent(executed))
      /\ Outstanding \in Int /\ Outstanding <= issued /\ peak \in Nat
  BY <1>3, Counted
<1>5. Ascend(Flow) /\ Ids(Flow) = 1..issued \ refused
  BY <1>3 DEF ExecutedInOrder, Flow
<1>6. \A i \in DOMAIN Flow : Flow[i].id < q.id
  <2>1. \A i \in DOMAIN Flow : Flow[i].id \in 1..issued
    BY <1>5 DEF Ids
  <2> QED
    BY <1>2, <2>1
<1>7. q.id \notin refused /\ Cardinality(refused \cup {q.id}) = Cardinality(refused) + 1
  <2>1. q.id \notin refused
    BY <1>2, <1>3 DEF Types
  <2> QED
    BY <1>4, <2>1, FS_AddElement
<1>8. peak' = (IF Outstanding + 1 > peak THEN Outstanding + 1 ELSE peak)
  BY DEF ExeStoreSql
<1>9. UNCHANGED Silent(executed)
  BY <1>2 DEF Silent
<1>10. Outstanding' = issued' - Cardinality(refused') - Cardinality(dropped) - Len(handled)
                         - Cardinality(Silent(executed))
  BY <1>2, <1>9 DEF Outstanding, Silent
<1>11. AnswersInOrder'
  BY <1>2, <1>3 DEF AnswersInOrder, Ascend
<1>12. peak' \in Nat /\ peak' <= issued' /\ Outstanding + 1 <= peak' /\ peak <= peak'
  <2>1. peak <= issued
    BY <1>3 DEF Types
  <2> QED
    <3>1. issued \in Nat /\ issued' = issued + 1 /\ Outstanding \in Int /\ Outstanding <= issued
          /\ peak \in Nat
      BY <1>2, <1>4
    <3> HIDE DEF q
    <3> QED
      BY <3>1, <1>8, <2>1
<1>13. CASE Len(in) < Cap
  <2>1. in' = Append(in, q) /\ refused' = refused
    BY <1>1, <1>13
  <2>2. Flow' = Append(Flow, q)
    <3>1. Flow' = (executed \o held) \o Append(in, q)
      BY <1>2, <2>1 DEF Flow
    <3>2. \A s, t \in Seq(Query) : s \o Append(t, q) = Append(s \o t, q)
      BY <1>2
    <3> QED
      BY <1>4, <3>1, <3>2 DEF Flow
  <2>3. Ascend(Append(Flow, q)) /\ Ids(Append(Flow, q)) = Ids(Flow) \cup {q.id}
    BY <1>2, <1>4, <1>5, <1>6, AppendStatement
  <2>4. (1..issued \ refused) \cup {q.id} = 1..(issued + 1) \ refused
    BY <1>2, <1>7
  <2>5. ExecutedInOrder'
    <3>1. Ascend(Flow') /\ Ids(Flow') = 1..issued' \ refused'
      BY <1>2, <1>5, <2>1, <2>2, <2>3, <2>4
    <3> QED
      BY <3>1 DEF ExecutedInOrder, Flow, Ascend, Ids
  <2>6. in' \in Seq(Query) /\ Len(in') = Len(in) + 1
    BY <1>2, <1>4, <2>1
  <2>7. Outstanding' = Outstanding + 1
    <3>1. Outstanding' = (issued + 1) - Cardinality(refused) - Cardinality(dropped) - Len(handled)
                            - Cardinality(Silent(executed))
      BY <1>2, <1>10, <2>1
    <3> DEFINE r == Cardinality(refused)
               d == Cardinality(dropped)
               e == Cardinality(Silent(executed))
    <3>2. /\ issued \in Int /\ r \in Int /\ d \in Int /\ Len(handled) \in Int /\ e \in Int
      BY <1>2, <1>4
    <3>3. Outstanding' = (issued + 1) - r - d - Len(handled) - e
      BY <3>1
    <3>4. Outstanding = issued - r - d - Len(handled) - e
      BY <1>4
    <3> HIDE DEF q, r, d, e
    <3> QED
      BY <3>2, <3>3, <3>4
  <2>8. Types'
    <3>1. refused' \subseteq 1..issued' /\ issued' \in 0..MaxQueries
      BY <1>2, <1>3, <2>1 DEF Types
    <3>2. dropped' \subseteq Ids(executed)'
      BY <1>2, <1>3 DEF Types, Ids
    <3>3. Len(in') <= Cap
      BY <1>4, <1>13, <2>6
    <3> QED
      BY <1>2, <1>3, <1>12, <2>6, <3>1, <3>2, <3>3 DEF Types
  <2>9. Accounted'
    BY <1>2, <1>3, <1>4, <2>6, <2>7 DEF Accounted
  <2>10. PeakSeen'
    <3>1. refused' # {} \/ dropped' # {} => peak' > Cap
      <4>1. refused # {} \/ dropped # {} => peak > Cap
        BY <1>3 DEF PeakSeen
      <4>2. refused' = refused /\ dropped' = dropped /\ peak \in Int /\ peak' \in Int
        BY <1>2, <1>4, <1>12, <2>1
      <4> HIDE DEF q
      <4> QED
        BY <1>12, <4>1, <4>2
    <3> QED
      BY <1>12, <2>7, <3>1 DEF PeakSeen
  <2> QED
    BY <1>11, <2>5, <2>8, <2>9, <2>10 DEF Fates
<1>14. CASE ~(Len(in) < Cap)
  <2>1. in' = in /\ refused' = refused \cup {q.id}
    BY <1>1, <1>14
  <2>2. 1..issued' \ refused' = 1..issued \ refused
    BY <1>2, <2>1
  <2>3. ExecutedInOrder'
    BY <1>2, <1>3, <2>1, <2>2 DEF ExecutedInOrder, Ids, Ascend
  <2>4. Outstanding' = Outstanding
    BY <1>2, <1>4, <1>7, <1>10, <2>1
  <2>5. Types'
    <3>1. refused' \subseteq 1..issued' /\ issued' \in 0..MaxQueries
      BY <1>2, <1>3, <2>1 DEF Types
    <3>2. dropped' \subseteq Ids(executed)'
      BY <1>2, <1>3 DEF Types, Ids
    <3> QED
      BY <1>2, <1>3, <1>12, <2>1, <3>1, <3>2 DEF Types
  <2>6. Accounted'
    BY <1>2, <1>3, <2>1, <2>4 DEF Accounted
  <2>7. Outstanding >= Cap
    BY <1>3, <1>4, <1>14 DEF Accounted, Types
  <2>8. PeakSeen'
    BY <1>4, <1>12, <2>4, <2>7 DEF PeakSeen
  <2> QED
    BY <1>11, <2>3, <2>5, <2>6, <2>8 DEF Fates
<1> QED
  BY <1>13, <1>14

\* The head of one queue moves behind another.
LEMMA MoveHead ==
  ASSUME NEW s \in Seq(Query), NEW t \in Seq(Query), t # <<>>
  PROVE  /\ Head(t) \in Query /\ Tail(t) \in Seq(Query) /\ Len(Tail(t)) = Len(t) - 1
         /\ Append(s, Head(t)) \in Seq(Query) /\ Len(Append(s, Head(t))) = Len(s) + 1
         /\ Append(s, Head(t)) \o Tail(t) = s \o t
         /\ s \o <<Head(t)>> = Append(s, Head(t))
         /\ Len(t) \in Nat \ {0}
<1>1. /\ Head(t) \in Query /\ Tail(t) \in Seq(Query) /\ Len(Tail(t)) = Len(t) - 1
      /\ Len(t) \in Nat \ {0}
  BY HeadTailProperties
<1>2. /\ Append(s, Head(t)) \in Seq(Query) /\ Len(Append(s, Head(t))) = Len(s) + 1
      /\ s \o <<Head(t)>> = Append(s, Head(t))
  BY <1>1
<1>3. Append(s, Head(t)) \o Tail(t) = s \o t
  BY <1>1
<1> QED
  BY <1>1, <1>2, <1>3

\* A callback takes the oldest result.
LEMMA CallBackFates ==
  ASSUME Fates, CallBackPop
  PROVE  Fates'
<1>1. UNCHANGED <<in, db, held, issued, refused, executed, dropped, peak>>
  BY DEF CallBackPop
<1>2. CASE out = <<>>
  <2>1. UNCHANGED <<queues, held, issued, fates, peak>>
    BY <1>1, <1>2 DEF CallBackPop, queues, fates
  <2> QED
    BY <1>1, <2>1, QuietFates
<1>3. CASE out # <<>>
  <2>1. handled' = Append(handled, Head(out)) /\ out' = Tail(out)
    BY <1>3 DEF CallBackPop
  <2>2. Types /\ ExecutedInOrder /\ AnswersInOrder /\ Accounted /\ PeakSeen
    BY DEF Fates
  <2>3. out \in Seq(Query) /\ handled \in Seq(Query)
    BY <2>2 DEF Types
  <2>4. /\ handled' \in Seq(Query) /\ out' \in Seq(Query)
        /\ Len(handled') = Len(handled) + 1 /\ Len(out') = Len(out) - 1
        /\ Answered' = Answered
    BY <1>3, <2>1, <2>3, MoveHead DEF Answered
  <2>5. ExecutedInOrder'
    BY <1>1, <2>2 DEF ExecutedInOrder, Ids, Ascend
  <2>6. AnswersInOrder'
    BY <1>1, <2>2, <2>4 DEF AnswersInOrder, Answered, Ascend
  <2>7. Types'
    <3>1. dropped' \subseteq Ids(executed)' /\ refused' \subseteq 1..issued'
      BY <1>1, <2>2 DEF Types, Ids
    <3>2. Len(out') <= Cap
      BY <2>2, <2>4, Counted DEF Types
    <3> QED
      BY <1>1, <2>2, <2>4, <3>1, <3>2 DEF Types
  <2>8. Outstanding' = Outstanding - 1
    <3> DEFINE r == Cardinality(refused)
               d == Cardinality(dropped)
               e == Cardinality(Silent(executed))
    <3>1. issued \in Int /\ r \in Int /\ d \in Int /\ Len(handled) \in Int /\ e \in Int
      BY <2>2, Counted
    <3>2. Outstanding' = issued - r - d - (Len(handled) + 1) - e
      BY <1>1, <2>4 DEF Outstanding, Silent
    <3>3. Outstanding = issued - r - d - Len(handled) - e
      BY <2>2, Counted
    <3> HIDE DEF r, d, e
    <3> QED
      BY <3>1, <3>2, <3>3
  <2>9. Accounted'
    <3>1. Len(in) \in Int /\ Len(held) \in Int /\ Len(out) \in Int
      BY <2>2, Counted
    <3> QED
      BY <1>1, <2>2, <2>4, <2>8, <3>1 DEF Accounted
  <2>10. PeakSeen'
    <3>1. Outstanding \in Int /\ peak \in Int
      BY <2>2, Counted
    <3> QED
      BY <1>1, <2>2, <2>8, <3>1 DEF PeakSeen
  <2> QED
    BY <2>5, <2>6, <2>7, <2>9, <2>10 DEF Fates
<1> QED
  BY <1>2, <1>3

\* The connection's thread takes the oldest statement.
LEMMA DrainFates ==
  ASSUME Fates, Drain
  PROVE  Fates'
<1>1. UNCHANGED <<out, issued, refused, executed, dropped, handled, peak>> /\ db = "drain"
  BY DEF Drain, fates
<1>2. CASE in = <<>>
  <2>1. UNCHANGED <<queues, held, issued, fates, peak>> /\ db' = "sleep"
    BY <1>1, <1>2 DEF Drain, queues, fates
  <2> QED
    BY <1>1, <2>1, QuietFates
<1>3. CASE in # <<>>
  <2>1. db' = "query" /\ held' = <<Head(in)>> /\ in' = Tail(in)
    BY <1>3 DEF Drain
  <2>2. Types /\ ExecutedInOrder /\ AnswersInOrder /\ Accounted /\ PeakSeen
    BY DEF Fates
  <2>3. held = <<>> /\ in \in Seq(Query) /\ executed \in Seq(Query)
    BY <1>1, <2>2 DEF Types
  <2>4. /\ Head(in) \in Query /\ in' \in Seq(Query) /\ Len(in') = Len(in) - 1
        /\ Len(held') = 1 /\ Len(held) = 0
    BY <1>3, <2>1, <2>3, MoveHead
  <2>5. Flow' = Flow
    <3>1. executed \o held = executed
      BY <2>3
    <3>2. executed \o held' = Append(executed, Head(in))
      BY <1>3, <2>1, <2>3, MoveHead
    <3>3. (executed \o held') \o in' = executed \o in
      BY <1>3, <2>1, <2>3, <3>2, MoveHead
    <3> QED
      BY <1>1, <3>1, <3>3 DEF Flow
  <2>6. ExecutedInOrder'
    BY <1>1, <2>2, <2>5 DEF ExecutedInOrder, Flow, Ids, Ascend
  <2>7. AnswersInOrder'
    BY <1>1, <2>2 DEF AnswersInOrder, Ascend
  <2>8. Types'
    <3>1. dropped' \subseteq Ids(executed)' /\ refused' \subseteq 1..issued'
      BY <1>1, <2>2 DEF Types, Ids
    <3>2. Len(in') <= Cap
      BY <2>2, <2>4, Counted DEF Types
    <3> QED
      BY <1>1, <2>1, <2>2, <2>4, <3>1, <3>2 DEF Types
  <2>9. Outstanding' = Outstanding
    BY <1>1 DEF Outstanding
  <2>10. Accounted'
    <3>1. Len(in) \in Int /\ Len(out) \in Int
      BY <2>2, Counted
    <3> QED
      BY <1>1, <2>2, <2>4, <2>9, <3>1 DEF Accounted
  <2>11. PeakSeen'
    BY <1>1, <2>2, <2>9 DEF PeakSeen
  <2> QED
    BY <2>6, <2>7, <2>8, <2>10, <2>11 DEF Fates
<1> QED
  BY <1>2, <1>3

\* The statement in hand is later than all that were executed; it joins them, and
\* its result is queued or dropped.
LEMMA QueryFates ==
  ASSUME Fates, QueryDone
  PROVE  Fates'
<1>1. Types /\ ExecutedInOrder /\ AnswersInOrder /\ Accounted /\ PeakSeen
  BY DEF Fates
<1>2. PICK q \in Query : held = <<q>>
  BY <1>1 DEF Types, QueryDone
<1>3. /\ executed' = Append(executed, q) /\ held' = <<>> /\ db' = "drain"
      /\ UNCHANGED <<in, issued, refused, handled, peak>>
  <2>1. executed' = executed \o <<q>> /\ executed \in Seq(Query)
    BY <1>1, <1>2 DEF QueryDone, Types
  <2>2. executed \o <<q>> = Append(executed, q)
    BY <2>1, <1>2
  <2> QED
    BY <2>1, <2>2 DEF QueryDone
<1>4. /\ in \in Seq(Query) /\ executed \in Seq(Query) /\ out \in Seq(Query) /\ handled \in Seq(Query)
      /\ executed \o held \in Seq(Query) /\ Answered \in Seq(Query) /\ held \in Seq(Query)
      /\ Len(in) \in Int /\ Len(out) \in Int /\ Len(handled) \in Int
      /\ issued \in Int /\ peak \in Int /\ Outstanding \in Int
      /\ IsFiniteSet(dropped) /\ Cardinality(dropped) \in Int /\ Cardinality(refused) \in Int
      /\ Cardinality(Silent(executed)) \in Int
      /\ Outstanding = issued - Cardinality(refused) - Cardinality(dropped) - Len(handled)
                         - Cardinality(Silent(executed))
  BY <1>1, Counted
<1>5. Len(held) = 1 /\ Len(held') = 0
  BY <1>2, <1>3
<1>6. executed \o held = Append(executed, q) /\ executed' \in Seq(Query)
  BY <1>2, <1>3, <1>4
\* Later than all before it.
<1>7. \A i \in DOMAIN executed : executed[i] \in Query /\ executed[i].id < q.id
  <2>1. Ascend(executed \o held)
    <3>1. Ascend((executed \o held) \o in)
      BY <1>1 DEF ExecutedInOrder
    <3>2. \A i \in DOMAIN (executed \o held) :
            i \in DOMAIN Flow /\ Flow[i] = (executed \o held)[i]
      BY <1>4, ConcatElements DEF Flow
    <3> QED
      BY <3>1, <3>2 DEF Ascend, Flow
  <2>2. \A i \in DOMAIN executed, j \in DOMAIN held : executed[i].id < held[j].id
    BY <1>4, <2>1, LaterIsLarger
  <2>3. 1 \in DOMAIN held /\ held[1] = q
    BY <1>2
  <2>4. \A i \in DOMAIN executed : executed[i] \in Query
    BY <1>4, ElementOfSeq, LenProperties
  <2> QED
    BY <2>2, <2>3, <2>4
<1>8. q.id \in Int /\ \A i \in DOMAIN executed : executed[i].id \in Int /\ executed[i].id # q.id
  <2>1. q.id \in Int /\ \A i \in DOMAIN executed : executed[i].id \in Int
    BY <1>2, <1>7 DEF Query
  <2> QED
    BY <1>7, <2>1
<1>9. /\ Ids(executed') = Ids(executed) \cup {q.id}
      /\ {executed'[i] : i \in DOMAIN executed'} = {executed[i] : i \in DOMAIN executed} \cup {q}
  <2>1. /\ DOMAIN executed = 1..Len(executed) /\ Len(executed) \in Nat
        /\ DOMAIN executed' = 1..(Len(executed) + 1)
        /\ \A i \in 1..Len(executed) : executed'[i] = executed[i]
        /\ executed'[Len(executed) + 1] = q
    BY <1>2, <1>3, <1>4, AppendProperties, LenProperties
  <2>2. {executed'[i] : i \in DOMAIN executed'} = {executed[i] : i \in DOMAIN executed} \cup {q}
    BY <2>1
  <2>3. Ids(executed') = {x.id : x \in {executed'[i] : i \in DOMAIN executed'}}
    BY DEF Ids
  <2>4. Ids(executed) = {x.id : x \in {executed[i] : i \in DOMAIN executed}}
    BY DEF Ids
  <2> QED
    BY <2>2, <2>3, <2>4
<1>10. q.id \notin dropped /\ q.id \notin Ids(executed)
  BY <1>1, <1>8 DEF Types, Ids
<1>11. ExecutedInOrder'
  <2>1. Flow' = Flow
    <3>1. executed' \o held' = executed'
      BY <1>3, <1>6
    <3> QED
      BY <1>3, <1>6, <3>1 DEF Flow
  <2> QED
    BY <1>1, <1>3, <2>1 DEF ExecutedInOrder, Flow, Ids, Ascend
\* The results that reach a callback are those of executed statements.
<1>12. \A i \in DOMAIN Answered : \E j \in DOMAIN executed : Answered[i] = executed[j]
  BY <1>1 DEF AnswersInOrder, Answered
<1> DEFINE Run(e, d) == {x \in {e[i] : i \in DOMAIN e} : x.back /\ x.id \notin d}
<1>13. Ascend(Answered) /\ {Answered[i] : i \in DOMAIN Answered} = Run(executed, dropped)
  BY <1>1 DEF AnswersInOrder, Answered
<1>14. ASSUME Ascend(Answered'), {Answered'[i] : i \in DOMAIN Answered'} = Run(executed', dropped')
       PROVE  AnswersInOrder'
  BY <1>14 DEF AnswersInOrder, Answered, Ascend
<1> DEFINE r == Cardinality(refused)
           d0 == Cardinality(dropped)
           e0 == Cardinality(Silent(executed))
<1>15. ASSUME NEW x \in Int, NEW y \in Int,
              Cardinality(dropped') = d0 + x, Cardinality(Silent(executed')) = e0 + y
       PROVE  Outstanding' = Outstanding - x - y
  <2>1. Outstanding' = issued - r - (d0 + x) - Len(handled) - (e0 + y)
    BY <1>3, <1>15 DEF Outstanding, Silent
  <2>2. issued \in Int /\ r \in Int /\ d0 \in Int /\ Len(handled) \in Int /\ e0 \in Int
    BY <1>4
  <2>3. Outstanding = issued - r - d0 - Len(handled) - e0
    BY <1>4
  <2> HIDE DEF r, d0, e0
  <2> QED
    BY <2>1, <2>2, <2>3
<1>16. /\ q.back => Cardinality(Silent(executed')) = e0
       /\ ~q.back => Cardinality(Silent(executed')) = e0 + 1
  BY <1>2, <1>3, <1>4, SilentGrows
<1>17. ASSUME NEW x, dropped' = x, x \subseteq dropped \cup {q.id},
              out' \in Seq(Query), Len(out') <= Cap
       PROVE  Types'
  <2>1. dropped' \subseteq Ids(executed') /\ refused' \subseteq 1..issued'
    BY <1>1, <1>3, <1>9, <1>17 DEF Types
  <2> QED
    BY <1>1, <1>3, <1>6, <1>17, <2>1 DEF Types, Ids
<1> HIDE DEF Run, r, d0, e0
<1>18. CASE ~q.back
  <2>1. out' = out /\ dropped' = dropped
    BY <1>2, <1>18 DEF QueryDone
  <2>2. Types'
    BY <1>1, <1>17, <2>1 DEF Types
  <2>3. Run(executed', dropped') = Run(executed, dropped)
    BY <1>9, <1>18, <2>1 DEF Run
  <2>4. AnswersInOrder'
    <3>1. Answered' = Answered
      BY <1>3, <2>1 DEF Answered
    <3> QED
      BY <1>13, <1>14, <2>3, <3>1 DEF Ascend
  <2>5. Outstanding' = Outstanding - 1
    <3>1. Cardinality(dropped') = d0 + 0
      BY <1>4, <2>1 DEF d0
    <3>2. Outstanding' = Outstanding - 0 - 1
      BY <1>15, <1>16, <1>18, <3>1
    <3> QED
      BY <1>4, <3>2
  <2>6. Accounted'
    BY <1>1, <1>3, <1>4, <1>5, <2>1, <2>5 DEF Accounted
  <2>7. PeakSeen'
    BY <1>1, <1>3, <1>4, <2>1, <2>5 DEF PeakSeen
  <2> QED
    BY <1>11, <2>2, <2>4, <2>6, <2>7 DEF Fates
<1>19. CASE q.back /\ Len(out) < Cap
  <2>1. out' = Append(out, q) /\ dropped' = dropped
    BY <1>2, <1>19 DEF QueryDone
  <2>2. out' \in Seq(Query) /\ Len(out') = Len(out) + 1
    BY <1>2, <1>4, <2>1
  <2>3. Types'
    BY <1>4, <1>17, <1>19, <2>1, <2>2
  <2>4. Run(executed', dropped') = Run(executed, dropped) \cup {q}
    BY <1>9, <1>10, <1>19, <2>1 DEF Run
  <2>5. AnswersInOrder'
    <3>1. Answered' = Append(Answered, q)
      <4>1. Answered' = handled \o Append(out, q)
        BY <1>3, <2>1 DEF Answered
      <4>2. handled \o Append(out, q) = Append(handled \o out, q)
        BY <1>2, <1>4
      <4> QED
        BY <4>1, <4>2 DEF Answered
    <3>2. \A i \in DOMAIN Answered : Answered[i].id < q.id
      BY <1>7, <1>12
    <3>3. /\ Ascend(Append(Answered, q))
          /\ {Append(Answered, q)[i] : i \in DOMAIN Append(Answered, q)}
               = {Answered[i] : i \in DOMAIN Answered} \cup {q}
      BY <1>2, <1>4, <1>13, <3>2, AppendStatement
    <3> QED
      BY <1>13, <1>14, <2>4, <3>1, <3>3
  <2>6. Outstanding' = Outstanding
    <3>1. Cardinality(dropped') = d0 + 0 /\ Cardinality(Silent(executed')) = e0 + 0
      BY <1>4, <1>16, <1>19, <2>1 DEF d0, e0
    <3>2. Outstanding' = Outstanding - 0 - 0
      BY <1>15, <3>1
    <3> QED
      BY <1>4, <3>2
  <2>7. Accounted'
    BY <1>1, <1>3, <1>4, <1>5, <2>2, <2>6 DEF Accounted
  <2>8. PeakSeen'
    BY <1>1, <1>3, <1>4, <2>1, <2>6 DEF PeakSeen
  <2> QED
    BY <1>11, <2>3, <2>5, <2>7, <2>8 DEF Fates
<1>20. CASE q.back /\ ~(Len(out) < Cap)
  <2>1. out' = out /\ dropped' = dropped \cup {q.id}
    BY <1>2, <1>20 DEF QueryDone
  <2>2. Types'
    BY <1>1, <1>17, <2>1 DEF Types
  <2>3. Run(executed', dropped') = Run(executed, dropped)
    BY <1>8, <1>9, <2>1 DEF Run
  <2>4. AnswersInOrder'
    <3>1. Answered' = Answered
      BY <1>3, <2>1 DEF Answered
    <3> QED
      BY <1>13, <1>14, <2>3, <3>1 DEF Ascend
  <2>5. Outstanding' = Outstanding - 1
    <3>1. Cardinality(dropped') = d0 + 1
      BY <1>4, <1>10, <2>1, FS_AddElement DEF d0
    <3>2. Cardinality(Silent(executed')) = e0 + 0
      BY <1>4, <1>16, <1>20 DEF e0
    <3>3. Outstanding' = Outstanding - 1 - 0
      BY <1>15, <3>1, <3>2
    <3> QED
      BY <1>4, <3>3
  <2>6. Accounted'
    BY <1>1, <1>3, <1>4, <1>5, <2>1, <2>5 DEF Accounted
  <2>7. PeakSeen'
    <3>1. Len(out) >= Cap /\ Outstanding = Len(in) + 1 + Len(out) /\ Len(in) >= 0
      BY <1>1, <1>4, <1>5, <1>20 DEF Accounted, Types
    <3>2. peak > Cap
      BY <1>1, <1>4, <3>1 DEF PeakSeen
    <3> QED
      BY <1>1, <1>3, <1>4, <2>5, <3>2 DEF PeakSeen
  <2> QED
    BY <1>11, <2>2, <2>4, <2>6, <2>7 DEF Fates
<1> QED
  BY <1>18, <1>19, <1>20

LEMMA NextFates == Control /\ Fates /\ [Next]_vars => Fates'
<1> SUFFICES ASSUME Control, Fates, [Next]_vars PROVE Fates'
  OBVIOUS
<1>1. CASE ExeStoreSql
  BY <1>1, StoreFates
<1>2. CASE CallBackPop
  BY <1>2, CallBackFates
<1>3. CASE Drain
  BY <1>3, DrainFates
<1>4. CASE QueryDone
  BY <1>4, QueryFates
\* Nobody else touches a statement.
<1>5. CASE /\ UNCHANGED <<queues, held, issued, fates, peak>>
           /\ db' = "query" <=> db = "query"
  BY <1>5, QuietFates
<1>6. TimerWakes \/ TickEnds \/ CallBackTimerExec \/ HandlerReturns =>
        UNCHANGED <<queues, held, issued, fates, peak>> /\ UNCHANGED db
  BY DEF TimerWakes, TickEnds, CallBackTimerExec, HandlerReturns
<1>7. Check \/ SleepEnds =>
        /\ UNCHANGED <<queues, held, issued, fates, peak>>
        /\ db # "query" /\ db' # "query"
  BY DEF Check, SleepEnds
<1>8. RunDb => /\ UNCHANGED <<queues, held, issued, fates, peak>>
               /\ db # "query" /\ db' # "query"
  BY DEF RunDb, Control, Launched
<1>9. InsertDb \/ RunTimer \/ InsertTimer \/ Resume =>
        UNCHANGED <<queues, held, issued, fates, peak>> /\ UNCHANGED db
  BY DEF InsertDb, RunTimer, InsertTimer, Resume
<1>10. Join("db") \/ Join("timer") \/ Exit \/ Signal \/ StopThread \/ UNCHANGED vars =>
        UNCHANGED <<queues, held, issued, fates, peak>> /\ UNCHANGED db
  BY DEF Join, Exit, Signal, StopThread, vars
<1> QED
  BY <1>1, <1>2, <1>3, <1>4, <1>5, <1>6, <1>7, <1>8, <1>9, <1>10
  DEF Next, Timer, DbThread, Launch, MainJoin

-----------------------------------------------------------------------------
(***************************************************************************)
(* The theorem.                                                            *)
(***************************************************************************)

LEMMA InitStatements == Init => Control /\ Fates
<1> SUFFICES ASSUME Init PROVE Control /\ Fates
  OBVIOUS
<1>1. /\ in = <<>> /\ out = <<>> /\ held = <<>> /\ executed = <<>> /\ handled = <<>>
      /\ issued = 0 /\ refused = {} /\ dropped = {} /\ peak = 0 /\ db = "off"
  BY DEF Init
<1>2. Control
  <2>1. /\ timer = "off" /\ suspended = FALSE /\ on = {} /\ threads = {} /\ main = "init"
        /\ stopping = "" /\ signals = 0
    BY DEF Init
  <2>2. signals \in 0..MaxSignals
    <3>1. MaxSignals \in Nat
      BY CapAssumption
    <3>2. 0 \in 0..MaxSignals
      BY <3>1
    <3> QED
      BY <2>1, <3>2
  <2>3. Places
    BY <1>1, <2>1, <2>2 DEF Places
  <2>4. Launched
    BY <1>1, <2>1 DEF Launched
  <2> QED
    BY <2>3, <2>4 DEF Control
<1>3. Types
  BY <1>1 DEF Types
<1>4. (executed \o held) \o in = <<>> /\ handled \o out = <<>>
  BY <1>1
<1>5. ExecutedInOrder
  BY <1>1, <1>4 DEF ExecutedInOrder, Ids, Ascend
<1>6. AnswersInOrder
  BY <1>1, <1>4 DEF AnswersInOrder, Ascend
<1>7. Outstanding = 0
  <2>1. {i \in DOMAIN executed : ~executed[i].back} = {}
    BY <1>1
  <2>2. Cardinality({}) = 0 /\ Len(handled) = 0
    BY <1>1, FS_EmptySet
  <2> QED
    BY <1>1, <2>1, <2>2 DEF Outstanding
<1>8. Accounted /\ PeakSeen
  BY <1>1, <1>7 DEF Accounted, PeakSeen
<1> QED
  BY <1>2, <1>3, <1>5, <1>6, <1>8 DEF Fates

LEMMA FatesShow == Control /\ Fates => DbInv
<1> SUFFICES ASSUME Control, Fates PROVE DbInv
  OBVIOUS
<1>1. Types /\ ExecutedInOrder /\ AnswersInOrder /\ Accounted /\ PeakSeen /\ Places /\ Launched
  BY DEF Fates, Control
<1>2. TypeOK
  <2>1. refused \subseteq 1..MaxQueries /\ peak \in 0..MaxQueries
    BY <1>1 DEF Types
  <2>2. dropped \subseteq 1..MaxQueries
    <3>1. \A i \in DOMAIN executed : executed[i] \in Query
      BY <1>1, ElementOfSeq, LenProperties DEF Types
    <3> QED
      BY <1>1, <3>1 DEF Types, Ids, Query
  <2>3. held \in {<<>>} \cup {<<q>> : q \in Query} /\ (db = "query" <=> held # <<>>)
    <3>1. CASE db # "query" /\ held = <<>>
      BY <3>1
    <3>2. CASE db = "query" /\ \E q \in Query : held = <<q>>
      BY <3>2
    <3> QED
      BY <1>1, <3>1, <3>2 DEF Types
  <2> QED
    BY <1>1, <2>1, <2>2, <2>3 DEF TypeOK, Types, Places
<1>3. NoneLostBelowCap
  BY <1>1 DEF NoneLostBelowCap, PeakSeen
<1>4. EndsBySignal
  BY <1>1 DEF EndsBySignal, Launched
<1> QED
  BY <1>1, <1>2, <1>3, <1>4 DEF DbInv

\* For queues of any size and any number of statements and signals: however the
\* connection's thread, the main timer, the launch and the signal handler interleave
\* (db_connection.cpp, process.cpp), every statement that exeStoreSql accepts is
\* executed once and in the order of issue, every result that found room reaches its
\* callback once and in that order, nothing is refused or dropped while no more than
\* Cap statements are outstanding, and no thread ends but by a signal.
THEOREM StatementsAreSound == Spec => []DbInv
<1>1. Init => Control /\ Fates
  BY InitStatements
<1>2. Control /\ Fates /\ [Next]_vars => (Control /\ Fates)'
  BY NextControl, NextFates
<1>3. Control /\ Fates => DbInv
  BY FatesShow
<1> QED
  BY <1>1, <1>2, <1>3, PTL DEF Spec, Safety

=============================================================================
