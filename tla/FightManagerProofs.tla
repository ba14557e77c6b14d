------------------------- MODULE FightManagerProofs -------------------------
(***************************************************************************)
(* Proofs about the two sides of FightManager: the houses of one match     *)
(* (House), for any two teams, any leaders and any cafés, and the fights   *)
(* in memory (FightBoard), for any fights, teams, cafés and any number of  *)
(* queries, executed or lost.                                              *)
(***************************************************************************)
EXTENDS FightBoard, House, SequenceTheorems, WellFoundedInduction, TLAPS

-----------------------------------------------------------------------------
(***************************************************************************)
(* House.                                                                  *)
(***************************************************************************)

\* A house that is not made has no leader.
NoHouseNoBoss == \A t \in Sides : Empty(t) => house[t].boss = Nobody

HouseIInv == HouseInv /\ MarkMeansReady /\ NoHouseNoBoss

\* A user's team is one of the two, and he is in it.
LEMMA TeamOfUser ==
  ASSUME NEW u \in Users
  PROVE  TeamOf(u) \in Sides /\ u \in Members[TeamOf(u)] /\ u # Nobody
<1>1. \E t \in Sides : u \in Members[t]
  BY DEF Users
<1>2. TeamOf(u) \in Sides /\ u \in Members[TeamOf(u)]
  BY <1>1 DEF TeamOf
<1> QED
  BY <1>2, HouseAssumption

\* There is no third team.
LEMMA TwoTeams ==
  ASSUME NEW t \in Sides
  PROVE  Other(t) \in Sides /\ Other(t) # t /\ \A u \in Sides : u = t \/ u = Other(t)
<1>1. \E u \in Sides : u # t
  BY HouseAssumption
<1>2. Other(t) \in Sides /\ Other(t) # t
  BY <1>1 DEF Other
<1> QED
  BY <1>2, HouseAssumption

LEMMA FlagsAre ==
  ASSUME NEW S, S \subseteq Users \cup {Nobody}, NEW f \in [S -> BOOLEAN]
  PROVE  f \in Flags
  BY DEF Flags

LEMMA FlagsGive ==
  ASSUME NEW f \in Flags
  PROVE  DOMAIN f \subseteq Users \cup {Nobody} /\ f \in [DOMAIN f -> BOOLEAN]
  BY DEF Flags

\* createHouse: the named and the leader's place, nobody ready.
LEMMA Created ==
  ASSUME HouseIInv, NEW t \in Sides, NEW named \in SUBSET Members[t], CreateHouse(t, named)
  PROVE  /\ house' \in [Sides -> [boss : Users \cup {Nobody}, ready : Flags]]
         /\ DOMAIN house'[t].ready \subseteq Members[t] \cup {Nobody}
         /\ house'[t].boss \in DOMAIN house'[t].ready
         /\ ~house'[t].ready[house'[t].boss]
         /\ \A u \in Sides \ {t} : house'[u] = house[u]
<1> DEFINE boss == IF Leader[t] \in named THEN Leader[t] ELSE Nobody
           new  == [boss |-> boss, ready |-> [p \in named \cup {boss} |-> FALSE]]
<1>1. house' = [house EXCEPT ![t] = new]
  BY DEF CreateHouse
<1>2. named \subseteq Users /\ boss \in Users \cup {Nobody} /\ boss \in Members[t] \cup {Nobody}
  BY HouseAssumption DEF Users
<1>3. new.ready \in Flags
  BY <1>2, FlagsAre
<1>4. new \in [boss : Users \cup {Nobody}, ready : Flags]
  BY <1>2, <1>3
<1> QED
  BY <1>1, <1>2, <1>4 DEF HouseIInv, HouseInv, HouseTypeOK

\* What a mark does: it leaves the places and the other house alone.
OnlyMarks(u) ==
  /\ house' \in [Sides -> [boss : Users \cup {Nobody}, ready : Flags]]
  /\ \A v \in Sides : /\ house'[v].boss = house[v].boss
                      /\ DOMAIN house'[v].ready = DOMAIN house[v].ready
  /\ \A p \in DOMAIN house[TeamOf(u)].ready :
       house'[TeamOf(u)].ready[p] = IF p = u THEN TRUE ELSE house[TeamOf(u)].ready[p]
  /\ \A v \in Sides \ {TeamOf(u)} : house'[v] = house[v]

LEMMA Marked ==
  ASSUME HouseIInv, NEW u \in Users, MarkReady(u)
  PROVE  OnlyMarks(u)
<1> DEFINE t == TeamOf(u)
<1> DEFINE old == house[t].ready
           new == [p \in DOMAIN old |-> IF p = u THEN TRUE ELSE old[p]]
<1>1. t \in Sides /\ house \in [Sides -> [boss : Users \cup {Nobody}, ready : Flags]]
  BY TeamOfUser DEF HouseIInv, HouseInv, HouseTypeOK
<1>2. old \in Flags
  BY <1>1
<1>3. new \in Flags
  <2>1. DOMAIN old \subseteq Users \cup {Nobody} /\ old \in [DOMAIN old -> BOOLEAN]
    BY <1>2, FlagsGive
  <2>2. new \in [DOMAIN old -> BOOLEAN]
    BY <2>1
  <2> QED
    BY <2>1, <2>2, FlagsAre
<1>4. house' = [house EXCEPT ![t].ready = new]
  BY DEF MarkReady
<1>5. house'[t] = [house[t] EXCEPT !.ready = new] /\ \A v \in Sides \ {t} : house'[v] = house[v]
  BY <1>1, <1>4
<1>6. house'[t].ready = new /\ house'[t].boss = house[t].boss
  BY <1>1, <1>5
<1>7. house' \in [Sides -> [boss : Users \cup {Nobody}, ready : Flags]]
  BY <1>1, <1>3, <1>4
<1> HIDE DEF new
<1>8. DOMAIN new = DOMAIN old /\ \A p \in DOMAIN old : new[p] = IF p = u THEN TRUE ELSE old[p]
  BY DEF new
<1> QED
  BY <1>5, <1>6, <1>7, <1>8 DEF OnlyMarks

LEMMA NoHouseIs ==
  /\ NoHouse \in [boss : Users \cup {Nobody}, ready : Flags]
  /\ DOMAIN NoHouse.ready = {} /\ NoHouse.boss = Nobody
<1>1. [p \in {} |-> FALSE] \in [{} -> BOOLEAN] /\ {} \subseteq Users \cup {Nobody}
  OBVIOUS
<1>2. [p \in {} |-> FALSE] \in Flags
  BY <1>1, FlagsAre
<1> QED
  BY <1>2 DEF NoHouse

LEMMA InitHouse == HouseInit => HouseIInv
<1> SUFFICES ASSUME HouseInit PROVE HouseIInv
  OBVIOUS
<1>2. house \in [Sides -> [boss : Users \cup {Nobody}, ready : Flags]]
  BY NoHouseIs DEF HouseInit
<1>3. \A t \in Sides : DOMAIN house[t].ready = {}
  BY NoHouseIs DEF HouseInit
<1>4. \A t \in Sides : Empty(t)
  BY <1>3 DEF Empty, Players
<1>5. HouseTypeOK
  <2>1. MaxHouses \in Nat
    BY HouseAssumption
  <2>2. houses \in 0..MaxHouses
    BY <2>1 DEF HouseInit
  <2>3. fault \in BOOLEAN
    BY DEF HouseInit
  <2> QED
    BY <1>2, <1>3, <1>4, <2>2, <2>3 DEF HouseInit, HouseTypeOK, Players
<1>6. StartOnlyAllReady /\ MarkMeansReady
  BY <1>4 DEF HouseInit, StartOnlyAllReady, MarkMeansReady, LeaderReady
<1>7. NoHouseNoBoss
  BY NoHouseIs DEF HouseInit, NoHouseNoBoss
<1> QED
  BY <1>5, <1>6, <1>7 DEF HouseIInv, HouseInv


\* Every step keeps types and marks; the leader who is ready second finds the other
\* house ready, or its mark from a report.
LEMMA NextHouse == HouseIInv /\ [HouseNext]_houseVars => HouseIInv'
<1> SUFFICES ASSUME HouseIInv, [HouseNext]_houseVars PROVE HouseIInv'
  OBVIOUS
<1>a. HouseTypeOK /\ MarkMeansReady /\ NoHouseNoBoss
  BY DEF HouseIInv, HouseInv
<1>1. ASSUME NEW t \in Sides, NEW named \in SUBSET Members[t], ChallengerMem(t, named)
      PROVE  HouseIInv'
  <2>1. CreateHouse(t, named)
    BY <1>1 DEF ChallengerMem
  <2>2. HouseTypeOK'
    BY <1>a, <1>1, <2>1, Created, HouseAssumption DEF ChallengerMem, HouseTypeOK, Players, Empty
  <2>3. MarkMeansReady'
    BY <1>a, <1>1, <2>1, Created DEF ChallengerMem, MarkMeansReady, LeaderReady, Players, Empty
  <2>4. StartOnlyAllReady'
    BY <1>1 DEF ChallengerMem, StartOnlyAllReady
  <2>5. NoHouseNoBoss'
    BY <1>a, <2>1, Created DEF NoHouseNoBoss, Players, Empty
  <2> QED
    BY <2>2, <2>3, <2>4, <2>5 DEF HouseIInv, HouseInv
<1>2. ASSUME NEW t \in Sides, NEW named \in SUBSET Members[t], ChallengerGone(t, named)
      PROVE  HouseIInv'
  BY <1>a, <1>2 DEF ChallengerGone, HouseIInv, HouseInv, HouseTypeOK, MarkMeansReady, StartOnlyAllReady,
     NoHouseNoBoss, LeaderReady, Players, Empty
<1>3. ASSUME NEW u \in Users, ReadyPlayer(u)
      PROVE  HouseIInv'
  <2> DEFINE t == TeamOf(u)
  <2>1. t \in Sides /\ MarkReady(u) /\ house[t].boss # u /\ OnlyMarks(u)
    BY <1>3, TeamOfUser, Marked DEF ReadyPlayer
  <2>2. HouseTypeOK'
    BY <1>a, <1>3, <2>1 DEF OnlyMarks, ReadyPlayer, HouseTypeOK, Players, Empty
  <2>3. MarkMeansReady'
    <3> SUFFICES ASSUME NEW v \in Sides, LeaderReady(v)'
                 PROVE  v \in early' \/ \A p \in Players(v)' : house'[v].ready[p]
      BY DEF MarkMeansReady
    <3>1. Players(v)' = Players(v) /\ house'[v].boss = house[v].boss /\ early' = early
      BY <1>3, <2>1 DEF ReadyPlayer, OnlyMarks, Players
    <3>2. Players(v) # {} /\ house'[v].ready[house[v].boss] /\ house[v].boss \in Players(v)
      BY <1>a, <3>1 DEF LeaderReady, Empty, HouseTypeOK
    <3>3. house[v].ready[house[v].boss]
      <4>1. CASE v = t
        BY <2>1, <3>2, <4>1 DEF OnlyMarks, Players
      <4>2. CASE v # t
        BY <2>1, <3>2, <4>2 DEF OnlyMarks
      <4> QED
        BY <4>1, <4>2
    <3>4. v \in early \/ \A p \in Players(v) : house[v].ready[p]
      BY <1>a, <3>2, <3>3 DEF MarkMeansReady, LeaderReady, Empty
    <3> QED
      <4>1. CASE v = t
        BY <2>1, <3>1, <3>4, <4>1 DEF OnlyMarks, Players
      <4>2. CASE v # t
        BY <2>1, <3>1, <3>4, <4>2 DEF OnlyMarks
      <4> QED
        BY <4>1, <4>2
  <2>4. StartOnlyAllReady'
    BY <1>3 DEF ReadyPlayer, StartOnlyAllReady
  <2>5. NoHouseNoBoss'
    BY <1>a, <2>1 DEF OnlyMarks, NoHouseNoBoss, Players, Empty
  <2> QED
    BY <2>2, <2>3, <2>4, <2>5 DEF HouseIInv, HouseInv
<1>4. ASSUME NEW u \in Users, ReadyLeader(u)
      PROVE  HouseIInv'
  <2> DEFINE t == TeamOf(u)
  <2>1. t \in Sides /\ u # Nobody /\ MarkReady(u) /\ house[t].boss = u /\ AllReady(t) /\ OnlyMarks(u)
    BY <1>4, TeamOfUser, Marked DEF ReadyLeader
  <2>2. \A p \in DOMAIN house'[t].ready : house'[t].ready[p]
    BY <2>1 DEF OnlyMarks, AllReady, Players
  <2>3. start' = (IF LeaderReady(Other(t)) THEN Told(u) ELSE {}) /\ Told(u) \subseteq online
    BY <1>4 DEF ReadyLeader, Told
  <2>4. HouseTypeOK'
    BY <1>a, <1>4, <2>1, <2>3 DEF OnlyMarks, ReadyLeader, HouseTypeOK, Players, Empty
  <2>5. MarkMeansReady'
    BY <1>a, <1>4, <2>1, <2>2 DEF OnlyMarks, ReadyLeader, MarkMeansReady, LeaderReady, Players, Empty
  <2>6. StartOnlyAllReady'
    <3> SUFFICES ASSUME start' # {}, NEW v \in Sides
                 PROVE  /\ ~Empty(v)'
                        /\ v \in early' \/ \A p \in Players(v)' : house'[v].ready[p]
                        /\ \A p \in Players(v)' \cap online' :
                             (\E q \in start' : Cafe[q] = Cafe[p]) => p \in start'
      BY DEF StartOnlyAllReady
    <3>1. LeaderReady(Other(t)) /\ start' = Told(u)
      BY <2>3
    <3>2. v = t \/ v = Other(t)
      BY <2>1, TwoTeams
    <3>3. Players(v)' = Players(v) /\ online' = online
      BY <1>4, <2>1 DEF OnlyMarks, ReadyLeader, Players
    <3>4. \A p \in Players(v) \cap online :
            (\E q \in start' : Cafe[q] = Cafe[p]) => p \in start'
      BY <3>1, <3>2 DEF Told
    <3>5. Players(t) # {}
      BY <1>a, <2>1 DEF NoHouseNoBoss, Empty
    <3>6. Players(v) # {}
      BY <3>1, <3>2, <3>5 DEF LeaderReady, Empty
    <3>7. v \in early' \/ \A p \in Players(v)' : house'[v].ready[p]
      <4>1. CASE v = t
        BY <4>1, <2>2 DEF Players
      <4>2. CASE v = Other(t)
        <5>1. v # t /\ house'[v] = house[v]
          BY <4>2, <2>1, TwoTeams DEF OnlyMarks
        <5>2. v \in early \/ \A p \in Players(v) : house[v].ready[p]
          BY <1>a, <4>2, <3>1 DEF MarkMeansReady
        <5> QED
          BY <1>4, <5>1, <5>2, <3>3 DEF ReadyLeader
      <4> QED
        BY <3>2, <4>1, <4>2
    <3> QED
      BY <3>3, <3>4, <3>6, <3>7 DEF Empty
  <2>7. NoHouseNoBoss'
    BY <1>a, <2>1 DEF OnlyMarks, NoHouseNoBoss, Players, Empty
  <2> QED
    BY <2>4, <2>5, <2>6, <2>7 DEF HouseIInv, HouseInv
<1>5. ASSUME NEW u \in Users, FightResult(u)
      PROVE  HouseIInv'
  <2> DEFINE t == TeamOf(u)
  <2>1. t \in Sides /\ MarkReady(u) /\ house[t].boss = u /\ OnlyMarks(u)
    BY <1>5, TeamOfUser, Marked DEF FightResult
  <2>2. HouseTypeOK'
    BY <1>a, <1>5, <2>1 DEF OnlyMarks, FightResult, HouseTypeOK, Players, Empty
  <2>3. MarkMeansReady'
    <3> SUFFICES ASSUME NEW v \in Sides, LeaderReady(v)'
                 PROVE  v \in early' \/ \A p \in Players(v)' : house'[v].ready[p]
      BY DEF MarkMeansReady
    <3>1. CASE v = t /\ LeaderReady(t)
      <4>1. t \in early \/ \A p \in Players(t) : house[t].ready[p]
        BY <1>a, <2>1, <3>1 DEF MarkMeansReady
      <4> QED
        BY <1>5, <2>1, <3>1, <4>1 DEF OnlyMarks, FightResult, Players
    <3>2. CASE v = t /\ ~LeaderReady(t)
      BY <1>5, <3>2 DEF FightResult
    <3>3. CASE v # t
      <4>1. house'[v] = house[v]
        BY <2>1, <3>3 DEF OnlyMarks
      <4>2. v \in early \/ \A p \in Players(v) : house[v].ready[p]
        BY <1>a, <4>1 DEF MarkMeansReady, LeaderReady, Players, Empty
      <4> QED
        BY <1>5, <4>1, <4>2 DEF FightResult, Players
    <3> QED
      BY <3>1, <3>2, <3>3
  <2>4. StartOnlyAllReady'
    BY <1>5 DEF FightResult, StartOnlyAllReady
  <2>5. NoHouseNoBoss'
    BY <1>a, <2>1 DEF OnlyMarks, NoHouseNoBoss, Players, Empty
  <2> QED
    BY <2>2, <2>3, <2>4, <2>5 DEF HouseIInv, HouseInv
<1>6. CASE MatchOver
  <2>2. house' \in [Sides -> [boss : Users \cup {Nobody}, ready : Flags]]
    BY <1>6, NoHouseIs DEF MatchOver
  <2>3. \A t \in Sides : DOMAIN house'[t].ready = {}
    BY <1>6, NoHouseIs DEF MatchOver
  <2>4. \A t \in Sides : house'[t].boss = Nobody
    BY <1>6, NoHouseIs DEF MatchOver
  <2> QED
    BY <1>a, <1>6, <2>2, <2>3, <2>4 DEF MatchOver, HouseIInv, HouseInv, HouseTypeOK, StartOnlyAllReady,
       MarkMeansReady, NoHouseNoBoss, Players, Empty, LeaderReady
<1>7. ASSUME NEW u \in Users, LogOut(u) \/ LogIn(u)
      PROVE  HouseIInv'
  BY <1>a, <1>7, HouseAssumption DEF LogOut, LogIn, HouseIInv, HouseInv, HouseTypeOK, StartOnlyAllReady,
     MarkMeansReady, NoHouseNoBoss, Players, Empty, LeaderReady
<1>8. CASE UNCHANGED houseVars
  BY <1>8 DEF houseVars, HouseIInv, HouseInv, HouseTypeOK, StartOnlyAllReady, MarkMeansReady, NoHouseNoBoss,
     Players, Empty, LeaderReady
<1>9. QED
  BY <1>1, <1>2, <1>3, <1>4, <1>5, <1>6, <1>7, <1>8 DEF HouseNext, Ready

\* For any two teams: the start of a game (FightRule::ready) is announced only with
\* every player of both houses ready, or with a leader who had reported before, and
\* to everybody who plays at the café it goes to, whatever houses are made anew,
\* reports come early and players come and go.
THEOREM StartIsRight == HouseSpec => []HouseInv
<1>1. HouseIInv => HouseInv
  BY DEF HouseIInv
<1>2. QED
  BY <1>1, InitHouse, NextHouse, PTL DEF HouseSpec

-----------------------------------------------------------------------------
(***************************************************************************)
(* FightBoard: the one queue of the read connection.  The answers not      *)
(* handled yet and the queries not executed yet are one queue, answers     *)
(* first; a query keeps its place when it is executed.                     *)
(***************************************************************************)

Ids     == Teams \cup {Junk}
Results == (UNION {[S -> Stages] : S \in SUBSET Fights})
             \cup (SUBSET (Fights \X Ids)) \cup (SUBSET Fights)
Kinds   == {"area", "new", "objs", "chall", "rec"}
Queries == [kind : Kinds, last : Nat, overlaps : BOOLEAN]
Answers == [kind : Kinds, overlaps : BOOLEAN, null : BOOLEAN, res : Results]

QueueTypes == pending \in Seq(Queries) /\ answers \in Seq(Answers)

Waiting == Len(answers) + Len(pending)

Kind(i) ==
  IF i <= Len(answers) THEN answers[i].kind ELSE pending[i - Len(answers)].kind
Overlaps(i) ==
  IF i <= Len(answers) THEN answers[i].overlaps ELSE pending[i - Len(answers)].overlaps

\* The search at place i brings the row of f, or may still.
Brings(i, f) ==
  IF i <= Len(answers) THEN ~answers[i].null /\ f \in DOMAIN answers[i].res
                       ELSE f > pending[i - Len(answers)].last

\* What is at place i after the step was at place k before it.
Same(i, k) ==
  /\ Kind(i)' = Kind(k) /\ Overlaps(i)' = Overlaps(k)
  /\ Kind(k) = "new" => \A f \in Fights : Brings(i, f)' => Brings(k, f)

\* What is at place i after the step has just been issued.
Issued(i, q) ==
  /\ Kind(i)' = q.kind /\ Overlaps(i)' = q.overlaps
  /\ \A f \in Fights : Brings(i, f)' => f > q.last

\* The first d leave the queue, and the queries of `more' join it.
QueueStep(d, more) ==
  /\ QueueTypes'
  /\ Waiting \in Nat /\ d <= Waiting /\ Waiting' = (Waiting - d) + Len(more)
  /\ \A i \in 1..(Waiting - d) : Same(i, i + d)
  /\ \A k \in 1..Len(more), i \in Nat :
       i = (Waiting - d) + k => Issued(i, more[k])

LEMMA QueueLengths ==
  ASSUME QueueTypes
  PROVE  Len(answers) \in Nat /\ Len(pending) \in Nat /\ Waiting \in Nat
BY LenProperties DEF QueueTypes, Waiting

\* Queries are issued behind all others.
LEMMA IssueStep ==
  ASSUME QueueTypes, NEW more \in Seq(Queries), pending' = pending \o more, answers' = answers
  PROVE  QueueStep(0, more)
<1>1. Len(answers) \in Nat /\ Len(pending) \in Nat /\ Waiting \in Nat
  BY QueueLengths
<1>2. /\ pending' \in Seq(Queries) /\ Len(pending') = Len(pending) + Len(more) /\ Len(more) \in Nat
      /\ \A i \in 1..(Len(pending) + Len(more)) :
           pending'[i] = IF i <= Len(pending) THEN pending[i] ELSE more[i - Len(pending)]
  BY ConcatProperties, LenProperties DEF QueueTypes
<1>3. QueueTypes' /\ Waiting' = Waiting + Len(more)
  BY <1>1, <1>2 DEF QueueTypes, Waiting
<1>4. ASSUME NEW i \in 1..Waiting
      PROVE  Same(i, i + 0)
  <2>1. CASE i <= Len(answers)
    BY <1>1, <2>1 DEF Same, Kind, Overlaps, Brings
  <2>2. CASE ~(i <= Len(answers))
    <3>1. i - Len(answers) \in 1..Len(pending) /\ i + 0 = i
      BY <1>1, <2>2 DEF Waiting
    <3>2. pending'[i - Len(answers)] = pending[i - Len(answers)]
      BY <1>1, <1>2, <3>1
    <3> QED
      BY <2>2, <3>1, <3>2 DEF Same, Kind, Overlaps, Brings
  <2> QED
    BY <2>1, <2>2
<1>5. ASSUME NEW k \in 1..Len(more), NEW i \in Nat, i = (Waiting - 0) + k
      PROVE  Issued(i, more[k])
  <2>1. ~(i <= Len(answers')) /\ i - Len(answers') = Len(pending) + k
    BY <1>1, <1>2, <1>5 DEF Waiting
  <2>2. pending'[i - Len(answers')] = more[k]
    BY <1>1, <1>2, <2>1
  <2> QED
    BY <2>1, <2>2 DEF Issued, Kind, Overlaps, Brings
<1> QED
  BY <1>1, <1>3, <1>4, <1>5 DEF QueueStep

\* The first answer is taken out, and its callback may issue more queries.
LEMMA HandleStep ==
  ASSUME QueueTypes, NEW more \in Seq(Queries), answers # <<>>,
         pending' = pending \o more, answers' = Tail(answers)
  PROVE  QueueStep(1, more) /\ Waiting > 0 /\ Kind(1) = Head(answers).kind
<1>1. Len(answers) \in Nat /\ Len(pending) \in Nat /\ Waiting \in Nat
  BY QueueLengths
<1>2. /\ pending' \in Seq(Queries) /\ Len(pending') = Len(pending) + Len(more) /\ Len(more) \in Nat
      /\ \A i \in 1..(Len(pending) + Len(more)) :
           pending'[i] = IF i <= Len(pending) THEN pending[i] ELSE more[i - Len(pending)]
  BY ConcatProperties, LenProperties DEF QueueTypes
<1>3. /\ answers' \in Seq(Answers) /\ Len(answers') = Len(answers) - 1 /\ Len(answers) > 0
      /\ \A i \in 1..(Len(answers) - 1) : answers'[i] = answers[i + 1]
      /\ Head(answers) = answers[1]
  BY <1>1, HeadTailProperties DEF QueueTypes
<1>4. QueueTypes' /\ Waiting' = (Waiting - 1) + Len(more) /\ Waiting > 0 /\ Kind(1) = Head(answers).kind
  BY <1>1, <1>2, <1>3 DEF QueueTypes, Waiting, Kind
<1>5. ASSUME NEW i \in 1..(Waiting - 1)
      PROVE  Same(i, i + 1)
  <2>1. CASE i <= Len(answers')
    <3>1. answers'[i] = answers[i + 1] /\ i + 1 <= Len(answers)
      BY <1>1, <1>3, <2>1
    <3> QED
      BY <2>1, <3>1 DEF Same, Kind, Overlaps, Brings
  <2>2. CASE ~(i <= Len(answers'))
    <3>1. /\ i - Len(answers') \in 1..Len(pending) /\ i - Len(answers') = (i + 1) - Len(answers)
          /\ ~(i + 1 <= Len(answers))
      BY <1>1, <1>3, <2>2 DEF Waiting
    <3>2. pending'[i - Len(answers')] = pending[(i + 1) - Len(answers)]
      BY <1>1, <1>2, <3>1
    <3> QED
      BY <2>2, <3>1, <3>2 DEF Same, Kind, Overlaps, Brings
  <2> QED
    BY <2>1, <2>2
<1>6. ASSUME NEW k \in 1..Len(more), NEW i \in Nat, i = (Waiting - 1) + k
      PROVE  Issued(i, more[k])
  <2>1. ~(i <= Len(answers')) /\ i - Len(answers') = Len(pending) + k
    BY <1>1, <1>2, <1>3, <1>6 DEF Waiting
  <2>2. pending'[i - Len(answers')] = more[k]
    BY <1>1, <1>2, <2>1
  <2> QED
    BY <2>1, <2>2 DEF Issued, Kind, Overlaps, Brings
<1> QED
  BY <1>1, <1>4, <1>5, <1>6 DEF QueueStep

\* The oldest query is executed or fails.
LEMMA ExecuteStep ==
  ASSUME QueueTypes, pending # <<>>, NEW null \in BOOLEAN, NEW res \in Results,
         pending' = Tail(pending), answers' = Append(answers, Answered(Head(pending), null, res)),
         Head(pending).kind = "new" /\ ~null => \A f \in DOMAIN res : f > Head(pending).last
  PROVE  QueueStep(0, <<>>)
<1> DEFINE a == Answered(Head(pending), null, res)
<1>1. Len(answers) \in Nat /\ Len(pending) \in Nat /\ Waiting \in Nat
  BY QueueLengths
<1>2. /\ pending' \in Seq(Queries) /\ Len(pending') = Len(pending) - 1 /\ Len(pending) > 0
      /\ \A i \in 1..(Len(pending) - 1) : pending'[i] = pending[i + 1]
      /\ Head(pending) = pending[1] /\ Head(pending) \in Queries
  BY <1>1, HeadTailProperties DEF QueueTypes
<1>3. /\ a \in Answers /\ a.kind = pending[1].kind /\ a.overlaps = pending[1].overlaps
      /\ a.null = null /\ a.res = res
  BY <1>2 DEF Answered, Answers, Queries
<1> HIDE DEF a
<1>4. /\ answers' \in Seq(Answers) /\ Len(answers') = Len(answers) + 1
      /\ \A i \in 1..Len(answers) : answers'[i] = answers[i]
      /\ answers'[Len(answers) + 1] = a
  <2>1. answers' = Append(answers, a) /\ answers \in Seq(Answers)
    BY DEF a, QueueTypes
  <2> QED
    BY <1>1, <1>3, <2>1, AppendProperties
<1>5. QueueTypes' /\ Waiting' = Waiting
  BY <1>1, <1>2, <1>4 DEF QueueTypes, Waiting
<1>6. ASSUME NEW i \in 1..Waiting
      PROVE  Same(i, i + 0)
  <2>0. i + 0 = i /\ i \in Int
    OBVIOUS
  <2>1. CASE i <= Len(answers)
    <3>1. answers'[i] = answers[i] /\ i <= Len(answers')
      BY <1>1, <1>4, <2>1
    <3> QED
      BY <2>0, <2>1, <3>1 DEF Same, Kind, Overlaps, Brings
  <2>2. CASE i = Len(answers) + 1
    <3>1. i <= Len(answers') /\ ~(i <= Len(answers)) /\ i - Len(answers) = 1 /\ answers'[i] = a
      BY <1>1, <1>4, <2>2
    <3>2. Kind(i)' = a.kind /\ Overlaps(i)' = a.overlaps
      BY <3>1 DEF Kind, Overlaps
    <3>3. Kind(i) = pending[1].kind /\ Overlaps(i) = pending[1].overlaps
      BY <3>1 DEF Kind, Overlaps
    <3>4. \A f \in Fights : (Brings(i, f)' <=> ~null /\ f \in DOMAIN res)
                            /\ (Brings(i, f) <=> f > pending[1].last)
      BY <1>3, <3>1 DEF Brings
    <3> QED
      BY <1>2, <1>3, <2>0, <3>2, <3>3, <3>4 DEF Same
  <2>3. CASE i > Len(answers) + 1
    <3>1. /\ ~(i <= Len(answers')) /\ ~(i <= Len(answers))
          /\ i - Len(answers') \in 1..(Len(pending) - 1)
          /\ (i - Len(answers')) + 1 = i - Len(answers)
      BY <1>1, <1>4, <2>3 DEF Waiting
    <3>2. pending'[i - Len(answers')] = pending[i - Len(answers)]
      BY <1>2, <3>1
    <3> QED
      BY <2>0, <3>1, <3>2 DEF Same, Kind, Overlaps, Brings
  <2> QED
    BY <1>1, <2>1, <2>2, <2>3
<1> QED
  BY <1>1, <1>5, <1>6 DEF QueueStep

-----------------------------------------------------------------------------
(***************************************************************************)
(* FightBoard: the inductive invariant.                                    *)
(***************************************************************************)

Loads == {"area", "objs", "chall"}

\* Fights a row says have begun to take entrants, and those whose rule can be built.
Old   == {f \in Fights : statusRow[f] # "set"}
Built == {f \in Fights : Posting[f].singleFail}

\* An answer knows rows that are there, and an old fight's status is not "set".
RightAnswer(a) ==
  ~a.null =>
    /\ a.kind \in {"area", "new"} =>
         /\ DOMAIN a.res \subseteq posted
         /\ \A f \in DOMAIN a.res : a.res[f] \in Stages /\ (a.res[f] # "set" => f \in Old)
    /\ a.kind = "area" => Old \subseteq DOMAIN a.res
    /\ a.kind = "objs" => a.res \subseteq Old \X Ids
    /\ a.kind = "rec" => a.res \subseteq posted

AnswersRight == \A i \in 1..Len(answers) : RightAnswer(answers[i])

\* A fight in memory is a whole record, an entrant's own id is a team's or none.
Objs   == UNION {[S -> Ids] : S \in SUBSET Ids}
Memory == fights \in [DOMAIN fights -> [status : Stages, objs : Objs, over : BOOLEAN]]

FightsRight ==
  /\ Memory
  /\ Old \subseteq posted
  /\ \E n \in Nat : \A f \in posted : f <= n
  /\ DOMAIN fights \subseteq Built
  /\ \A f \in DOMAIN fights : fights[f].status # "set" => f \in Old
  /\ index = {<<Posting[f].from, Posting[f].area, f>> :
                f \in {g \in DOMAIN fights : Posting[g].nextNum = 0 /\ Posting[g].from # "admin"}}

\* The load asks for the fights, their entrants and their matches, one after the
\* other.  Until it is over no bracket ends and no status is written.  The searches
\* issued before the fights were known are handled before their entrants are; those
\* behind the entrants do not bring an old fight again.
Loading ==
  /\ \A i, j \in 1..Waiting : Kind(i) \in Loads /\ Kind(j) \in Loads => i = j
  /\ \A i \in 1..Waiting : Kind(i) \in Loads => ~initOver
  /\ ~initOver => /\ \A f \in DOMAIN fights : fights[f].over
                  /\ \A r \in entrantRows : r[1] \in Old
  /\ \A i \in 1..Waiting : Kind(i) = "area" => i = 1 /\ DOMAIN fights = {} /\ objToFights = {}
  /\ \A i \in 1..Waiting : Kind(i) = "objs" =>
       /\ Old \cap Built \subseteq DOMAIN fights /\ objToFights = {}
       /\ \A j \in 1..Waiting :
            j > i /\ Kind(j) = "new" => \A f \in Old \cap Built : ~Brings(j, f)

\* No search that waits brings a fight with loaded entrants; one that overlapped
\* none brings no fight that is in memory.
Searches ==
  \A i \in 1..Waiting : Kind(i) = "new" =>
    /\ \A e \in objToFights : ~Brings(i, e[2])
    /\ ~Overlaps(i) => /\ \A j \in 1..Waiting : j < i => Kind(j) \notin {"area", "new"}
                       /\ \A f \in DOMAIN fights : ~Brings(i, f)

BoardIInv ==
  /\ QueueTypes /\ AnswersRight /\ FightsRight /\ Loading /\ Searches
  /\ TypeOK /\ LoadedStay

LEMMA AnswersKept ==
  ASSUME QueueTypes, AnswersRight, posted \subseteq posted', Old \subseteq Old',
         Old' = Old \/ \A i \in 1..Len(answers) : answers[i].kind # "area",
         answers' = answers \/ (answers # <<>> /\ answers' = Tail(answers))
  PROVE  AnswersRight'
<1>1. ASSUME NEW i \in 1..Len(answers') PROVE \E k \in 1..Len(answers) : answers'[i] = answers[k]
  <2>1. CASE answers' = answers
    BY <2>1
  <2>2. CASE answers # <<>> /\ answers' = Tail(answers)
    <3>1. Len(answers') = Len(answers) - 1 /\ Len(answers) \in Nat
          /\ \A j \in 1..(Len(answers) - 1) : answers'[j] = answers[j + 1]
      BY <2>2, HeadTailProperties, LenProperties DEF QueueTypes
    <3>2. i + 1 \in 1..Len(answers) /\ answers'[i] = answers[i + 1]
      BY <3>1
    <3> QED
      BY <3>2
  <2> QED
    BY <2>1, <2>2
<1>2. SUFFICES ASSUME NEW i \in 1..Len(answers') PROVE RightAnswer(answers[i])'
  BY DEF AnswersRight
<1>3. PICK k \in 1..Len(answers) : answers'[i] = answers[k]
  BY <1>1
<1>4. RightAnswer(answers[k])
  BY DEF AnswersRight
<1>5. answers[k].kind = "area" => Old' = Old
  OBVIOUS
<1> HIDE DEF Old
<1> QED
  BY <1>3, <1>4, <1>5 DEF RightAnswer

\* Steps that bring no fight, begin no load and know no entrant keep the order of
\* the queue, whatever is taken from its head.
LEMMA CalmStep ==
  ASSUME Loading, Searches, NEW d \in {0, 1}, QueueStep(d, <<>>),
         initOver' = initOver, objToFights' = objToFights, DOMAIN fights' = DOMAIN fights,
         statusRow' = statusRow, objToFights \subseteq Ids \X Fights, DOMAIN fights \subseteq Fights,
         ~initOver => /\ \A f \in DOMAIN fights : fights'[f].over
                      /\ \A r \in entrantRows' : r[1] \in Old
  PROVE  Loading' /\ Searches'
<1>1. /\ Waiting \in Nat /\ Waiting' = Waiting - d
      /\ \A i \in 1..Waiting' : Same(i, i + d) /\ i \in Int /\ i + d \in 1..Waiting
  BY DEF QueueStep
<1>2. Old' = Old
  BY DEF Old
<1>3. \A i \in 1..Waiting' : /\ Kind(i)' = Kind(i + d) /\ Overlaps(i)' = Overlaps(i + d)
                             /\ Kind(i + d) = "new" =>
                                  \A f \in Fights : Brings(i, f)' => Brings(i + d, f)
  BY <1>1 DEF Same
<1>4. \A i \in 1..Waiting' : Kind(i)' = "area" =>
         i = 1 /\ DOMAIN fights' = {} /\ objToFights' = {}
  <2>1. SUFFICES ASSUME NEW i \in 1..Waiting', Kind(i)' = "area"
                 PROVE  i = 1 /\ DOMAIN fights' = {} /\ objToFights' = {}
    OBVIOUS
  <2>2. i + d \in 1..Waiting /\ Kind(i + d) = "area" /\ i \in Int /\ i >= 1
    BY <1>1, <1>3, <2>1
  <2>3. i + d = 1 /\ DOMAIN fights = {} /\ objToFights = {}
    BY <2>2 DEF Loading
  <2> QED
    BY <2>2, <2>3
<1>5. \A i, j \in 1..Waiting' : Kind(i)' \in Loads /\ Kind(j)' \in Loads => i = j
  <2>1. SUFFICES ASSUME NEW i \in 1..Waiting', NEW j \in 1..Waiting', Kind(i)' \in Loads, Kind(j)' \in Loads
                 PROVE  i = j
    OBVIOUS
  <2>2. i + d \in 1..Waiting /\ j + d \in 1..Waiting /\ Kind(i + d) \in Loads /\ Kind(j + d) \in Loads
    BY <1>1, <1>3, <2>1
  <2>3. i + d = j + d
    BY <2>2 DEF Loading
  <2> QED
    BY <1>1, <2>3
<1>6. \A i \in 1..Waiting' : Kind(i)' \in Loads => ~initOver'
  BY <1>1, <1>3 DEF Loading
<1>7. \A i \in 1..Waiting' : Kind(i)' = "objs" =>
       /\ Old' \cap Built \subseteq DOMAIN fights' /\ objToFights' = {}
       /\ \A j \in 1..Waiting' :
            j > i /\ Kind(j)' = "new" => \A f \in Old' \cap Built : ~Brings(j, f)'
  <2>1. SUFFICES ASSUME NEW i \in 1..Waiting', Kind(i)' = "objs"
                 PROVE  /\ Old' \cap Built \subseteq DOMAIN fights' /\ objToFights' = {}
                        /\ \A j \in 1..Waiting' :
                             j > i /\ Kind(j)' = "new" => \A f \in Old' \cap Built : ~Brings(j, f)'
    OBVIOUS
  <2>2. i + d \in 1..Waiting /\ Kind(i + d) = "objs"
    BY <1>1, <1>3, <2>1
  <2>3. /\ Old \cap Built \subseteq DOMAIN fights /\ objToFights = {}
        /\ \A j \in 1..Waiting :
             j > i + d /\ Kind(j) = "new" => \A f \in Old \cap Built : ~Brings(j, f)
    BY <2>2 DEF Loading
  <2>4. ASSUME NEW j \in 1..Waiting', j > i, Kind(j)' = "new", NEW f \in Old \cap Built
        PROVE  ~Brings(j, f)'
    <3>1. j + d \in 1..Waiting /\ j + d > i + d /\ Kind(j + d) = "new"
      BY <1>1, <1>3, <2>4
    <3>2. ~Brings(j + d, f) /\ f \in Fights
      BY <2>3, <3>1 DEF Old
    <3> QED
      BY <1>3, <2>4, <3>1, <3>2
  <2> QED
    BY <1>2, <2>3, <2>4
<1>8. ~initOver' => /\ \A f \in DOMAIN fights' : fights'[f].over
                    /\ \A r \in entrantRows' : r[1] \in Old'
  BY <1>2
<1>9. Loading'
  BY <1>4, <1>5, <1>6, <1>7, <1>8 DEF Loading
<1>10. Searches'
  <2>1. SUFFICES ASSUME NEW i \in 1..Waiting', Kind(i)' = "new"
        PROVE  /\ \A e \in objToFights' : ~Brings(i, e[2])'
               /\ ~Overlaps(i)' =>
                     /\ \A j \in 1..Waiting' : j < i => Kind(j)' \notin {"area", "new"}
                     /\ \A f \in DOMAIN fights' : ~Brings(i, f)'
    BY DEF Searches
  <2>2. i + d \in 1..Waiting /\ Kind(i + d) = "new" /\ Overlaps(i)' = Overlaps(i + d)
        /\ \A f \in Fights : Brings(i, f)' => Brings(i + d, f)
    BY <1>1, <1>3, <2>1
  <2>3. /\ \A e \in objToFights : ~Brings(i + d, e[2])
        /\ ~Overlaps(i + d) => /\ \A j \in 1..Waiting : j < i + d => Kind(j) \notin {"area", "new"}
                               /\ \A f \in DOMAIN fights : ~Brings(i + d, f)
    BY <2>2 DEF Searches
  <2>4. \A e \in objToFights : e[2] \in Fights
    OBVIOUS
  <2>5. \A j \in 1..Waiting' : j < i => j + d \in 1..Waiting /\ j + d < i + d /\ Kind(j)' = Kind(j + d)
    BY <1>1, <1>3
  <2> QED
    BY <2>2, <2>3, <2>4, <2>5
<1> QED
  BY <1>9, <1>10

\* What every step below starts from.
LEMMA BoardFacts ==
  ASSUME BoardIInv
  PROVE  /\ QueueTypes /\ AnswersRight /\ FightsRight /\ Loading /\ Searches /\ TypeOK /\ LoadedStay
         /\ Len(answers) \in Nat /\ Waiting \in Nat
         /\ DOMAIN fights \subseteq Fights /\ Old \subseteq Fights /\ posted \subseteq Fights
         /\ objToFights \subseteq Ids \X Fights
         /\ ~initOver => /\ \A f \in DOMAIN fights : fights[f].over
                         /\ \A r \in entrantRows : r[1] \in Old
BY QueueLengths DEF BoardIInv, TypeOK, Ids, Old, Loading

\* The queries and their answers: nothing is known by them yet.
LEMMA ExecuteBoard ==
  ASSUME BoardIInv, ExecuteQuery \/ FailQuery
  PROVE  BoardIInv'
<1>1. /\ QueueTypes /\ AnswersRight /\ FightsRight /\ Loading /\ Searches /\ TypeOK /\ LoadedStay
      /\ Len(answers) \in Nat
  BY BoardFacts
<1>2. /\ pending # <<>> /\ pending' = Tail(pending)
      /\ posted' = posted /\ statusRow' = statusRow /\ entrantRows' = entrantRows
      /\ fights' = fights /\ index' = index /\ objToFights' = objToFights
      /\ recommend' = recommend /\ initOver' = initOver /\ clock' = clock
  BY DEF ExecuteQuery, FailQuery, rowVars
<1> DEFINE q == Head(pending)
<1>3. q \in Queries
  BY <1>1, <1>2, HeadTailProperties DEF QueueTypes
<1>4. /\ Old \subseteq Fights /\ Old \subseteq posted /\ posted \subseteq Fights
      /\ ~initOver => \A r \in entrantRows : r[1] \in Old
  BY <1>1 DEF FightsRight, Old, Loading, TypeOK
<1>5. \E null \in BOOLEAN, res \in Results :
        /\ answers' = Append(answers, Answered(q, null, res))
        /\ q.kind = "new" /\ ~null => \A f \in DOMAIN res : f > q.last
        /\ ~null => res = Result(q)
  <2>1. CASE FailQuery
    <3>1. {} \in Results
      BY DEF Results
    <3> QED
      BY <2>1, <3>1 DEF FailQuery
  <2>2. CASE ExecuteQuery
    <3>1. statusRow \in [Fights -> Stages] /\ entrantRows \subseteq Fights \X Ids
      BY <1>1 DEF TypeOK, Ids
    <3>2. \A S \in SUBSET posted : [f \in S |-> statusRow[f]] \in Results
      <4> SUFFICES ASSUME NEW S \in SUBSET posted PROVE [f \in S |-> statusRow[f]] \in Results
        OBVIOUS
      <4>1. S \in SUBSET Fights /\ [f \in S |-> statusRow[f]] \in [S -> Stages]
        BY <1>4, <3>1
      <4> QED
        BY <4>1 DEF Results
    <3>3. Result(q) \in Results
      <4>1. CASE q.kind = "area"
        BY <3>2, <4>1 DEF Result
      <4>2. CASE q.kind = "new"
        <5>1. {g \in posted : g > q.last} \in SUBSET posted
          OBVIOUS
        <5>2. [f \in {g \in posted : g > q.last} |-> statusRow[f]] \in Results
          BY <3>2, <5>1
        <5> QED
          BY <4>2, <5>2 DEF Result
      <4>3. CASE q.kind = "objs"
        <5>1. entrantRows \in Results
          BY <3>1 DEF Results
        <5> QED
          BY <4>3, <5>1 DEF Result
      <4>4. CASE q.kind = "chall"
        <5>1. Result(q) \subseteq Fights
          BY <1>4, <4>4 DEF Result
        <5> QED
          BY <5>1 DEF Results
      <4>5. CASE q.kind = "rec"
        <5>1. Result(q) \subseteq Fights
          BY <1>4, <4>5 DEF Result
        <5> QED
          BY <5>1 DEF Results
      <4> QED
        BY <1>3, <4>1, <4>2, <4>3, <4>4, <4>5 DEF Queries, Kinds
    <3>4. q.kind = "new" => \A f \in DOMAIN Result(q) : f > q.last
      BY DEF Result
    <3> QED
      BY <2>2, <3>3, <3>4 DEF ExecuteQuery
  <2> QED
    BY <2>1, <2>2
<1>6. PICK null \in BOOLEAN, res \in Results :
        /\ answers' = Append(answers, Answered(q, null, res))
        /\ q.kind = "new" /\ ~null => \A f \in DOMAIN res : f > q.last
        /\ ~null => res = Result(q)
  BY <1>5
<1>7. QueueStep(0, <<>>)
  BY <1>1, <1>2, <1>6, ExecuteStep
<1>8. Loading' /\ Searches'
  BY <1>2, <1>7, BoardFacts, CalmStep
<1> DEFINE a == Answered(q, null, res)
<1>9. RightAnswer(a)
  <2>1. a.kind = q.kind /\ a.null = null /\ a.res = res
    BY DEF Answered
  <2> SUFFICES ASSUME ~null PROVE RightAnswer(a)
    BY <2>1 DEF RightAnswer
  <2>2. res = Result(q)
    BY <1>6
  <2>3. \A f \in posted : statusRow[f] \in Stages /\ (statusRow[f] # "set" => f \in Old)
    BY <1>1, <1>4 DEF TypeOK, Old
  <2>4. CASE q.kind = "area"
    <3>1. res = [f \in posted |-> statusRow[f]]
      BY <2>2, <2>4 DEF Result
    <3> HIDE DEF q, a, Old
    <3> QED
      BY <1>4, <2>1, <2>3, <2>4, <3>1 DEF RightAnswer
  <2>5. CASE q.kind = "new"
    <3>1. res = [f \in {g \in posted : g > q.last} |-> statusRow[f]]
      BY <2>2, <2>5 DEF Result
    <3> HIDE DEF q, a, Old
    <3> QED
      BY <2>1, <2>3, <2>5, <3>1 DEF RightAnswer
  <2>6. CASE q.kind = "objs"
    <3>1. res = entrantRows
      BY <2>2, <2>6 DEF Result
    <3>2. entrantRows \subseteq Fights \X Ids
      BY <1>1 DEF TypeOK, Ids
    \* It has waited up to now, so the load is not over.
    <3>3. ~initOver
      <4>1. Len(pending) \in Nat \ {0} /\ q = pending[1]
        BY <1>1, <1>2, HeadTailProperties, LenProperties DEF QueueTypes
      <4>2. /\ Len(answers) + 1 \in 1..Waiting /\ ~(Len(answers) + 1 <= Len(answers))
            /\ (Len(answers) + 1) - Len(answers) = 1
        BY <1>1, <4>1 DEF Waiting
      <4>3. Kind(Len(answers) + 1) = "objs"
        BY <2>6, <4>1, <4>2 DEF Kind
      <4> QED
        BY <1>1, <4>2, <4>3 DEF Loading, Loads
    <3>4. res \subseteq Old \X Ids
      BY <1>4, <3>1, <3>2, <3>3
    <3> HIDE DEF q, a, Old
    <3> QED
      BY <2>1, <2>6, <3>4 DEF RightAnswer
  <2>7. CASE q.kind = "rec"
    <3>1. res = posted
      BY <2>2, <2>7 DEF Result
    <3> HIDE DEF q, a, Old
    <3> QED
      BY <2>1, <2>7, <3>1 DEF RightAnswer
  <2>8. CASE q.kind = "chall"
    BY <2>1, <2>8 DEF RightAnswer
  <2> QED
    BY <1>3, <2>4, <2>5, <2>6, <2>7, <2>8 DEF Queries, Kinds
<1> HIDE DEF a, q
<1>10. AnswersRight'
  <2>1. /\ Len(answers') = Len(answers) + 1
        /\ \A i \in 1..Len(answers) : answers'[i] = answers[i]
        /\ answers'[Len(answers) + 1] = a
    <3>1. a \in Answers
      BY <1>3 DEF a, Answered, Answers, Queries
    <3>2. answers' = Append(answers, a) /\ answers \in Seq(Answers)
      BY <1>1, <1>6 DEF a, QueueTypes
    <3> QED
      BY <3>1, <3>2, AppendProperties
  <2>2. SUFFICES ASSUME NEW i \in 1..Len(answers') PROVE RightAnswer(answers[i])'
    BY DEF AnswersRight
  <2>3. RightAnswer(answers'[i])
    <3>1. CASE i <= Len(answers)
      BY <1>1, <2>1, <3>1 DEF AnswersRight
    <3>2. CASE ~(i <= Len(answers))
      BY <1>1, <1>9, <2>1, <3>2
    <3> QED
      BY <3>1, <3>2
  <2> QED
    BY <1>2, <2>3 DEF RightAnswer, Old
<1>11. FightsRight'
  BY <1>1, <1>2 DEF FightsRight, Memory, Old
<1>12. TypeOK'
  <2>1. lost' \in 0..MaxLost
    <3>1. lost \in 0..MaxLost /\ MaxLost \in Nat
      BY <1>1, BoundAssumption DEF TypeOK
    <3>2. lost' = lost \/ (lost < MaxLost /\ lost' = lost + 1)
      BY DEF ExecuteQuery, FailQuery
    <3> QED
      BY <3>1, <3>2
  <2> QED
    BY <1>1, <1>2, <2>1 DEF TypeOK, Keys
<1>13. LoadedStay'
  BY <1>1, <1>2 DEF LoadedStay, MyFights, Keys
<1>14. QueueTypes'
  BY <1>7 DEF QueueStep
<1> QED
  BY <1>8, <1>10, <1>11, <1>12, <1>13, <1>14 DEF BoardIInv

\* A null answer, and the answer about recommended fights.
LEMMA PassedBoard ==
  ASSUME BoardIInv, HandleNull \/ InitRecommendFightingBack
  PROVE  BoardIInv'
<1>1. /\ QueueTypes /\ AnswersRight /\ FightsRight /\ Loading /\ Searches /\ TypeOK /\ LoadedStay
      /\ Len(answers) \in Nat
  BY BoardFacts
<1>2. /\ answers # <<>> /\ answers' = Tail(answers) /\ pending' = pending
      /\ posted' = posted /\ statusRow' = statusRow /\ entrantRows' = entrantRows
      /\ fights' = fights /\ index' = index /\ objToFights' = objToFights
      /\ lost' = lost /\ initOver' = initOver /\ clock' = clock
      /\ recommend' = recommend \/ (/\ Head(answers).kind = "rec" /\ ~Head(answers).null
                                    /\ recommend' = Head(answers).res)
  BY DEF HandleNull, InitRecommendFightingBack, Handle, rowVars
<1>3. QueueStep(1, <<>>)
  <2>1. <<>> \in Seq(Queries) /\ pending' = pending \o <<>>
    BY <1>1, <1>2 DEF QueueTypes
  <2> QED
    BY <1>1, <1>2, <2>1, HandleStep
<1>4. Loading' /\ Searches'
  BY <1>2, <1>3, BoardFacts, CalmStep
<1>5. AnswersRight'
  BY <1>1, <1>2, AnswersKept DEF Old
<1>6. FightsRight'
  BY <1>1, <1>2 DEF FightsRight, Memory, Old
<1>7. RightAnswer(Head(answers))
  <2>1. Head(answers) = answers[1] /\ 1 \in 1..Len(answers)
    BY <1>1, <1>2 DEF QueueTypes
  <2> QED
    BY <1>1, <2>1 DEF AnswersRight
<1>8. recommend' \subseteq posted
  BY <1>1, <1>2, <1>7 DEF RightAnswer, TypeOK
<1>9. TypeOK'
  BY <1>1, <1>2, <1>8 DEF TypeOK, Keys
<1>10. LoadedStay'
  BY <1>1, <1>2 DEF LoadedStay, MyFights, Keys
<1> QED
  BY <1>3, <1>4, <1>5, <1>6, <1>9, <1>10 DEF BoardIInv, QueueStep

-----------------------------------------------------------------------------
(***************************************************************************)
(* FightBoard: the records of the fights.                                  *)
(***************************************************************************)

LEMMA ObjsAre ==
  ASSUME NEW S, S \subseteq Ids, NEW g \in [S -> Ids]
  PROVE  g \in Objs
BY DEF Objs

LEMMA ObjsGive ==
  ASSUME NEW g \in Objs
  PROVE  DOMAIN g \subseteq Ids /\ g \in [DOMAIN g -> Ids]
BY DEF Objs

\* What is known of a fight in memory.
LEMMA FightIs ==
  ASSUME Memory, TypeOK, NEW f \in DOMAIN fights
  PROVE  /\ fights[f] \in [status : Stages, objs : Objs, over : BOOLEAN]
         /\ f \in Fights /\ f \in posted
         /\ Keys(f) \subseteq Ids /\ fights[f].objs \in [Keys(f) -> Ids]
         /\ \A t \in Keys(f) : fights[f].objs[t] \in {t, Junk}
<1>1. fights[f] \in [status : Stages, objs : Objs, over : BOOLEAN]
  BY DEF Memory
<1>2. fights[f].objs \in Objs
  BY <1>1
<1> QED
  BY <1>1, <1>2, ObjsGive DEF TypeOK, Keys, Ids

LEMMA Entries ==
  ASSUME NEW D, D \subseteq Ids, NEW h, h = [t \in D |-> h[t]], \A t \in D : h[t] \in {t, Junk}
  PROVE  h \in Objs
<1>1. \A t \in D : h[t] \in Ids
  BY DEF Ids
<1>2. h \in [D -> Ids]
  BY <1>1
<1> QED
  BY <1>2, ObjsAre

\* A step that only adds entrants or ends brackets.
Grows ==
  /\ DOMAIN fights' = DOMAIN fights /\ Memory'
  /\ \A f \in DOMAIN fights :
       /\ fights'[f].status = fights[f].status
       /\ Keys(f) \subseteq DOMAIN fights'[f].objs
       /\ \A t \in DOMAIN fights'[f].objs : fights'[f].objs[t] \in {t, Junk}

LEMMA SignUpGrows ==
  ASSUME Memory, TypeOK, NEW t \in Teams, NEW f \in Fights, SignUp(t, f)
  PROVE  /\ Grows
         /\ \E id \in {t, Junk} : entrantRows' = entrantRows \cup {<<f, id>>}
         /\ \A g \in DOMAIN fights : /\ fights'[g].over = fights[g].over
                                     /\ g # f => fights'[g] = fights[g]
<1>1. PICK id \in {t, Junk} :
        /\ fights' = [fights EXCEPT ![f] = SignedUp(@, t, id)]
        /\ entrantRows' = entrantRows \cup {<<f, id>>}
  BY DEF SignUp
<1>2. f \in DOMAIN fights
  BY DEF SignUp
<1> DEFINE h == [u \in Keys(f) \cup {t} |-> IF u \in {t} THEN id ELSE fights[f].objs[u]]
<1>3. fights[f] \in [status : Stages, objs : Objs, over : BOOLEAN]
      /\ \A u \in Keys(f) : fights[f].objs[u] \in {u, Junk}
  BY <1>2, FightIs
<1>4. h \in Objs /\ DOMAIN h = Keys(f) \cup {t} /\ \A u \in DOMAIN h : h[u] \in {u, Junk}
  <2>2. PICK g : g = fights[f].objs
    OBVIOUS
  <2>3. /\ {t} \subseteq Ids /\ g \in Objs /\ Keys(f) = DOMAIN g
        /\ \A u \in DOMAIN g : g[u] \in {u, Junk}
    BY <1>3, <2>2 DEF Ids, Keys
  <2>4. /\ h = [u \in Keys(f) \cup {t} |-> h[u]]
        /\ \A u \in Keys(f) \cup {t} : h[u] = IF u \in {t} THEN id ELSE g[u]
    BY <2>2
  <2>5. Keys(f) \cup {t} \subseteq Ids
    BY <2>3, ObjsGive
  <2> HIDE DEF h
  <2>6. \A u \in Keys(f) \cup {t} : h[u] \in {u, Junk}
    BY <2>3, <2>4
  <2>7. h \in Objs
    BY <2>4, <2>5, <2>6, Entries
  <2> QED
    BY <2>4, <2>6, <2>7
<1>5. fights' = [fights EXCEPT ![f] = [@ EXCEPT !.objs = h]]
  BY <1>1 DEF SignedUp, Put, Keys
<1> HIDE DEF h
<1>6. /\ DOMAIN fights' = DOMAIN fights
      /\ fights'[f] = [fights[f] EXCEPT !.objs = h]
      /\ \A g \in DOMAIN fights : g # f => fights'[g] = fights[g]
  BY <1>2, <1>5
<1>7. /\ fights'[f] \in [status : Stages, objs : Objs, over : BOOLEAN]
      /\ fights'[f].objs = h /\ fights'[f].status = fights[f].status
      /\ fights'[f].over = fights[f].over
  BY <1>3, <1>4, <1>6
<1>8. Memory'
  <2>1. \A g \in DOMAIN fights' : fights'[g] \in [status : Stages, objs : Objs, over : BOOLEAN]
    BY <1>6, <1>7 DEF Memory
  <2>2. fights' = [g \in DOMAIN fights' |-> fights'[g]]
    BY <1>5, <1>6
  <2> QED
    BY <2>1, <2>2 DEF Memory
<1>9. ASSUME NEW g \in DOMAIN fights
      PROVE  /\ fights'[g].status = fights[g].status
             /\ Keys(g) \subseteq DOMAIN fights'[g].objs
             /\ \A u \in DOMAIN fights'[g].objs : fights'[g].objs[u] \in {u, Junk}
  <2>1. CASE g = f
    BY <1>4, <1>7, <2>1
  <2>2. CASE g # f
    BY <1>6, <2>2, FightIs DEF Keys
  <2> QED
    BY <2>1, <2>2
<1> QED
  BY <1>1, <1>6, <1>7, <1>8, <1>9 DEF Grows

LEMMA BracketGrows ==
  ASSUME Memory, TypeOK, NEW f \in Fights, BracketEnds(f)
  PROVE  /\ Grows
         /\ f \in DOMAIN fights /\ ~fights[f].over /\ fights'[f].over
         /\ \A g \in DOMAIN fights :
              g # Posting[f].parent => fights'[g].objs = fights[g].objs
         /\ \/ entrantRows' = entrantRows
            \/ /\ Posting[f].parent \in DOMAIN fights
               /\ \E S \in SUBSET Ids :
                    entrantRows' = entrantRows \cup {<<Posting[f].parent, u>> : u \in S}
<1> DEFINE p == Posting[f].parent
           num == IF p = 0 THEN 0 ELSE Posting[p].nextNum
           top == {t \in Keys(f) : Rank(Keys(f), t) < IF num = 0 THEN 1 ELSE num}
<1>1. /\ f \in DOMAIN fights /\ fights[f].status = "fight" /\ ~fights[f].over
      /\ \E ids \in [top -> Teams \cup {Junk}] :
           /\ \A t \in top : ids[t] \in {t, Junk}
           /\ IF p \in DOMAIN fights
              THEN /\ fights' = [fights EXCEPT
                        ![f].over = TRUE,
                        ![p].objs = [t \in DOMAIN @ \cup top |->
                                       IF t \in top THEN ids[t] ELSE @[t]]]
                   /\ entrantRows' = entrantRows \cup {<<p, ids[t]>> : t \in top}
              ELSE /\ fights' = [fights EXCEPT ![f].over = TRUE]
                   /\ UNCHANGED entrantRows
  BY DEF BracketEnds
<1>2. top \subseteq Ids
  BY <1>1, FightIs
<1>3. p # f
  BY IdAssumption, LadderAssumption
<1> HIDE DEF top
<1>4. PICK ids \in [top -> Teams \cup {Junk}] :
           /\ \A t \in top : ids[t] \in {t, Junk}
           /\ IF p \in DOMAIN fights
              THEN /\ fights' = [fights EXCEPT
                        ![f].over = TRUE,
                        ![p].objs = [t \in DOMAIN @ \cup top |->
                                       IF t \in top THEN ids[t] ELSE @[t]]]
                   /\ entrantRows' = entrantRows \cup {<<p, ids[t]>> : t \in top}
              ELSE /\ fights' = [fights EXCEPT ![f].over = TRUE]
                   /\ UNCHANGED entrantRows
  BY <1>1
<1>5. fights[f] \in [status : Stages, objs : Objs, over : BOOLEAN]
  BY <1>1, FightIs
<1>6. CASE p \in DOMAIN fights
  <2> DEFINE h == [t \in Keys(p) \cup top |-> IF t \in top THEN ids[t] ELSE fights[p].objs[t]]
  <2>1. /\ fights[p] \in [status : Stages, objs : Objs, over : BOOLEAN]
        /\ \A u \in Keys(p) : fights[p].objs[u] \in {u, Junk}
    BY <1>6, FightIs
  <2>2. h \in Objs /\ DOMAIN h = Keys(p) \cup top /\ \A u \in DOMAIN h : h[u] \in {u, Junk}
    <3>1. PICK g : g = fights[p].objs
      OBVIOUS
    <3>2. g \in Objs /\ Keys(p) = DOMAIN g /\ \A u \in DOMAIN g : g[u] \in {u, Junk}
      BY <2>1, <3>1 DEF Keys
    <3>3. /\ h = [t \in Keys(p) \cup top |-> h[t]]
          /\ \A t \in Keys(p) \cup top : h[t] = IF t \in top THEN ids[t] ELSE g[t]
      BY <3>1
    <3>4. Keys(p) \subseteq Ids
      BY <2>1, <3>1, <3>2, ObjsGive
    <3> HIDE DEF h
    <3>5. \A t \in Keys(p) \cup top : h[t] \in {t, Junk}
      BY <1>4, <3>2, <3>3
    <3>6. h \in Objs
      BY <1>2, <3>3, <3>4, <3>5, Entries
    <3> QED
      BY <3>3, <3>5, <3>6
  <2>3. /\ DOMAIN fights' = DOMAIN fights
        /\ fights'[f] = [fights[f] EXCEPT !.over = TRUE]
        /\ fights'[p] = [fights[p] EXCEPT !.objs = h]
        /\ \A g \in DOMAIN fights : g # f /\ g # p => fights'[g] = fights[g]
        /\ fights' = [g \in DOMAIN fights |-> fights'[g]]
    BY <1>1, <1>3, <1>4, <1>6 DEF Keys
  <2> HIDE DEF h
  <2>4. /\ fights'[p] \in [status : Stages, objs : Objs, over : BOOLEAN]
        /\ fights'[p].objs = h /\ fights'[p].status = fights[p].status
    BY <2>1, <2>2, <2>3
  <2>5. /\ fights'[f] \in [status : Stages, objs : Objs, over : BOOLEAN]
        /\ fights'[f].objs = fights[f].objs /\ fights'[f].status = fights[f].status
        /\ fights'[f].over = TRUE
    BY <1>5, <2>3
  <2>6. Memory'
    <3>1. \A g \in DOMAIN fights : fights'[g] \in [status : Stages, objs : Objs, over : BOOLEAN]
      BY <2>3, <2>4, <2>5 DEF Memory
    <3> QED
      BY <2>3, <3>1 DEF Memory
  <2>7. ASSUME NEW g \in DOMAIN fights
        PROVE  /\ fights'[g].status = fights[g].status
               /\ Keys(g) \subseteq DOMAIN fights'[g].objs
               /\ \A u \in DOMAIN fights'[g].objs : fights'[g].objs[u] \in {u, Junk}
               /\ g # p => fights'[g].objs = fights[g].objs
    <3>1. CASE g = p
      BY <2>2, <2>4, <3>1
    <3>2. CASE g = f
      BY <1>3, <2>5, <3>2, FightIs DEF Keys
    <3>3. CASE g # p /\ g # f
      BY <2>3, <3>3, FightIs DEF Keys
    <3> QED
      BY <3>1, <3>2, <3>3
  <2>8. \E S \in SUBSET Ids : entrantRows' = entrantRows \cup {<<p, u>> : u \in S}
    <3>1. {ids[t] : t \in top} \in SUBSET Ids
      BY <1>4 DEF Ids
    <3>2. {<<p, ids[t]>> : t \in top} = {<<p, u>> : u \in {ids[t] : t \in top}}
      OBVIOUS
    <3> QED
      BY <1>4, <1>6, <3>1, <3>2
  <2> QED
    BY <1>1, <1>6, <2>3, <2>5, <2>6, <2>7, <2>8 DEF Grows
<1>7. CASE p \notin DOMAIN fights
  <2>1. /\ DOMAIN fights' = DOMAIN fights
        /\ fights'[f] = [fights[f] EXCEPT !.over = TRUE]
        /\ \A g \in DOMAIN fights : g # f => fights'[g] = fights[g]
        /\ fights' = [g \in DOMAIN fights |-> fights'[g]]
        /\ entrantRows' = entrantRows
    BY <1>1, <1>4, <1>7
  <2>2. /\ fights'[f] \in [status : Stages, objs : Objs, over : BOOLEAN]
        /\ fights'[f].objs = fights[f].objs /\ fights'[f].status = fights[f].status
        /\ fights'[f].over = TRUE
    BY <1>5, <2>1
  <2>3. Memory'
    <3>1. \A g \in DOMAIN fights : fights'[g] \in [status : Stages, objs : Objs, over : BOOLEAN]
      BY <2>1, <2>2 DEF Memory
    <3> QED
      BY <2>1, <3>1 DEF Memory
  <2>4. ASSUME NEW g \in DOMAIN fights
        PROVE  /\ fights'[g].status = fights[g].status
               /\ Keys(g) \subseteq DOMAIN fights'[g].objs
               /\ \A u \in DOMAIN fights'[g].objs : fights'[g].objs[u] \in {u, Junk}
               /\ fights'[g].objs = fights[g].objs
    BY <2>1, <2>2, FightIs DEF Keys
  <2> QED
    BY <1>1, <2>1, <2>2, <2>3, <2>4 DEF Grows
<1> QED
  BY <1>6, <1>7

\* Entrants are loaded: each is in the fight his row names, if that is in memory.
LEMMA LoadGrows ==
  ASSUME Memory, TypeOK, NEW rows, rows \subseteq Fights \X Ids,
         fights' = [f \in DOMAIN fights |->
                      [fights[f] EXCEPT !.objs =
                         [t \in DOMAIN @ \cup {r[2] : r \in {s \in rows : s[1] = f}} |->
                            IF t \in {r[2] : r \in {s \in rows : s[1] = f}} THEN t ELSE @[t]]]]
  PROVE  /\ Grows
         /\ \A f \in DOMAIN fights : fights'[f].over = fights[f].over
         /\ \A r \in rows : r[1] \in DOMAIN fights => r[2] \in DOMAIN fights'[r[1]].objs
<1> DEFINE Of(f) == {r[2] : r \in {s \in rows : s[1] = f}}
           h(f) == [t \in Keys(f) \cup Of(f) |-> IF t \in Of(f) THEN t ELSE fights[f].objs[t]]
<1>1. fights' = [f \in DOMAIN fights |-> [fights[f] EXCEPT !.objs = h(f)]]
  BY DEF Keys
<1>2. \A f : Of(f) \subseteq Ids
  OBVIOUS
<1> HIDE DEF Of
<1>3. ASSUME NEW f \in DOMAIN fights
      PROVE  /\ h(f) \in Objs /\ DOMAIN h(f) = Keys(f) \cup Of(f)
             /\ \A t \in DOMAIN h(f) : h(f)[t] \in {t, Junk}
  <2>1. Keys(f) \cup Of(f) \subseteq Ids /\ \A t \in Keys(f) : fights[f].objs[t] \in {t, Junk}
    BY <1>2, FightIs
  <2>2. /\ h(f) = [t \in Keys(f) \cup Of(f) |-> h(f)[t]]
        /\ \A t \in Keys(f) \cup Of(f) : h(f)[t] = IF t \in Of(f) THEN t ELSE fights[f].objs[t]
    OBVIOUS
  <2> HIDE DEF h
  <2>3. \A t \in Keys(f) \cup Of(f) : h(f)[t] \in {t, Junk}
    BY <2>1, <2>2
  <2>4. h(f) \in Objs
    BY <2>1, <2>2, <2>3, Entries
  <2> QED
    BY <2>2, <2>3, <2>4
<1> HIDE DEF h
<1>4. ASSUME NEW f \in DOMAIN fights
      PROVE  /\ fights'[f] \in [status : Stages, objs : Objs, over : BOOLEAN]
             /\ fights'[f].objs = h(f) /\ fights'[f].status = fights[f].status
             /\ fights'[f].over = fights[f].over
  <2>1. fights'[f] = [fights[f] EXCEPT !.objs = h(f)]
    BY <1>1
  <2>2. fights[f] \in [status : Stages, objs : Objs, over : BOOLEAN] /\ h(f) \in Objs
    BY <1>3, FightIs
  <2> QED
    BY <2>1, <2>2
<1>5. DOMAIN fights' = DOMAIN fights /\ fights' = [f \in DOMAIN fights |-> fights'[f]]
  BY <1>1
<1>6. Memory'
  BY <1>4, <1>5 DEF Memory
<1>7. Grows
  BY <1>3, <1>4, <1>5, <1>6 DEF Grows
<1>8. \A r \in rows : r[2] \in Of(r[1])
  BY DEF Of
<1>9. ASSUME NEW r \in rows, r[1] \in DOMAIN fights
      PROVE  r[2] \in DOMAIN fights'[r[1]].objs
  <2>1. r[2] \in Of(r[1])
    BY <1>8
  <2>2. fights'[r[1]].objs = h(r[1]) /\ DOMAIN h(r[1]) = Keys(r[1]) \cup Of(r[1])
    BY <1>3, <1>4, <1>9
  <2> QED
    BY <2>1, <2>2
<1>10. \A f \in DOMAIN fights : fights'[f].over = fights[f].over
  BY <1>4
<1> QED
  BY <1>7, <1>9, <1>10

\* The matches are loaded: no entrant and no status changes.
LEMMA ChallGrows ==
  ASSUME Memory, TypeOK, NEW res,
         fights' = [f \in DOMAIN fights |-> [fights[f] EXCEPT !.over = @ /\ f \notin res]]
  PROVE  Grows /\ \A f \in DOMAIN fights : fights'[f].objs = fights[f].objs
<1>1. ASSUME NEW f \in DOMAIN fights
      PROVE  /\ fights'[f] \in [status : Stages, objs : Objs, over : BOOLEAN]
             /\ fights'[f].objs = fights[f].objs /\ fights'[f].status = fights[f].status
  <2>1. fights'[f] = [fights[f] EXCEPT !.over = fights[f].over /\ f \notin res]
    OBVIOUS
  <2>2. fights[f] \in [status : Stages, objs : Objs, over : BOOLEAN]
    BY FightIs
  <2>3. (fights[f].over /\ f \notin res) \in BOOLEAN
    OBVIOUS
  <2> QED
    BY <2>1, <2>2, <2>3
<1>2. DOMAIN fights' = DOMAIN fights /\ fights' = [f \in DOMAIN fights |-> fights'[f]]
  OBVIOUS
<1>3. Memory'
  BY <1>1, <1>2 DEF Memory
<1> QED
  BY <1>1, <1>2, <1>3, FightIs DEF Grows, Keys

\* Fight::startFight keeps the entrants.
LEMMA StartedIs ==
  ASSUME NEW a \in [status : Stages, objs : Objs, over : BOOLEAN]
  PROVE  /\ Started(a) \in [status : Stages, objs : Objs, over : BOOLEAN]
         /\ Started(a).objs = a.objs /\ Started(a).status \in {a.status, "fight"}
<1>1. CASE DOMAIN a.objs = {}
  <2>1. Started(a) = [a EXCEPT !.status = "fight"]
    BY <1>1 DEF Started
  <2> QED
    BY <2>1 DEF Stages
<1>2. CASE DOMAIN a.objs # {} /\ BadPlaces(a.objs) = {}
  <2>1. Started(a) = [a EXCEPT !.status = "fight", !.over = FALSE]
    BY <1>2 DEF Started
  <2> QED
    BY <2>1 DEF Stages
<1>3. CASE DOMAIN a.objs # {} /\ BadPlaces(a.objs) # {}
  <2>1. PICK v : v = (a.over /\ 0 \in BadPlaces(a.objs))
    OBVIOUS
  <2>2. Started(a) = [a EXCEPT !.over = v] /\ v \in BOOLEAN
    BY <1>3, <2>1 DEF Started
  <2> QED
    BY <2>2
<1> QED
  BY <1>1, <1>2, <1>3

\* Fight::contrl only goes forward.
LEMMA ControlledIs ==
  ASSUME Memory, TypeOK, NEW f \in DOMAIN fights
  PROVE  /\ Controlled(f) \in [status : Stages, objs : Objs, over : BOOLEAN]
         /\ Controlled(f).objs = fights[f].objs
         /\ Order(fights[f].status) <= Order(Controlled(f).status)
<1> DEFINE R == [status : Stages, objs : Objs, over : BOOLEAN]
           x == fights[f]
           a == IF x.status = "set" /\ clock >= Posting[f].apply THEN [x EXCEPT !.status = "apply"] ELSE x
           b == IF a.status = "apply" /\ clock >= Posting[f].start THEN Started(a) ELSE a
           c == IF clock >= Posting[f].stop /\ b.over THEN [b EXCEPT !.status = "stop"] ELSE b
<1>1. Controlled(f) = c
  BY DEF Controlled
<1>2. x \in R
  BY FightIs
<1>3. a \in R /\ a.objs = x.objs /\ (x.status # "set" => a.status = x.status)
  <2>1. CASE x.status = "set" /\ clock >= Posting[f].apply
    BY <1>2, <2>1 DEF Stages
  <2>2. CASE ~(x.status = "set" /\ clock >= Posting[f].apply)
    BY <1>2, <2>2
  <2> QED
    BY <2>1, <2>2
<1> HIDE DEF a
<1>4. /\ Started(a) \in R /\ Started(a).objs = a.objs /\ Started(a).status \in {a.status, "fight"}
  BY <1>3, StartedIs
<1>5. /\ b \in R /\ b.objs = x.objs
      /\ b.status = a.status \/ (a.status = "apply" /\ b.status = "fight")
  BY <1>3, <1>4
<1> HIDE DEF b
<1>6. /\ c \in R /\ c.objs = x.objs
      /\ c.status = b.status \/ c.status = "stop"
  BY <1>5 DEF Stages
<1> HIDE DEF c
<1>7. Order(x.status) <= Order(c.status)
  <2>1. x.status \in Stages
    BY <1>2
  <2>2. CASE x.status = "set"
    <3>1. c.status \in Stages
      BY <1>6
    <3> QED
      BY <2>2, <3>1 DEF Order, Stages
  <2>3. CASE x.status = "apply"
    <3>1. c.status \in {"apply", "fight", "stop"}
      BY <1>3, <1>5, <1>6, <2>3
    <3> QED
      BY <2>3, <3>1 DEF Order
  <2>4. CASE x.status = "fight"
    <3>1. c.status \in {"fight", "stop"}
      BY <1>3, <1>5, <1>6, <2>4
    <3> QED
      BY <2>4, <3>1 DEF Order
  <2>5. CASE x.status = "stop"
    <3>1. c.status = "stop"
      BY <1>3, <1>5, <1>6, <2>5
    <3> QED
      BY <2>5, <3>1 DEF Order
  <2> QED
    BY <2>1, <2>2, <2>3, <2>4, <2>5 DEF Stages
<1> QED
  BY <1>1, <1>6, <1>7

\* A fight that comes out of the tick with its sign-up not open is not stopped in it.
LEMMA SetIsNotOver ==
  ASSUME Memory, TypeOK, NEW f \in DOMAIN fights, Controlled(f).status = "set"
  PROVE  ~(clock >= Posting[f].stop /\ Controlled(f).over)
<1> DEFINE x == fights[f]
           a == IF x.status = "set" /\ clock >= Posting[f].apply THEN [x EXCEPT !.status = "apply"] ELSE x
           b == IF a.status = "apply" /\ clock >= Posting[f].start THEN Started(a) ELSE a
           c == IF clock >= Posting[f].stop /\ b.over THEN [b EXCEPT !.status = "stop"] ELSE b
<1>1. Controlled(f) = c
  BY DEF Controlled
<1>2. x \in [status : Stages, objs : Objs, over : BOOLEAN]
  BY FightIs
<1>3. a \in [status : Stages, objs : Objs, over : BOOLEAN]
  BY <1>2 DEF Stages
<1> HIDE DEF a
<1>4. Started(a) \in [status : Stages, objs : Objs, over : BOOLEAN]
  BY <1>3, StartedIs
<1>5. b \in [status : Stages, objs : Objs, over : BOOLEAN]
  BY <1>3, <1>4
<1> HIDE DEF b
<1>6. ASSUME clock >= Posting[f].stop, b.over PROVE FALSE
  BY <1>1, <1>5, <1>6
<1>7. ~(clock >= Posting[f].stop /\ b.over) => c = b
  OBVIOUS
<1> QED
  BY <1>1, <1>6, <1>7

\* initAreaFightCheck: what was under an id is replaced.
LEMMA EnteredIs ==
  ASSUME FightsRight, TypeOK, NEW rows, Entered(rows), DOMAIN rows \subseteq posted,
         \A f \in DOMAIN rows : rows[f] \in Stages /\ (rows[f] # "set" => f \in Old),
         posted' = posted, statusRow' = statusRow
  PROVE  /\ DOMAIN fights' = DOMAIN fights \cup (DOMAIN rows \cap Built)
         /\ FightsRight'
         /\ \A f \in DOMAIN rows \cap Built : fights'[f].over /\ DOMAIN fights'[f].objs = {}
         /\ \A f \in DOMAIN fights \ DOMAIN rows : fights'[f] = fights[f]
         /\ \A f \in DOMAIN fights' :
              /\ fights'[f].status \in Stages /\ fights'[f].over \in BOOLEAN
              /\ DOMAIN fights'[f].objs \subseteq Ids
              /\ \A t \in DOMAIN fights'[f].objs : fights'[f].objs[t] \in {t, Junk}
<1> DEFINE good == DOMAIN rows \cap Built
           none == [t \in {} |-> 0]
<1>0. posted \subseteq Fights /\ Memory
  BY DEF TypeOK, FightsRight
<1>1. good = {f \in DOMAIN rows : Posting[f].singleFail} /\ good \subseteq Fights
  BY <1>0 DEF Built
<1>2. /\ fights' = [f \in DOMAIN fights \cup good |->
                      IF f \in good THEN [status |-> rows[f], objs |-> none, over |-> TRUE]
                                    ELSE fights[f]]
      /\ index' = index \cup
           {<<Posting[f].from, Posting[f].area, f>> :
              f \in {g \in good : Posting[g].nextNum = 0 /\ Posting[g].from # "admin"}}
  BY <1>1 DEF Entered
<1> HIDE DEF good
<1>3. none \in Objs /\ DOMAIN none = {}
  <2>1. none \in [{} -> Ids] /\ {} \subseteq Ids
    OBVIOUS
  <2> QED
    BY <2>1, ObjsAre
<1> HIDE DEF none
<1>4. DOMAIN fights' = DOMAIN fights \cup good /\ fights' = [f \in DOMAIN fights' |-> fights'[f]]
  BY <1>2
<1>5. ASSUME NEW f \in good
      PROVE  /\ fights'[f] \in [status : Stages, objs : Objs, over : BOOLEAN]
             /\ fights'[f].over /\ DOMAIN fights'[f].objs = {} /\ fights'[f].status = rows[f]
  <2>1. fights'[f] = [status |-> rows[f], objs |-> none, over |-> TRUE] /\ rows[f] \in Stages
    BY <1>2 DEF good
  <2> QED
    BY <1>3, <2>1
<1>6. \A f \in DOMAIN fights \ good : fights'[f] = fights[f]
  BY <1>2
<1>7. Memory'
  <2>1. \A f \in DOMAIN fights' : fights'[f] \in [status : Stages, objs : Objs, over : BOOLEAN]
    BY <1>0, <1>4, <1>5, <1>6 DEF Memory
  <2> QED
    BY <1>4, <2>1 DEF Memory
<1>8. \A f \in DOMAIN fights' : fights'[f].status # "set" => f \in Old
  BY <1>4, <1>5, <1>6 DEF FightsRight, good
<1>9. index' = {<<Posting[f].from, Posting[f].area, f>> :
                  f \in {g \in DOMAIN fights' : Posting[g].nextNum = 0 /\ Posting[g].from # "admin"}}
  BY <1>2, <1>4 DEF FightsRight
<1>10. Old' = Old
  BY DEF Old
<1>11. FightsRight'
  <2>1. DOMAIN fights' \subseteq Built
    BY <1>4 DEF FightsRight, good
  <2> HIDE DEF Old
  <2> QED
    BY <1>7, <1>8, <1>9, <1>10, <2>1 DEF FightsRight
<1>12. ASSUME NEW f \in DOMAIN fights'
       PROVE  /\ fights'[f].status \in Stages /\ fights'[f].over \in BOOLEAN
              /\ DOMAIN fights'[f].objs \subseteq Ids
              /\ \A t \in DOMAIN fights'[f].objs : fights'[f].objs[t] \in {t, Junk}
  <2>1. CASE f \in good
    BY <1>5, <2>1
  <2>2. CASE f \notin good
    BY <1>0, <1>4, <1>6, <2>2, FightIs DEF Keys
  <2> QED
    BY <2>1, <2>2
<1>13. \A f \in DOMAIN fights \ DOMAIN rows : fights'[f] = fights[f]
  BY <1>6 DEF good
<1> QED
  BY <1>4, <1>5, <1>11, <1>12, <1>13 DEF good

-----------------------------------------------------------------------------
(***************************************************************************)
(* FightBoard: the steps.                                                  *)
(***************************************************************************)

LEMMA FirstNumber ==
  ASSUME NEW S \in SUBSET Nat, S # {}
  PROVE  \E i \in S : \A j \in S : i <= j
<1> DEFINE R == {ss \in Nat \X Nat : ss[1] < ss[2]}
<1>1. IsWellFoundedOn(R, Nat)
  BY NatLessThanWellFounded DEF OpToRel
<1>2. PICK i \in S : \A j \in S : <<j, i>> \notin R
  <2> HIDE DEF R
  <2> QED
    BY <1>1, WFMin
<1>3. \A j \in S : ~(j < i)
  BY <1>2
<1> QED
  BY <1>3

\* initNewFighting's largest id: a largest one exists, for the posted ones are bounded.
LEMMA LastIdIs ==
  ASSUME FightsRight, TypeOK
  PROVE  LastId \in Nat /\ \A f \in DOMAIN fights : f <= LastId
<1> DEFINE D == DOMAIN fights
<1>1. D \subseteq Nat
  BY IdAssumption DEF TypeOK
<1>2. CASE D = {}
  BY <1>2 DEF LastId
<1>3. CASE D # {}
  <2> DEFINE U == {n \in Nat : \A f \in D : f <= n}
  <2>1. \E n \in Nat : \A f \in D : f <= n
    <3>1. PICK n \in Nat : \A f \in posted : f <= n
      BY DEF FightsRight
    <3> QED
      BY <3>1 DEF TypeOK
  <2> HIDE DEF D
  <2>2. PICK m \in U : \A n \in U : m <= n
    BY <2>1, FirstNumber
  <2>3. m \in D
    <3> SUFFICES ASSUME m \notin D PROVE FALSE
      OBVIOUS
    <3>1. \A f \in D : f <= m /\ f # m /\ f \in Nat /\ m \in Nat
      BY <1>1, <2>2
    <3>2. \A f \in D : f <= m - 1
      BY <3>1
    <3>3. m - 1 \in Nat
      BY <1>3, <3>1
    <3>4. m - 1 \in U
      BY <3>2, <3>3
    <3> QED
      BY <2>2, <3>3, <3>4
  <2>4. \E f \in D : \A g \in D : g <= f
    BY <2>2, <2>3
  <2>5. LastId = CHOOSE f \in D : \A g \in D : g <= f
    BY <1>3 DEF LastId, D
  <2> QED
    BY <1>1, <2>4, <2>5 DEF D
<1> QED
  BY <1>2, <1>3

LEMMA OutstandingIs ==
  ASSUME QueueTypes, NEW K
  PROVE  Outstanding(K) <=> \E i \in 1..Waiting : Kind(i) \in K
<1>1. Len(answers) \in Nat /\ Len(pending) \in Nat /\ Waiting = Len(answers) + Len(pending)
  BY QueueLengths DEF Waiting
<1>2. ASSUME NEW i \in 1..Len(answers)
      PROVE  i \in 1..Waiting /\ Kind(i) = answers[i].kind
  BY <1>1 DEF Kind
<1>3. ASSUME NEW i \in 1..Len(pending)
      PROVE  Len(answers) + i \in 1..Waiting /\ Kind(Len(answers) + i) = pending[i].kind
  <2>1. ~(Len(answers) + i <= Len(answers)) /\ (Len(answers) + i) - Len(answers) = i
    BY <1>1
  <2> QED
    BY <1>1, <2>1 DEF Kind
<1>4. ASSUME NEW i \in 1..Waiting
      PROVE  \/ \E k \in 1..Len(answers) : Kind(i) = answers[k].kind
             \/ \E k \in 1..Len(pending) : Kind(i) = pending[k].kind
  <2>1. CASE i <= Len(answers)
    BY <1>1, <2>1 DEF Kind
  <2>2. CASE ~(i <= Len(answers))
    <3>1. i - Len(answers) \in 1..Len(pending)
      BY <1>1, <2>2
    <3> QED
      BY <2>2, <3>1 DEF Kind
  <2> QED
    BY <2>1, <2>2
<1> QED
  BY <1>2, <1>3, <1>4 DEF Outstanding

\* A step that only grows the fights keeps what is known of them.
LEMMA GrowsKeeps ==
  ASSUME FightsRight, TypeOK, LoadedStay, Grows,
         index' = index, objToFights' = objToFights, statusRow' = statusRow,
         posted' = posted \/ \E f \in Fights : posted' = posted \cup {f},
         recommend' = recommend, initOver' \in BOOLEAN, clock' \in 0..MaxClock, lost' = lost,
         entrantRows' \subseteq Fights \X (Teams \cup {Junk})
  PROVE  FightsRight' /\ TypeOK' /\ LoadedStay'
<1>1. posted \subseteq posted' /\ posted' \subseteq Fights
  BY DEF TypeOK
<1>2. \E n \in Nat : \A f \in posted' : f <= n
  <2>1. PICK n \in Nat : \A f \in posted : f <= n
    BY DEF FightsRight
  <2>2. CASE posted' = posted
    BY <2>1, <2>2
  <2>3. ASSUME NEW f \in Fights, posted' = posted \cup {f}
        PROVE  \E m \in Nat : \A g \in posted' : g <= m
    <3>1. f \in Nat /\ \A g \in posted : g \in Nat
      BY IdAssumption DEF TypeOK
    <3>2. \A g \in posted' : g <= n + f
      BY <2>1, <2>3, <3>1
    <3>3. n + f \in Nat
      BY <3>1
    <3> QED
      BY <3>2, <3>3
  <2> QED
    BY <2>2, <2>3
<1>3. /\ DOMAIN fights' = DOMAIN fights /\ Memory'
      /\ \A f \in DOMAIN fights :
           /\ fights'[f].status = fights[f].status
           /\ Keys(f) \subseteq DOMAIN fights'[f].objs
           /\ \A t \in DOMAIN fights'[f].objs : fights'[f].objs[t] \in {t, Junk}
  BY DEF Grows
<1>4. Old' = Old
  BY DEF Old
<1>5. FightsRight'
  <2> HIDE DEF Old
  <2> QED
    BY <1>1, <1>2, <1>3, <1>4 DEF FightsRight
<1>6. \A f \in DOMAIN fights' :
        /\ fights'[f].status \in Stages /\ fights'[f].over \in BOOLEAN
        /\ DOMAIN fights'[f].objs \subseteq Ids
  <2>1. \A f \in DOMAIN fights' : fights'[f] \in [status : Stages, objs : Objs, over : BOOLEAN]
    BY <1>3 DEF Memory
  <2>2. \A f \in DOMAIN fights' : fights'[f].objs \in Objs
    BY <2>1
  <2> QED
    BY <2>1, <2>2, ObjsGive
<1>7. TypeOK'
  BY <1>1, <1>3, <1>6 DEF TypeOK, Keys, Ids
<1>8. LoadedStay'
  BY <1>3 DEF LoadedStay, MyFights, Keys
<1> QED
  BY <1>5, <1>7, <1>8

Quietly ==
  /\ Grows
  /\ posted' = posted \/ \E f \in Fights : posted' = posted \cup {f}
  /\ entrantRows' \subseteq Fights \X (Teams \cup {Junk})
  /\ ~initOver => /\ \A f \in DOMAIN fights : fights'[f].over
                  /\ \A r \in entrantRows' : r[1] \in Old

\* Steps that leave the queue and the load alone: a bracket ends, a team signs up, a
\* fight is posted, time passes.
LEMMA QuietBoard ==
  ASSUME BoardIInv,
         \/ \E f \in Fights : BracketEnds(f) \/ Post(f)
         \/ \E t \in Teams, f \in Fights : SignUp(t, f)
         \/ Pass \/ UNCHANGED vars
  PROVE  BoardIInv'
<1>1. /\ QueueTypes /\ AnswersRight /\ FightsRight /\ Loading /\ Searches /\ TypeOK /\ LoadedStay
      /\ Memory /\ DOMAIN fights \subseteq Fights
      /\ ~initOver => /\ \A f \in DOMAIN fights : fights[f].over
                      /\ \A r \in entrantRows : r[1] \in Old
  BY BoardFacts DEF FightsRight
<1>2. /\ pending' = pending /\ answers' = answers /\ lost' = lost
      /\ index' = index /\ objToFights' = objToFights /\ recommend' = recommend
      /\ initOver' = initOver /\ statusRow' = statusRow
  BY DEF BracketEnds, Post, SignUp, Pass, vars, rowVars, dbVars
<1>3. QueueStep(0, <<>>)
  <2>1. <<>> \in Seq(Queries) /\ pending' = pending \o <<>>
    BY <1>1, <1>2 DEF QueueTypes
  <2> QED
    BY <1>1, <1>2, <2>1, IssueStep
<1>4. clock' \in 0..MaxClock
  <2>1. clock \in 0..MaxClock /\ MaxClock \in Nat
    BY <1>1, BoundAssumption DEF TypeOK
  <2>2. clock' = clock \/ (clock < MaxClock /\ clock' = clock + 1)
    BY DEF BracketEnds, Post, SignUp, Pass, vars
  <2> QED
    BY <2>1, <2>2
<1>5. Quietly
  <2>1. ASSUME NEW f \in Fights, BracketEnds(f)
        PROVE  Quietly
    <3>1. /\ Grows /\ f \in DOMAIN fights /\ ~fights[f].over
          /\ \/ entrantRows' = entrantRows
             \/ /\ Posting[f].parent \in DOMAIN fights
                /\ \E S \in SUBSET Ids :
                     entrantRows' = entrantRows \cup {<<Posting[f].parent, u>> : u \in S}
      BY <1>1, <2>1, BracketGrows
    <3>2. initOver /\ posted' = posted
      BY <1>1, <2>1, <3>1 DEF BracketEnds
    <3>3. entrantRows \subseteq Fights \X Ids /\ Ids = Teams \cup {Junk}
      BY <1>1 DEF TypeOK, Ids
    <3> QED
      BY <1>1, <3>1, <3>2, <3>3 DEF Quietly
  <2>2. ASSUME NEW t \in Teams, NEW f \in Fights, SignUp(t, f)
        PROVE  Quietly
    <3>1. /\ Grows
          /\ \E id \in {t, Junk} : entrantRows' = entrantRows \cup {<<f, id>>}
          /\ \A g \in DOMAIN fights : fights'[g].over = fights[g].over
      BY <1>1, <2>2, SignUpGrows
    <3>2. f \in DOMAIN fights /\ fights[f].status = "apply" /\ posted' = posted
      BY <2>2 DEF SignUp
    <3>3. f \in Old
      BY <1>1, <3>2 DEF FightsRight
    <3>4. entrantRows \subseteq Fights \X (Teams \cup {Junk})
      BY <1>1 DEF TypeOK
    <3> QED
      BY <1>1, <3>1, <3>2, <3>3, <3>4 DEF Quietly
  <2>3. ASSUME fights' = fights, entrantRows' = entrantRows
        PROVE  /\ Grows
               /\ entrantRows' \subseteq Fights \X (Teams \cup {Junk})
               /\ ~initOver => /\ \A f \in DOMAIN fights : fights'[f].over
                               /\ \A r \in entrantRows' : r[1] \in Old
    BY <1>1, <2>3, FightIs DEF Grows, Memory, Keys, TypeOK
  <2>4. CASE (\E f \in Fights : Post(f)) \/ Pass \/ UNCHANGED vars
    <3>1. /\ fights' = fights /\ entrantRows' = entrantRows
          /\ posted' = posted \/ \E f \in Fights : posted' = posted \cup {f}
      BY <2>4 DEF Post, Pass, vars, rowVars
    <3> QED
      BY <2>3, <3>1 DEF Quietly
  <2> QED
    BY <2>1, <2>2, <2>4
<1>6. FightsRight' /\ TypeOK' /\ LoadedStay'
  BY <1>1, <1>2, <1>4, <1>5, GrowsKeeps DEF TypeOK, Quietly
<1>7. Loading' /\ Searches'
  <2>1. DOMAIN fights' = DOMAIN fights /\ objToFights \subseteq Ids \X Fights
    BY <1>1, <1>5 DEF Grows, TypeOK, Ids, Quietly
  <2> QED
    BY <1>1, <1>2, <1>3, <1>5, <2>1, CalmStep DEF Quietly
<1>8. AnswersRight'
  BY <1>1, <1>2, <1>5, AnswersKept DEF Old, Quietly
<1> QED
  BY <1>3, <1>6, <1>7, <1>8 DEF BoardIInv, QueueStep

\* The answer at the head of the queue.
LEMMA HeadIs ==
  ASSUME BoardIInv, NEW kind, Handle(kind)
  PROVE  /\ Head(answers).kind = kind /\ ~Head(answers).null /\ RightAnswer(Head(answers))
         /\ answers # <<>> /\ answers' = Tail(answers)
         /\ 1 \in 1..Waiting /\ Kind(1) = kind
         /\ posted' = posted /\ statusRow' = statusRow /\ entrantRows' = entrantRows
         /\ lost' = lost /\ clock' = clock
         /\ \A f : Brings(1, f) <=> f \in DOMAIN Head(answers).res
<1>1. /\ Head(answers).kind = kind /\ ~Head(answers).null /\ answers # <<>>
      /\ answers' = Tail(answers)
      /\ posted' = posted /\ statusRow' = statusRow /\ entrantRows' = entrantRows
      /\ lost' = lost /\ clock' = clock
  BY DEF Handle, rowVars
<1>2. /\ QueueTypes /\ AnswersRight /\ Len(answers) \in Nat /\ Len(pending) \in Nat
      /\ Waiting = Len(answers) + Len(pending)
  BY QueueLengths DEF BoardIInv, Waiting
<1>3. Head(answers) = answers[1] /\ Len(answers) > 0
  BY <1>1, <1>2, HeadTailProperties DEF QueueTypes
<1>4. RightAnswer(Head(answers))
  BY <1>2, <1>3 DEF AnswersRight
<1>5. 1 \in 1..Waiting /\ Kind(1) = kind
  BY <1>1, <1>2, <1>3 DEF Kind
<1>6. \A f : Brings(1, f) <=> f \in DOMAIN Head(answers).res
  BY <1>1, <1>2, <1>3 DEF Brings
<1> QED
  BY <1>1, <1>4, <1>5, <1>6

\* The places of the queue after an answer was handled and a query perhaps issued.
LEMMA Places ==
  ASSUME NEW d \in {0, 1}, NEW more \in Seq(Queries), QueueStep(d, more)
  PROVE  /\ Waiting \in Nat /\ Waiting' = (Waiting - d) + Len(more) /\ Len(more) \in Nat
         /\ \A i \in 1..Waiting' :
              \/ /\ i + d \in 1..Waiting /\ i \in 1..(Waiting - d) /\ Same(i, i + d)
              \/ \E k \in 1..Len(more) : i = (Waiting - d) + k /\ Issued(i, more[k])
<1>1. /\ Waiting \in Nat /\ d <= Waiting /\ Waiting' = (Waiting - d) + Len(more) /\ Len(more) \in Nat
      /\ \A i \in 1..(Waiting - d) : Same(i, i + d)
      /\ \A k \in 1..Len(more), i \in Nat : i = (Waiting - d) + k => Issued(i, more[k])
  BY LenProperties DEF QueueStep
<1>2. ASSUME NEW i \in 1..Waiting'
      PROVE  \/ /\ i + d \in 1..Waiting /\ i \in 1..(Waiting - d) /\ Same(i, i + d)
             \/ \E k \in 1..Len(more) : i = (Waiting - d) + k /\ Issued(i, more[k])
  <2>1. CASE i <= Waiting - d
    BY <1>1, <2>1
  <2>2. CASE ~(i <= Waiting - d)
    <3>1. /\ i - (Waiting - d) \in 1..Len(more) /\ i = (Waiting - d) + (i - (Waiting - d))
          /\ i \in Nat
      BY <1>1, <2>2
    <3> QED
      BY <1>1, <3>1
  <2> QED
    BY <2>1, <2>2
<1> QED
  BY <1>1, <1>2

\* The fights are loaded.
LEMMA AreaBoard ==
  ASSUME BoardIInv, InitAreaFightBack
  PROVE  BoardIInv'
<1>1. /\ QueueTypes /\ AnswersRight /\ FightsRight /\ Loading /\ Searches /\ TypeOK /\ LoadedStay
  BY BoardFacts
<1>2. /\ Handle("area") /\ Entered(Head(answers).res)
      /\ objToFights' = objToFights /\ recommend' = recommend /\ initOver' = initOver
      /\ pending' = Append(pending, Query("objs", 0))
  BY DEF InitAreaFightBack
<1>3. /\ Head(answers).kind = "area" /\ ~Head(answers).null /\ RightAnswer(Head(answers))
      /\ answers # <<>> /\ answers' = Tail(answers)
      /\ 1 \in 1..Waiting /\ Kind(1) = "area"
      /\ posted' = posted /\ statusRow' = statusRow /\ entrantRows' = entrantRows
      /\ lost' = lost /\ clock' = clock
  BY <1>2, HeadIs
<1>4. PICK q : q = Query("objs", 0)
  OBVIOUS
<1>5. q \in Queries /\ q.kind = "objs" /\ <<q>> \in Seq(Queries) /\ Len(<<q>>) = 1 /\ <<q>>[1] = q
  <2>1. q \in Queries /\ q.kind = "objs"
    BY <1>4 DEF Query, Queries, Kinds, Outstanding
  <2> QED
    BY <2>1
<1>6. QueueStep(1, <<q>>)
  <2>1. pending' = pending \o <<q>>
    BY <1>1, <1>2, <1>4, <1>5 DEF QueueTypes
  <2> QED
    BY <1>1, <1>3, <1>5, <2>1, HandleStep
<1>7. PICK rows : rows = Head(answers).res
  OBVIOUS
<1>8. /\ DOMAIN rows \subseteq posted /\ Old \subseteq DOMAIN rows
      /\ \A f \in DOMAIN rows : rows[f] \in Stages /\ (rows[f] # "set" => f \in Old)
  BY <1>3, <1>7 DEF RightAnswer
<1>9. /\ DOMAIN fights' = DOMAIN fights \cup (DOMAIN rows \cap Built)
      /\ FightsRight'
      /\ \A f \in DOMAIN rows \cap Built : fights'[f].over /\ DOMAIN fights'[f].objs = {}
      /\ \A f \in DOMAIN fights' :
           /\ fights'[f].status \in Stages /\ fights'[f].over \in BOOLEAN
           /\ DOMAIN fights'[f].objs \subseteq Ids
           /\ \A t \in DOMAIN fights'[f].objs : fights'[f].objs[t] \in {t, Junk}
  BY <1>1, <1>2, <1>3, <1>7, <1>8, EnteredIs
\* Nothing was in memory before, and nothing else is asked for the load.
<1>10. DOMAIN fights = {} /\ objToFights = {} /\ ~initOver
  BY <1>1, <1>3 DEF Loading, Loads
<1>11. \A i \in 1..Waiting : i > 1 => Kind(i) \notin Loads
  BY <1>1, <1>3 DEF Loading, Loads
<1>12. /\ Waiting \in Nat /\ Waiting' = Waiting
       /\ \A i \in 1..Waiting' :
            \/ i + 1 \in 1..Waiting /\ i # Waiting' /\ i + 1 > 1 /\ Same(i, i + 1)
            \/ i = Waiting' /\ Issued(i, q)
  <2>1. /\ Waiting \in Nat /\ Waiting' = (Waiting - 1) + 1
        /\ \A i \in 1..Waiting' :
              \/ /\ i + 1 \in 1..Waiting /\ i \in 1..(Waiting - 1) /\ Same(i, i + 1)
              \/ \E k \in 1..1 : i = (Waiting - 1) + k /\ Issued(i, <<q>>[k])
    BY <1>5, <1>6, Places
  <2>2. Waiting' = Waiting
    BY <2>1
  <2>3. ASSUME NEW i \in 1..Waiting'
        PROVE  \/ i + 1 \in 1..Waiting /\ i # Waiting' /\ i + 1 > 1 /\ Same(i, i + 1)
               \/ i = Waiting' /\ Issued(i, q)
    <3>1. CASE i + 1 \in 1..Waiting /\ i \in 1..(Waiting - 1) /\ Same(i, i + 1)
      BY <2>1, <2>2, <3>1
    <3>2. CASE \E k \in 1..1 : i = (Waiting - 1) + k /\ Issued(i, <<q>>[k])
      <4>1. PICK k \in 1..1 : i = (Waiting - 1) + k /\ Issued(i, <<q>>[k])
        BY <3>2
      <4>2. k = 1
        BY <4>1
      <4> QED
        BY <1>5, <2>1, <2>2, <4>1, <4>2
    <3> QED
      BY <2>1, <3>1, <3>2
  <2> QED
    BY <2>1, <2>2, <2>3
<1>13. \A i \in 1..Waiting' : Kind(i)' \in Loads => i = Waiting' /\ Kind(i)' = "objs"
  BY <1>5, <1>11, <1>12 DEF Same, Issued
<1>14. Old' = Old
  BY <1>3 DEF Old
<1>15. Loading'
  <2>1. \A f \in DOMAIN fights' : fights'[f].over
    BY <1>9, <1>10
  <2>2. \A r \in entrantRows' : r[1] \in Old'
    BY <1>1, <1>3, <1>10, <1>14 DEF Loading
  <2>3. Old' \cap Built \subseteq DOMAIN fights' /\ objToFights' = {} /\ ~initOver'
    BY <1>2, <1>8, <1>9, <1>10, <1>14
  <2>4. \A i, j \in 1..Waiting' : Kind(i)' \in Loads /\ Kind(j)' \in Loads => i = j
    BY <1>13
  <2>5. \A i \in 1..Waiting' : Kind(i)' # "area"
    BY <1>13 DEF Loads
  <2>6. \A i \in 1..Waiting' : Kind(i)' = "objs" => \A j \in 1..Waiting' : ~(j > i)
    BY <1>12, <1>13 DEF Loads
  <2> HIDE DEF Old
  <2> QED
    BY <2>1, <2>2, <2>3, <2>4, <2>5, <2>6 DEF Loading
\* Every search left overlapped the load.
<1>16. Searches'
  <2>1. SUFFICES ASSUME NEW i \in 1..Waiting', Kind(i)' = "new" PROVE Overlaps(i)'
    BY <1>2, <1>10 DEF Searches
  <2>2. i + 1 \in 1..Waiting /\ i + 1 > 1 /\ Kind(i + 1) = "new" /\ Overlaps(i)' = Overlaps(i + 1)
    BY <1>5, <1>12, <2>1 DEF Same, Issued
  <2>3. Overlaps(i + 1)
    BY <1>1, <1>3, <2>2 DEF Searches
  <2> QED
    BY <2>2, <2>3
<1>17. TypeOK'
  BY <1>1, <1>2, <1>3, <1>9, <1>8 DEF TypeOK, Keys, Ids
<1>18. LoadedStay'
  BY <1>2, <1>10 DEF LoadedStay
<1>19. AnswersRight'
  BY <1>1, <1>3, <1>14, AnswersKept
<1> QED
  BY <1>6, <1>9, <1>15, <1>16, <1>17, <1>18, <1>19 DEF BoardIInv, QueueStep

\* What a step that issues nothing leaves in the queue.
LEMMA Shorter ==
  ASSUME QueueStep(1, <<>>)
  PROVE  /\ Waiting \in Nat /\ Waiting' = Waiting - 1
         /\ \A i \in 1..Waiting' : i + 1 \in 1..Waiting /\ i + 1 > 1 /\ Same(i, i + 1)
BY DEF QueueStep

\* A search of the minute is handled.
LEMMA NewBoard ==
  ASSUME BoardIInv, InitNewAreaFightBack
  PROVE  BoardIInv'
<1>1. /\ QueueTypes /\ AnswersRight /\ FightsRight /\ Loading /\ Searches /\ TypeOK /\ LoadedStay
  BY BoardFacts
<1>2. /\ Handle("new") /\ Entered(Head(answers).res)
      /\ objToFights' = objToFights /\ recommend' = recommend /\ initOver' = initOver
      /\ pending' = pending
  BY DEF InitNewAreaFightBack
<1>3. /\ Head(answers).kind = "new" /\ ~Head(answers).null /\ RightAnswer(Head(answers))
      /\ answers # <<>> /\ answers' = Tail(answers)
      /\ 1 \in 1..Waiting /\ Kind(1) = "new"
      /\ posted' = posted /\ statusRow' = statusRow /\ entrantRows' = entrantRows
      /\ lost' = lost /\ clock' = clock
      /\ \A f : Brings(1, f) <=> f \in DOMAIN Head(answers).res
  BY <1>2, HeadIs
<1>4. QueueStep(1, <<>>)
  <2>1. <<>> \in Seq(Queries) /\ pending' = pending \o <<>>
    BY <1>1, <1>2 DEF QueueTypes
  <2> QED
    BY <1>1, <1>3, <2>1, HandleStep
<1>5. PICK rows : rows = Head(answers).res
  OBVIOUS
<1>6. /\ DOMAIN rows \subseteq posted
      /\ \A f \in DOMAIN rows : rows[f] \in Stages /\ (rows[f] # "set" => f \in Old)
      /\ \A f : Brings(1, f) <=> f \in DOMAIN rows
  BY <1>3, <1>5 DEF RightAnswer
<1>7. /\ DOMAIN fights' = DOMAIN fights \cup (DOMAIN rows \cap Built)
      /\ FightsRight'
      /\ \A f \in DOMAIN rows \cap Built : fights'[f].over /\ DOMAIN fights'[f].objs = {}
      /\ \A f \in DOMAIN fights \ DOMAIN rows : fights'[f] = fights[f]
      /\ \A f \in DOMAIN fights' :
           /\ fights'[f].status \in Stages /\ fights'[f].over \in BOOLEAN
           /\ DOMAIN fights'[f].objs \subseteq Ids
           /\ \A t \in DOMAIN fights'[f].objs : fights'[f].objs[t] \in {t, Junk}
  BY <1>1, <1>2, <1>3, <1>5, <1>6, EnteredIs
<1>8. /\ Waiting \in Nat /\ Waiting' = Waiting - 1
      /\ \A i \in 1..Waiting' : /\ i \in Int /\ i + 1 \in 1..Waiting /\ i + 1 > 1
                                /\ Kind(i)' = Kind(i + 1) /\ Overlaps(i)' = Overlaps(i + 1)
                                /\ Kind(i + 1) = "new" =>
                                     \A f \in Fights : Brings(i, f)' => Brings(i + 1, f)
  BY <1>4, Shorter DEF Same
<1>9. Old' = Old
  BY <1>3 DEF Old
<1>10. Loading'
  <2>1. ~initOver' => /\ \A f \in DOMAIN fights' : fights'[f].over
                      /\ \A r \in entrantRows' : r[1] \in Old'
    <3> SUFFICES ASSUME ~initOver PROVE /\ \A f \in DOMAIN fights' : fights'[f].over
                                        /\ \A r \in entrantRows : r[1] \in Old
      BY <1>2, <1>3, <1>9
    <3>1. \A f \in DOMAIN fights : fights[f].over
      BY <1>1 DEF Loading
    <3>2. \A r \in entrantRows : r[1] \in Old
      BY <1>1 DEF Loading
    <3>3. ASSUME NEW f \in DOMAIN fights' PROVE fights'[f].over
      <4>1. CASE f \in DOMAIN rows \cap Built
        BY <1>7, <4>1
      <4>2. CASE f \notin DOMAIN rows \cap Built
        <5>1. f \in DOMAIN fights /\ f \in Built
          BY <1>1, <1>7, <4>2 DEF FightsRight
        <5> QED
          BY <1>7, <3>1, <4>2, <5>1
      <4> QED
        BY <4>1, <4>2
    <3> QED
      BY <3>2, <3>3
  <2>2. \A i, j \in 1..Waiting' : Kind(i)' \in Loads /\ Kind(j)' \in Loads => i = j
    <3> SUFFICES ASSUME NEW i \in 1..Waiting', NEW j \in 1..Waiting',
                        Kind(i)' \in Loads, Kind(j)' \in Loads
                 PROVE  i = j
      OBVIOUS
    <3>1. i + 1 = j + 1
      BY <1>1, <1>8 DEF Loading
    <3> QED
      BY <1>8, <3>1
  <2>3. \A i \in 1..Waiting' : Kind(i)' \in Loads => ~initOver'
    BY <1>1, <1>2, <1>8 DEF Loading
  <2>4. \A i \in 1..Waiting' : Kind(i)' # "area"
    <3> SUFFICES ASSUME NEW i \in 1..Waiting', Kind(i)' = "area" PROVE FALSE
      OBVIOUS
    <3>1. i + 1 \in 1..Waiting /\ Kind(i + 1) = "area" /\ i + 1 > 1
      BY <1>8
    <3>2. i + 1 = 1
      BY <1>1, <3>1 DEF Loading
    <3> QED
      BY <3>1, <3>2
  <2>5. \A i \in 1..Waiting' : Kind(i)' = "objs" =>
       /\ Old' \cap Built \subseteq DOMAIN fights' /\ objToFights' = {}
       /\ \A j \in 1..Waiting' :
            j > i /\ Kind(j)' = "new" => \A f \in Old' \cap Built : ~Brings(j, f)'
    <3> SUFFICES ASSUME NEW i \in 1..Waiting', Kind(i)' = "objs"
                 PROVE  /\ Old \cap Built \subseteq DOMAIN fights' /\ objToFights = {}
                        /\ \A j \in 1..Waiting' :
                             j > i /\ Kind(j)' = "new" => \A f \in Old \cap Built : ~Brings(j, f)'
      BY <1>2, <1>9
    <3>1. i + 1 \in 1..Waiting /\ Kind(i + 1) = "objs"
      BY <1>8
    <3>2. /\ Old \cap Built \subseteq DOMAIN fights /\ objToFights = {}
          /\ \A j \in 1..Waiting :
               j > i + 1 /\ Kind(j) = "new" => \A f \in Old \cap Built : ~Brings(j, f)
      BY <1>1, <3>1 DEF Loading
    <3>3. ASSUME NEW j \in 1..Waiting', j > i, Kind(j)' = "new", NEW f \in Old \cap Built
          PROVE  ~Brings(j, f)'
      <4>1. j + 1 \in 1..Waiting /\ j + 1 > i + 1 /\ Kind(j + 1) = "new"
        BY <1>8, <3>3
      <4>2. ~Brings(j + 1, f) /\ f \in Fights
        BY <3>2, <4>1 DEF Old
      <4> QED
        BY <1>8, <3>3, <4>1, <4>2
    <3> QED
      BY <1>7, <3>2, <3>3
  <2> HIDE DEF Old
  <2> QED
    BY <2>1, <2>2, <2>3, <2>4, <2>5 DEF Loading
\* Every search left overlapped this one.
<1>11. Searches'
  <2>1. SUFFICES ASSUME NEW i \in 1..Waiting', Kind(i)' = "new"
                 PROVE  Overlaps(i)' /\ \A e \in objToFights : ~Brings(i, e[2])'
    BY <1>2 DEF Searches
  <2>2. /\ i + 1 \in 1..Waiting /\ i + 1 > 1 /\ Kind(i + 1) = "new"
        /\ Overlaps(i)' = Overlaps(i + 1)
        /\ \A f \in Fights : Brings(i, f)' => Brings(i + 1, f)
    BY <1>8, <2>1
  <2>3. Overlaps(i + 1)
    BY <1>1, <1>3, <2>2 DEF Searches
  <2>4. \A e \in objToFights : ~Brings(i + 1, e[2]) /\ e[2] \in Fights
    BY <1>1, <2>2 DEF Searches, TypeOK
  <2> QED
    BY <2>2, <2>3, <2>4
<1>12. TypeOK'
  BY <1>1, <1>2, <1>3, <1>6, <1>7 DEF TypeOK, Keys, Ids
\* It brings no fight with loaded entrants again.
<1>13. LoadedStay'
  <2>1. \A e \in objToFights : e[2] \notin DOMAIN rows
    BY <1>1, <1>3, <1>6 DEF Searches
  <2>2. \A e \in objToFights : e[2] \in DOMAIN fights /\ fights'[e[2]] = fights[e[2]]
    BY <1>1, <1>7, <2>1 DEF LoadedStay, MyFights
  <2> QED
    BY <1>1, <1>2, <1>7, <2>2 DEF LoadedStay, MyFights, Keys
<1>14. AnswersRight'
  BY <1>1, <1>3, <1>9, AnswersKept
<1> QED
  BY <1>4, <1>7, <1>10, <1>11, <1>12, <1>13, <1>14 DEF BoardIInv, QueueStep

\* The entrants are loaded.
LEMMA ObjsBoard ==
  ASSUME BoardIInv, InitFightingObjBack
  PROVE  BoardIInv' /\ Grows /\ ~initOver
<1>1. /\ QueueTypes /\ AnswersRight /\ FightsRight /\ Loading /\ Searches /\ TypeOK /\ LoadedStay
      /\ Memory /\ DOMAIN fights \subseteq Fights
  BY BoardFacts DEF FightsRight
<1>2. /\ Handle("objs") /\ index' = index /\ recommend' = recommend /\ initOver' = initOver
      /\ pending' = Append(pending, Query("chall", 0))
  BY DEF InitFightingObjBack
<1>3. /\ Head(answers).kind = "objs" /\ ~Head(answers).null /\ RightAnswer(Head(answers))
      /\ answers # <<>> /\ answers' = Tail(answers)
      /\ 1 \in 1..Waiting /\ Kind(1) = "objs"
      /\ posted' = posted /\ statusRow' = statusRow /\ entrantRows' = entrantRows
      /\ lost' = lost /\ clock' = clock
  BY <1>2, HeadIs
<1>4. PICK q : q = Query("chall", 0)
  OBVIOUS
<1>5. q \in Queries /\ q.kind = "chall" /\ <<q>> \in Seq(Queries) /\ Len(<<q>>) = 1 /\ <<q>>[1] = q
  <2>1. q \in Queries /\ q.kind = "chall"
    BY <1>4 DEF Query, Queries, Kinds, Outstanding
  <2> QED
    BY <2>1
<1>6. QueueStep(1, <<q>>)
  <2>1. pending' = pending \o <<q>>
    BY <1>1, <1>2, <1>4, <1>5 DEF QueueTypes
  <2> QED
    BY <1>1, <1>3, <1>5, <2>1, HandleStep
<1>7. PICK rows : rows = {r \in Head(answers).res : r[1] \in DOMAIN fights}
  OBVIOUS
<1>8. rows \subseteq Old \X Ids /\ rows \subseteq Fights \X Ids /\ \A r \in rows : r[1] \in DOMAIN fights
  <2>1. rows \subseteq Old \X Ids
    BY <1>3, <1>7 DEF RightAnswer
  <2> QED
    BY <1>7, <2>1 DEF Old
<1>9. /\ fights' = [f \in DOMAIN fights |->
                      [fights[f] EXCEPT !.objs =
                         [t \in DOMAIN @ \cup {r[2] : r \in {s \in rows : s[1] = f}} |->
                            IF t \in {r[2] : r \in {s \in rows : s[1] = f}} THEN t ELSE @[t]]]]
      /\ objToFights' = objToFights \cup {<<r[2], r[1]>> : r \in rows}
  BY <1>7 DEF InitFightingObjBack
<1>10. /\ Grows
       /\ \A f \in DOMAIN fights : fights'[f].over = fights[f].over
       /\ \A r \in rows : r[1] \in DOMAIN fights => r[2] \in DOMAIN fights'[r[1]].objs
  BY <1>1, <1>8, <1>9, LoadGrows
<1>11. DOMAIN fights' = DOMAIN fights
  BY <1>10 DEF Grows
<1>12. /\ Old \cap Built \subseteq DOMAIN fights /\ objToFights = {} /\ ~initOver
       /\ \A j \in 1..Waiting :
            j > 1 /\ Kind(j) = "new" => \A f \in Old \cap Built : ~Brings(j, f)
       /\ \A i \in 1..Waiting : i > 1 => Kind(i) \notin Loads
  BY <1>1, <1>3 DEF Loading, Loads
<1>13. /\ Waiting \in Nat /\ Waiting' = Waiting
       /\ \A i \in 1..Waiting' :
            \/ i \in Int /\ i + 1 \in 1..Waiting /\ i # Waiting' /\ i + 1 > 1 /\ Same(i, i + 1)
            \/ i = Waiting' /\ Issued(i, q)
  <2>1. /\ Waiting \in Nat /\ Waiting' = (Waiting - 1) + 1
        /\ \A i \in 1..Waiting' :
              \/ /\ i + 1 \in 1..Waiting /\ i \in 1..(Waiting - 1) /\ Same(i, i + 1)
              \/ \E k \in 1..1 : i = (Waiting - 1) + k /\ Issued(i, <<q>>[k])
    BY <1>5, <1>6, Places
  <2>2. Waiting' = Waiting
    BY <2>1
  <2>3. ASSUME NEW i \in 1..Waiting'
        PROVE  \/ i \in Int /\ i + 1 \in 1..Waiting /\ i # Waiting' /\ i + 1 > 1 /\ Same(i, i + 1)
               \/ i = Waiting' /\ Issued(i, q)
    <3>1. CASE i + 1 \in 1..Waiting /\ i \in 1..(Waiting - 1) /\ Same(i, i + 1)
      BY <2>1, <2>2, <3>1
    <3>2. CASE \E k \in 1..1 : i = (Waiting - 1) + k /\ Issued(i, <<q>>[k])
      <4>1. PICK k \in 1..1 : i = (Waiting - 1) + k /\ Issued(i, <<q>>[k])
        BY <3>2
      <4>2. k = 1
        BY <4>1
      <4> QED
        BY <1>5, <2>1, <2>2, <4>1, <4>2
    <3> QED
      BY <2>1, <3>1, <3>2
  <2> QED
    BY <2>1, <2>2, <2>3
<1>14. \A i \in 1..Waiting' : Kind(i)' \in Loads => i = Waiting' /\ Kind(i)' = "chall"
  BY <1>5, <1>12, <1>13 DEF Same, Issued
<1>15. Old' = Old
  BY <1>3 DEF Old
<1>16. Loading'
  <2>1. /\ \A f \in DOMAIN fights' : fights'[f].over
        /\ \A r \in entrantRows' : r[1] \in Old'
    BY <1>1, <1>3, <1>10, <1>11, <1>12, <1>15 DEF Loading
  <2>2. \A i, j \in 1..Waiting' : Kind(i)' \in Loads /\ Kind(j)' \in Loads => i = j
    BY <1>14
  <2>3. \A i \in 1..Waiting' : Kind(i)' # "area" /\ Kind(i)' # "objs"
    BY <1>14 DEF Loads
  <2> HIDE DEF Old
  <2> QED
    BY <1>2, <1>12, <2>1, <2>2, <2>3 DEF Loading
<1>17. \A e \in objToFights' : e[2] \in Old \cap Built /\ e[2] \in Fights
  <2>1. DOMAIN fights \subseteq Built
    BY <1>1 DEF FightsRight
  <2>2. \A r \in rows : r[1] \in Old \cap Built /\ r[1] \in Fights
    BY <1>8, <2>1
  <2>3. objToFights' = {<<r[2], r[1]>> : r \in rows}
    BY <1>9, <1>12
  <2> QED
    BY <2>2, <2>3
<1>18. Searches'
  <2>1. SUFFICES ASSUME NEW i \in 1..Waiting', Kind(i)' = "new"
        PROVE  /\ \A e \in objToFights' : ~Brings(i, e[2])'
               /\ ~Overlaps(i)' =>
                     /\ \A j \in 1..Waiting' : j < i => Kind(j)' \notin {"area", "new"}
                     /\ \A f \in DOMAIN fights' : ~Brings(i, f)'
    BY DEF Searches
  <2>2. /\ i \in Int /\ i # Waiting' /\ i + 1 \in 1..Waiting /\ i + 1 > 1 /\ Kind(i + 1) = "new"
        /\ Overlaps(i)' = Overlaps(i + 1)
        /\ \A f \in Fights : Brings(i, f)' => Brings(i + 1, f)
    BY <1>5, <1>13, <2>1 DEF Same, Issued
  <2>3. \A e \in objToFights' : ~Brings(i, e[2])'
    BY <1>12, <1>17, <2>2
  <2>4. ~Overlaps(i + 1) => /\ \A j \in 1..Waiting : j < i + 1 => Kind(j) \notin {"area", "new"}
                            /\ \A f \in DOMAIN fights : ~Brings(i + 1, f)
    BY <1>1, <2>2 DEF Searches
  <2>5. \A j \in 1..Waiting' :
          j < i => j + 1 \in 1..Waiting /\ j + 1 < i + 1 /\ Kind(j)' = Kind(j + 1)
    BY <1>13, <2>2 DEF Same
  <2> QED
    BY <1>1, <1>11, <2>2, <2>3, <2>4, <2>5
<1>19. FightsRight' /\ Memory'
  BY <1>1, <1>2, <1>3, <1>10, <1>11, <1>15 DEF FightsRight, Grows
<1>20. \A f \in DOMAIN fights' :
        /\ fights'[f].status \in Stages /\ fights'[f].over \in BOOLEAN
        /\ DOMAIN fights'[f].objs \subseteq Ids
        /\ \A t \in DOMAIN fights'[f].objs : fights'[f].objs[t] \in {t, Junk}
  <2>1. \A f \in DOMAIN fights' : fights'[f] \in [status : Stages, objs : Objs, over : BOOLEAN]
    BY <1>19 DEF Memory
  <2>2. \A f \in DOMAIN fights' : fights'[f].objs \in Objs
    BY <2>1
  <2> QED
    BY <1>10, <2>1, <2>2, ObjsGive DEF Grows
<1>21. TypeOK'
  <2>1. objToFights' \subseteq Ids \X Fights
    BY <1>8, <1>9, <1>12
  <2> QED
    BY <1>1, <1>2, <1>3, <1>11, <1>20, <2>1 DEF TypeOK, Keys, Ids
<1>22. LoadedStay'
  <2>1. ASSUME NEW e \in objToFights'
        PROVE  e = <<e[1], e[2]>> /\ e[2] \in DOMAIN fights' /\ e[1] \in DOMAIN fights'[e[2]].objs
    <3>1. PICK r \in rows : e = <<r[2], r[1]>>
      BY <1>9, <1>12, <2>1
    <3> QED
      BY <1>8, <1>10, <1>11, <3>1
  <2> QED
    BY <2>1 DEF LoadedStay, MyFights, Keys
<1>23. AnswersRight'
  BY <1>1, <1>3, <1>15, AnswersKept
<1> QED
  BY <1>6, <1>10, <1>12, <1>16, <1>18, <1>19, <1>21, <1>22, <1>23 DEF BoardIInv, QueueStep

\* The matches are loaded, and the load is over.
LEMMA ChallBoard ==
  ASSUME BoardIInv, InitFightingChallBack
  PROVE  BoardIInv' /\ Grows /\ \A f \in DOMAIN fights : fights'[f].objs = fights[f].objs
<1>1. /\ QueueTypes /\ AnswersRight /\ FightsRight /\ Loading /\ Searches /\ TypeOK /\ LoadedStay
      /\ Memory /\ DOMAIN fights \subseteq Fights
  BY BoardFacts DEF FightsRight
<1>2. /\ Handle("chall") /\ index' = index /\ recommend' = recommend /\ initOver' = TRUE
      /\ pending' = pending /\ objToFights' = objToFights
      /\ fights' = [f \in DOMAIN fights |->
                      [fights[f] EXCEPT !.over = @ /\ f \notin Head(answers).res]]
  BY DEF InitFightingChallBack
<1>3. /\ answers # <<>> /\ answers' = Tail(answers)
      /\ 1 \in 1..Waiting /\ Kind(1) = "chall"
      /\ posted' = posted /\ statusRow' = statusRow /\ entrantRows' = entrantRows
      /\ lost' = lost /\ clock' = clock
  BY <1>2, HeadIs
<1>4. QueueStep(1, <<>>)
  <2>1. <<>> \in Seq(Queries) /\ pending' = pending \o <<>>
    BY <1>1, <1>2 DEF QueueTypes
  <2> QED
    BY <1>1, <1>3, <2>1, HandleStep
<1>5. Grows /\ \A f \in DOMAIN fights : fights'[f].objs = fights[f].objs
  <2>1. PICK res : res = Head(answers).res
    OBVIOUS
  <2> QED
    BY <1>1, <1>2, <2>1, ChallGrows
<1>6. FightsRight' /\ TypeOK' /\ LoadedStay'
  <2>1. /\ clock' \in 0..MaxClock /\ entrantRows' \subseteq Fights \X (Teams \cup {Junk})
        /\ initOver' \in BOOLEAN
    BY <1>1, <1>2, <1>3 DEF TypeOK
  <2> QED
    BY <1>1, <1>2, <1>3, <1>5, <2>1, GrowsKeeps
<1>7. /\ Waiting \in Nat /\ Waiting' = Waiting - 1
      /\ \A i \in 1..Waiting' : /\ i \in Int /\ i + 1 \in 1..Waiting /\ i + 1 > 1
                                /\ Kind(i)' = Kind(i + 1) /\ Overlaps(i)' = Overlaps(i + 1)
                                /\ Kind(i + 1) = "new" =>
                                     \A f \in Fights : Brings(i, f)' => Brings(i + 1, f)
  BY <1>4, Shorter DEF Same
<1>8. \A i \in 1..Waiting' : Kind(i)' \notin Loads
  <2>1. \A i \in 1..Waiting : i > 1 => Kind(i) \notin Loads
    BY <1>1, <1>3 DEF Loading, Loads
  <2> QED
    BY <1>7, <2>1
<1>9. Loading'
  <2>1. \A i \in 1..Waiting' : Kind(i)' # "area" /\ Kind(i)' # "objs"
    BY <1>8 DEF Loads
  <2> QED
    BY <1>2, <1>8, <2>1 DEF Loading
<1>10. Searches'
  <2>1. SUFFICES ASSUME NEW i \in 1..Waiting', Kind(i)' = "new"
        PROVE  /\ \A e \in objToFights' : ~Brings(i, e[2])'
               /\ ~Overlaps(i)' =>
                     /\ \A j \in 1..Waiting' : j < i => Kind(j)' \notin {"area", "new"}
                     /\ \A f \in DOMAIN fights' : ~Brings(i, f)'
    BY DEF Searches
  <2>2. i + 1 \in 1..Waiting /\ Kind(i + 1) = "new" /\ Overlaps(i)' = Overlaps(i + 1)
        /\ \A f \in Fights : Brings(i, f)' => Brings(i + 1, f)
    BY <1>7, <2>1
  <2>3. /\ \A e \in objToFights : ~Brings(i + 1, e[2]) /\ e[2] \in Fights
        /\ ~Overlaps(i + 1) => /\ \A j \in 1..Waiting : j < i + 1 => Kind(j) \notin {"area", "new"}
                               /\ \A f \in DOMAIN fights : ~Brings(i + 1, f)
    BY <1>1, <2>2 DEF Searches, TypeOK
  <2>4. \A j \in 1..Waiting' : j < i => j + 1 \in 1..Waiting /\ j + 1 < i + 1 /\ Kind(j)' = Kind(j + 1)
    BY <1>7
  <2>5. DOMAIN fights' = DOMAIN fights
    BY <1>5 DEF Grows
  <2> QED
    BY <1>1, <1>2, <2>2, <2>3, <2>4, <2>5
<1>11. AnswersRight'
  BY <1>1, <1>3, AnswersKept DEF Old
<1> QED
  BY <1>4, <1>5, <1>6, <1>9, <1>10, <1>11 DEF BoardIInv, QueueStep

\* The minute: a search is issued, and once the load is over every fight is driven.
Driven ==
  /\ DOMAIN fights' = DOMAIN fights
  /\ \A f \in DOMAIN fights :
       /\ fights'[f].objs = fights[f].objs
       /\ Order(fights[f].status) <= Order(fights'[f].status)

LEMMA TickBoard ==
  ASSUME BoardIInv, Tick
  PROVE  BoardIInv' /\ Driven
<1>1. /\ QueueTypes /\ AnswersRight /\ FightsRight /\ Loading /\ Searches /\ TypeOK /\ LoadedStay
      /\ Memory /\ DOMAIN fights \subseteq Fights
  BY BoardFacts DEF FightsRight
<1>2. /\ pending' = pending \o <<Query("new", LastId), Query("rec", 0)>>
      /\ posted' = posted /\ entrantRows' = entrantRows /\ answers' = answers /\ lost' = lost
      /\ index' = index /\ objToFights' = objToFights /\ recommend' = recommend
      /\ initOver' = initOver /\ clock' = clock
      /\ initOver => /\ fights' = [f \in DOMAIN fights |-> Controlled(f)]
                     /\ statusRow' = [f \in Fights |-> IF f \in DOMAIN fights /\ Written(f)
                                                       THEN fights'[f].status ELSE statusRow[f]]
      /\ ~initOver => fights' = fights /\ statusRow' = statusRow
  BY DEF Tick
\* The fights.
<1>3. /\ DOMAIN fights' = DOMAIN fights /\ Memory'
      /\ \A f \in DOMAIN fights : /\ fights'[f].objs = fights[f].objs
                                  /\ Order(fights[f].status) <= Order(fights'[f].status)
                                  /\ fights'[f].status \in Stages /\ fights'[f].over \in BOOLEAN
  <2>1. CASE initOver
    <3>1. \A f \in DOMAIN fights :
            /\ fights'[f] = Controlled(f)
            /\ Controlled(f) \in [status : Stages, objs : Objs, over : BOOLEAN]
            /\ Controlled(f).objs = fights[f].objs
            /\ Order(fights[f].status) <= Order(Controlled(f).status)
      BY <1>1, <1>2, <2>1, ControlledIs
    <3>2. DOMAIN fights' = DOMAIN fights /\ fights' = [f \in DOMAIN fights |-> fights'[f]]
      BY <1>2, <2>1
    <3>3. Memory'
      BY <3>1, <3>2 DEF Memory
    <3>4. \A f \in DOMAIN fights : fights'[f] \in [status : Stages, objs : Objs, over : BOOLEAN]
      BY <3>1
    <3> QED
      BY <3>1, <3>2, <3>3, <3>4
  <2>2. CASE ~initOver
    <3>1. fights' = fights
      BY <1>2, <2>2
    <3>2. \A f \in DOMAIN fights : fights[f].status \in Stages /\ fights[f].over \in BOOLEAN
      BY <1>1 DEF TypeOK
    <3>3. \A f \in DOMAIN fights : Order(fights[f].status) <= Order(fights[f].status)
      BY <3>2 DEF Order, Stages
    <3> QED
      BY <1>1, <2>2, <3>1, <3>2, <3>3 DEF Memory
  <2> QED
    BY <2>1, <2>2
<1>4. Driven
  BY <1>3 DEF Driven
\* The statuses.
<1>5. statusRow' \in [Fights -> Stages]
  BY <1>1, <1>2, <1>3 DEF TypeOK
<1>6. /\ Old \subseteq Old' /\ Old' \subseteq posted
      /\ \A f \in DOMAIN fights' : fights'[f].status # "set" => f \in Old'
      /\ ~initOver => Old' = Old
  <2>1. CASE initOver
    <3>1. \A f \in DOMAIN fights :
            /\ fights'[f] = Controlled(f) /\ fights[f].status \in Stages
            /\ fights'[f].status \in Stages
            /\ Order(fights[f].status) <= Order(fights'[f].status)
      BY <1>1, <1>2, <1>3, <2>1 DEF TypeOK
    <3>2. \A f \in DOMAIN fights :
            fights'[f].status = "set" => fights[f].status = "set"
      BY <3>1 DEF Order, Stages
    <3>3. \A f \in DOMAIN fights :
            fights'[f].status # "set" => f \in Old \/ fights'[f].status # fights[f].status
      BY <1>1 DEF FightsRight
    <3>4. \A f \in DOMAIN fights : Written(f) => fights'[f].status # "set"
      <4>1. ASSUME NEW f \in DOMAIN fights, fights'[f].status = "set"
            PROVE  ~Written(f)
        <5>1. Controlled(f).status = "set" /\ fights[f].status = "set"
          BY <3>1, <3>2, <4>1
        <5>2. ~(clock >= Posting[f].stop /\ Controlled(f).over)
          BY <1>1, <5>1, SetIsNotOver
        <5> QED
          BY <5>1, <5>2 DEF Written
      <4> QED
        BY <4>1
    <3>5. /\ \A f \in Fights \ DOMAIN fights : statusRow'[f] = statusRow[f]
          /\ \A f \in DOMAIN fights :
               statusRow'[f] = IF Written(f) THEN fights'[f].status ELSE statusRow[f]
      BY <1>1, <1>2, <2>1
    <3>6. \A f \in DOMAIN fights : fights'[f].status # fights[f].status => Written(f)
      BY <3>1 DEF Written
    <3>7. Old \subseteq Old'
      BY <1>1, <3>4, <3>5 DEF Old
    <3>8. Old' \subseteq Old \cup DOMAIN fights
      BY <3>5 DEF Old
    <3>9. \A f \in DOMAIN fights' : fights'[f].status # "set" => f \in Old'
      <4>1. ASSUME NEW f \in DOMAIN fights, fights'[f].status # fights[f].status,
                   fights'[f].status # "set"
            PROVE  f \in Old'
        BY <1>1, <3>5, <3>6, <4>1 DEF Old
      <4> HIDE DEF Old
      <4> QED
        BY <1>3, <3>3, <3>7, <4>1
    <3>10. Old \subseteq posted /\ DOMAIN fights \subseteq posted
      BY <1>1 DEF FightsRight, TypeOK
    <3> HIDE DEF Old
    <3> QED
      BY <2>1, <3>7, <3>8, <3>9, <3>10
  <2>2. CASE ~initOver
    <3>1. Old' = Old /\ fights' = fights
      BY <1>2, <2>2 DEF Old
    <3> QED
      BY <1>1, <3>1 DEF FightsRight
  <2> QED
    BY <2>1, <2>2
<1>7. FightsRight'
  <2> HIDE DEF Old
  <2> QED
    BY <1>1, <1>2, <1>3, <1>6 DEF FightsRight
<1>8. TypeOK'
  BY <1>1, <1>2, <1>3, <1>5 DEF TypeOK, Keys
<1>9. LoadedStay'
  BY <1>1, <1>2, <1>3 DEF LoadedStay, MyFights, Keys
\* The queue.
<1>10. PICK q : q = Query("new", LastId)
  OBVIOUS
<1>11. PICK p : p = Query("rec", 0)
  OBVIOUS
<1>12. /\ q \in Queries /\ q.kind = "new" /\ p \in Queries /\ p.kind = "rec"
       /\ q.overlaps = Outstanding({"area", "new"}) /\ q.last = LastId
  <2>1. LastId \in Nat
    BY <1>1, LastIdIs
  <2>2. Outstanding({"area", "new"}) \in BOOLEAN
    BY DEF Outstanding
  <2> QED
    BY <1>10, <1>11, <2>1, <2>2 DEF Query, Queries, Kinds
<1>13. /\ <<q, p>> \in Seq(Queries) /\ Len(<<q, p>>) = 2 /\ <<q, p>>[1] = q /\ <<q, p>>[2] = p
  BY <1>12
<1>14. QueueStep(0, <<q, p>>)
  BY <1>1, <1>2, <1>10, <1>11, <1>13, IssueStep
<1>15. /\ Waiting \in Nat /\ Waiting' = Waiting + 2
       /\ \A i \in 1..Waiting' :
            \/ i \in 1..Waiting /\ Same(i, i)
            \/ i = Waiting + 1 /\ Issued(i, q)
            \/ i = Waiting + 2 /\ Issued(i, p)
  <2>1. /\ Waiting \in Nat /\ Waiting' = (Waiting - 0) + 2
        /\ \A i \in 1..Waiting' :
              \/ /\ i + 0 \in 1..Waiting /\ i \in 1..(Waiting - 0) /\ Same(i, i + 0)
              \/ \E k \in 1..2 : i = (Waiting - 0) + k /\ Issued(i, <<q, p>>[k])
    BY <1>13, <1>14, Places
  <2>2. Waiting' = Waiting + 2
    BY <2>1
  <2>3. ASSUME NEW i \in 1..Waiting'
        PROVE  \/ i \in 1..Waiting /\ Same(i, i)
               \/ i = Waiting + 1 /\ Issued(i, q)
               \/ i = Waiting + 2 /\ Issued(i, p)
    <3>1. CASE i + 0 \in 1..Waiting /\ Same(i, i + 0)
      <4>1. i + 0 = i
        BY <2>2
      <4> QED
        BY <3>1, <4>1
    <3>2. CASE \E k \in 1..2 : i = (Waiting - 0) + k /\ Issued(i, <<q, p>>[k])
      <4>1. PICK k \in 1..2 : i = (Waiting - 0) + k /\ Issued(i, <<q, p>>[k])
        BY <3>2
      <4>2. k = 1 \/ k = 2
        BY <4>1
      <4> QED
        BY <1>13, <2>1, <4>1, <4>2
    <3> QED
      BY <2>1, <3>1, <3>2
  <2> QED
    BY <2>1, <2>2, <2>3
<1>16. \A i \in 1..Waiting' : Kind(i)' \in Loads => i \in 1..Waiting /\ Kind(i)' = Kind(i)
  BY <1>12, <1>15 DEF Same, Issued, Loads
<1>17. \A i \in 1..Waiting' : Kind(i)' = "new" =>
         \/ /\ i \in 1..Waiting /\ Kind(i) = "new" /\ Overlaps(i)' = Overlaps(i)
            /\ \A f \in Fights : Brings(i, f)' => Brings(i, f)
         \/ /\ i = Waiting + 1 /\ Overlaps(i)' = Outstanding({"area", "new"})
            /\ \A f \in Fights : Brings(i, f)' => f > LastId
  BY <1>12, <1>15 DEF Same, Issued
<1>18. \A f \in DOMAIN fights : ~(f > LastId)
  <2>1. LastId \in Nat /\ \A f \in DOMAIN fights : f <= LastId
    BY <1>1, LastIdIs
  <2>2. DOMAIN fights \subseteq Nat
    BY <1>1, IdAssumption DEF TypeOK
  <2>3. PICK n : n = LastId
    OBVIOUS
  <2>4. \A f \in DOMAIN fights : f \in Nat /\ n \in Nat /\ f <= n
    BY <2>1, <2>2, <2>3
  <2>5. \A f \in DOMAIN fights : ~(f > n)
    BY <2>4
  <2> QED
    BY <2>3, <2>5
<1>19. Loading'
  <2>1. \A i, j \in 1..Waiting' : Kind(i)' \in Loads /\ Kind(j)' \in Loads => i = j
    BY <1>1, <1>16 DEF Loading
  <2>2. \A i \in 1..Waiting' : Kind(i)' \in Loads => ~initOver'
    BY <1>1, <1>2, <1>16 DEF Loading
  <2>3. ~initOver' => /\ \A f \in DOMAIN fights' : fights'[f].over
                      /\ \A r \in entrantRows' : r[1] \in Old'
    <3> HIDE DEF Old
    <3> QED
      BY <1>1, <1>2, <1>6 DEF Loading
  <2>4. \A i \in 1..Waiting' : Kind(i)' = "area" =>
          i = 1 /\ DOMAIN fights' = {} /\ objToFights' = {}
    BY <1>1, <1>2, <1>3, <1>16 DEF Loading, Loads
  <2>5. \A i \in 1..Waiting' : Kind(i)' = "objs" =>
       /\ Old' \cap Built \subseteq DOMAIN fights' /\ objToFights' = {}
       /\ \A j \in 1..Waiting' :
            j > i /\ Kind(j)' = "new" => \A f \in Old' \cap Built : ~Brings(j, f)'
    <3> SUFFICES ASSUME NEW i \in 1..Waiting', Kind(i)' = "objs"
                 PROVE  /\ Old' \cap Built \subseteq DOMAIN fights' /\ objToFights' = {}
                        /\ \A j \in 1..Waiting' :
                             j > i /\ Kind(j)' = "new" => \A f \in Old' \cap Built : ~Brings(j, f)'
      OBVIOUS
    <3>1. i \in 1..Waiting /\ Kind(i) = "objs" /\ Kind(i) \in Loads
      BY <1>16 DEF Loads
    <3>2. ~initOver /\ Old' = Old
      BY <1>1, <1>6, <3>1 DEF Loading
    <3>3. /\ Old \cap Built \subseteq DOMAIN fights /\ objToFights = {}
          /\ \A j \in 1..Waiting :
               j > i /\ Kind(j) = "new" => \A f \in Old \cap Built : ~Brings(j, f)
      BY <1>1, <3>1 DEF Loading
    <3>4. ASSUME NEW j \in 1..Waiting', j > i, Kind(j)' = "new", NEW f \in Old \cap Built
          PROVE  ~Brings(j, f)'
      <4>1. f \in Fights /\ f \in DOMAIN fights
        BY <3>3 DEF Old
      <4>2. CASE /\ j \in 1..Waiting /\ Kind(j) = "new"
                 /\ \A g \in Fights : Brings(j, g)' => Brings(j, g)
        BY <3>3, <3>4, <4>1, <4>2
      <4>3. CASE \A g \in Fights : Brings(j, g)' => g > LastId
        BY <1>18, <4>1, <4>3
      <4> QED
        BY <1>17, <3>4, <4>2, <4>3
    <3> QED
      BY <1>2, <1>3, <3>2, <3>3, <3>4
  <2> HIDE DEF Old
  <2> QED
    BY <2>1, <2>2, <2>3, <2>4, <2>5 DEF Loading
<1>20. Searches'
  <2>1. SUFFICES ASSUME NEW i \in 1..Waiting', Kind(i)' = "new"
        PROVE  /\ \A e \in objToFights' : ~Brings(i, e[2])'
               /\ ~Overlaps(i)' =>
                     /\ \A j \in 1..Waiting' : j < i => Kind(j)' \notin {"area", "new"}
                     /\ \A f \in DOMAIN fights' : ~Brings(i, f)'
    BY DEF Searches
  <2>2. \A e \in objToFights : e[2] \in Fights /\ e[2] \in DOMAIN fights
    BY <1>1 DEF LoadedStay, MyFights, TypeOK
  <2>3. \A j \in 1..Waiting : Kind(j)' = Kind(j)
    BY <1>15 DEF Same
  <2>4. CASE /\ i \in 1..Waiting /\ Kind(i) = "new" /\ Overlaps(i)' = Overlaps(i)
             /\ \A f \in Fights : Brings(i, f)' => Brings(i, f)
    <3>1. /\ \A e \in objToFights : ~Brings(i, e[2])
          /\ ~Overlaps(i) => /\ \A j \in 1..Waiting : j < i => Kind(j) \notin {"area", "new"}
                             /\ \A f \in DOMAIN fights : ~Brings(i, f)
      BY <1>1, <2>4 DEF Searches
    <3>2. \A j \in 1..Waiting' : j < i => j \in 1..Waiting
      BY <1>15, <2>4
    <3> QED
      BY <1>1, <1>2, <1>3, <2>2, <2>3, <2>4, <3>1, <3>2
  <2>5. CASE /\ i = Waiting + 1 /\ Overlaps(i)' = Outstanding({"area", "new"})
             /\ \A f \in Fights : Brings(i, f)' => f > LastId
    <3>1. \A f \in DOMAIN fights : ~Brings(i, f)'
      BY <1>1, <1>18, <2>5
    <3>2. ~Overlaps(i)' => \A j \in 1..Waiting : Kind(j) \notin {"area", "new"}
      BY <1>1, <2>5, OutstandingIs
    <3>3. \A j \in 1..Waiting' : j < i => j \in 1..Waiting
      BY <1>15, <2>5
    <3> QED
      BY <1>2, <1>3, <2>2, <2>3, <3>1, <3>2, <3>3
  <2> QED
    BY <1>17, <2>1, <2>4, <2>5
<1>21. AnswersRight'
  <2>1. Old' = Old \/ \A i \in 1..Len(answers) : answers[i].kind # "area"
    <3>1. CASE ~initOver
      BY <1>6, <3>1
    <3>2. CASE initOver
      <4>1. \A i \in 1..Len(answers) : i \in 1..Waiting /\ Kind(i) = answers[i].kind
        BY <1>1, QueueLengths DEF Waiting, Kind
      <4>2. \A i \in 1..Len(answers) : answers[i].kind \notin Loads
        BY <1>1, <3>2, <4>1 DEF Loading
      <4> QED
        BY <4>2 DEF Loads
    <3> QED
      BY <3>1, <3>2
  <2> QED
    BY <1>1, <1>2, <1>6, <2>1, AnswersKept
<1> QED
  BY <1>4, <1>7, <1>8, <1>9, <1>14, <1>19, <1>20, <1>21 DEF BoardIInv, QueueStep

LEMMA InitBoard == Init => BoardIInv
<1> SUFFICES ASSUME Init PROVE BoardIInv
  OBVIOUS
<1> DEFINE a == [kind |-> "area", last |-> 0, overlaps |-> FALSE]
           r == [kind |-> "rec", last |-> 0, overlaps |-> FALSE]
<1>1. /\ pending = <<a, r>> /\ answers = <<>> /\ fights = [f \in {} |-> 0] /\ index = {}
      /\ objToFights = {} /\ recommend = {} /\ initOver = FALSE /\ clock = 0 /\ lost = 0
      /\ statusRow \in [Fights -> {"set", "apply", "fight"}]
      /\ \A f \in Fights \ posted : statusRow[f] = "set"
      /\ entrantRows \subseteq {f \in posted : statusRow[f] # "set"} \X Teams
  BY DEF Init
<1>2. a \in Queries /\ r \in Queries /\ a.kind = "area" /\ r.kind = "rec"
  BY DEF Queries, Kinds
<1>3. PICK n \in Fights \cup {0} : posted = {f \in Fights : f <= n}
  BY DEF Init
<1> HIDE DEF a, r
<1>4. QueueTypes /\ Len(answers) = 0 /\ Len(pending) = 2 /\ Waiting = 2
  BY <1>1, <1>2 DEF QueueTypes, Waiting
<1>5. Kind(1) = "area" /\ Kind(2) = "rec"
  BY <1>1, <1>2, <1>4 DEF Kind
<1>6. \A i \in 1..Waiting : i = 1 \/ i = 2
  BY <1>4
<1>7. DOMAIN fights = {} /\ Memory
  BY <1>1 DEF Memory
<1>8. Old \subseteq posted /\ posted \subseteq Fights
  BY <1>1, <1>3 DEF Old
<1>9. FightsRight
  <2>1. n \in Nat /\ \A f \in posted : f <= n
    BY <1>3, IdAssumption
  <2>2. index = {<<Posting[f].from, Posting[f].area, f>> :
                   f \in {g \in DOMAIN fights : Posting[g].nextNum = 0 /\ Posting[g].from # "admin"}}
    BY <1>1, <1>7
  <2> HIDE DEF Old
  <2> QED
    BY <1>7, <1>8, <2>1, <2>2 DEF FightsRight
<1>10. Loading
  <2>1. \A i \in 1..Waiting : (Kind(i) \in Loads => i = 1) /\ Kind(i) # "objs"
    BY <1>5, <1>6 DEF Loads
  <2>2. \A e \in entrantRows : e[1] \in Old
    BY <1>1, <1>8 DEF Old
  <2> HIDE DEF Old
  <2> QED
    BY <1>1, <1>7, <2>1, <2>2 DEF Loading, Loads
<1>11. Searches
  BY <1>5, <1>6 DEF Searches
<1>12. AnswersRight
  BY <1>4 DEF AnswersRight
<1>13. TypeOK
  <2>1. MaxClock \in Nat /\ MaxLost \in Nat
    BY BoundAssumption
  <2>2. clock \in 0..MaxClock /\ lost \in 0..MaxLost
    BY <1>1, <2>1
  <2>3. statusRow \in [Fights -> Stages]
    BY <1>1 DEF Stages
  <2>4. entrantRows \subseteq Fights \X (Teams \cup {Junk})
    BY <1>1, <1>8
  <2> QED
    BY <1>1, <1>7, <1>8, <2>2, <2>3, <2>4 DEF TypeOK
<1>14. LoadedStay
  BY <1>1 DEF LoadedStay
<1> QED
  BY <1>4, <1>9, <1>10, <1>11, <1>12, <1>13, <1>14 DEF BoardIInv

LEMMA NextBoard == BoardIInv /\ [Next]_vars => BoardIInv'
<1> SUFFICES ASSUME BoardIInv, [Next]_vars PROVE BoardIInv'
  OBVIOUS
<1>1. CASE ExecuteQuery \/ FailQuery
  BY <1>1, ExecuteBoard
<1>2. CASE HandleNull \/ InitRecommendFightingBack
  BY <1>2, PassedBoard
<1>3. CASE InitAreaFightBack
  BY <1>3, AreaBoard
<1>4. CASE InitNewAreaFightBack
  BY <1>4, NewBoard
<1>5. CASE InitFightingObjBack
  BY <1>5, ObjsBoard
<1>6. CASE InitFightingChallBack
  BY <1>6, ChallBoard
<1>7. CASE Tick
  BY <1>7, TickBoard
<1>8. CASE \/ \E f \in Fights : BracketEnds(f) \/ Post(f)
           \/ \E t \in Teams, f \in Fights : SignUp(t, f)
           \/ Pass \/ UNCHANGED vars
  BY <1>8, QuietBoard
<1> QED
  BY <1>1, <1>2, <1>3, <1>4, <1>5, <1>6, <1>7, <1>8 DEF Next, Callback

-----------------------------------------------------------------------------
(***************************************************************************)
(* FightBoard: the theorems.                                               *)
(***************************************************************************)

\* The search of one region finds a fight when there is one.
LEMMA SmallestIs ==
  ASSUME NEW S \in SUBSET Fights
  PROVE  (S = {} => Smallest(S) = 0) /\ (S # {} => Smallest(S) \in S)
<1>1. CASE S # {}
  <2>1. S \in SUBSET Nat
    BY IdAssumption
  <2>2. \E i \in S : \A j \in S : i <= j
    BY <1>1, <2>1, FirstNumber
  <2> QED
    BY <1>1, <2>2 DEF Smallest
<1> QED
  BY <1>1 DEF Smallest

LEMMA FinderIsSound == FightsRight /\ TypeOK => FinderSound
<1> SUFFICES ASSUME FightsRight, TypeOK, NEW cafe \in Cafes
             PROVE  LET own(f) == CASE Posting[f].from = "provinceD" -> cafe.province = Posting[f].area
                                    [] Posting[f].from = "cityD"     -> cafe.city = Posting[f].area
                                    [] Posting[f].from = "coffeenet" -> cafe.id = Posting[f].area
                                    [] OTHER -> FALSE
                        open == {f \in DOMAIN fights : Posting[f].nextNum = 0 /\ own(f)}
                    IN /\ CafeFights(cafe) = {f \in open : Shown(f)}
                       /\ \A wanted \in Fights :
                            LET fit == {f \in open : wanted \in Upwards[f]}
                                f   == Offered(cafe, wanted)
                            IN IF f = 0 THEN fit = {} \/ \E g \in fit : ~Shown(g)
                                        ELSE f \in CafeFights(cafe) \cap fit
  BY DEF FinderSound
<1> DEFINE own(f) == CASE Posting[f].from = "provinceD" -> cafe.province = Posting[f].area
                       [] Posting[f].from = "cityD"     -> cafe.city = Posting[f].area
                       [] Posting[f].from = "coffeenet" -> cafe.id = Posting[f].area
                       [] OTHER -> FALSE
           open == {f \in DOMAIN fights : Posting[f].nextNum = 0 /\ own(f)}
           At(from, area) == {f \in DOMAIN fights : /\ Posting[f].nextNum = 0
                                                    /\ Posting[f].from = from /\ Posting[f].area = area}
<1>1. DOMAIN fights \subseteq Fights /\ 0 \notin Fights
  BY IdAssumption DEF TypeOK
\* The index has an entry for each of them.
<1>2. \A from, area, f : from # "admin" => (<<from, area, f>> \in index <=> f \in At(from, area))
  BY DEF FightsRight
<1>3. open = At("provinceD", cafe.province) \cup At("cityD", cafe.city) \cup At("coffeenet", cafe.id)
  OBVIOUS
<1> HIDE DEF open, At, own
<1>4. CafeFights(cafe) = {f \in open : Shown(f)}
  <2>1. \A f : /\ <<"coffeenet", cafe.id, f>> \in index <=> f \in At("coffeenet", cafe.id)
               /\ <<"provinceD", cafe.province, f>> \in index <=> f \in At("provinceD", cafe.province)
               /\ <<"cityD", cafe.city, f>> \in index <=> f \in At("cityD", cafe.city)
    BY <1>2
  <2>2. open \subseteq DOMAIN fights
    BY DEF open
  <2> QED
    BY <1>3, <2>1, <2>2 DEF CafeFights
<1>5. ASSUME NEW wanted \in Fights
      PROVE  LET fit == {f \in open : wanted \in Upwards[f]}
                 f   == Offered(cafe, wanted)
             IN IF f = 0 THEN fit = {} \/ \E g \in fit : ~Shown(g)
                         ELSE f \in CafeFights(cafe) \cap fit
  <2> DEFINE fit == {f \in open : wanted \in Upwards[f]}
             In(from, area) == {f \in At(from, area) : wanted \in Upwards[f]}
  <2>1. ASSUME NEW from, NEW area, from # "admin"
        PROVE  /\ In(from, area) = {} => FoundIn(from, area, wanted) = 0
               /\ In(from, area) # {} => FoundIn(from, area, wanted) \in In(from, area)
    <3>1. In(from, area) = {f \in Fights : <<from, area, f>> \in index /\ wanted \in Upwards[f]}
      <4>1. At(from, area) \subseteq Fights
        BY <1>1 DEF At
      <4> QED
        BY <1>2, <2>1, <4>1
    <3>2. FoundIn(from, area, wanted) = Smallest(In(from, area)) /\ In(from, area) \in SUBSET Fights
      BY <3>1 DEF FoundIn
    <3> QED
      BY <3>2, SmallestIs
  <2> DEFINE P == In("provinceD", cafe.province)
             C == In("cityD", cafe.city)
             K == In("coffeenet", cafe.id)
             p == FoundIn("provinceD", cafe.province, wanted)
             c == FoundIn("cityD", cafe.city, wanted)
             k == FoundIn("coffeenet", cafe.id, wanted)
  <2>2. /\ (P = {} => p = 0) /\ (P # {} => p \in P)
        /\ (C = {} => c = 0) /\ (C # {} => c \in C)
        /\ (K = {} => k = 0) /\ (K # {} => k \in K)
    BY <2>1
  <2>3. fit = (P \cup C) \cup K /\ fit \subseteq open
    BY <1>3
  <2>4. 0 \notin fit
    BY <1>1 DEF open
  <2>5. Found(cafe, wanted) = IF p # 0 THEN p ELSE IF c # 0 THEN c ELSE k
    BY DEF Found
  <2> HIDE DEF P, C, K, p, c, k, fit
  <2>6. \/ Found(cafe, wanted) = 0 /\ fit = {}
        \/ Found(cafe, wanted) # 0 /\ Found(cafe, wanted) \in fit
    BY <2>2, <2>3, <2>4, <2>5
  <2>7. Offered(cafe, wanted) = IF Found(cafe, wanted) # 0 /\ Shown(Found(cafe, wanted))
                                THEN Found(cafe, wanted) ELSE 0
    BY DEF Offered
  <2>8. IF Offered(cafe, wanted) = 0 THEN fit = {} \/ \E g \in fit : ~Shown(g)
                                     ELSE Offered(cafe, wanted) \in CafeFights(cafe) \cap fit
    BY <1>4, <2>3, <2>6, <2>7
  <2> QED
    BY <2>8 DEF fit
<1> QED
  BY <1>4, <1>5 DEF open, own

\* For any fights, teams and cafés, and however many queries fail, overlap and are
\* answered late (fight_manager.cpp): every entrant the start-up loaded stays in the
\* fight his row names and finds it among his own, and the home page's search and the
\* list of a café's fights are right and agree.
THEOREM BoardIsSound == Spec => []BoardInv
<1>1. BoardIInv => BoardInv
  BY FinderIsSound DEF BoardIInv, BoardInv
<1> QED
  BY <1>1, InitBoard, NextBoard, PTL DEF Spec

\* What a step may take from a fight in memory.
Reset ==
  (\E f \in DOMAIN fights :
     \/ ~(Keys(f) \subseteq DOMAIN fights'[f].objs)
     \/ Order(fights'[f].status) < Order(fights[f].status))
  => Head(answers).kind = "new" /\ Head(answers).overlaps

JoinLate ==
  \A f \in DOMAIN fights :
    (fights[f].status = "fight" /\ ~(DOMAIN fights'[f].objs \subseteq Keys(f)))
      => \E c \in DOMAIN fights : /\ Posting[c].parent = f
                                  /\ fights'[c].over /\ ~fights[c].over
         \/ ~initOver

LEMMA OrderIsNat == \A st : Order(st) \in Nat
BY DEF Order

LEMMA GrowsNoReset == Grows => Reset
<1> SUFFICES ASSUME Grows, NEW f \in DOMAIN fights
             PROVE  /\ Keys(f) \subseteq DOMAIN fights'[f].objs
                    /\ ~(Order(fights'[f].status) < Order(fights[f].status))
  BY DEF Reset
<1>1. fights'[f].status = fights[f].status /\ Keys(f) \subseteq DOMAIN fights'[f].objs
  BY DEF Grows
<1> QED
  BY <1>1, OrderIsNat

LEMMA StillHere ==
  ASSUME fights' = fights
  PROVE  Reset /\ JoinLate
BY OrderIsNat DEF Reset, JoinLate, Keys

LEMMA NextSteps == BoardIInv /\ [Next]_vars => Reset /\ JoinLate
<1> SUFFICES ASSUME BoardIInv, [Next]_vars PROVE Reset /\ JoinLate
  OBVIOUS
<1>0. /\ QueueTypes /\ Len(answers) \in Nat /\ FightsRight /\ Memory /\ TypeOK /\ Loading /\ Searches
  BY BoardFacts DEF FightsRight
<1>1. CASE \/ ExecuteQuery \/ FailQuery \/ HandleNull \/ InitRecommendFightingBack
           \/ (\E f \in Fights : Post(f)) \/ Pass \/ UNCHANGED vars
  <2>1. fights' = fights
    BY <1>1 DEF ExecuteQuery, FailQuery, HandleNull, InitRecommendFightingBack, Post, Pass, vars
  <2> QED
    BY <2>1, StillHere
<1>2. CASE InitAreaFightBack
  <2>1. 1 \in 1..Waiting /\ Kind(1) = "area"
    BY <1>2, HeadIs DEF InitAreaFightBack
  <2>2. DOMAIN fights = {}
    BY <1>0, <2>1 DEF Loading
  <2> QED
    BY <2>2 DEF Reset, JoinLate
<1>3. CASE InitNewAreaFightBack
  <2>1. /\ Handle("new") /\ Entered(Head(answers).res)
    BY <1>3 DEF InitNewAreaFightBack
  <2>2. /\ Head(answers).kind = "new" /\ ~Head(answers).null /\ RightAnswer(Head(answers))
        /\ answers # <<>> /\ 1 \in 1..Waiting /\ Kind(1) = "new"
        /\ posted' = posted /\ statusRow' = statusRow
        /\ \A f : Brings(1, f) <=> f \in DOMAIN Head(answers).res
    BY <2>1, HeadIs
  <2>3. PICK rows : rows = Head(answers).res
    OBVIOUS
  <2>4. /\ DOMAIN rows \subseteq posted
        /\ \A f \in DOMAIN rows : rows[f] \in Stages /\ (rows[f] # "set" => f \in Old)
    BY <2>2, <2>3 DEF RightAnswer
  <2>5. /\ \A f \in DOMAIN rows \cap Built : fights'[f].over /\ DOMAIN fights'[f].objs = {}
        /\ \A f \in DOMAIN fights \ DOMAIN rows : fights'[f] = fights[f]
    BY <1>0, <2>1, <2>2, <2>3, <2>4, EnteredIs
  <2>6. JoinLate
    <3> SUFFICES ASSUME NEW f \in DOMAIN fights PROVE DOMAIN fights'[f].objs \subseteq Keys(f)
      BY DEF JoinLate
    <3>1. f \in Built
      BY <1>0 DEF FightsRight
    <3> QED
      BY <2>5, <3>1 DEF Keys
  <2>7. Reset
    <3>1. CASE Head(answers).overlaps
      BY <2>2, <3>1 DEF Reset
    <3>2. CASE ~Head(answers).overlaps
      <4>1. Overlaps(1) = Head(answers).overlaps
        <5>1. Head(answers) = answers[1] /\ Len(answers) > 0
          BY <1>0, <2>2, HeadTailProperties DEF QueueTypes
        <5> QED
          BY <1>0, <5>1 DEF Overlaps
      <4>2. \A f \in DOMAIN fights : f \notin DOMAIN rows
        BY <1>0, <2>2, <2>3, <3>2, <4>1 DEF Searches
      <4>3. \A f \in DOMAIN fights : fights'[f] = fights[f]
        BY <2>5, <4>2
      <4> QED
        BY <4>3, OrderIsNat DEF Reset, Keys
    <3> QED
      BY <3>1, <3>2
  <2> QED
    BY <2>6, <2>7
<1>4. CASE InitFightingObjBack
  <2>1. Grows /\ ~initOver
    BY <1>4, ObjsBoard
  <2>2. JoinLate
    BY <2>1 DEF JoinLate, Grows
  <2> QED
    BY <2>1, <2>2, GrowsNoReset
<1>5. CASE InitFightingChallBack
  <2>1. Grows /\ \A f \in DOMAIN fights : fights'[f].objs = fights[f].objs
    BY <1>5, ChallBoard
  <2>2. JoinLate
    BY <2>1 DEF JoinLate, Keys
  <2> QED
    BY <2>1, <2>2, GrowsNoReset
<1>6. CASE Tick
  <2>1. Driven
    BY <1>6, TickBoard
  <2>2. ASSUME NEW f \in DOMAIN fights
        PROVE  /\ DOMAIN fights'[f].objs = Keys(f)
               /\ ~(Order(fights'[f].status) < Order(fights[f].status))
    <3>1. fights'[f].objs = fights[f].objs /\ Order(fights[f].status) <= Order(fights'[f].status)
      BY <2>1 DEF Driven
    <3>2. Order(fights[f].status) \in Nat /\ Order(fights'[f].status) \in Nat
      BY OrderIsNat
    <3> QED
      BY <3>1, <3>2 DEF Keys
  <2> QED
    BY <2>2 DEF Reset, JoinLate
<1>7. ASSUME NEW f \in Fights, BracketEnds(f)
      PROVE  Reset /\ JoinLate
  <2>1. /\ Grows /\ f \in DOMAIN fights /\ ~fights[f].over /\ fights'[f].over
        /\ \A g \in DOMAIN fights : g # Posting[f].parent => fights'[g].objs = fights[g].objs
    BY <1>0, <1>7, BracketGrows
  <2>2. JoinLate
    BY <2>1 DEF JoinLate, Keys
  <2> QED
    BY <2>1, <2>2, GrowsNoReset
<1>8. ASSUME NEW t \in Teams, NEW f \in Fights, SignUp(t, f)
      PROVE  Reset /\ JoinLate
  <2>1. /\ Grows /\ \A g \in DOMAIN fights : g # f => fights'[g] = fights[g]
        /\ fights[f].status = "apply"
    BY <1>0, <1>8, SignUpGrows DEF SignUp
  <2>2. JoinLate
    BY <2>1 DEF JoinLate, Keys
  <2> QED
    BY <2>1, <2>2, GrowsNoReset
<1> QED
  BY <1>1, <1>2, <1>3, <1>4, <1>5, <1>6, <1>7, <1>8 DEF Next, Callback

\* For any fights and any order of queries and answers: a fight in memory loses an
\* entrant or falls back to an earlier status only when the search that was handled
\* had been issued while the load or another search was unanswered.
THEOREM ResetsAreOverlaps == Spec => ResetOnlyByOverlap
<1>1. BoardIInv /\ [Next]_vars => [Reset]_vars
  BY NextSteps
<1> QED
  BY <1>1, InitBoard, NextBoard, PTL DEF Spec, ResetOnlyByOverlap, Reset

\* For any ladder of fights: once the load is over nobody joins a running fight but
\* the winners of a fight below it, in the step in which that fight's bracket ends.
THEOREM LateJoinersWon == Spec => OnlyWinnersJoinLate
<1>1. BoardIInv /\ [Next]_vars => [JoinLate]_vars
  BY NextSteps
<1> QED
  BY <1>1, InitBoard, NextBoard, PTL DEF Spec, OnlyWinnersJoinLate, JoinLate

=============================================================================
