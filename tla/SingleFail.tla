----------------------------- MODULE SingleFail -----------------------------
(***************************************************************************)
(* One single-elimination fight: Fight::contrl (fight.cpp) driving a       *)
(* FightRuleSingleFail (fight_rule_single_fail.cpp, fight_rule.cpp).       *)
(*                                                                         *)
(* Everything here runs on the process' main timer thread, so each message *)
(* handler and each minute tick is one atomic action.  The entrants are    *)
(* the rows FightDb loaded at start-up, which m_objs keys by their own id  *)
(* (FightRule::addObj).  Database writes, replies and the readiness of the *)
(* single players do not feed back into the bracket and are left out.      *)
(*                                                                         *)
(* An operator whose name ends in _Slip<What> is not part of the model: it *)
(* is the operator that follows it with one plausible programming slip,    *)
(* which the property named in PROJECT.json's "mutants" must notice.       *)
(***************************************************************************)
EXTENDS Integers, FiniteSets, Sequences

CONSTANTS
  Teams,      \* ids of the teams that may be entered (0 is "no team")
  Bio,        \* games per match, m_rule2: 1, 3, 5 or 7
  NextLvNum   \* Fight::getNextLvNum of the parent fight: how many it takes

ASSUME TeamsAssumption == Teams \subseteq Nat \ {0} /\ IsFiniteSet(Teams)
ASSUME BioAssumption   == Bio \in {1, 3, 5, 7}
ASSUME NumAssumption   == NextLvNum \in Nat

VARIABLES
  status,     \* FightStatus: "set", "apply", "fight", "stop"
  reached,    \* which of the three configured moments have passed
  objs,       \* m_objs: team id -> FightObjData
  challs,     \* m_challDatas: key -> ChallengeData, the matches of this round
  promoted,   \* what stopRule handed to the parent's addNextLvMem, call by call
  fault       \* the rule spins forever or dereferences end()

vars == <<status, reached, objs, challs, promoted, fault>>

Moments  == {"startApply", "startFight", "stopFight"}
Result   == {1, 2}                           \* 1 won, 2 lost, 0 not reported
NoMatch  == [k \in {} |-> 0]

FreshObj ==
  [status |-> 1, value |-> 0, valueScore |-> 0, position |-> 0,
   competitor |-> 0, house |-> FALSE]

Match(a, b) == [objId1 |-> a, objId2 |-> b, result1 |-> 0, result2 |-> 0]

(***************************************************************************)
(* Seeding: initPosition.                                                  *)
(***************************************************************************)

\* What getPositionVal has after k turns of its loop.
Doubled[k \in Nat] == IF k = 0 THEN 2 ELSE 2 * Doubled[k - 1]

\* The size of the bracket: the least power of two, at least two, that holds num.
PositionVal(num) ==
  IF num = 0 THEN 0
  ELSE Doubled[CHOOSE k \in 0..num : /\ Doubled[k] >= num
                                     /\ \A j \in 0..(k - 1) : Doubled[j] < num]

\* The place of t in the id order of m_objs.
Rank(S, t) == Cardinality({u \in S : u < t})

Position_SlipUnpaired(S, t) == Rank(S, t)

\* Seeds i and size - 1 - i meet, at the positions 2i and 2i + 1.
Position(S, t) ==
  LET size == PositionVal(Cardinality(S))
      r    == Rank(S, t)
  IN IF r < size \div 2 THEN 2 * r ELSE 2 * (size - 1 - r) + 1

\* The team seeded against t, 0 when t has a bye.
Opponent(S, t) ==
  LET r == PositionVal(Cardinality(S)) - 1 - Rank(S, t)
  IN IF r < Cardinality(S) THEN CHOOSE u \in S : Rank(S, u) = r ELSE 0

\* The better seeds: each of them opens one match.
UpperHalf(S) == {t \in S : Rank(S, t) < PositionVal(Cardinality(S)) \div 2}

\* m_rule->start(): seed every entrant and open the first round.
InitPosition ==
  LET S == DOMAIN objs
  IN /\ objs' = [t \in S |-> [objs[t] EXCEPT !.position = Position(S, t),
                                             !.competitor = Opponent(S, t)]]
     /\ challs' = [k \in DOMAIN challs \cup UpperHalf(S) |->
                     IF k \in UpperHalf(S) THEN Match(k, Opponent(S, k))
                                           ELSE challs[k]]

(***************************************************************************)
(* The rule's loop: FightRuleSingleFail::contrl, over o = m_objs and       *)
(* c = m_challDatas.                                                       *)
(***************************************************************************)

BioOver(score1, score2) == Bio # 7 /\ score1 + score2 >= Bio

\* The loop returns at the first match whose objId1 is not an entrant.
Visited(o, c) ==
  {k \in DOMAIN c :
     \A b \in DOMAIN c : c[b].objId1 \notin DOMAIN o => k < b}

Byes_SlipForgotten(o, c) == {}

\* Seats nobody fills.
Byes(o, c) == {k \in Visited(o, c) : c[k].objId2 = 0}

\* Both sides have reported and they agree who won.
Decided(o, c) ==
  {k \in Visited(o, c) :
     /\ c[k].objId2 # 0
     /\ <<c[k].result1, c[k].result2>> \in {<<1, 2>>, <<2, 1>>}}

\* The winner of the last game of match k, and the other team.
Winner(c, k) == IF c[k].result1 = 2 THEN c[k].objId2 ELSE c[k].objId1
Loser(c, k)  == IF c[k].result1 = 2 THEN c[k].objId1 ELSE c[k].objId2

\* An agreed result whose objId2 is not an entrant: `continue' repeats it forever.
Spins(o, c) == \E k \in Decided(o, c) : c[k].objId2 \notin DOMAIN o

\* The agreed games that end their match.
Ended(o, c) ==
  {k \in Decided(o, c) :
     BioOver(o[Winner(c, k)].valueScore + 1, o[Loser(c, k)].valueScore)}

Erased(o, c) == Byes(o, c) \cup Ended(o, c)

\* A match is over for obj: scores, opponent and house are cleared.
Leave(obj) ==
  [obj EXCEPT !.valueScore = 0, !.competitor = 0, !.house = FALSE]

Advance(obj)   == [Leave(obj) EXCEPT !.value = @ + 1]
Eliminate(obj) == [Leave(obj) EXCEPT !.status = 2]

\* Every match names two teams of its own, so the order of the loop is immaterial.
Settled(o, c) ==
  [t \in DOMAIN o |->
     CASE \E k \in Byes(o, c) : c[k].objId1 = t
            -> Advance(o[t])
       [] \E k \in Ended(o, c) : Winner(c, k) = t
            -> Advance(o[t])
       [] \E k \in Ended(o, c) : Loser(c, k) = t
            -> Eliminate(o[t])
       [] \E k \in Decided(o, c) \ Ended(o, c) : Winner(c, k) = t
            -> [o[t] EXCEPT !.valueScore = @ + 1]
       [] OTHER -> o[t]]

\* What is left of the round: agreed games are cleared, ended matches erased.
Remaining(o, c) ==
  [k \in DOMAIN c \ Erased(o, c) |->
     IF k \in Decided(o, c) THEN Match(c[k].objId1, c[k].objId2) ELSE c[k]]

(***************************************************************************)
(* The next round: createChallData, pairing neighbours by position.        *)
(***************************************************************************)

\* The teams not yet eliminated.
Valid(o) == {t \in DOMAIN o : o[t].status = 1}

PosRank(o, t) ==
  Cardinality({u \in Valid(o) : o[u].position < o[t].position})

\* The neighbour of t: the one after an even place, the one before an odd place.
Neighbour(o, t) ==
  CHOOSE u \in Valid(o) :
    PosRank(o, u) = IF PosRank(o, t) % 2 = 0 THEN PosRank(o, t) + 1
                                             ELSE PosRank(o, t) - 1

Paired_SlipOneSided(o) ==
  [t \in DOMAIN o |->
     IF t \in Valid(o) /\ PosRank(o, t) % 2 = 1
     THEN [o[t] EXCEPT !.competitor = Neighbour(o, t)] ELSE o[t]]

Paired(o) ==
  [t \in DOMAIN o |->
     IF t \in Valid(o) THEN [o[t] EXCEPT !.competitor = Neighbour(o, t)] ELSE o[t]]

NextRound(o) ==
  [k \in {t \in Valid(o) : PosRank(o, t) % 2 = 0} |-> Match(k, Neighbour(o, k))]

\* getTop: the first num ids of m_objs, one at least because of the late break.
GetTop(o, num) ==
  {t \in DOMAIN o : Rank(DOMAIN o, t) < IF num = 0 THEN 1 ELSE num}

RuleContrl(o, c) ==
  LET settled   == Settled(o, c)
      remaining == Remaining(o, c)
  IN \/ /\ DOMAIN c = {}                                    \* nothing to do
        /\ objs' = o /\ challs' = c
        /\ UNCHANGED <<promoted, fault>>
     \/ /\ Spins(o, c)
        /\ fault' = TRUE
        /\ objs' = o /\ challs' = c
        /\ UNCHANGED promoted
     \/ /\ DOMAIN c # {} /\ ~Spins(o, c)
        /\ DOMAIN remaining # {}                            \* round not over
        /\ objs' = settled /\ challs' = remaining
        /\ UNCHANGED <<promoted, fault>>
     \/ /\ DOMAIN c # {} /\ ~Spins(o, c)
        /\ DOMAIN remaining = {}
        /\ Cardinality(Valid(settled)) < 2                  \* stopRule
        /\ objs' = settled /\ challs' = remaining
        /\ promoted' = Append(promoted, GetTop(settled, NextLvNum))
        /\ UNCHANGED fault
     \/ /\ DOMAIN c # {} /\ ~Spins(o, c)
        /\ DOMAIN remaining = {}
        /\ Cardinality(Valid(settled)) >= 2
        /\ Cardinality(Valid(settled)) % 2 = 0
        /\ objs' = Paired(settled) /\ challs' = NextRound(settled)
        /\ UNCHANGED <<promoted, fault>>
     \/ /\ DOMAIN c # {} /\ ~Spins(o, c)
        /\ DOMAIN remaining = {}
        /\ Cardinality(Valid(settled)) >= 2
        /\ Cardinality(Valid(settled)) % 2 = 1              \* end() dereferenced
        /\ fault' = TRUE
        /\ objs' = settled /\ challs' = remaining
        /\ UNCHANGED promoted

(***************************************************************************)
(* The fight: Fight::contrl, one minute tick of FightManager::contrl.      *)
(***************************************************************************)

\* A fight the manager has loaded, with the entrants its rows name.
Init ==
  /\ status \in {"set", "apply"}
  /\ reached = {}
  /\ \E S \in SUBSET Teams : objs = [t \in S |-> FreshObj]
  /\ challs = NoMatch
  /\ promoted = <<>>
  /\ fault = FALSE

\* reachStartApplyTime, reachStartFightTime, reachStopFightTime: the clock moves on.
Reach(m) ==
  /\ m \notin reached
  /\ reached' = reached \cup {m}
  /\ UNCHANGED <<status, objs, challs, promoted, fault>>

ContrlFight_SlipTime ==
  /\ ~fault /\ status = "fight"
  /\ RuleContrl(objs, challs)
  /\ status' = IF "stopFight" \in reached THEN "stop" ELSE status
  /\ UNCHANGED reached

\* A tick while the fight runs: the rule's loop, then the stop check.
ContrlFight ==
  /\ ~fault /\ status = "fight"
  /\ RuleContrl(objs, challs)
  /\ status' = IF "stopFight" \in reached /\ DOMAIN challs' = {}
               THEN "stop" ELSE status
  /\ UNCHANGED reached

Applies == status = "apply" \/ (status = "set" /\ "startApply" \in reached)

\* A tick before the start: open the application, start, stop, in this order.
ContrlStart ==
  /\ ~fault /\ Applies /\ "startFight" \in reached
  /\ InitPosition
  /\ status' = IF "stopFight" \in reached /\ DOMAIN challs' = {}
               THEN "stop" ELSE "fight"
  /\ UNCHANGED <<reached, promoted, fault>>

ContrlWait ==
  /\ ~fault /\ status # "fight" /\ ~(Applies /\ "startFight" \in reached)
  /\ status' = IF "stopFight" \in reached /\ DOMAIN challs = {} THEN "stop"
               ELSE IF Applies THEN "apply" ELSE status
  /\ UNCHANGED <<reached, objs, challs, promoted, fault>>

(***************************************************************************)
(* Messages from the teams' leaders.                                       *)
(***************************************************************************)

\* ChallengerMem: the leader names the players; refused without an opponent.
CreateHouse(t) ==
  /\ ~fault
  /\ t \in DOMAIN objs
  /\ objs[t].competitor \in DOMAIN objs
  /\ objs' = [objs EXCEPT ![t].house = TRUE]
  /\ UNCHANGED <<status, reached, challs, promoted, fault>>

\* The key under which fightResult looks a match up: the smaller team id.
MatchKey(t, u) == IF t > u THEN u ELSE t

FightResult_SlipHouse(t, result) ==
  LET other == objs[t].competitor
      k     == MatchKey(t, other)
  IN /\ ~fault
     /\ t \in DOMAIN objs /\ objs[t].house
     /\ other \in DOMAIN objs
     /\ k \in DOMAIN challs
     /\ RuleContrl(objs,
          [challs EXCEPT ![k] = IF k = t THEN [@ EXCEPT !.result1 = result]
                                         ELSE [@ EXCEPT !.result2 = result]])
     /\ UNCHANGED <<status, reached>>

\* fightResult from the leader of team t; the other returns change nothing.
FightResult(t, result) ==
  LET other == objs[t].competitor
      k     == MatchKey(t, other)
  IN /\ ~fault
     /\ t \in DOMAIN objs /\ objs[t].house
     /\ other \in DOMAIN objs /\ objs[other].house
     /\ k \in DOMAIN challs
     /\ RuleContrl(objs,
          [challs EXCEPT ![k] = IF k = t THEN [@ EXCEPT !.result1 = result]
                                         ELSE [@ EXCEPT !.result2 = result]])
     /\ UNCHANGED <<status, reached>>

Contrl == ContrlFight \/ ContrlStart \/ ContrlWait

Next ==
  \/ \E m \in Moments : Reach(m)
  \/ Contrl
  \/ \E t \in Teams : CreateHouse(t)
  \/ \E t \in Teams, result \in Result : FightResult(t, result)

Spec == Init /\ [][Next]_vars

\* The minute timer keeps calling FightManager::contrl.
TimerFairness == WF_vars(Contrl)

TimerSpec == Spec /\ TimerFairness

(***************************************************************************)
(* Properties.                                                             *)
(***************************************************************************)

Obj ==
  [status : Result, value : Nat, valueScore : Nat, position : Nat,
   competitor : Teams \cup {0}, house : BOOLEAN]

Challenge ==
  [objId1 : Teams, objId2 : Teams \cup {0},
   result1 : Result \cup {0}, result2 : Result \cup {0}]

\* The variables keep the types of the code's fields.
TypeOK ==
  /\ status \in {"set", "apply", "fight", "stop"}
  /\ reached \subseteq Moments
  /\ DOMAIN objs \subseteq Teams /\ objs \in [DOMAIN objs -> Obj]
  /\ DOMAIN challs \subseteq Teams /\ challs \in [DOMAIN challs -> Challenge]
  /\ promoted \in Seq(SUBSET Teams)
  /\ fault \in BOOLEAN

\* Started: the fight has been seeded.
Started == status = "fight" \/ \E t \in DOMAIN objs : objs[t].value > 0

\* Every match of the round joins teams still in the fight that name each
\* other as opponents and have won equally many rounds (initPosition,
\* createChallData and the settling loop of contrl agree with each other).
MatchSound ==
  \A k \in DOMAIN challs :
    LET a == challs[k].objId1
        b == challs[k].objId2
    IN /\ a = k /\ k \in Valid(objs) /\ objs[k].competitor = b
       /\ b # 0 => /\ b \in Valid(objs) \ {k}
                   /\ objs[b].competitor = k
                   /\ objs[b].value = objs[k].value

\* A house belongs to a match of this round and never outlives it, and a report
\* counts only for a match both houses were created for; an agreed result never
\* waits, contrl settles it in the handler that completes it.
HousesOfThisRound ==
  /\ \A t \in DOMAIN objs : objs[t].house =>
       \E k \in DOMAIN challs : t \in {challs[k].objId1, challs[k].objId2}
  /\ \A k \in DOMAIN challs :
       LET m == challs[k]
       IN (m.result1 # 0 \/ m.result2 # 0) =>
            /\ m.result1 = m.result2 \/ m.result1 = 0 \/ m.result2 = 0
            /\ objs[m.objId1].house /\ objs[m.objId2].house

\* How many places of the bracket a team that has won `value' times comes from,
\* 2 ^ value; getPositionVal's loop has the powers from 2 on.
BlockSize(value) == IF value = 0 THEN 1 ELSE Doubled[value - 1]

\* The part of the bracket that t and the teams it beat come from.
Block(o, t, value) == o[t].position \div BlockSize(value)

\* The bracket is the tree initPosition laid out: whatever the order in which
\* matches end, exactly one team of each block a live team has won is live, and
\* the two teams of a match come from the two halves of one block.
BracketTree ==
  Started =>
    /\ \A t \in DOMAIN objs : \E u \in Valid(objs) :
         /\ objs[u].value >= objs[t].value
         /\ Block(objs, u, objs[u].value) = Block(objs, t, objs[u].value)
         /\ \A w \in Valid(objs) :
              Block(objs, w, objs[w].value) = Block(objs, t, objs[w].value) => w = u
    /\ \A k \in DOMAIN challs : challs[k].objId2 # 0 =>
         LET won == objs[k].value
         IN Block(objs, k, won + 1) = Block(objs, challs[k].objId2, won + 1)

\* When the round list empties for good one champion is left, and `value'
\* ranks the field: 2^(rounds - v) teams came as far as round v.
FinalPlacing ==
  (Started /\ DOMAIN challs = {} /\ DOMAIN objs # {}) =>
    LET size == PositionVal(Cardinality(DOMAIN objs))
    IN /\ Cardinality(Valid(objs)) = 1
       /\ \A v \in 1..Cardinality(DOMAIN objs) : BlockSize(v) <= size =>
            Cardinality({t \in DOMAIN objs : objs[t].value >= v}) * BlockSize(v) = size

\* fight_rule.h: objId1 is the smaller team id, under which fightResult looks a
\* match up.  Only a match of two teams that have won before can sit elsewhere.
SeedsFindable ==
  \A k \in DOMAIN challs :
    (challs[k].objId2 # 0 /\ MatchKey(k, challs[k].objId2) # k)
      => objs[k].value >= 1 /\ objs[challs[k].objId2].value >= 1

\* One bracket comes out of any order of results: a whole tree, at its end one
\* champion and a placing, and a first round whose matches take their reports.
BracketWhole == BracketTree /\ FinalPlacing /\ SeedsFindable

\* contrl never pairs an odd number of teams and never meets a match whose
\* second team is gone (createChallData: the number is surely even).
NoFault == ~fault

\* A field of any size and reports in any order leave the round one that can be
\* played: types, no fault of contrl or createChallData, and sound matches.
SingleFailInv == TypeOK /\ NoFault /\ MatchSound

\* A running fight stops only with its bracket played out, however long the
\* stop time has passed.
StopsPlayedOut ==
  [][(status = "fight" /\ status' = "stop") =>
       Cardinality(Valid(objs')) = IF DOMAIN objs = {} THEN 0 ELSE 1]_vars

\* A bye does not hold up its team: the next minute tick advances it.
ByesAdvance ==
  \A t \in Teams :
    (t \in DOMAIN challs /\ challs[t].objId2 = 0)
      ~> (t \in DOMAIN objs /\ objs[t].value >= 1)

=============================================================================
