-------------------------------- MODULE House --------------------------------
(***************************************************************************)
(* The two houses of one match, from the leaders' choice of players to the *)
(* start of the game: FightManager::ChallengerMem, ready and fightResult   *)
(* with FightRule::createHouse, ready and the front half of the single-    *)
(* elimination rule's fightResult.                                         *)
(*                                                                         *)
(* A house is FightObjData::team: the players with their ready flag, the   *)
(* leader last.  A leader who does not name himself puts an empty place    *)
(* (user 0) there.  Sides, leaders and the match are given; which leader   *)
(* wins, and the bracket, are SingleFail's.                                *)
(***************************************************************************)
EXTENDS Integers

CONSTANTS
  Sides,       \* the two teams of the match
  Members,     \* Sides -> the users of the team
  Leader,      \* Sides -> one of them
  Cafe,        \* users -> the cafe each is at when he is logged in
  Nobody,      \* user id 0
  MaxHouses    \* houses created and log-ins, together (bound)

Users == UNION {Members[t] : t \in Sides}

ASSUME HouseAssumption ==
  /\ \E t \in Sides : \E u \in Sides \ {t} : Sides = {t, u}
  /\ \A t \in Sides : Leader[t] \in Members[t] /\ Nobody \notin Members[t]
  /\ \A t, u \in Sides : t # u => Members[t] \cap Members[u] = {}
  /\ MaxHouses \in Nat

VARIABLES
  online,    \* users UserManager::getUser finds
  house,     \* Sides -> [boss, ready: player -> BOOLEAN]
  reported,  \* teams whose leader reported on the game
  early,     \* teams whose leader counts as ready because he reported
  start,     \* players this step told that the game starts
  houses,    \* how often a house was made or a user came back
  fault      \* ChallengerMem dereferenced a user who is not there

houseVars == <<online, house, reported, early, start, houses, fault>>

Other(t) == CHOOSE u \in Sides : u # t
TeamOf(u) == CHOOSE t \in Sides : u \in Members[t]
NoHouse  == [boss |-> Nobody, ready |-> [p \in {} |-> FALSE]]
Players(t) == DOMAIN house[t].ready
Empty(t) == Players(t) = {}

(***************************************************************************)
(* ChallengerMem.                                                          *)
(***************************************************************************)

\* createHouse: whatever house there was is swapped out, nobody is ready.
CreateHouse(t, named) ==
  LET boss == IF Leader[t] \in named THEN Leader[t] ELSE Nobody
  IN house' = [house EXCEPT ![t] =
                 [boss |-> boss, ready |-> [p \in named \cup {boss} |-> FALSE]]]

\* The leader of t names players who are all logged in and of his team.
ChallengerMem(t, named) ==
  /\ ~fault /\ houses < MaxHouses
  /\ Leader[t] \in online /\ named \subseteq online
  /\ CreateHouse(t, named)
  /\ reported' = reported \ {t} /\ early' = early \ {t}
  /\ start' = {} /\ houses' = houses + 1
  /\ UNCHANGED <<online, fault>>

\* One of the players he names has just gone: the refusal is sent through the
\* user that was not found.
ChallengerGone(t, named) ==
  /\ ~fault
  /\ Leader[t] \in online /\ ~(named \subseteq online)
  /\ fault' = TRUE /\ start' = {}
  /\ UNCHANGED <<online, house, reported, early, houses>>

(***************************************************************************)
(* ready.                                                                  *)
(***************************************************************************)

AllReady_SlipNone(t) == TRUE
AllReady_SlipLeader(t) == \A p \in Players(t) : house[t].ready[p]

\* allReady: every player but the last, the leader.
AllReady(t) == \A p \in Players(t) \ {house[t].boss} : house[t].ready[p]

LeaderReady(t) == ~Empty(t) /\ house[t].ready[house[t].boss]

MarkReady(u) ==
  LET t == TeamOf(u)
  IN house' = [house EXCEPT ![t].ready =
                 [p \in DOMAIN @ |-> IF p = u THEN TRUE ELSE @[p]]]

\* A player, or a member of the team who is none: the flag, if he has one.
ReadyPlayer(u) ==
  LET t == TeamOf(u)
  IN /\ ~fault /\ u \in online /\ ~Empty(t) /\ house[t].boss # u
     /\ MarkReady(u) /\ start' = {}
     /\ UNCHANGED <<online, reported, early, houses, fault>>

\* The start goes out once for everybody in both houses who is logged in, but always
\* to the cafe of the leader who was last: only those who sit there get it.
Told(u) ==
  {p \in (Players(TeamOf(u)) \cup Players(Other(TeamOf(u)))) \cap online :
     Cafe[p] = Cafe[u]}

\* The leader, once his players are ready; the second of the two leaders sends
\* the start.
ReadyLeader(u) ==
  LET t == TeamOf(u)
  IN /\ ~fault /\ u \in online /\ house[t].boss = u
     /\ AllReady(t)
     /\ start' = IF LeaderReady(Other(t)) THEN Told(u) ELSE {}
     /\ MarkReady(u)
     /\ early' = early \ {t}
     /\ UNCHANGED <<online, reported, houses, fault>>

(***************************************************************************)
(* fightResult, the end of the match, and users coming and going.          *)
(***************************************************************************)

\* The leader's report marks him as ready; nothing asks whether the game has
\* started, and the mark is set before the other house is looked at.
FightResult(u) ==
  LET t == TeamOf(u)
  IN /\ ~fault /\ u \in online /\ house[t].boss = u
     /\ MarkReady(u) /\ start' = {}
     /\ reported' = IF Empty(Other(t)) THEN reported ELSE reported \cup {t}
     /\ early' = IF LeaderReady(t) THEN early ELSE early \cup {t}
     /\ UNCHANGED <<online, houses, fault>>

\* Both reports agree: contrl clears both houses.
MatchOver ==
  /\ ~fault /\ reported = Sides
  /\ house' = [t \in Sides |-> NoHouse]
  /\ reported' = {} /\ early' = {} /\ start' = {}
  /\ UNCHANGED <<online, houses, fault>>

LogOut(u) ==
  /\ ~fault /\ u \in online
  /\ online' = online \ {u} /\ start' = {}
  /\ UNCHANGED <<house, reported, early, houses, fault>>

LogIn(u) ==
  /\ ~fault /\ u \notin online /\ houses < MaxHouses
  /\ online' = online \cup {u} /\ start' = {} /\ houses' = houses + 1
  /\ UNCHANGED <<house, reported, early, fault>>

HouseInit ==
  /\ online = Users
  /\ house = [t \in Sides |-> NoHouse]
  /\ reported = {} /\ early = {} /\ start = {} /\ houses = 0 /\ fault = FALSE

Ready(u) == ReadyPlayer(u) \/ ReadyLeader(u)

HouseNext ==
  \/ \E t \in Sides : \E named \in SUBSET Members[t] :
       ChallengerMem(t, named) \/ ChallengerGone(t, named)
  \/ \E u \in Users : Ready(u) \/ FightResult(u) \/ LogOut(u) \/ LogIn(u)
  \/ MatchOver

HouseSpec == HouseInit /\ [][HouseNext]_houseVars

\* Players press ready as long as it does something: about them, not the code.
PlayersSpec == HouseSpec /\ \A u \in Users : WF_houseVars(Ready(u))

(***************************************************************************)
(* Properties.                                                             *)
(***************************************************************************)

\* The game is announced only with every player of both houses ready, and in the
\* cafe it is announced in to everybody who plays, unless a leader sent a result
\* before he was ready; a house made anew after its leader was ready takes his mark
\* back.  (Players at other cafes are not told: FightRule::ready addresses them at
\* the cafe of the leader.)
StartOnlyAllReady ==
  start # {} =>
    \A t \in Sides :
      /\ ~Empty(t)
      /\ t \in early \/ \A p \in Players(t) : house[t].ready[p]
      /\ \A p \in Players(t) \cap online :
           (\E q \in start : Cafe[q] = Cafe[p]) => p \in start

Flags == UNION {[S -> BOOLEAN] : S \in SUBSET (Users \cup {Nobody})}

HouseTypeOK ==
  /\ online \subseteq Users
  /\ house \in [Sides -> [boss : Users \cup {Nobody}, ready : Flags]]
  /\ \A t \in Sides : Players(t) \subseteq Members[t] \cup {Nobody}
  /\ \A t \in Sides : Empty(t) \/ house[t].boss \in Players(t)
  /\ reported \subseteq Sides /\ early \subseteq Sides
  /\ start \subseteq Users
  /\ houses \in 0..MaxHouses /\ fault \in BOOLEAN

\* Types, with the leader's place among the players of a house that is made, and
\* the start only with everybody ready.
HouseInv == HouseTypeOK /\ StartOnlyAllReady

Led == /\ \A t \in Sides : house[t].boss = Leader[t]
       /\ UNION {Players(t) : t \in Sides} \subseteq online

\* A leader marked as ready has all his players ready, or the mark is from a report:
\* what the second leader's look at the first relies on.
MarkMeansReady ==
  \A t \in Sides :
    LeaderReady(t) => t \in early \/ \A p \in Players(t) : house[t].ready[p]

\* Two houses with their leaders and players around come to the start, in
\* whatever order they press ready: the leader who is last is told at least.
LedHousesStart == Led ~> (start # {} \/ ~Led \/ fault)

=============================================================================
