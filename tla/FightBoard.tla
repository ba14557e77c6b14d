----------------------------- MODULE FightBoard -----------------------------
(***************************************************************************)
(* FightManager: which fights are in memory (fight_manager.cpp, with the   *)
(* load and search half of fight_db.cpp, fight.cpp, area_fight.cpp and the *)
(* sign-up of fight_rule.cpp).                                             *)
(*                                                                         *)
(* Three parties.  The web site posts fights, rows only it writes.  The    *)
(* one read connection executes queries in the order they were issued and  *)
(* hands the answers back in that order (DbConnection: AnswersInOrder).    *)
(* The main timer thread runs every handler and every answer's callback,   *)
(* one at a time.  At start-up it asks for the fights, then from callback  *)
(* to callback for their entrants and their matches; once a minute it asks *)
(* for the fights above the largest id it knows, and drives each fight     *)
(* when the load is over.  A query that fails is answered with no result,  *)
(* which every callback drops.                                             *)
(*                                                                         *)
(* Inside a fight only what others see is kept: its status, its entrants   *)
(* and whether its rule has matches left (SingleFail has the bracket).     *)
(* The writes of sign-ups and statuses reach their rows at once here       *)
(* (FightRecovery has the write connection's queue).                       *)
(***************************************************************************)
EXTENDS Integers, FiniteSets, Sequences

CONSTANTS
  Fights,          \* ids the web site may post
  Posting,         \* the rows: from, area, nextNum, parent, singleFail, paused; the
                   \* minutes apply, start and stop
  Teams,           \* team ids
  Junk,            \* an id no team has
  Cafes,           \* records [id, city, province]
  MaxClock,        \* the clock stops here (bound)
  MaxOutstanding,  \* queries not answered yet when a tick may add its two (bound)
  MaxLost          \* queries that fail (bound)

ASSUME IdAssumption ==
  /\ Fights \subseteq Nat \ {0} /\ Teams \subseteq Nat \ {0} /\ Junk \notin Teams

ASSUME BoundAssumption == MaxClock \in Nat /\ MaxLost \in Nat

\* A fight's parent was posted before it: the walk up the ladder ends.
ASSUME LadderAssumption == \A f \in Fights : Posting[f].parent < f

VARIABLES
  posted,       \* fights with a row
  statusRow,    \* the status column
  entrantRows,  \* rows <<fight, id>> of the entrants
  pending,      \* issued queries, oldest first
  answers,      \* executed ones with their result, not handled yet
  fights,       \* m_fights: id -> [status, objs, over]
  index,        \* m_coffFights, m_cityFights, m_provinceFights: <<from, area, id>>
  objToFights,  \* m_objToFights: <<id, fight>>
  recommend,    \* m_recommendFights
  initOver,     \* m_intitOver
  clock,        \* the minutes gone by
  lost          \* how many queries failed

rowVars  == <<posted, statusRow, entrantRows>>
dbVars   == <<pending, answers, lost>>
vars     == <<rowVars, dbVars, fights, index, objToFights, recommend, initOver, clock>>

Put(f, key, val) == [x \in DOMAIN f \cup {key} |-> IF x = key THEN val ELSE f[x]]
Outstanding(kinds) ==
  \/ \E i \in 1..Len(pending) : pending[i].kind \in kinds
  \/ \E i \in 1..Len(answers) : answers[i].kind \in kinds

\* overlaps: issued while the load or another search was not handled yet.
Query(kind, last) ==
  [kind |-> kind, last |-> last, overlaps |-> Outstanding({"area", "new"})]

(***************************************************************************)
(* A fight's rule as far as the others see it.                             *)
(***************************************************************************)

\* objs maps the key of m_objs to the FightObjData's own id.
Keys(f) == DOMAIN fights[f].objs
Rank(S, t) == Cardinality({u \in S : u < t})
Clean(objs) == \A t \in DOMAIN objs : objs[t] = t

\* getPositionVal: the least power of two, at least two, that holds n entrants.
Half(n) == CHOOSE h \in {2 ^ k : k \in 0..n} :
             /\ n <= 2 * h
             /\ \A g \in {2 ^ k : k \in 0..n} : n <= 2 * g => h <= g

\* Places of the better half whose entrant's id is not a key: start gives up there.
BadPlaces(objs) ==
  {r \in 0..(Half(Cardinality(DOMAIN objs)) - 1) :
     \E t \in DOMAIN objs : Rank(DOMAIN objs, t) = r /\ objs[t] \notin DOMAIN objs}

Started(x) ==
  IF DOMAIN x.objs = {} THEN [x EXCEPT !.status = "fight"]
  ELSE IF BadPlaces(x.objs) = {}
       THEN [x EXCEPT !.status = "fight", !.over = FALSE]
       ELSE [x EXCEPT !.over = @ /\ 0 \in BadPlaces(x.objs)]

\* Fight::contrl, but for the rule's loop.
Controlled(f) ==
  LET x == fights[f]
      a == IF x.status = "set" /\ clock >= Posting[f].apply THEN [x EXCEPT !.status = "apply"] ELSE x
      b == IF a.status = "apply" /\ clock >= Posting[f].start THEN Started(a) ELSE a
  IN IF clock >= Posting[f].stop /\ b.over THEN [b EXCEPT !.status = "stop"] ELSE b

\* updateFightStatus is called when the status changes, and by stopFight every
\* minute once more.
Written(f) ==
  \/ Controlled(f).status # fights[f].status
  \/ clock >= Posting[f].stop /\ Controlled(f).over

\* FightRule::signUp: the entry is new, whatever the key held, and its id is
\* whatever the memory held.
SignedUp(x, t, id) == [x EXCEPT !.objs = Put(@, t, id)]

(***************************************************************************)
(* Queries and answers.                                                    *)
(***************************************************************************)

\* What a query reads when it is executed.
Result(q) ==
  CASE q.kind = "area"  -> [f \in posted |-> statusRow[f]]
    [] q.kind = "new"   -> [f \in {g \in posted : g > q.last} |-> statusRow[f]]
    [] q.kind = "objs"  -> entrantRows
    [] q.kind = "chall" -> {f \in posted : /\ statusRow[f] = "fight"
                                           /\ \E t \in Teams : <<f, t>> \in entrantRows}
    [] q.kind = "rec"   -> posted

Answered(q, null, res) ==
  [kind |-> q.kind, overlaps |-> q.overlaps, null |-> null, res |-> res]

ExecuteQuery ==
  /\ pending # <<>>
  /\ pending' = Tail(pending)
  /\ answers' = Append(answers, Answered(Head(pending), FALSE, Result(Head(pending))))
  /\ UNCHANGED <<rowVars, lost, fights, index, objToFights, recommend, initOver, clock>>

FailQuery ==
  /\ pending # <<>> /\ lost < MaxLost
  /\ lost' = lost + 1
  /\ pending' = Tail(pending)
  /\ answers' = Append(answers, Answered(Head(pending), TRUE, {}))
  /\ UNCHANGED <<rowVars, fights, index, objToFights, recommend, initOver, clock>>

\* initAreaFightCheck for each row: only the single-elimination rule can be
\* built; what was under the id is replaced; the playable ones are indexed.
Entered(rows) ==
  LET good == {f \in DOMAIN rows : Posting[f].singleFail}
  IN /\ fights' = [f \in DOMAIN fights \cup good |->
                     IF f \in good
                     THEN [status |-> rows[f], objs |-> [t \in {} |-> 0], over |-> TRUE]
                     ELSE fights[f]]
     /\ index' = index \cup
          {<<Posting[f].from, Posting[f].area, f>> :
             f \in {g \in good : Posting[g].nextNum = 0 /\ Posting[g].from # "admin"}}

Handle(kind) ==
  /\ answers # <<>> /\ Head(answers).kind = kind /\ ~Head(answers).null
  /\ answers' = Tail(answers)
  /\ UNCHANGED <<rowVars, lost, clock>>

\* A callback without a result returns at once.
HandleNull ==
  /\ answers # <<>> /\ Head(answers).null
  /\ answers' = Tail(answers)
  /\ UNCHANGED <<rowVars, pending, lost, clock, fights, index, objToFights,
                 recommend, initOver>>

InitAreaFightBack ==
  /\ Handle("area")
  /\ Entered(Head(answers).res)
  /\ pending' = Append(pending, Query("objs", 0))
  /\ UNCHANGED <<objToFights, recommend, initOver>>

InitNewAreaFightBack ==
  /\ Handle("new")
  /\ Entered(Head(answers).res)
  /\ UNCHANGED <<pending, objToFights, recommend, initOver>>

\* Entrants of a fight that is not in memory are dropped.
InitFightingObjBack ==
  /\ Handle("objs")
  /\ LET rows == {r \in Head(answers).res : r[1] \in DOMAIN fights}
         Of(f) == {r[2] : r \in {s \in rows : s[1] = f}}
     IN /\ fights' = [f \in DOMAIN fights |->
                        [fights[f] EXCEPT !.objs =
                           [t \in DOMAIN @ \cup Of(f) |->
                              IF t \in Of(f) THEN t ELSE @[t]]]]
        /\ objToFights' = objToFights \cup {<<r[2], r[1]>> : r \in rows}
  /\ pending' = Append(pending, Query("chall", 0))
  /\ UNCHANGED <<index, recommend, initOver>>

InitFightingChallBack ==
  /\ Handle("chall")
  /\ fights' = [f \in DOMAIN fights |->
                  [fights[f] EXCEPT !.over = @ /\ f \notin Head(answers).res]]
  /\ initOver' = TRUE
  /\ UNCHANGED <<pending, index, objToFights, recommend>>

InitRecommendFightingBack ==
  /\ Handle("rec")
  /\ recommend' = Head(answers).res
  /\ UNCHANGED <<pending, fights, index, objToFights, initOver>>

(***************************************************************************)
(* The minute timer.                                                       *)
(***************************************************************************)

LastId_SlipNext ==
  1 + IF DOMAIN fights = {} THEN 0
      ELSE CHOOSE f \in DOMAIN fights : \A g \in DOMAIN fights : g <= f

LastId_SlipZero == 0

\* initNewFighting: above the largest id in memory.
LastId ==
  IF DOMAIN fights = {} THEN 0
  ELSE CHOOSE f \in DOMAIN fights : \A g \in DOMAIN fights : g <= f

Tick ==
  /\ Len(pending) + Len(answers) <= MaxOutstanding
  /\ pending' = pending \o <<Query("new", LastId), Query("rec", 0)>>
  /\ IF initOver
     THEN /\ fights' = [f \in DOMAIN fights |-> Controlled(f)]
          /\ statusRow' = [f \in Fights |-> IF f \in DOMAIN fights /\ Written(f)
                                            THEN fights'[f].status ELSE statusRow[f]]
     ELSE UNCHANGED <<fights, statusRow>>
  /\ UNCHANGED <<posted, entrantRows, answers, lost, index, objToFights,
                 recommend, initOver, clock>>

\* The rule plays its bracket out; the parent, if it is in memory, takes the
\* first nextNum keys, at least one.  A bracket with an entrant whose id is not
\* its key never gets there: nobody can report its matches.
BracketEnds(f) ==
  LET p   == Posting[f].parent
      num == IF p = 0 THEN 0 ELSE Posting[p].nextNum
      top == {t \in Keys(f) : Rank(Keys(f), t) < IF num = 0 THEN 1 ELSE num}
  IN /\ f \in DOMAIN fights
     /\ fights[f].status = "fight" /\ ~fights[f].over /\ Clean(fights[f].objs)
     /\ \E ids \in [top -> Teams \cup {Junk}] :
          /\ \A t \in top : ids[t] \in {t, Junk}
          /\ IF p \in DOMAIN fights
             THEN /\ fights' = [fights EXCEPT
                       ![f].over = TRUE,
                       ![p].objs = [t \in DOMAIN @ \cup top |->
                                      IF t \in top THEN ids[t] ELSE @[t]]]
                  /\ entrantRows' = entrantRows \cup {<<p, ids[t]>> : t \in top}
             ELSE /\ fights' = [fights EXCEPT ![f].over = TRUE]
                  /\ UNCHANGED entrantRows
     /\ UNCHANGED <<posted, statusRow, dbVars, index, objToFights, recommend,
                    initOver, clock>>

(***************************************************************************)
(* coffFightByrRecommond: which of a café's fights a recommended one is     *)
(* played in.                                                              *)
(***************************************************************************)

\* The fights met on the way up from f, as far as they are in memory.
Upwards[f \in Fights \cup {0}] ==
  IF f \notin DOMAIN fights THEN {} ELSE {f} \cup Upwards[Posting[f].parent]

Smallest(S) == IF S = {} THEN 0 ELSE CHOOSE f \in S : \A g \in S : f <= g

\* The first of the fights indexed for one region that lead up to `wanted'.
FoundIn(from, area, wanted) ==
  Smallest({f \in Fights : /\ <<from, area, f>> \in index
                           /\ wanted \in Upwards[f]})

\* The province is searched first, then the city, then the café itself.
Found(cafe, wanted) ==
  LET inProvince == FoundIn("provinceD", cafe.province, wanted)
      inCity     == FoundIn("cityD", cafe.city, wanted)
  IN IF inProvince # 0 THEN inProvince
     ELSE IF inCity # 0 THEN inCity
     ELSE FoundIn("coffeenet", cafe.id, wanted)

\* Neither over nor paused by the web site, which the row says.
Shown(f) == fights[f].status # "stop" /\ ~Posting[f].paused

\* What the request answers: the fight found, unless it is over or paused.
Offered(cafe, wanted) ==
  LET f == Found(cafe, wanted) IN IF f # 0 /\ Shown(f) THEN f ELSE 0

\* myCoffFight: the fights indexed for a cafe, its province and its city.
CafeFights(cafe) ==
  {f \in DOMAIN fights :
     /\ Shown(f)
     /\ \/ <<"coffeenet", cafe.id, f>> \in index
        \/ <<"provinceD", cafe.province, f>> \in index
        \/ <<"cityD", cafe.city, f>> \in index}

\* myFight: the fights in memory that the teams of a user were entered for.
MyFights(teams) == {f \in DOMAIN fights : \E t \in teams : <<t, f>> \in objToFights}

(***************************************************************************)
(* Users, the web site and the clock.                                      *)
(***************************************************************************)

SignUp_SlipApply(t, f) ==
  /\ f \in DOMAIN fights
  /\ t \notin Keys(f)
  /\ \E id \in {t, Junk} :
       /\ fights' = [fights EXCEPT ![f] = SignedUp(@, t, id)]
       /\ entrantRows' = entrantRows \cup {<<f, id>>}
  /\ UNCHANGED <<posted, statusRow, dbVars, index, recommend, initOver, clock,
                 objToFights>>

\* Team t's leader signs it up; the refusals (2 no such fight, 3 not open, 4 to
\* 7 and 9 about the leader and the team, 8 already in) change nothing.
\* m_objToFights is filled under the user's id, which no team search looks up:
\* that entry is left out.
SignUp(t, f) ==
  /\ f \in DOMAIN fights
  /\ fights[f].status = "apply"
  /\ t \notin Keys(f)
  /\ \E id \in {t, Junk} :
       /\ fights' = [fights EXCEPT ![f] = SignedUp(@, t, id)]
       /\ entrantRows' = entrantRows \cup {<<f, id>>}
  /\ UNCHANGED <<posted, statusRow, dbVars, index, recommend, initOver, clock,
                 objToFights>>

\* The web site posts the fights in the order of their ids.
Post(f) ==
  /\ f \notin posted /\ \A g \in Fights : g < f => g \in posted
  /\ posted' = posted \cup {f}
  /\ UNCHANGED <<statusRow, entrantRows, dbVars, fights, index, objToFights,
                 recommend, initOver, clock>>

Pass ==
  /\ clock < MaxClock /\ clock' = clock + 1
  /\ UNCHANGED <<rowVars, dbVars, fights, index, objToFights, recommend, initOver>>

\* FightManager::init on the tables an earlier run left.
Init ==
  /\ posted \in {{f \in Fights : f <= n} : n \in Fights \cup {0}}
  /\ statusRow \in [Fights -> {"set", "apply", "fight"}]
  /\ \A f \in Fights \ posted : statusRow[f] = "set"
  /\ entrantRows \in SUBSET ({f \in posted : statusRow[f] # "set"} \X Teams)
  /\ pending = <<[kind |-> "area", last |-> 0, overlaps |-> FALSE],
                 [kind |-> "rec", last |-> 0, overlaps |-> FALSE]>>
  /\ answers = <<>>
  /\ fights = [f \in {} |-> 0] /\ index = {} /\ objToFights = {} /\ recommend = {}
  /\ initOver = FALSE /\ clock = 0 /\ lost = 0

Callback ==
  \/ HandleNull
  \/ InitAreaFightBack
  \/ InitNewAreaFightBack
  \/ InitFightingObjBack
  \/ InitFightingChallBack
  \/ InitRecommendFightingBack

Next ==
  \/ ExecuteQuery
  \/ FailQuery
  \/ Callback
  \/ Tick
  \/ \E f \in Fights : BracketEnds(f)
  \/ \E t \in Teams, f \in Fights : SignUp(t, f)
  \/ \E f \in Fights : Post(f)
  \/ Pass

Spec == Init /\ [][Next]_vars

\* The connection's thread works and the main timer runs callbacks and ticks.
Fairness ==
  /\ WF_vars(ExecuteQuery) /\ WF_vars(Callback) /\ WF_vars(Tick)

FairSpec == Spec /\ Fairness

(***************************************************************************)
(* Properties.                                                             *)
(***************************************************************************)

Stages == {"set", "apply", "fight", "stop"}

TypeOK ==
  /\ posted \subseteq Fights /\ statusRow \in [Fights -> Stages]
  /\ entrantRows \subseteq Fights \X (Teams \cup {Junk})
  /\ DOMAIN fights \subseteq posted
  /\ \A f \in DOMAIN fights :
       /\ fights[f].status \in Stages /\ fights[f].over \in BOOLEAN
       /\ Keys(f) \subseteq Teams \cup {Junk}
       /\ \A t \in Keys(f) : fights[f].objs[t] \in {t, Junk}
  /\ objToFights \subseteq (Teams \cup {Junk}) \X Fights
  /\ recommend \subseteq posted /\ initOver \in BOOLEAN
  /\ clock \in 0..MaxClock /\ lost \in 0..MaxLost

\* What the start-up loaded stays: an entrant of the tables is in the fight his
\* row names, and finds it among his own (myFight), whatever minute searches ran
\* meanwhile.  A search of the minute before the fights are known asks for all of
\* them again; that its answer does not wipe the loaded entrants out rests on the
\* order of the read connection.
LoadedStay ==
  \A e \in objToFights : e[2] \in MyFights({e[1]}) /\ e[1] \in Keys(e[2])

Order(st) == CASE st = "set" -> 0 [] st = "apply" -> 1 [] st = "fight" -> 2 [] OTHER -> 3

\* A fight in memory loses an entrant or falls back to an earlier status only
\* when the answer handled is of a search issued while an earlier one was still
\* unanswered: with a database that answers within the minute it never does.
ResetOnlyByOverlap ==
  [][(\E f \in DOMAIN fights :
        \/ ~(Keys(f) \subseteq DOMAIN fights'[f].objs)
        \/ Order(fights'[f].status) < Order(fights[f].status))
     => Head(answers).kind = "new" /\ Head(answers).overlaps]_vars

\* Nobody joins a running fight but the winners of a fight below it, in the
\* step in which that fight's bracket ends.
OnlyWinnersJoinLate ==
  [][\A f \in DOMAIN fights :
       (fights[f].status = "fight" /\ ~(DOMAIN fights'[f].objs \subseteq Keys(f)))
         => \E c \in DOMAIN fights : /\ Posting[c].parent = f
                                     /\ fights'[c].over /\ ~fights[c].over
            \/ ~initOver]_vars

\* The home page's search and the list of a cafe's fights, two walks over the same
\* indexes, are right and agree: the list shows exactly the fights in memory that
\* users of the cafe's region may enter; what the search offers is on the list and
\* leads up to the recommended fight; and it offers none only if the first such
\* fight is over or paused, or there is none.
FinderSound ==
  \A cafe \in Cafes :
    LET own(f) == CASE Posting[f].from = "provinceD" -> cafe.province = Posting[f].area
                    [] Posting[f].from = "cityD"     -> cafe.city = Posting[f].area
                    [] Posting[f].from = "coffeenet" -> cafe.id = Posting[f].area
                    [] OTHER -> FALSE
        open == {f \in DOMAIN fights : Posting[f].nextNum = 0 /\ own(f)}
    IN /\ CafeFights(cafe) = {f \in open : Shown(f)}
       /\ \A wanted \in Fights :
            LET fit == {f \in open : wanted \in Upwards[f]}
                f   == Offered(cafe, wanted)
            IN IF f = 0 THEN fit = {} \/ \E g \in fit : ~Shown(g)
                        ELSE f \in CafeFights(cafe) \cap fit

\* Types, the loaded entrants, and the two ways to find a fight.
BoardInv == TypeOK /\ LoadedStay /\ FinderSound

\* Every fight that is posted under the rule the program has comes into memory, by
\* the load or by a search of some minute, although queries may fail, overlap and
\* be answered late.
PostsArrive ==
  \A f \in Fights :
    Posting[f].singleFail => (f \in posted ~> f \in DOMAIN fights)

=============================================================================
