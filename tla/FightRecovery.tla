---------------------------- MODULE FightRecovery ----------------------------
(***************************************************************************)
(* The fight of SingleFail with the table rows it is reloaded from.        *)
(*                                                                         *)
(* Every handler queues its statements on the process' one write           *)
(* connection (FightDb::updateFightObj, updateChallData, eraseChallData,   *)
(* updateFightStatus: execDbWriteSql), in the order the code calls them;   *)
(* the connection's thread executes them one by one.  A crash loses what   *)
(* is still queued; the next start loads the rows (initAreaFightBack,      *)
(* initFightingObjBack, initFightingChallBack), which hold no house.       *)
(*                                                                         *)
(* No handler's statements are one transaction, so a crash can cut a       *)
(* handler in two.  Each statement says whether the rows are a fight that  *)
(* can be resumed if the crash falls just before it (safe); torn remembers *)
(* that a crash fell before one that is not.                               *)
(***************************************************************************)
EXTENDS SingleFail, SequencesExt

CONSTANTS
  MaxBacklog,   \* statements still queued when a handler may run (bound)
  MaxCrashes    \* crashes of the process (bound)

ASSUME RecoveryAssumption == MaxBacklog \in Nat /\ MaxCrashes \in Nat

VARIABLES
  rows,      \* the tables: the fight's status, its objs and its challs
  stmts,     \* the write connection's queue
  torn,      \* a crash fell inside a group of statements
  crashes

dbVars == <<rows, stmts, torn, crashes>>
allVars == <<vars, dbVars>>

(***************************************************************************)
(* Statements.                                                             *)
(***************************************************************************)

\* The columns FIGHT_UPDATE_FIGHT_OBJ writes: all but the players in the house.
Saved(obj) == [obj EXCEPT !.house = FALSE]

UpdateFightObj(t, obj, safe) ==
  [kind |-> "obj", key |-> t, val |-> Saved(obj), safe |-> safe]
UpdateChallData(k, m, safe) ==
  [kind |-> "chall", key |-> k, val |-> m, safe |-> safe]
EraseChallData(k) ==
  [kind |-> "erase", key |-> k, safe |-> FALSE]
UpdateFightStatus(s, safe) ==
  [kind |-> "status", val |-> s, safe |-> safe]

Put(f, key, val) == [x \in DOMAIN f \cup {key} |-> IF x = key THEN val ELSE f[x]]

\* The stored procedures: what one statement does to the rows.
Executed(r, s) ==
  CASE s.kind = "obj"    -> [r EXCEPT !.objs = Put(@, s.key, s.val)]
    [] s.kind = "chall"  -> [r EXCEPT !.challs = Put(@, s.key, s.val)]
    [] s.kind = "erase"  -> [r EXCEPT !.challs = [k \in DOMAIN @ \ {s.key} |-> @[k]]]
    [] s.kind = "status" -> [r EXCEPT !.status = s.val]

\* The rows r when the statements of q are executed, the oldest first.
Ran(r, q) ==
  LET after[i \in 0..Len(q)] == IF i = 0 THEN r ELSE Executed(after[i - 1], q[i])
  IN after[Len(q)]

\* The members of S in the order of their ids, in which the maps are walked, and
\* what is queued when the walk queues Op for each.
InIdOrder(S) == [i \in 1..Cardinality(S) |-> CHOOSE t \in S : Rank(S, t) = i - 1]
Each(S, Op(_)) == FlattenSeq([i \in 1..Cardinality(S) |-> Op(InIdOrder(S)[i])])

\* initPosition writes pair by pair, the match after its teams.  The status
\* follows last: cut before the first match the next tick just seeds again, cut
\* later that tick seeds over matches that may have been played meanwhile, for
\* neither ChallengerMem nor fightResult asks whether the fight has started.
SeedPair(o, c, k) ==
  LET u     == c[k].objId2
      first == \A j \in UpperHalf(DOMAIN o) : k <= j
  IN <<UpdateFightObj(k, o[k], first)>>
       \o (IF u = 0 THEN <<>> ELSE <<UpdateFightObj(u, o[u], first)>>)
       \o <<UpdateChallData(k, c[k], first)>>

SeedStmts(o, c) ==
  Each(UpperHalf(DOMAIN o), LAMBDA k : SeedPair(o, c, k))
    \o <<UpdateFightStatus("fight", DOMAIN o = {})>>

SettleMatch_SlipLoser(o, c, k) ==
  CASE k \in Byes(o, c)
         -> <<UpdateFightObj(k, Settled(o, c)[k], TRUE), EraseChallData(k)>>
    [] k \in Ended(o, c)
         -> <<UpdateChallData(k, Match(c[k].objId1, c[k].objId2), TRUE),
              UpdateFightObj(Winner(c, k), Settled(o, c)[Winner(c, k)], TRUE),
              EraseChallData(k)>>
    [] OTHER
         -> <<UpdateChallData(k, Match(c[k].objId1, c[k].objId2), TRUE)>>

\* The settling loop of contrl, match by match.  Cut after its winner's row and
\* before the erase, a match is left that nobody can report on.
SettleMatch(o, c, k) ==
  CASE k \in Byes(o, c)
         -> <<UpdateFightObj(k, Settled(o, c)[k], TRUE), EraseChallData(k)>>
    [] k \in Ended(o, c)
         -> <<UpdateChallData(k, Match(c[k].objId1, c[k].objId2), TRUE),
              UpdateFightObj(Winner(c, k), Settled(o, c)[Winner(c, k)], TRUE),
              UpdateFightObj(Loser(c, k), Settled(o, c)[Loser(c, k)], FALSE),
              EraseChallData(k)>>
    [] OTHER
         -> <<UpdateChallData(k, Match(c[k].objId1, c[k].objId2), TRUE)>>

SettleStmts(o, c) ==
  Each(Byes(o, c) \cup Decided(o, c), LAMBDA k : SettleMatch(o, c, k))

\* createChallData: cut anywhere, a part of the next round is missing for good.
PairMatch(o, next, k) ==
  LET u == next[k].objId2
  IN <<UpdateFightObj(u, o[u], FALSE),
       UpdateFightObj(k, o[k], FALSE),
       UpdateChallData(k, next[k], FALSE)>>

\* The first team of the i-th pair in the order of the positions.
OpensPair(o, next, i) == CHOOSE k \in DOMAIN next : PosRank(o, k) = 2 * (i - 1)

PairStmts(o, next) ==
  FlattenSeq([i \in 1..Cardinality(DOMAIN next) |->
                PairMatch(o, next, OpensPair(o, next, i))])

\* What one run of the rule's loop, begun with o and c, queues: the settled
\* matches, and the next round if it has paired one.
RuleStmts(o, c) ==
  IF DOMAIN c = {} \/ Spins(o, c) THEN <<>>
  ELSE SettleStmts(o, c)
         \o (IF DOMAIN Remaining(o, c) = {} /\ DOMAIN challs' # {}
             THEN PairStmts(objs', challs') ELSE <<>>)

\* stopFight writes the status anew on every tick that finds the fight over.
StopStmts == IF status' = "stop" THEN <<UpdateFightStatus("stop", TRUE)>> ELSE <<>>

(***************************************************************************)
(* The handlers with what they queue, the write connection and the crash.  *)
(***************************************************************************)

InitRecovery ==
  /\ Init
  /\ rows = [status |-> status, challs |-> challs,
             objs |-> [t \in DOMAIN objs |-> Saved(objs[t])]]
  /\ stmts = <<>> /\ torn = FALSE /\ crashes = 0

Queue(s) ==
  /\ stmts' = stmts \o s
  /\ UNCHANGED <<rows, torn, crashes>>

MayRun == Len(stmts) <= MaxBacklog

Clock ==
  /\ \E m \in Moments : Reach(m)
  /\ UNCHANGED dbVars

TickFight ==
  /\ MayRun /\ ContrlFight
  /\ Queue(RuleStmts(objs, challs) \o StopStmts)

\* startApply writes the status when the application opens.
ApplyStmts == IF status = "set" /\ Applies THEN <<UpdateFightStatus("apply", TRUE)>>
                                           ELSE <<>>

TickStart ==
  /\ MayRun /\ ContrlStart
  /\ Queue(ApplyStmts \o SeedStmts(objs', challs') \o StopStmts)

TickWait ==
  /\ MayRun /\ ContrlWait
  /\ Queue(ApplyStmts \o StopStmts)

OpenHouse(t) ==
  /\ MayRun /\ UNCHANGED dbVars
  /\ CreateHouse(t)

\* The report's row is written before the loop runs.
Report(t, result) ==
  LET k == MatchKey(t, objs[t].competitor)
      m == IF k = t THEN [challs[k] EXCEPT !.result1 = result]
                    ELSE [challs[k] EXCEPT !.result2 = result]
      c == [challs EXCEPT ![k] = m]
  IN /\ MayRun /\ UNCHANGED <<rows, torn, crashes>>
     /\ FightResult(t, result)
     /\ Queue(<<UpdateChallData(k, m, TRUE)>> \o RuleStmts(objs, c))

\* The write connection's thread takes the next statement.
Execute ==
  /\ stmts # <<>>
  /\ rows' = Executed(rows, Head(stmts))
  /\ stmts' = Tail(stmts)
  /\ UNCHANGED <<vars, torn, crashes>>

\* The process dies and is started again: the rows are loaded, matches keyed by
\* their first team, and every house is gone.
Restart ==
  /\ crashes < MaxCrashes /\ ~fault
  /\ crashes' = crashes + 1
  /\ torn' = (torn \/ (stmts # <<>> /\ ~Head(stmts).safe))
  /\ status' = rows.status
  /\ objs' = rows.objs
  /\ challs' = [k \in {rows.challs[i].objId1 : i \in DOMAIN rows.challs} |->
                  rows.challs[k]]
  /\ stmts' = <<>>
  /\ UNCHANGED <<reached, promoted, fault, rows>>

NextRecovery ==
  \/ Clock
  \/ TickFight
  \/ TickStart
  \/ TickWait
  \/ \E t \in Teams : OpenHouse(t)
  \/ \E t \in Teams, result \in Result : Report(t, result)
  \/ Execute
  \/ Restart

RecoverySpec == InitRecovery /\ [][NextRecovery]_allVars

\* A report of t that the other side has not contradicted.
Settle(t) ==
  \E result \in Result :
    /\ t \in DOMAIN objs /\ objs[t].house
    /\ LET k == MatchKey(t, objs[t].competitor)
       IN /\ k \in DOMAIN challs
          /\ (IF k = t THEN challs[k].result2 ELSE challs[k].result1) # result
    /\ Report(t, result)

\* The write connection works and the minute timer ticks; the clock reaches every
\* moment, and leaders who can create a house or make a report that settles their
\* match in the end do, after a restart too: assumptions about the players.
CoopFairness ==
  /\ WF_allVars(Execute)
  /\ WF_allVars(TickFight \/ TickStart \/ TickWait)
  /\ WF_allVars(Clock)
  /\ \A t \in Teams :
       /\ SF_allVars(OpenHouse(t))
       /\ SF_allVars(Settle(t))

CoopRecovery == RecoverySpec /\ CoopFairness

(***************************************************************************)
(* Properties.                                                             *)
(***************************************************************************)

\* Every handler queues what it changed, in an order that ends in what it
\* left in memory: with the queue worked off the rows are the fight, all but
\* its houses and the games won in a match that is not over, which no handler
\* writes: a restart starts such a match again from nil.
RowsCatchUp ==
  LET after == Ran(rows, stmts)
  IN /\ after.status = status
     /\ after.challs = challs
     /\ DOMAIN after.objs = DOMAIN objs
     /\ \A t \in DOMAIN objs :
          after.objs[t] = [Saved(objs[t]) EXCEPT
                             !.valueScore = after.objs[t].valueScore]

\* Whatever a crash loses, unless it falls inside the statements of a seeding, of
\* one decided match or of one pairing, a restart finds in the rows what memory
\* was, or a sound fight before it: opponents name each other, one bracket comes
\* out of it, contrl meets no fault in it, and what its handlers queue catches up
\* with it.  (A crash inside one can load teams with the same position, of which
\* createChallData's map keeps one.)
RecoverySound == ~torn => RowsCatchUp /\ MatchSound /\ BracketWhole /\ NoFault

\* With leaders that come back, a fight whose crashes tore nothing is played
\* out and stopped.
FinishesUnlessTorn == <>(status = "stop" \/ torn)

=============================================================================
