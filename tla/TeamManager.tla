----------------------------- MODULE TeamManager -----------------------------
(***************************************************************************)
(* Teams, their members and their applicants: TeamManager                  *)
(* (processes/game/fight/team_manager.cpp) and UserManager::gameInfo, with *)
(* the statements they leave with the two database connections and the     *)
(* rows a restarted process loads (fight_db.cpp).                          *)
(*                                                                         *)
(* The message handlers run on the main timer's thread, one at a time, so  *)
(* each is one action.  Users are registered, logged in and identified:    *)
(* the handlers refuse the others before they look at anything.  A         *)
(* statement is queued in the order of issue and executed later            *)
(* (DbConnection); teams and members go through the READ connection, game  *)
(* information through the WRITE connection, and a crash loses what either *)
(* has not executed.  The rows and the stored procedures are not part of   *)
(* src/ and are modelled from how fight_db.cpp and user_db.cpp use them.   *)
(*                                                                         *)
(* Operators named _Slip<What> are mutated forms, as in SingleFail.        *)
(***************************************************************************)
EXTENDS Integers, Sequences, FiniteSets

CONSTANTS
  Users, Games, Servers,
  NoServer,          \* the user has told no server
  TEAMER_MAX_NUM,    \* the size of a full team
  MaxTeams,          \* bound: teams created
  MaxReads,          \* bound: statements waiting on the READ connection
  MaxIssued,         \* bound: statements ever handed to the READ connection
  MaxWrites,         \* bound: statements waiting on the WRITE connection
  MaxCrashes         \* bound: restarts after a crash

ASSUME TeamAssumption ==
  /\ TEAMER_MAX_NUM \in Nat \ {0}
  /\ MaxTeams \in Nat /\ MaxReads \in Nat /\ MaxIssued \in Nat /\ MaxWrites \in Nat
  /\ NoServer \notin Servers /\ MaxCrashes \in Nat
  /\ IsFiniteSet(Users)

VARIABLES
  gameInfo,   \* m_users: the server of each game the user has told us, NoServer for none
  teamOf,     \* m_users: the id of the user's team of each game, 0 for none
  teams,      \* m_teams: id -> BaseTeamData
  readQ,      \* statements of the READ connection, oldest first
  writeQ,     \* statements of the WRITE connection
  rows,       \* the tables: teams, <<user, team id>> -> status, game information
  listed,     \* <<user, team id>>: who was ever on a team's list a client may show
  issued,     \* how many statements the READ connection was ever handed
  crashes     \* how often the process was restarted

vars == <<gameInfo, teamOf, teams, listed, readQ, writeQ, rows, issued, crashes>>

NoRows   == [teams |-> <<>>, mems |-> <<>>,
             games |-> [u \in Users |-> [g \in Games |-> NoServer]]]

\* f with its value at x set to y, and f without x.
With(f, x, y)  == [z \in DOMAIN f \cup {x} |-> IF z = x THEN y ELSE f[z]]
Without(f, x)  == [z \in DOMAIN f \ {x} |-> f[z]]

(***************************************************************************)
(* The statements and what the stored procedures do with them.             *)
(***************************************************************************)

UpdateTeam(i, t)       == [call |-> "team", id |-> i, game |-> t.game,
                           server |-> t.server, leader |-> t.leader]
UpdateTeamMem(u, i, s) == [call |-> "mem", user |-> u, id |-> i, status |-> s]
RefuseInTeam(u, i)     == [call |-> "refuse", user |-> u, id |-> i]
UpdateGameInfo(u, g, s) == [call |-> "game", user |-> u, game |-> g, server |-> s]

\* The tables after statement s.
Apply(r, s) ==
  CASE s.call = "team" ->
         [r EXCEPT !.teams = With(@, s.id, [game |-> s.game, server |-> s.server,
                                            leader |-> s.leader])]
    [] s.call = "mem"    -> [r EXCEPT !.mems = With(@, <<s.user, s.id>>, s.status)]
    [] s.call = "refuse" -> [r EXCEPT !.mems = Without(@, <<s.user, s.id>>)]
    [] s.call = "game"   -> [r EXCEPT !.games[s.user][s.game] = s.server]

\* The tables r when the statements of q are executed, the oldest first.
Ran(r, q) ==
  LET after[k \in 0..Len(q)] == IF k = 0 THEN r ELSE Apply(after[k - 1], q[k])
  IN after[Len(q)]

\* The READ connection is handed the statements of s.
Read(s) ==
  /\ Len(readQ) + Len(s) <= MaxReads /\ issued + Len(s) <= MaxIssued
  /\ readQ' = readQ \o s
  /\ issued' = issued + Len(s)

Write(s) ==
  /\ Len(writeQ) < MaxWrites
  /\ writeQ' = Append(writeQ, s)

ExecRead ==
  /\ readQ # <<>>
  /\ rows' = Apply(rows, Head(readQ))
  /\ readQ' = Tail(readQ)
  /\ UNCHANGED <<gameInfo, teamOf, teams, listed, writeQ, issued, crashes>>

ExecWrite ==
  /\ writeQ # <<>>
  /\ rows' = Apply(rows, Head(writeQ))
  /\ writeQ' = Tail(writeQ)
  /\ UNCHANGED <<gameInfo, teamOf, teams, listed, readQ, issued, crashes>>

(***************************************************************************)
(* The handlers.                                                           *)
(***************************************************************************)

isGameServer(u, g, s) == gameInfo[u][g] = s
haveTeam(u, g)        == teamOf[u][g] # 0

\* One more than the last id of m_teams: a team lost in a crash gives its id back.
createTeamId ==
  IF DOMAIN teams = {} THEN 1
  ELSE 1 + CHOOSE i \in DOMAIN teams : \A j \in DOMAIN teams : j <= i

\* setTeamId with status 1: u joins team i of map ts.
Enter(ts, u, i) ==
  [ts EXCEPT ![i].mems = @ \cup {u}, ![i].wait = @ \ {u}]

\* UserManager::gameInfo: refused once the user has a team of that game.
GameInfo(u, g, s) ==
  /\ ~haveTeam(u, g)
  /\ gameInfo' = [gameInfo EXCEPT ![u][g] = s]
  /\ Write(UpdateGameInfo(u, g, s))
  /\ UNCHANGED <<teamOf, teams, listed, readQ, issued, rows, crashes>>

createTeam_SlipMemberFirst(u, g, s) ==
  LET i == createTeamId
      t == [game |-> g, server |-> s, leader |-> u, mems |-> {u}, wait |-> {}]
  IN /\ isGameServer(u, g, s) /\ ~haveTeam(u, g)
     /\ i <= MaxTeams
     /\ teams' = Enter(With(teams, i, t), u, i)
     /\ teamOf' = [teamOf EXCEPT ![u][g] = i]
     /\ listed' = listed \cup {<<u, i>>}
     /\ Read(<<UpdateTeamMem(u, i, 1), UpdateTeam(i, t)>>)
     /\ UNCHANGED <<gameInfo, writeQ, rows, crashes>>

createTeam(u, g, s) ==
  LET i == createTeamId
      t == [game |-> g, server |-> s, leader |-> u, mems |-> {u}, wait |-> {}]
  IN /\ isGameServer(u, g, s) /\ ~haveTeam(u, g)
     /\ i <= MaxTeams
     /\ teams' = Enter(With(teams, i, t), u, i)
     /\ teamOf' = [teamOf EXCEPT ![u][g] = i]
     /\ listed' = listed \cup {<<u, i>>}
     /\ Read(<<UpdateTeam(i, t), UpdateTeamMem(u, i, 1)>>)
     /\ UNCHANGED <<gameInfo, writeQ, rows, crashes>>

\* The application of u to team i; a full team only answers "full".
JoinTeamToS(u, i) ==
  /\ i \in DOMAIN teams
  /\ isGameServer(u, teams[i].game, teams[i].server)
  /\ ~haveTeam(u, teams[i].game)
  /\ Cardinality(teams[i].mems) < TEAMER_MAX_NUM
  /\ teams' = [teams EXCEPT ![i].wait = @ \cup {u}]
  /\ listed' = listed \cup {<<u, i>>}
  /\ Read(<<UpdateTeamMem(u, i, 2)>>)
  /\ UNCHANGED <<gameInfo, teamOf, writeQ, rows, crashes>>

\* Whom an answer may name: anyone the client's copy of the list (TeamerList)
\* shows, though other answers may have dealt with the application since.
Listed(i) == {u \in Users : <<u, i>> \in listed}

Approve_SlipNoLimit(u, i) ==
  /\ i \in DOMAIN teams /\ u \in Listed(i)
  /\ teams' = Enter(teams, u, i)
  /\ teamOf' = [teamOf EXCEPT ![u][teams[i].game] = i]
  /\ Read(<<UpdateTeamMem(u, i, 1)>>)
  /\ UNCHANGED <<gameInfo, listed, writeQ, rows, crashes>>

\* DealJoinTeamToS, type 1; what the applicant has become since is not looked at.
Approve(u, i) ==
  /\ i \in DOMAIN teams /\ u \in Listed(i)
  /\ Cardinality(teams[i].mems) < TEAMER_MAX_NUM
  /\ teams' = Enter(teams, u, i)
  /\ teamOf' = [teamOf EXCEPT ![u][teams[i].game] = i]
  /\ Read(<<UpdateTeamMem(u, i, 1)>>)
  /\ UNCHANGED <<gameInfo, listed, writeQ, rows, crashes>>

Refuse_SlipNoRow(u, i) ==
  /\ i \in DOMAIN teams /\ u \in Listed(i)
  /\ Cardinality(teams[i].mems) < TEAMER_MAX_NUM
  /\ teams' = [teams EXCEPT ![i].wait = @ \ {u}]
  /\ UNCHANGED <<gameInfo, teamOf, listed, readQ, writeQ, rows, issued, crashes>>

\* DealJoinTeamToS, any other type.
Refuse(u, i) ==
  /\ i \in DOMAIN teams /\ u \in Listed(i)
  /\ Cardinality(teams[i].mems) < TEAMER_MAX_NUM
  /\ teams' = [teams EXCEPT ![i].wait = @ \ {u}]
  /\ Read(<<RefuseInTeam(u, i)>>)
  /\ UNCHANGED <<gameInfo, teamOf, listed, writeQ, rows, crashes>>

(***************************************************************************)
(* Crash and restart.                                                      *)
(***************************************************************************)

\* The users with a row of status s for team i.
RowUsers(i, s) == {u \in Users : <<u, i>> \in DOMAIN rows.mems /\ rows.mems[<<u, i>>] = s}

\* The teams of game g a loaded user belongs or has applied to: insertMemTeam
\* sets BaseUserData::teams whatever the status, and the last row stays.
RowTeams(u, g) ==
  {i \in DOMAIN rows.teams : rows.teams[i].game = g /\ <<u, i>> \in DOMAIN rows.mems}

\* initAllTeam and the queries that follow it: by the time a client has logged
\* in again, over more round trips of the same connection, all is loaded.
Restart ==
  /\ crashes < MaxCrashes
  /\ crashes' = crashes + 1
  /\ readQ' = <<>> /\ writeQ' = <<>>
  /\ gameInfo' = rows.games
  /\ teams' = [i \in DOMAIN rows.teams |->
                 [game   |-> rows.teams[i].game,
                  server |-> rows.teams[i].server,
                  leader |-> rows.teams[i].leader,
                  mems   |-> RowUsers(i, 1), wait |-> RowUsers(i, 2)]]
  /\ teamOf' \in {f \in [Users -> [Games -> {0} \cup DOMAIN rows.teams]] :
                    \A u \in Users, g \in Games :
                      IF RowTeams(u, g) = {} THEN f[u][g] = 0 ELSE f[u][g] \in RowTeams(u, g)}
  /\ UNCHANGED <<listed, rows, issued>>

Init ==
  /\ gameInfo = NoRows.games
  /\ teamOf = [u \in Users |-> [g \in Games |-> 0]]
  /\ teams = <<>>
  /\ readQ = <<>> /\ writeQ = <<>>
  /\ rows = NoRows /\ listed = {}
  /\ issued = 0 /\ crashes = 0

Next ==
  \/ \E u \in Users, g \in Games, s \in Servers : GameInfo(u, g, s) \/ createTeam(u, g, s)
  \/ \E u \in Users, i \in 1..MaxTeams : JoinTeamToS(u, i) \/ Approve(u, i) \/ Refuse(u, i)
  \/ ExecRead \/ ExecWrite
  \/ Restart

Spec == Init /\ [][Next]_vars

(***************************************************************************)
(* Properties.                                                             *)
(***************************************************************************)

Ids == 1..MaxTeams

TypeOK ==
  /\ gameInfo \in [Users -> [Games -> Servers \cup {NoServer}]]
  /\ teamOf \in [Users -> [Games -> {0} \cup Ids]]
  /\ DOMAIN teams \subseteq Ids
  /\ \A i \in DOMAIN teams :
       teams[i] \in [game : Games, server : Servers, leader : Users,
                     mems : SUBSET Users, wait : SUBSET Users]
  /\ Len(readQ) <= MaxReads /\ Len(writeQ) <= MaxWrites
  /\ DOMAIN rows.mems \subseteq listed /\ listed \subseteq Users \X Ids
  /\ issued \in 0..MaxIssued /\ crashes \in 0..MaxCrashes

\* A team never has more members than TEAMER_MAX_NUM, in memory or in the rows a
\* restart would load, however applications, answers and restarts interleave.
RosterBounded ==
  /\ \A i \in DOMAIN teams : Cardinality(teams[i].mems) <= TEAMER_MAX_NUM
  /\ \A i \in Ids : Cardinality(RowUsers(i, 1)) <= TEAMER_MAX_NUM

\* The two maps of TeamManager agree: the team a user is in is a team of that
\* game and lists the user as a member (a restart also counts an application);
\* every member is in some team of the game; and nobody is at once member and
\* applicant of a team.
MapsAgree ==
  /\ \A u \in Users, g \in Games :
       teamOf[u][g] # 0 =>
         /\ teamOf[u][g] \in DOMAIN teams
         /\ teams[teamOf[u][g]].game = g
         /\ crashes = 0 => u \in teams[teamOf[u][g]].mems
  /\ \A i \in DOMAIN teams :
       /\ teams[i].mems \cap teams[i].wait = {}
       /\ \A u \in teams[i].mems : teamOf[u][teams[i].game] # 0

\* However applications, answers and restarts interleave: types, rosters within the
\* limit in memory and in the tables, and maps that agree.
TeamInv == TypeOK /\ RosterBounded /\ MapsAgree

\* Executing what is queued makes the tables equal to memory, except that the
\* row of a member whom a second, late answer refused is gone.  No table is
\* written through both connections.
QueuedStatementsCatchUp ==
  LET d == Ran(rows, readQ)
  IN /\ Ran(rows, writeQ).games = gameInfo
     /\ DOMAIN d.teams = DOMAIN teams
     /\ \A i \in DOMAIN teams :
          d.teams[i] = [game |-> teams[i].game, server |-> teams[i].server,
                        leader |-> teams[i].leader]
     /\ \A u \in Users, i \in Ids :
          LET row == IF <<u, i>> \in DOMAIN d.mems THEN d.mems[<<u, i>>] ELSE 0
          IN /\ (i \in DOMAIN teams /\ u \in teams[i].wait) <=> row = 2
             /\ row = 1 => (i \in DOMAIN teams /\ u \in teams[i].mems)

\* At no instant of a crash do the tables hold a member of a team they do not
\* hold: the id of a team lost in a crash is given out again, and whoever
\* creates that team must find it empty.
NoOrphanRows ==
  \A p \in DOMAIN rows.mems : p[2] \in DOMAIN rows.teams

=============================================================================
