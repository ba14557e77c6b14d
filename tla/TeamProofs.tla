------------------------------ MODULE TeamProofs ------------------------------
(***************************************************************************)
(* Proofs about TeamManager for any users, games and servers, any size of  *)
(* a team, any number of teams, statements and restarts.                   *)
(***************************************************************************)
EXTENDS TeamManager, FiniteSetTheorems, WellFoundedInduction, TLAPS

TeamStmt   == [call : {"team"}, id : Ids, game : Games, server : Servers, leader : Users]
MemStmt    == [call : {"mem"}, user : Users, id : Ids, status : {1, 2}]
RefuseStmt == [call : {"refuse"}, user : Users, id : Ids]
GameStmt   == [call : {"game"}, user : Users, game : Games, server : Servers]
ReadStmt   == TeamStmt \cup MemStmt \cup RefuseStmt

TeamType == [game : Games, server : Servers, leader : Users,
             mems : SUBSET Users, wait : SUBSET Users]
RowType  == [game : Games, server : Servers, leader : Users]
Line(t)  == [game |-> t.game, server |-> t.server, leader |-> t.leader]
InfoType == [Users -> [Games -> Servers \cup {NoServer}]]

TableTypes(r) ==
  /\ r = [teams |-> r.teams, mems |-> r.mems, games |-> r.games]
  /\ DOMAIN r.teams \subseteq Ids /\ r.teams \in [DOMAIN r.teams -> RowType]
  /\ DOMAIN r.mems \subseteq Users \X Ids /\ r.mems \in [DOMAIN r.mems -> {1, 2}]
  /\ r.games \in InfoType

Types ==
  /\ gameInfo \in InfoType
  /\ teamOf \in [Users -> [Games -> {0} \cup Ids]]
  /\ DOMAIN teams \subseteq Ids /\ teams \in [DOMAIN teams -> TeamType]
  /\ readQ \in Seq(ReadStmt) /\ writeQ \in Seq(GameStmt)
  /\ Len(readQ) <= MaxReads /\ Len(writeQ) <= MaxWrites
  /\ listed \subseteq Users \X Ids
  /\ issued \in 0..MaxIssued /\ crashes \in 0..MaxCrashes
  /\ TableTypes(rows)

\* Whoever has a row, or will have one, was on a list.
OnAList ==
  /\ DOMAIN rows.mems \subseteq listed
  /\ \A k \in 1..Len(readQ) : readQ[k].call = "mem" => <<readQ[k].user, readQ[k].id>> \in listed

\* Team i has a row among r, or will have one when the first n statements of q are
\* executed.
HasRow(r, q, i, n) ==
  i \in DOMAIN r.teams \/ \E j \in 1..n : q[j].call = "team" /\ q[j].id = i

\* The row of a team comes before those of its members, in the tables and on the way.
TeamsFirst ==
  /\ NoOrphanRows
  /\ \A k \in 1..Len(readQ) : readQ[k].call = "mem" => HasRow(rows, readQ, readQ[k].id, k - 1)
  /\ \A i \in DOMAIN teams : HasRow(rows, readQ, i, Len(readQ))

Member(u, i) == i \in DOMAIN teams /\ u \in teams[i].mems

\* The rows of members, written or on the way, are those of members in memory.
RowsOfMembers ==
  /\ \A p \in DOMAIN rows.mems : rows.mems[p] = 1 => Member(p[1], p[2])
  /\ \A k \in 1..Len(readQ) :
       readQ[k].call = "mem" /\ readQ[k].status = 1 => Member(readQ[k].user, readQ[k].id)

Bounded == \A i \in DOMAIN teams : Cardinality(teams[i].mems) <= TEAMER_MAX_NUM

IInv == Types /\ OnAList /\ TeamsFirst /\ RowsOfMembers /\ Bounded /\ MapsAgree

-----------------------------------------------------------------------------
(***************************************************************************)
(* The helpers.                                                            *)
(***************************************************************************)

\* createTeamId needs a greatest id: the intervals from the ids up to n are finite,
\* and a smallest of these begins with it.
LEMMA LargestId ==
  ASSUME NEW n \in Nat, NEW S \in SUBSET (1..n), S # {}
  PROVE  \E i \in S : \A j \in S : j <= i
<1> DEFINE T == {i..n : i \in S}
<1>1. T \subseteq FiniteSubsetsOf(1..n)
  <2> SUFFICES ASSUME NEW i \in S PROVE i..n \in FiniteSubsetsOf(1..n)
    OBVIOUS
  <2>1. i \in Int /\ 1 <= i /\ n \in Int
    OBVIOUS
  <2>2. IsFiniteSet(i..n)
    BY <2>1, FS_Interval
  <2>3. i..n \subseteq 1..n
    BY <2>1
  <2> QED
    BY <2>2, <2>3 DEF FiniteSubsetsOf
<1>2. T # {}
  <2>1. PICK i : i \in S
    OBVIOUS
  <2>2. i..n \in T
    BY <2>1
  <2> QED
    BY <2>2
<1>3. IsFiniteSet(1..n)
  BY FS_Interval
<1>4. \E x \in T : \A y \in T : ~ (<<y, x>> \in StrictSubsetOrdering(1..n))
  <2> HIDE DEF T
  <2> QED
    BY <1>1, <1>2, <1>3, FS_StrictSubsetOrderingWellFounded, WFMin
<1>5. PICK i \in S : \A j \in S : ~ (<<j..n, i..n>> \in StrictSubsetOrdering(1..n))
  BY <1>4
<1>6. ASSUME NEW j \in S, ~(j <= i) PROVE FALSE
  <2>1. i \in Int /\ j \in Int /\ 1 <= i /\ i < j /\ i <= n
    BY <1>6
  <2>2. i..n \subseteq 1..n /\ j..n \subseteq i..n /\ i \in i..n /\ i \notin j..n
    BY <2>1
  <2> QED
    BY <1>5, <2>2 DEF StrictSubsetOrdering
<1> QED
  BY <1>6

\* A new team gets an id of its own.
LEMMA NewIdIsFree ==
  ASSUME DOMAIN teams \subseteq Ids
  PROVE  createTeamId \in Nat \ {0} /\ createTeamId \notin DOMAIN teams
<1>1. CASE DOMAIN teams = {}
  BY <1>1 DEF createTeamId
<1>2. CASE DOMAIN teams # {}
  <2> DEFINE m == CHOOSE i \in DOMAIN teams : \A j \in DOMAIN teams : j <= i
  <2>1. m \in DOMAIN teams /\ \A j \in DOMAIN teams : j <= m
    BY <1>2, LargestId, TeamAssumption DEF Ids
  <2>2. createTeamId = 1 + m /\ m \in Nat /\ \A j \in DOMAIN teams : j \in Nat /\ j <= m
    BY <1>2, <2>1, TeamAssumption DEF createTeamId, Ids
  <2> QED
    BY <2>2
<1> QED
  BY <1>1, <1>2

LEMMA WithFacts ==
  ASSUME NEW f, NEW x, NEW y
  PROVE  /\ DOMAIN With(f, x, y) = DOMAIN f \cup {x}
         /\ With(f, x, y)[x] = y
         /\ \A z \in DOMAIN f \ {x} : With(f, x, y)[z] = f[z]
         /\ With(f, x, y) = [z \in DOMAIN f \cup {x} |-> With(f, x, y)[z]]
  BY DEF With

LEMMA WithoutFacts ==
  ASSUME NEW f, NEW x
  PROVE  /\ DOMAIN Without(f, x) = DOMAIN f \ {x}
         /\ \A z \in DOMAIN f \ {x} : Without(f, x)[z] = f[z]
         /\ Without(f, x) = [z \in DOMAIN f \ {x} |-> Without(f, x)[z]]
  BY DEF Without

\* What a statement is, and what it does to the tables.
LEMMA StmtFacts ==
  ASSUME NEW i \in Ids, NEW u \in Users, NEW s \in {1, 2}, NEW g \in Games, NEW v \in Servers,
         NEW t \in TeamType
  PROVE  /\ UpdateTeam(i, t) \in TeamStmt /\ UpdateTeam(i, t).id = i
         /\ UpdateTeamMem(u, i, s) \in MemStmt /\ UpdateTeamMem(u, i, s).user = u
         /\ UpdateTeamMem(u, i, s).id = i /\ UpdateTeamMem(u, i, s).status = s
         /\ RefuseInTeam(u, i) \in RefuseStmt
         /\ UpdateGameInfo(u, g, v) \in GameStmt
  BY DEF UpdateTeam, UpdateTeamMem, RefuseInTeam, UpdateGameInfo, TeamStmt, MemStmt,
         RefuseStmt, GameStmt, TeamType

LEMMA Calls ==
  /\ \A s \in TeamStmt : s.call = "team"
  /\ \A s \in MemStmt : s.call = "mem"
  /\ \A s \in RefuseStmt : s.call = "refuse"
  /\ \A s \in GameStmt : s.call = "game"
  BY DEF TeamStmt, MemStmt, RefuseStmt, GameStmt

LEMMA ApplyTeam ==
  ASSUME NEW r, TableTypes(r), NEW s \in TeamStmt
  PROVE  /\ TableTypes(Apply(r, s))
         /\ DOMAIN Apply(r, s).teams = DOMAIN r.teams \cup {s.id}
         /\ Apply(r, s).teams = With(r.teams, s.id, Line(s))
         /\ Apply(r, s).mems = r.mems /\ Apply(r, s).games = r.games
<1> DEFINE row == Line(s)
<1>1. Apply(r, s) = [r EXCEPT !.teams = With(r.teams, s.id, row)]
  BY Calls DEF Apply, Line
<1>2. s.id \in Ids /\ row \in RowType
  BY DEF TeamStmt, RowType, Line
<1>3. /\ Apply(r, s).teams = With(r.teams, s.id, row)
      /\ Apply(r, s).mems = r.mems /\ Apply(r, s).games = r.games
      /\ Apply(r, s) = [teams |-> With(r.teams, s.id, row), mems |-> r.mems, games |-> r.games]
  BY <1>1 DEF TableTypes
<1>4. With(r.teams, s.id, row) \in [DOMAIN r.teams \cup {s.id} -> RowType]
  BY <1>2 DEF With, TableTypes
<1> QED
  BY <1>2, <1>3, <1>4, WithFacts DEF TableTypes

LEMMA ApplyMem ==
  ASSUME NEW r, TableTypes(r), NEW s \in MemStmt
  PROVE  /\ TableTypes(Apply(r, s))
         /\ DOMAIN Apply(r, s).mems = DOMAIN r.mems \cup {<<s.user, s.id>>}
         /\ Apply(r, s).mems[<<s.user, s.id>>] = s.status
         /\ \A p \in DOMAIN r.mems \ {<<s.user, s.id>>} : Apply(r, s).mems[p] = r.mems[p]
         /\ Apply(r, s).teams = r.teams /\ Apply(r, s).games = r.games
<1> DEFINE p == <<s.user, s.id>>
<1>1. Apply(r, s) = [r EXCEPT !.mems = With(r.mems, p, s.status)]
  BY Calls DEF Apply
<1>2. p \in Users \X Ids /\ s.status \in {1, 2}
  BY DEF MemStmt
<1>3. /\ Apply(r, s).mems = With(r.mems, p, s.status)
      /\ Apply(r, s).teams = r.teams /\ Apply(r, s).games = r.games
      /\ Apply(r, s) = [teams |-> r.teams, mems |-> With(r.mems, p, s.status), games |-> r.games]
  BY <1>1 DEF TableTypes
<1>4. With(r.mems, p, s.status) \in [DOMAIN r.mems \cup {p} -> {1, 2}]
  BY <1>2 DEF With, TableTypes
<1>5. /\ DOMAIN With(r.mems, p, s.status) = DOMAIN r.mems \cup {p}
      /\ With(r.mems, p, s.status)[p] = s.status
      /\ \A q \in DOMAIN r.mems \ {p} : With(r.mems, p, s.status)[q] = r.mems[q]
  BY DEF With
<1>6. DOMAIN r.mems \cup {p} \subseteq Users \X Ids
  <2>1. DOMAIN r.mems \subseteq Users \X Ids
    BY DEF TableTypes
  <2> QED
    BY <1>2, <2>1
<1> HIDE DEF p
<1>7. TableTypes(Apply(r, s))
  BY <1>3, <1>4, <1>5, <1>6 DEF TableTypes
<1> QED
  BY <1>3, <1>5, <1>7 DEF p

LEMMA ApplyRefuse ==
  ASSUME NEW r, TableTypes(r), NEW s \in RefuseStmt
  PROVE  /\ TableTypes(Apply(r, s))
         /\ DOMAIN Apply(r, s).mems = DOMAIN r.mems \ {<<s.user, s.id>>}
         /\ \A p \in DOMAIN Apply(r, s).mems : Apply(r, s).mems[p] = r.mems[p]
         /\ Apply(r, s).teams = r.teams /\ Apply(r, s).games = r.games
<1> DEFINE p == <<s.user, s.id>>
<1>1. Apply(r, s) = [r EXCEPT !.mems = Without(r.mems, p)]
  BY Calls DEF Apply
<1>2. /\ Apply(r, s).mems = Without(r.mems, p)
      /\ Apply(r, s).teams = r.teams /\ Apply(r, s).games = r.games
      /\ Apply(r, s) = [teams |-> r.teams, mems |-> Without(r.mems, p), games |-> r.games]
  BY <1>1 DEF TableTypes
<1>3. Without(r.mems, p) \in [DOMAIN r.mems \ {p} -> {1, 2}]
  BY DEF Without, TableTypes
<1>4. /\ DOMAIN Without(r.mems, p) = DOMAIN r.mems \ {p}
      /\ \A q \in DOMAIN r.mems \ {p} : Without(r.mems, p)[q] = r.mems[q]
  BY WithoutFacts
<1> HIDE DEF p
<1>5. TableTypes(Apply(r, s))
  BY <1>2, <1>3, <1>4 DEF TableTypes
<1> QED
  BY <1>2, <1>4, <1>5 DEF p

LEMMA ApplyGame ==
  ASSUME NEW r, TableTypes(r), NEW s \in GameStmt
  PROVE  /\ TableTypes(Apply(r, s))
         /\ Apply(r, s).mems = r.mems /\ Apply(r, s).teams = r.teams
         /\ Apply(r, s).games = [r.games EXCEPT ![s.user][s.game] = s.server]
<1>1. Apply(r, s) = [r EXCEPT !.games[s.user][s.game] = s.server]
  BY Calls DEF Apply
<1>2. s.user \in Users /\ s.game \in Games /\ s.server \in Servers
  BY DEF GameStmt
<1>3. /\ Apply(r, s).teams = r.teams /\ Apply(r, s).mems = r.mems
      /\ Apply(r, s).games = [r.games EXCEPT ![s.user][s.game] = s.server]
      /\ Apply(r, s) = [teams |-> r.teams, mems |-> r.mems,
                        games |-> [r.games EXCEPT ![s.user][s.game] = s.server]]
  BY <1>1 DEF TableTypes
<1>4. [r.games EXCEPT ![s.user][s.game] = s.server] \in InfoType
  BY <1>2 DEF TableTypes, InfoType
<1> QED
  BY <1>3, <1>4 DEF TableTypes

-----------------------------------------------------------------------------
(***************************************************************************)
(* The invariant.                                                          *)
(***************************************************************************)

LEMMA InitTeam == Init => IInv
<1> SUFFICES ASSUME Init PROVE IInv
  OBVIOUS
<1>1. rows.teams = <<>> /\ rows.mems = <<>> /\ rows.games \in InfoType
      /\ rows = [teams |-> rows.teams, mems |-> rows.mems, games |-> rows.games]
  BY DEF Init, NoRows, InfoType
<1>2. DOMAIN rows.teams = {} /\ DOMAIN rows.mems = {} /\ DOMAIN teams = {}
      /\ Len(readQ) = 0 /\ Len(writeQ) = 0
  BY <1>1 DEF Init
<1>3. TableTypes(rows)
  BY <1>1, <1>2 DEF TableTypes
<1>4. Types
  BY <1>2, <1>3, TeamAssumption DEF Init, Types, NoRows, InfoType
<1>5. OnAList /\ TeamsFirst /\ RowsOfMembers /\ Bounded
  BY <1>2 DEF OnAList, TeamsFirst, NoOrphanRows, RowsOfMembers, Bounded
<1>6. MapsAgree
  BY <1>2 DEF Init, MapsAgree
<1> QED
  BY <1>4, <1>5, <1>6 DEF IInv

\* What handing s to the READ connection does to what waits there.
LEMMA QueueGrows ==
  ASSUME Types, NEW s \in Seq(ReadStmt), Read(s)
  PROVE  /\ readQ' \in Seq(ReadStmt) /\ Len(readQ') = Len(readQ) + Len(s)
         /\ Len(readQ) \in Nat /\ Len(s) \in Nat
         /\ Len(readQ') <= MaxReads /\ issued' \in 0..MaxIssued
         /\ \A k \in 1..Len(readQ) : readQ'[k] = readQ[k]
         /\ \A k \in 1..Len(s) : readQ'[Len(readQ) + k] = s[k]
         /\ \A k \in 1..Len(readQ') : k \in 1..Len(readQ) \/ k - Len(readQ) \in 1..Len(s)
<1>1. readQ' = readQ \o s /\ readQ \in Seq(ReadStmt)
  BY DEF Read, Types
<1>2. Len(readQ) \in Nat /\ Len(s) \in Nat /\ Len(readQ') = Len(readQ) + Len(s)
  BY <1>1
<1>3. Len(readQ') <= MaxReads /\ issued' \in 0..MaxIssued
  BY <1>2, TeamAssumption DEF Read, Types
<1> QED
  BY <1>1, <1>2, <1>3

\* A handler that adds to the teams and their members and hands over statements to
\* match, those of a team before those of its members.
LEMMA ReadStep ==
  ASSUME IInv, NEW s \in Seq(ReadStmt), Read(s), UNCHANGED rows, listed \subseteq listed',
         DOMAIN teams \subseteq DOMAIN teams',
         \A i \in DOMAIN teams : teams[i].mems \subseteq teams'[i].mems,
         \A k \in 1..Len(s) : s[k].call = "mem" =>
           /\ <<s[k].user, s[k].id>> \in listed'
           /\ s[k].status = 1 => s[k].id \in DOMAIN teams' /\ s[k].user \in teams'[s[k].id].mems
           /\ s[k].id \in DOMAIN teams
              \/ \E j \in 1..(k - 1) : s[j].call = "team" /\ s[j].id = s[k].id,
         \A i \in DOMAIN teams' \ DOMAIN teams :
           \E j \in 1..Len(s) : s[j].call = "team" /\ s[j].id = i
  PROVE  OnAList' /\ TeamsFirst' /\ RowsOfMembers'
<1>t. Types
  BY DEF IInv
<1> DEFINE n == Len(readQ)
<1>1. /\ n \in Nat /\ Len(s) \in Nat /\ Len(readQ') = n + Len(s)
      /\ \A k \in 1..n : readQ'[k] = readQ[k]
      /\ \A k \in 1..Len(s) : readQ'[n + k] = s[k]
      /\ \A k \in 1..Len(readQ') : k \in 1..n \/ k - n \in 1..Len(s)
  BY <1>t, QueueGrows
<1>2. \A u, i : Member(u, i) => i \in DOMAIN teams' /\ u \in teams'[i].mems
  BY DEF Member
<1>3. ASSUME NEW k \in 1..Len(readQ'), k \notin 1..n
      PROVE  k - n \in 1..Len(s) /\ readQ'[k] = s[k - n]
  <2>1. k - n \in 1..Len(s) /\ n + (k - n) = k
    BY <1>1, <1>3
  <2> QED
    BY <1>1, <2>1
<1> HIDE DEF n
<1>4. OnAList'
  <2>1. ASSUME NEW k \in 1..Len(readQ'), readQ'[k].call = "mem"
        PROVE  <<readQ'[k].user, readQ'[k].id>> \in listed'
    <3>1. CASE k \in 1..n
      BY <1>1, <2>1, <3>1 DEF IInv, OnAList, n
    <3>2. CASE k \notin 1..n
      BY <1>3, <2>1, <3>2
    <3> QED
      BY <3>1, <3>2
  <2> QED
    BY <2>1 DEF IInv, OnAList
<1>5. ASSUME NEW i, NEW m \in 0..n, HasRow(rows, readQ, i, m), NEW l \in Nat, m <= l
      PROVE  HasRow(rows', readQ', i, l)
  <2> SUFFICES ASSUME i \notin DOMAIN rows.teams PROVE HasRow(rows', readQ', i, l)
    BY DEF HasRow
  <2>1. PICK j \in 1..m : readQ[j].call = "team" /\ readQ[j].id = i
    BY <1>5 DEF HasRow
  <2>2. j \in 1..n /\ j \in 1..l
    BY <1>1, <1>5, <2>1
  <2>3. readQ'[j] = readQ[j]
    BY <1>1, <2>2
  <2> QED
    BY <2>1, <2>2, <2>3 DEF HasRow
<1>6. ASSUME NEW i \in DOMAIN teams, NEW l \in Nat, n <= l PROVE HasRow(rows', readQ', i, l)
  <2>1. n \in 0..n /\ HasRow(rows, readQ, i, n)
    BY <1>1 DEF IInv, TeamsFirst, n
  <2> QED
    BY <1>5, <1>6, <2>1
<1>7. TeamsFirst'
  <2>1. NoOrphanRows'
    BY DEF IInv, TeamsFirst, NoOrphanRows
  <2>2. ASSUME NEW k \in 1..Len(readQ'), readQ'[k].call = "mem"
        PROVE  HasRow(rows', readQ', readQ'[k].id, k - 1)
    <3>1. CASE k \in 1..n
      <4>1. readQ'[k] = readQ[k] /\ HasRow(rows, readQ, readQ[k].id, k - 1)
        BY <1>1, <2>2, <3>1 DEF IInv, TeamsFirst, n
      <4>2. k - 1 \in 0..n /\ k - 1 \in Nat /\ k - 1 <= k - 1
        BY <1>1, <3>1
      <4> QED
        BY <1>5, <4>1, <4>2
    <3>2. CASE k \notin 1..n
      <4>1. k - n \in 1..Len(s) /\ readQ'[k] = s[k - n]
        BY <1>3, <3>2
      <4>2. CASE s[k - n].id \in DOMAIN teams
        <5>1. k - 1 \in Nat /\ n <= k - 1
          BY <1>1, <3>2
        <5> QED
          BY <1>6, <4>1, <4>2, <5>1
      <4>3. CASE \E j \in 1..(k - n - 1) : s[j].call = "team" /\ s[j].id = s[k - n].id
        <5>1. PICK j \in 1..(k - n - 1) : s[j].call = "team" /\ s[j].id = s[k - n].id
          BY <4>3
        <5>2. j \in 1..Len(s) /\ n + j \in 1..(k - 1)
          BY <1>1, <4>1, <5>1
        <5>3. readQ'[n + j] = s[j]
          BY <1>1, <5>2
        <5> QED
          BY <4>1, <5>1, <5>2, <5>3 DEF HasRow
      <4> QED
        BY <2>2, <4>1, <4>2, <4>3
    <3> QED
      BY <3>1, <3>2
  <2>3. ASSUME NEW i \in DOMAIN teams' PROVE HasRow(rows', readQ', i, Len(readQ'))
    <3>1. CASE i \in DOMAIN teams
      <4>1. Len(readQ') \in Nat /\ n <= Len(readQ')
        BY <1>1
      <4> QED
        BY <1>6, <3>1, <4>1
    <3>2. CASE i \notin DOMAIN teams
      <4>1. PICK j \in 1..Len(s) : s[j].call = "team" /\ s[j].id = i
        BY <3>2
      <4>2. n + j \in 1..Len(readQ') /\ readQ'[n + j] = s[j]
        BY <1>1
      <4> QED
        BY <4>1, <4>2 DEF HasRow
    <3> QED
      BY <3>1, <3>2
  <2> QED
    BY <2>1, <2>2, <2>3 DEF TeamsFirst
<1>8. RowsOfMembers'
  <2>1. ASSUME NEW p \in DOMAIN rows'.mems, rows'.mems[p] = 1
        PROVE  Member(p[1], p[2])'
    BY <1>2, <2>1 DEF IInv, RowsOfMembers, Member
  <2>2. ASSUME NEW k \in 1..Len(readQ'), readQ'[k].call = "mem", readQ'[k].status = 1
        PROVE  readQ'[k].id \in DOMAIN teams' /\ readQ'[k].user \in teams'[readQ'[k].id].mems
    <3>1. CASE k \in 1..n
      BY <1>1, <1>2, <2>2, <3>1 DEF IInv, RowsOfMembers, n
    <3>2. CASE k \notin 1..n
      <4>1. k - n \in 1..Len(s) /\ readQ'[k] = s[k - n]
        BY <1>3, <3>2
      <4>2. s[k - n].call = "mem" /\ s[k - n].status = 1
        BY <2>2, <4>1
      <4>3. s[k - n].id \in DOMAIN teams' /\ s[k - n].user \in teams'[s[k - n].id].mems
        BY <4>1, <4>2
      <4> QED
        BY <4>1, <4>3
    <3> QED
      BY <3>1, <3>2
  <2> QED
    BY <2>1, <2>2 DEF RowsOfMembers, Member
<1> QED
  BY <1>4, <1>7, <1>8

-----------------------------------------------------------------------------
(***************************************************************************)
(* The steps, one lemma per action.                                        *)
(***************************************************************************)

LEMMA GameInfoStep ==
  ASSUME IInv, NEW u \in Users, NEW g \in Games, NEW s \in Servers, GameInfo(u, g, s)
  PROVE  IInv'
<1>t. Types
  BY DEF IInv
<1>1. UNCHANGED <<teamOf, teams, listed, readQ, issued, rows, crashes>>
  BY DEF GameInfo
<1>2. gameInfo' \in InfoType
  BY <1>t DEF GameInfo, Types, InfoType
<1>3. UpdateGameInfo(u, g, s) \in GameStmt
  BY DEF UpdateGameInfo, GameStmt
<1>4. writeQ' \in Seq(GameStmt) /\ Len(writeQ') <= MaxWrites
  BY <1>t, <1>3, TeamAssumption DEF GameInfo, Write, Types
<1>5. Types'
  BY <1>t, <1>1, <1>2, <1>4 DEF Types, TableTypes
<1> QED
  BY <1>1, <1>5 DEF IInv, OnAList, TeamsFirst, NoOrphanRows, HasRow, RowsOfMembers, Member,
                    Bounded, MapsAgree

LEMMA ExecWriteStep == ASSUME IInv, ExecWrite PROVE IInv'
<1>t. Types
  BY DEF IInv
<1>1. UNCHANGED <<gameInfo, teamOf, teams, listed, readQ, issued, crashes>>
  BY DEF ExecWrite
<1>2. Head(writeQ) \in GameStmt /\ writeQ' \in Seq(GameStmt) /\ Len(writeQ') <= MaxWrites
  BY <1>t, TeamAssumption DEF ExecWrite, Types
<1>3. TableTypes(rows') /\ rows'.mems = rows.mems /\ rows'.teams = rows.teams
  BY <1>t, <1>2, ApplyGame DEF ExecWrite, Types
<1>4. Types'
  BY <1>t, <1>1, <1>2, <1>3 DEF Types
<1> QED
  BY <1>1, <1>3, <1>4 DEF IInv, OnAList, TeamsFirst, NoOrphanRows, HasRow, RowsOfMembers, Member,
                          Bounded, MapsAgree

LEMMA ExecReadStep == ASSUME IInv, ExecRead PROVE IInv'
<1>t. Types
  BY DEF IInv
<1> DEFINE h == Head(readQ)
<1>1. UNCHANGED <<gameInfo, teamOf, teams, listed, writeQ, issued, crashes>>
  BY DEF ExecRead
<1>2. /\ h \in ReadStmt /\ h = readQ[1] /\ 1 \in 1..Len(readQ)
      /\ readQ' \in Seq(ReadStmt) /\ Len(readQ') = Len(readQ) - 1 /\ Len(readQ) \in Nat
      /\ \A k \in 1..Len(readQ') : readQ'[k] = readQ[k + 1] /\ k + 1 \in 1..Len(readQ)
  BY <1>t DEF ExecRead, Types
<1>3. rows' = Apply(rows, h) /\ TableTypes(rows)
  BY <1>t DEF ExecRead, Types
<1>4. ASSUME NEW i, NEW n \in 1..Len(readQ), HasRow(rows, readQ, i, n),
             DOMAIN rows.teams \subseteq DOMAIN rows'.teams,
             h.call = "team" => h.id \in DOMAIN rows'.teams
      PROVE  HasRow(rows', readQ', i, n - 1)
  <2> SUFFICES ASSUME i \notin DOMAIN rows'.teams PROVE HasRow(rows', readQ', i, n - 1)
    BY DEF HasRow
  <2>1. PICK j \in 1..n : readQ[j].call = "team" /\ readQ[j].id = i
    BY <1>4 DEF HasRow
  <2>2. j # 1
    BY <1>2, <1>4, <2>1
  <2>3. j - 1 \in 1..(n - 1) /\ j - 1 \in 1..Len(readQ') /\ (j - 1) + 1 = j
    BY <1>2, <2>1, <2>2
  <2>4. readQ'[j - 1] = readQ[j]
    BY <1>2, <2>3
  <2> QED
    BY <2>1, <2>3, <2>4 DEF HasRow
<1>5. ASSUME TableTypes(rows'), DOMAIN rows.teams \subseteq DOMAIN rows'.teams,
             h.call = "team" => h.id \in DOMAIN rows'.teams,
             \A p \in DOMAIN rows'.mems :
               \/ p \in DOMAIN rows.mems /\ rows'.mems[p] = rows.mems[p]
               \/ h.call = "mem" /\ p = <<h.user, h.id>> /\ rows'.mems[p] = h.status
      PROVE  IInv'
  <2>1. Types'
    <3>1. Len(readQ') <= MaxReads
      BY <1>t, <1>2, TeamAssumption DEF Types
    <3> QED
      BY <1>t, <1>1, <1>2, <1>5, <3>1 DEF Types
  <2>2. h.call = "mem" => /\ <<h.user, h.id>> \in listed
                          /\ h.id \in DOMAIN rows.teams
                          /\ h.status = 1 => Member(h.user, h.id)
    BY <1>2 DEF IInv, OnAList, TeamsFirst, HasRow, RowsOfMembers
  <2>3. OnAList'
    BY <1>1, <1>2, <1>5, <2>2 DEF IInv, OnAList
  <2>4. NoOrphanRows'
    BY <1>5, <2>2 DEF IInv, TeamsFirst, NoOrphanRows
  <2>5. ASSUME NEW k \in 1..Len(readQ'), readQ'[k].call = "mem"
        PROVE  HasRow(rows', readQ', readQ'[k].id, k - 1)
    <3>1. k + 1 \in 1..Len(readQ) /\ readQ'[k] = readQ[k + 1] /\ (k + 1) - 1 = k /\ k \in 1..Len(readQ)
      BY <1>2
    <3>2. HasRow(rows, readQ, readQ[k + 1].id, k)
      BY <2>5, <3>1 DEF IInv, TeamsFirst
    <3> QED
      BY <1>4, <1>5, <3>1, <3>2
  <2>6. ASSUME NEW i \in DOMAIN teams PROVE HasRow(rows', readQ', i, Len(readQ'))
    <3>1. HasRow(rows, readQ, i, Len(readQ)) /\ Len(readQ) \in 1..Len(readQ)
      BY <1>2 DEF IInv, TeamsFirst
    <3> QED
      BY <1>2, <1>4, <1>5, <3>1
  <2>7. TeamsFirst'
    BY <1>1, <2>4, <2>5, <2>6 DEF TeamsFirst
  <2>8. RowsOfMembers'
    <3>1. ASSUME NEW p \in DOMAIN rows'.mems, rows'.mems[p] = 1 PROVE Member(p[1], p[2])
      BY <1>5, <2>2, <3>1 DEF IInv, RowsOfMembers
    <3>2. ASSUME NEW k \in 1..Len(readQ'), readQ'[k].call = "mem", readQ'[k].status = 1
          PROVE  Member(readQ'[k].user, readQ'[k].id)
      BY <1>2, <3>2 DEF IInv, RowsOfMembers
    <3> QED
      BY <1>1, <3>1, <3>2 DEF RowsOfMembers, Member
  <2> QED
    BY <1>1, <2>1, <2>3, <2>7, <2>8 DEF IInv, Bounded, MapsAgree
<1> HIDE DEF h
<1>6. CASE h \in TeamStmt
  BY <1>3, <1>5, <1>6, ApplyTeam, Calls
<1>7. CASE h \in MemStmt
  <2>1. /\ TableTypes(rows') /\ h.call = "mem" /\ rows'.teams = rows.teams
        /\ DOMAIN rows'.mems = DOMAIN rows.mems \cup {<<h.user, h.id>>}
        /\ rows'.mems[<<h.user, h.id>>] = h.status
        /\ \A p \in DOMAIN rows.mems \ {<<h.user, h.id>>} : rows'.mems[p] = rows.mems[p]
    BY <1>3, <1>7, ApplyMem, Calls
  <2>2. \A p \in DOMAIN rows'.mems :
          \/ p \in DOMAIN rows.mems /\ rows'.mems[p] = rows.mems[p]
          \/ h.call = "mem" /\ p = <<h.user, h.id>> /\ rows'.mems[p] = h.status
    BY <2>1
  <2> QED
    BY <1>5, <2>1, <2>2
<1>8. CASE h \in RefuseStmt
  BY <1>3, <1>5, <1>8, ApplyRefuse, Calls
<1> QED
  BY <1>2, <1>6, <1>7, <1>8 DEF ReadStmt

\* The types after a handler that changes the teams and hands s to the READ
\* connection.
LEMMA HandlerTypes ==
  ASSUME Types, NEW s \in Seq(ReadStmt), Read(s),
         UNCHANGED <<gameInfo, writeQ, rows, crashes>>,
         teamOf' \in [Users -> [Games -> {0} \cup Ids]],
         DOMAIN teams' \subseteq Ids, teams' \in [DOMAIN teams' -> TeamType],
         listed' \subseteq Users \X Ids
  PROVE  Types'
<1>1. /\ readQ' \in Seq(ReadStmt) /\ Len(readQ') <= MaxReads /\ issued' \in 0..MaxIssued
  BY QueueGrows
<1> QED
  BY <1>1 DEF Types, TableTypes

LEMMA EnterFacts ==
  ASSUME NEW ts, NEW i \in DOMAIN ts, DOMAIN ts \subseteq Ids, ts \in [DOMAIN ts -> TeamType],
         NEW u \in Users
  PROVE  /\ DOMAIN Enter(ts, u, i) = DOMAIN ts
         /\ Enter(ts, u, i) \in [DOMAIN ts -> TeamType]
         /\ Enter(ts, u, i)[i].mems = ts[i].mems \cup {u}
         /\ Enter(ts, u, i)[i].wait = ts[i].wait \ {u}
         /\ Enter(ts, u, i)[i].game = ts[i].game
         /\ Line(Enter(ts, u, i)[i]) = Line(ts[i])
         /\ \A j \in DOMAIN ts \ {i} : Enter(ts, u, i)[j] = ts[j]
<1>1. ts[i] \in TeamType
  OBVIOUS
<1>2. Enter(ts, u, i) =
        [ts EXCEPT ![i] = [[ts[i] EXCEPT !.mems = ts[i].mems \cup {u}] EXCEPT !.wait = ts[i].wait \ {u}]]
  BY <1>1 DEF Enter, TeamType
<1>3. [[ts[i] EXCEPT !.mems = ts[i].mems \cup {u}] EXCEPT !.wait = ts[i].wait \ {u}] \in TeamType
  BY <1>1 DEF TeamType
<1> QED
  BY <1>1, <1>2, <1>3 DEF TeamType, Line

LEMMA CreateStep ==
  ASSUME IInv, NEW u \in Users, NEW g \in Games, NEW v \in Servers, createTeam(u, g, v)
  PROVE  IInv'
<1>t. Types
  BY DEF IInv
<1> DEFINE i  == createTeamId
           t  == [game |-> g, server |-> v, leader |-> u, mems |-> {u}, wait |-> {}]
           ts == With(teams, i, t)
           s  == <<UpdateTeam(i, t), UpdateTeamMem(u, i, 1)>>
<1>1. /\ ~haveTeam(u, g) /\ i <= MaxTeams
      /\ teams' = Enter(ts, u, i)
      /\ teamOf' = [teamOf EXCEPT ![u][g] = i]
      /\ listed' = listed \cup {<<u, i>>}
      /\ Read(s)
      /\ UNCHANGED <<gameInfo, writeQ, rows, crashes>>
  BY DEF createTeam
<1>2. i \in Nat \ {0} /\ i \notin DOMAIN teams /\ i \in Ids
  BY <1>1, <1>t, NewIdIsFree, TeamAssumption DEF Types, Ids
<1> HIDE DEF i
<1>3. t \in TeamType /\ t.game = g /\ t.mems = {u} /\ t.wait = {}
  BY DEF TeamType
<1> HIDE DEF t
<1>4. /\ DOMAIN ts = DOMAIN teams \cup {i} /\ ts[i] = t
      /\ \A j \in DOMAIN teams : ts[j] = teams[j]
      /\ ts \in [DOMAIN ts -> TeamType] /\ DOMAIN ts \subseteq Ids
  BY <1>t, <1>2, <1>3 DEF With, Types
<1> HIDE DEF ts
<1>5. /\ DOMAIN teams' = DOMAIN teams \cup {i}
      /\ teams' \in [DOMAIN teams' -> TeamType]
      /\ teams'[i].mems = {u} /\ teams'[i].wait = {} /\ teams'[i].game = g
      /\ \A j \in DOMAIN teams : teams'[j] = teams[j]
  <2>1. i \in DOMAIN ts
    BY <1>4
  <2>2. /\ DOMAIN Enter(ts, u, i) = DOMAIN ts
        /\ Enter(ts, u, i) \in [DOMAIN ts -> TeamType]
        /\ Enter(ts, u, i)[i].mems = ts[i].mems \cup {u}
        /\ Enter(ts, u, i)[i].wait = ts[i].wait \ {u}
        /\ Enter(ts, u, i)[i].game = ts[i].game
        /\ \A j \in DOMAIN ts \ {i} : Enter(ts, u, i)[j] = ts[j]
    BY <1>4, <2>1, EnterFacts
  <2> QED
    BY <1>1, <1>2, <1>3, <1>4, <2>2
<1>6. /\ s \in Seq(ReadStmt) /\ Len(s) = 2
      /\ s[1].call = "team" /\ s[1].id = i
      /\ s[2].call = "mem" /\ s[2].user = u /\ s[2].id = i /\ s[2].status = 1
  BY <1>2, <1>3, StmtFacts, Calls DEF ReadStmt
<1> HIDE DEF s
<1>7. Types'
  <2>1. teamOf' \in [Users -> [Games -> {0} \cup Ids]] /\ listed' \subseteq Users \X Ids
    BY <1>1, <1>2, <1>t DEF Types
  <2> QED
    BY <1>1, <1>2, <1>t, <1>5, <1>6, <2>1, HandlerTypes DEF Types
<1>8. OnAList' /\ TeamsFirst' /\ RowsOfMembers'
  <2>1. ASSUME NEW k \in 1..Len(s), s[k].call = "mem"
        PROVE  /\ <<s[k].user, s[k].id>> \in listed'
               /\ s[k].status = 1 => s[k].id \in DOMAIN teams' /\ s[k].user \in teams'[s[k].id].mems
               /\ s[k].id \in DOMAIN teams
                  \/ \E j \in 1..(k - 1) : s[j].call = "team" /\ s[j].id = s[k].id
    <3>1. k = 2 /\ 1 \in 1..(k - 1)
      BY <1>6, <2>1
    <3> QED
      BY <1>1, <1>5, <1>6, <3>1
  <2>2. ASSUME NEW j \in DOMAIN teams' \ DOMAIN teams
        PROVE  \E k \in 1..Len(s) : s[k].call = "team" /\ s[k].id = j
    BY <1>5, <1>6
  <2> QED
    BY <1>1, <1>5, <1>6, <2>1, <2>2, ReadStep
<1>9. Bounded'
  <2>1. Cardinality({u}) = 1
    BY FS_Singleton
  <2>2. Cardinality(teams'[i].mems) <= TEAMER_MAX_NUM
    BY <1>5, <2>1, TeamAssumption
  <2>3. \A j \in DOMAIN teams : teams'[j].mems = teams[j].mems
    BY <1>5
  <2>4. \A j \in DOMAIN teams : Cardinality(teams'[j].mems) <= TEAMER_MAX_NUM
    BY <2>3 DEF IInv, Bounded
  <2> QED
    BY <1>5, <2>2, <2>4 DEF Bounded
<1>10. MapsAgree'
  <2>1. ASSUME NEW w \in Users, NEW h \in Games, teamOf'[w][h] # 0
        PROVE  /\ teamOf'[w][h] \in DOMAIN teams'
               /\ teams'[teamOf'[w][h]].game = h
               /\ crashes' = 0 => w \in teams'[teamOf'[w][h]].mems
    <3>1. CASE w = u /\ h = g
      BY <1>1, <1>5, <1>t, <3>1 DEF Types
    <3>2. CASE ~(w = u /\ h = g)
      <4>1. teamOf'[w][h] = teamOf[w][h]
        BY <1>1, <1>t, <3>2 DEF Types
      <4> QED
        BY <1>1, <1>5, <2>1, <4>1 DEF IInv, MapsAgree
    <3> QED
      BY <3>1, <3>2
  <2>2. ASSUME NEW j \in DOMAIN teams'
        PROVE  /\ teams'[j].mems \cap teams'[j].wait = {}
               /\ \A w \in teams'[j].mems : teamOf'[w][teams'[j].game] # 0
    <3>1. CASE j = i
      BY <1>1, <1>2, <1>5, <1>t, <3>1 DEF Types
    <3>2. CASE j # i
      <4>1. j \in DOMAIN teams /\ teams'[j] = teams[j] /\ teams[j] \in TeamType
        BY <1>5, <1>t, <3>2 DEF Types
      <4>2. \A w \in Users, h \in Games : teamOf[w][h] # 0 => teamOf'[w][h] # 0
        BY <1>1, <1>2, <1>t DEF Types
      <4> QED
        BY <4>1, <4>2 DEF IInv, MapsAgree, TeamType
    <3> QED
      BY <3>1, <3>2
  <2> QED
    BY <2>1, <2>2 DEF MapsAgree
<1> QED
  BY <1>7, <1>8, <1>9, <1>10 DEF IInv

\* The only statement a handler hands over is that of a member or an applicant.
LEMMA OneStatement ==
  ASSUME IInv, NEW st \in MemStmt \cup RefuseStmt, Read(<<st>>), UNCHANGED rows,
         listed \subseteq listed', DOMAIN teams' = DOMAIN teams,
         \A i \in DOMAIN teams : teams[i].mems \subseteq teams'[i].mems,
         st.call = "mem" => /\ <<st.user, st.id>> \in listed' /\ st.id \in DOMAIN teams
                            /\ st.status = 1 => st.user \in teams'[st.id].mems
  PROVE  OnAList' /\ TeamsFirst' /\ RowsOfMembers'
<1> DEFINE s == <<st>>
<1>1. s \in Seq(ReadStmt) /\ Len(s) = 1 /\ s[1] = st
  BY DEF ReadStmt
<1> HIDE DEF s
<1>2. ASSUME NEW k \in 1..Len(s), s[k].call = "mem"
      PROVE  /\ <<s[k].user, s[k].id>> \in listed'
             /\ s[k].status = 1 => s[k].id \in DOMAIN teams' /\ s[k].user \in teams'[s[k].id].mems
             /\ s[k].id \in DOMAIN teams
                \/ \E j \in 1..(k - 1) : s[j].call = "team" /\ s[j].id = s[k].id
  <2>1. k = 1 /\ s[k] = st
    BY <1>1
  <2> QED
    BY <1>2, <2>1
<1>3. Read(s)
  BY DEF s
<1> QED
  BY <1>1, <1>2, <1>3, ReadStep

LEMMA JoinStep ==
  ASSUME IInv, NEW u \in Users, NEW i \in 1..MaxTeams, JoinTeamToS(u, i)
  PROVE  IInv'
<1>t. Types
  BY DEF IInv
<1> DEFINE st == UpdateTeamMem(u, i, 2)
<1>1. /\ i \in DOMAIN teams /\ ~haveTeam(u, teams[i].game)
      /\ teams' = [teams EXCEPT ![i].wait = teams[i].wait \cup {u}]
      /\ listed' = listed \cup {<<u, i>>}
      /\ Read(<<st>>)
      /\ UNCHANGED <<gameInfo, teamOf, writeQ, rows, crashes>>
  BY DEF JoinTeamToS
<1>2. teams[i] \in TeamType /\ i \in Ids
  BY <1>1, <1>t DEF Types
<1>3. /\ DOMAIN teams' = DOMAIN teams /\ teams' \in [DOMAIN teams' -> TeamType]
      /\ \A j \in DOMAIN teams : teams'[j].mems = teams[j].mems /\ teams'[j].game = teams[j].game
      /\ \A j \in DOMAIN teams \ {i} : teams'[j] = teams[j]
      /\ teams'[i].wait = teams[i].wait \cup {u}
  BY <1>1, <1>2, <1>t DEF Types, TeamType
<1>4. st \in MemStmt /\ st.user = u /\ st.id = i /\ st.status = 2 /\ <<st>> \in Seq(ReadStmt)
  <2>1. st \in MemStmt /\ st.user = u /\ st.id = i /\ st.status = 2
    BY <1>2 DEF UpdateTeamMem, MemStmt
  <2> QED
    BY <2>1 DEF ReadStmt
<1> HIDE DEF st
<1>5. Types'
  <2>1. teamOf' \in [Users -> [Games -> {0} \cup Ids]] /\ listed' \subseteq Users \X Ids
    BY <1>1, <1>2, <1>t DEF Types
  <2> QED
    BY <1>1, <1>3, <1>t, <1>4, <2>1, HandlerTypes DEF Types
<1>6. OnAList' /\ TeamsFirst' /\ RowsOfMembers'
  <2>1. \A j \in DOMAIN teams : teams[j].mems \subseteq teams'[j].mems
    BY <1>3
  <2>2. listed \subseteq listed' /\ <<st.user, st.id>> \in listed' /\ st.id \in DOMAIN teams
        /\ st.status # 1 /\ st \in MemStmt \cup RefuseStmt
    BY <1>1, <1>4
  <2>3. UNCHANGED rows /\ DOMAIN teams' = DOMAIN teams /\ Read(<<st>>)
    BY <1>1, <1>3
  <2> QED
    BY <2>1, <2>2, <2>3, OneStatement
<1>7. Bounded'
  BY <1>3 DEF IInv, Bounded
<1>8. u \notin teams[i].mems
  BY <1>1 DEF IInv, MapsAgree, haveTeam
<1>9. MapsAgree'
  <2>1. \A j \in DOMAIN teams' : teams'[j].mems \cap teams'[j].wait = {}
    BY <1>3, <1>8 DEF IInv, MapsAgree
  <2> QED
    BY <1>1, <1>3, <2>1 DEF IInv, MapsAgree
<1> QED
  BY <1>5, <1>6, <1>7, <1>9 DEF IInv

LEMMA ApproveStep ==
  ASSUME IInv, NEW u \in Users, NEW i \in 1..MaxTeams, Approve(u, i)
  PROVE  IInv'
<1>t. Types
  BY DEF IInv
<1> DEFINE st == UpdateTeamMem(u, i, 1)
           g  == teams[i].game
<1>1. /\ i \in DOMAIN teams /\ <<u, i>> \in listed
      /\ Cardinality(teams[i].mems) < TEAMER_MAX_NUM
      /\ teams' = Enter(teams, u, i)
      /\ teamOf' = [teamOf EXCEPT ![u][g] = i]
      /\ Read(<<st>>)
      /\ UNCHANGED <<gameInfo, listed, writeQ, rows, crashes>>
  BY DEF Approve, Listed
<1>2. teams[i] \in TeamType /\ i \in Ids /\ g \in Games /\ i \in Nat \ {0}
  BY <1>1, <1>t, TeamAssumption DEF Types, TeamType, Ids
<1>3. /\ DOMAIN teams' = DOMAIN teams /\ teams' \in [DOMAIN teams' -> TeamType]
      /\ teams'[i].mems = teams[i].mems \cup {u} /\ teams'[i].wait = teams[i].wait \ {u}
      /\ teams'[i].game = g
      /\ \A j \in DOMAIN teams \ {i} : teams'[j] = teams[j]
  <2>1. DOMAIN teams \subseteq Ids /\ teams \in [DOMAIN teams -> TeamType]
    BY <1>t DEF Types
  <2>2. /\ DOMAIN Enter(teams, u, i) = DOMAIN teams
        /\ Enter(teams, u, i) \in [DOMAIN teams -> TeamType]
        /\ Enter(teams, u, i)[i].mems = teams[i].mems \cup {u}
        /\ Enter(teams, u, i)[i].wait = teams[i].wait \ {u}
        /\ Enter(teams, u, i)[i].game = teams[i].game
        /\ \A j \in DOMAIN teams \ {i} : Enter(teams, u, i)[j] = teams[j]
    BY <1>1, <2>1, EnterFacts
  <2> QED
    BY <1>1, <2>2
<1>4. st \in MemStmt /\ st.user = u /\ st.id = i /\ st.status = 1 /\ <<st>> \in Seq(ReadStmt)
  <2>1. st \in MemStmt /\ st.user = u /\ st.id = i /\ st.status = 1
    BY <1>2 DEF UpdateTeamMem, MemStmt
  <2> QED
    BY <2>1 DEF ReadStmt
<1> HIDE DEF st, g
<1>5. Types'
  <2>1. teamOf' \in [Users -> [Games -> {0} \cup Ids]] /\ listed' \subseteq Users \X Ids
    BY <1>1, <1>2, <1>t DEF Types
  <2> QED
    BY <1>1, <1>3, <1>t, <1>4, <2>1, HandlerTypes DEF Types
<1>6. OnAList' /\ TeamsFirst' /\ RowsOfMembers'
  <2>1. \A j \in DOMAIN teams : teams[j].mems \subseteq teams'[j].mems
    BY <1>3
  <2> QED
    BY <1>1, <1>3, <1>4, <2>1, OneStatement
<1>7. Bounded'
  <2>1. IsFiniteSet(teams[i].mems)
    BY <1>2, FS_Subset, TeamAssumption DEF TeamType
  <2>2. /\ Cardinality(teams[i].mems) \in Nat
        /\ Cardinality(teams[i].mems \cup {u}) <= Cardinality(teams[i].mems) + 1
        /\ Cardinality(teams[i].mems \cup {u}) \in Nat
    <3>1. /\ IsFiniteSet(teams[i].mems \cup {u})
          /\ \/ Cardinality(teams[i].mems \cup {u}) = Cardinality(teams[i].mems)
             \/ Cardinality(teams[i].mems \cup {u}) = Cardinality(teams[i].mems) + 1
      BY <2>1, FS_AddElement
    <3>2. Cardinality(teams[i].mems) \in Nat
      BY <2>1, FS_CardinalityType
    <3> QED
      BY <3>1, <3>2
  <2>3. Cardinality(teams'[i].mems) <= TEAMER_MAX_NUM
    BY <1>1, <1>3, <2>2, TeamAssumption
  <2>4. \A j \in DOMAIN teams \ {i} : Cardinality(teams'[j].mems) <= TEAMER_MAX_NUM
    BY <1>3 DEF IInv, Bounded
  <2> QED
    BY <1>3, <2>3, <2>4 DEF Bounded
<1>8. \A w \in Users, h \in Games :
        teamOf'[w][h] = IF w = u /\ h = g THEN i ELSE teamOf[w][h]
  BY <1>1, <1>2, <1>t DEF Types
<1>9. MapsAgree'
  <2>1. ASSUME NEW w \in Users, NEW h \in Games, teamOf'[w][h] # 0
        PROVE  /\ teamOf'[w][h] \in DOMAIN teams'
               /\ teams'[teamOf'[w][h]].game = h
               /\ crashes' = 0 => w \in teams'[teamOf'[w][h]].mems
    <3>1. CASE w = u /\ h = g
      BY <1>1, <1>3, <1>8, <3>1
    <3>2. CASE ~(w = u /\ h = g)
      <4>1. /\ teamOf'[w][h] = teamOf[w][h] /\ teamOf[w][h] \in DOMAIN teams
            /\ teams[teamOf[w][h]].game = h
            /\ crashes = 0 => w \in teams[teamOf[w][h]].mems
        BY <1>8, <2>1, <3>2 DEF IInv, MapsAgree
      <4>2. \A j \in DOMAIN teams : teams'[j].game = teams[j].game /\ teams[j].mems \subseteq teams'[j].mems
        BY <1>3 DEF g
      <4> QED
        BY <1>1, <1>3, <4>1, <4>2
    <3> QED
      BY <3>1, <3>2
  <2>2. ASSUME NEW j \in DOMAIN teams'
        PROVE  /\ teams'[j].mems \cap teams'[j].wait = {}
               /\ \A w \in teams'[j].mems : teamOf'[w][teams'[j].game] # 0
    <3>1. teams[j] \in TeamType
      BY <1>3, <1>t DEF Types
    <3>2. \A w \in Users, h \in Games : teamOf[w][h] # 0 => teamOf'[w][h] # 0
      BY <1>2, <1>8
    <3>3. CASE j = i
      <4>1. teamOf'[u][g] # 0
        BY <1>2, <1>8
      <4>2. \A w \in teams[i].mems : teamOf'[w][g] # 0
        BY <1>1, <1>2, <3>2 DEF IInv, MapsAgree, TeamType, g
      <4> QED
        BY <1>1, <1>3, <3>3, <4>1, <4>2 DEF IInv, MapsAgree
    <3>4. CASE j # i
      BY <1>3, <3>1, <3>2, <3>4 DEF IInv, MapsAgree, TeamType
    <3> QED
      BY <3>3, <3>4
  <2> QED
    BY <2>1, <2>2 DEF MapsAgree
<1> QED
  BY <1>5, <1>6, <1>7, <1>9 DEF IInv

LEMMA RefuseStep ==
  ASSUME IInv, NEW u \in Users, NEW i \in 1..MaxTeams, Refuse(u, i)
  PROVE  IInv'
<1>t. Types
  BY DEF IInv
<1> DEFINE st == RefuseInTeam(u, i)
<1>1. /\ i \in DOMAIN teams
      /\ teams' = [teams EXCEPT ![i].wait = teams[i].wait \ {u}]
      /\ Read(<<st>>)
      /\ UNCHANGED <<gameInfo, teamOf, listed, writeQ, rows, crashes>>
  BY DEF Refuse
<1>2. teams[i] \in TeamType /\ i \in Ids
  BY <1>1, <1>t DEF Types
<1>3. /\ DOMAIN teams' = DOMAIN teams /\ teams' \in [DOMAIN teams' -> TeamType]
      /\ \A j \in DOMAIN teams : /\ teams'[j].mems = teams[j].mems
                                 /\ teams'[j].game = teams[j].game
                                 /\ teams'[j].wait \subseteq teams[j].wait
  BY <1>1, <1>2, <1>t DEF Types, TeamType
<1>4. st \in RefuseStmt /\ st.call = "refuse" /\ <<st>> \in Seq(ReadStmt)
  <2>1. st \in RefuseStmt /\ st.call = "refuse"
    BY <1>2 DEF RefuseInTeam, RefuseStmt
  <2> QED
    BY <2>1 DEF ReadStmt
<1> HIDE DEF st
<1>5. Types'
  BY <1>1, <1>3, <1>t, <1>4, HandlerTypes DEF Types
<1>6. OnAList' /\ TeamsFirst' /\ RowsOfMembers'
  <2>1. \A j \in DOMAIN teams : teams[j].mems \subseteq teams'[j].mems
    BY <1>3
  <2> QED
    BY <1>1, <1>3, <1>4, <2>1, OneStatement
<1>7. Bounded'
  BY <1>3 DEF IInv, Bounded
<1>8. MapsAgree'
  BY <1>1, <1>3 DEF IInv, MapsAgree
<1> QED
  BY <1>5, <1>6, <1>7, <1>8 DEF IInv

\* The rows of a team's members are among its members, who are few enough.
LEMMA RowsAreFew ==
  ASSUME IInv, NEW i
  PROVE  Cardinality(RowUsers(i, 1)) <= TEAMER_MAX_NUM
<1>1. CASE i \in DOMAIN teams
  <2>1. RowUsers(i, 1) \subseteq teams[i].mems
    BY DEF IInv, RowsOfMembers, Member, RowUsers
  <2>2. teams[i].mems \subseteq Users
    BY <1>1 DEF IInv, Types, TeamType
  <2>3. IsFiniteSet(teams[i].mems)
    BY <2>2, FS_Subset, TeamAssumption
  <2>4. /\ Cardinality(RowUsers(i, 1)) <= Cardinality(teams[i].mems)
        /\ Cardinality(RowUsers(i, 1)) \in Nat /\ Cardinality(teams[i].mems) \in Nat
    BY <2>1, <2>3, FS_Subset, FS_CardinalityType
  <2>5. Cardinality(teams[i].mems) <= TEAMER_MAX_NUM
    BY <1>1 DEF IInv, Bounded
  <2> QED
    BY <2>4, <2>5, TeamAssumption
<1>2. CASE i \notin DOMAIN teams
  <2>1. RowUsers(i, 1) = {}
    BY <1>2 DEF IInv, RowsOfMembers, Member, RowUsers
  <2> QED
    BY <2>1, FS_EmptySet, TeamAssumption
<1> QED
  BY <1>1, <1>2

\* What a restart loads from the rows.
LEMMA RestartStep == ASSUME IInv, Restart PROVE IInv'
<1>t. Types
  BY DEF IInv
<1> DEFINE R == DOMAIN rows.teams
<1>1. /\ readQ' = <<>> /\ writeQ' = <<>> /\ gameInfo' = rows.games
      /\ UNCHANGED <<listed, rows, issued>> /\ crashes' = crashes + 1 /\ crashes < MaxCrashes
      /\ teams' = [i \in R |-> [game   |-> rows.teams[i].game,
                                server |-> rows.teams[i].server,
                                leader |-> rows.teams[i].leader,
                                mems   |-> RowUsers(i, 1), wait |-> RowUsers(i, 2)]]
      /\ teamOf' \in [Users -> [Games -> {0} \cup R]]
      /\ \A u \in Users, g \in Games :
           IF RowTeams(u, g) = {} THEN teamOf'[u][g] = 0 ELSE teamOf'[u][g] \in RowTeams(u, g)
  BY DEF Restart
<1>2. TableTypes(rows) /\ R \subseteq Ids
  BY <1>t DEF Types, TableTypes
<1>3. \A i \in R : rows.teams[i] \in RowType
  BY <1>2 DEF TableTypes
<1>4. \A i, st : RowUsers(i, st) \in SUBSET Users
  BY DEF RowUsers
<1>5. /\ DOMAIN teams' = R /\ teams' \in [DOMAIN teams' -> TeamType]
      /\ \A i \in R : /\ teams'[i].mems = RowUsers(i, 1) /\ teams'[i].wait = RowUsers(i, 2)
                      /\ teams'[i].game = rows.teams[i].game
  BY <1>1, <1>3, <1>4 DEF TeamType, RowType
<1>6. Types'
  <2>1. gameInfo' \in InfoType
    BY <1>1, <1>2 DEF TableTypes
  <2>2. teamOf' \in [Users -> [Games -> {0} \cup Ids]]
    BY <1>1, <1>2
  <2>3. /\ readQ' \in Seq(ReadStmt) /\ writeQ' \in Seq(GameStmt)
        /\ Len(readQ') <= MaxReads /\ Len(writeQ') <= MaxWrites
        /\ crashes' \in 0..MaxCrashes
    BY <1>1, <1>t, TeamAssumption DEF Types
  <2> HIDE DEF R
  <2>4. DOMAIN teams' \subseteq Ids /\ teams' \in [DOMAIN teams' -> TeamType]
    BY <1>2, <1>5
  <2> QED
    BY <1>1, <1>t, <2>1, <2>2, <2>3, <2>4 DEF Types, TableTypes
<1>7. readQ' = <<>> /\ Len(readQ') = 0
  BY <1>1
<1>8. OnAList' /\ TeamsFirst'
  BY <1>1, <1>5, <1>7 DEF IInv, OnAList, TeamsFirst, NoOrphanRows, HasRow
<1>9. RowsOfMembers'
  <2>1. ASSUME NEW p \in DOMAIN rows.mems, rows.mems[p] = 1
        PROVE  p[2] \in DOMAIN teams' /\ p[1] \in teams'[p[2]].mems
    <3>1. p[2] \in R
      BY DEF IInv, TeamsFirst, NoOrphanRows
    <3>2. p \in Users \X Ids
      BY <1>2 DEF TableTypes
    <3>3. p[1] \in RowUsers(p[2], 1)
      BY <2>1, <3>2 DEF RowUsers
    <3> QED
      BY <1>5, <3>1, <3>3
  <2> QED
    BY <1>1, <1>7, <2>1 DEF RowsOfMembers, Member
<1>10. Bounded'
  <2> SUFFICES ASSUME NEW i \in R PROVE Cardinality(RowUsers(i, 1)) <= TEAMER_MAX_NUM
    BY <1>5 DEF Bounded
  <2> QED
    BY RowsAreFew
<1>11. MapsAgree'
  <2>1. ASSUME NEW u \in Users, NEW g \in Games, teamOf'[u][g] # 0
        PROVE  /\ teamOf'[u][g] \in DOMAIN teams'
               /\ teams'[teamOf'[u][g]].game = g
               /\ crashes' = 0 => u \in teams'[teamOf'[u][g]].mems
    <3>1. teamOf'[u][g] \in RowTeams(u, g)
      BY <1>1, <2>1
    <3>2. crashes' # 0
      BY <1>1, <1>t DEF Types
    <3> QED
      BY <1>5, <3>1, <3>2 DEF RowTeams
  <2>2. ASSUME NEW i \in DOMAIN teams'
        PROVE  /\ teams'[i].mems \cap teams'[i].wait = {}
               /\ \A u \in teams'[i].mems : teamOf'[u][teams'[i].game] # 0
    <3>1. i \in R /\ rows.teams[i].game \in Games /\ 0 \notin R
      BY <1>2, <1>3, <1>5 DEF RowType, Ids
    <3>2. RowUsers(i, 1) \cap RowUsers(i, 2) = {}
      BY DEF RowUsers
    <3>3. ASSUME NEW u \in RowUsers(i, 1) PROVE teamOf'[u][rows.teams[i].game] # 0
      <4>1. u \in Users /\ i \in RowTeams(u, rows.teams[i].game)
        BY <3>1, <3>3 DEF RowUsers, RowTeams
      <4>2. teamOf'[u][rows.teams[i].game] \in RowTeams(u, rows.teams[i].game)
        BY <1>1, <3>1, <4>1
      <4> QED
        BY <3>1, <4>2 DEF RowTeams
    <3> QED
      BY <1>5, <3>1, <3>2, <3>3
  <2> QED
    BY <2>1, <2>2 DEF MapsAgree
<1> QED
  BY <1>6, <1>8, <1>9, <1>10, <1>11 DEF IInv

-----------------------------------------------------------------------------
LEMMA NextTeam == IInv /\ [Next]_vars => IInv'
<1> SUFFICES ASSUME IInv, [Next]_vars PROVE IInv'
  OBVIOUS
<1>1. ASSUME NEW u \in Users, NEW g \in Games, NEW s \in Servers, GameInfo(u, g, s)
      PROVE  IInv'
  BY <1>1, GameInfoStep
<1>2. ASSUME NEW u \in Users, NEW g \in Games, NEW s \in Servers, createTeam(u, g, s)
      PROVE  IInv'
  BY <1>2, CreateStep
<1>3. ASSUME NEW u \in Users, NEW i \in 1..MaxTeams, JoinTeamToS(u, i) PROVE IInv'
  BY <1>3, JoinStep
<1>4. ASSUME NEW u \in Users, NEW i \in 1..MaxTeams, Approve(u, i) PROVE IInv'
  BY <1>4, ApproveStep
<1>5. ASSUME NEW u \in Users, NEW i \in 1..MaxTeams, Refuse(u, i) PROVE IInv'
  BY <1>5, RefuseStep
<1>6. CASE ExecRead
  BY <1>6, ExecReadStep
<1>7. CASE ExecWrite
  BY <1>7, ExecWriteStep
<1>8. CASE Restart
  BY <1>8, RestartStep
<1>9. CASE UNCHANGED vars
  BY <1>9 DEF vars, IInv, Types, TableTypes, OnAList, TeamsFirst, NoOrphanRows, HasRow,
              RowsOfMembers, Member, Bounded, MapsAgree
<1> QED
  BY <1>1, <1>2, <1>3, <1>4, <1>5, <1>6, <1>7, <1>8, <1>9 DEF Next

\* The invariant says what the checked ones say.
LEMMA Implied == IInv => TeamInv /\ NoOrphanRows
<1> SUFFICES ASSUME IInv PROVE TeamInv /\ NoOrphanRows
  OBVIOUS
<1>t. Types
  BY DEF IInv
<1>1. NoOrphanRows
  BY DEF IInv, TeamsFirst
<1>2. TypeOK
  BY <1>t DEF IInv, OnAList, Types, TypeOK, InfoType, TeamType
<1>3. RosterBounded
  BY RowsAreFew DEF IInv, Bounded, RosterBounded
<1> QED
  BY <1>1, <1>2, <1>3 DEF IInv, TeamInv

\* For any users, games and servers and any number of restarts: no team has more than
\* TEAMER_MAX_NUM members, in memory or in its rows, and the maps of TeamManager
\* agree (createTeam, DealJoinTeamToS, initAllTeam).
THEOREM TeamsAreSound == Spec => []TeamInv
<1>1. IInv => TeamInv
  BY Implied
<1> QED
  BY <1>1, InitTeam, NextTeam, PTL DEF Spec

\* Whenever the process stops, the tables hold no member of a team they do not hold:
\* each statement about a member comes after that of its team (createTeam).
THEOREM NoMemberWithoutTeam == Spec => []NoOrphanRows
<1>1. IInv => NoOrphanRows
  BY Implied
<1> QED
  BY <1>1, InitTeam, NextTeam, PTL DEF Spec

-----------------------------------------------------------------------------
(***************************************************************************)
(* What the queued statements make of the tables.                          *)
(***************************************************************************)

LEMMA FirstNumber ==
  ASSUME NEW S \in SUBSET Nat, S # {}
  PROVE  \E i \in S : \A j \in S : i <= j
<1> DEFINE R == {ss \in Nat \X Nat : ss[1] < ss[2]}
<1>1. IsWellFoundedOn(R, Nat)
  BY NatLessThanWellFounded DEF OpToRel
<1>2. PICK i \in S : \A j \in S : <<j, i>> \notin R
  <2> HIDE DEF R
  <2> QED
    BY <1>1, WFMin
<1>3. \A j \in S : ~(j < i)
  BY <1>2
<1> QED
  BY <1>3

\* What holds of zero and goes on from each number below n to the next holds up to n.
LEMMA StepByStep ==
  ASSUME NEW n \in Nat, NEW S, 0 \in S, \A k \in 0..(n - 1) : k \in S => k + 1 \in S
  PROVE  n \in S
<1> DEFINE T == {k \in 0..n : k \notin S}
<1> SUFFICES ASSUME T # {} PROVE FALSE
  <2>1. n \in 0..n
    OBVIOUS
  <2> QED
    BY <2>1
<1>1. T \in SUBSET Nat
  OBVIOUS
<1> HIDE DEF T
<1>2. PICK i \in T : \A j \in T : i <= j
  BY <1>1, FirstNumber
<1>3. i \in 0..n /\ i \notin S /\ i # 0
  BY DEF T
<1>4. i - 1 \in 0..(n - 1) /\ (i - 1) + 1 = i /\ ~(i <= i - 1)
  BY <1>3
<1>5. i - 1 \in 0..n
  BY <1>3
<1>6. i - 1 \in S
  BY <1>2, <1>4, <1>5 DEF T
<1> QED
  BY <1>3, <1>4, <1>6

\* f holds what the tables r become, statement by statement, when the first n
\* statements of q are executed.
Steps(f, r, q, n) == f = [k \in 0..n |-> IF k = 0 THEN r ELSE Apply(f[k - 1], q[k])]

Follows(f, r, q, n) == f[0] = r /\ \A k \in 1..n : f[k] = Apply(f[k - 1], q[k])

LEMMA StepsAre ==
  ASSUME NEW f, NEW r, NEW q, NEW n \in Nat, Steps(f, r, q, n)
  PROVE  Follows(f, r, q, n)
<1> DEFINE e(k) == IF k = 0 THEN r ELSE Apply(f[k - 1], q[k])
<1>1. f = [k \in 0..n |-> e(k)]
  BY DEF Steps
<1> HIDE DEF e
<1>2. \A k \in 0..n : f[k] = e(k)
  BY <1>1
<1>3. \A k \in 1..n : k \in 0..n /\ k # 0
  OBVIOUS
<1>4. 0 \in 0..n
  OBVIOUS
<1> QED
  BY <1>2, <1>3, <1>4 DEF e, Follows

LEMMA StepsExist ==
  ASSUME NEW r, NEW q, NEW n \in Nat
  PROVE  \E f : Steps(f, r, q, n)
<1> DEFINE S == {k \in 0..n : \E f : Steps(f, r, q, k)}
<1>1. 0 \in S
  <2> DEFINE f == [k \in 0..0 |-> r]
  <2>1. f = [k \in 0..0 |-> IF k = 0 THEN r ELSE Apply(f[k - 1], q[k])]
    OBVIOUS
  <2>2. Steps(f, r, q, 0)
    BY <2>1 DEF Steps
  <2>3. 0 \in 0..n
    OBVIOUS
  <2> HIDE DEF f
  <2> QED
    BY <2>2, <2>3
<1>2. ASSUME NEW m \in 0..(n - 1), m \in S PROVE m + 1 \in S
  <2>1. PICK f : Steps(f, r, q, m)
    BY <1>2
  <2>2. m \in Nat /\ m + 1 \in 0..n
    OBVIOUS
  <2>3. f[0] = r /\ \A k \in 1..m : f[k] = Apply(f[k - 1], q[k])
    BY <2>1, <2>2, StepsAre DEF Follows
  <2> DEFINE g == [k \in 0..(m + 1) |-> IF k = m + 1 THEN Apply(f[m], q[m + 1]) ELSE f[k]]
  <2>4. ASSUME NEW k \in 0..(m + 1)
        PROVE  g[k] = IF k = 0 THEN r ELSE Apply(g[k - 1], q[k])
    <3>1. CASE k = 0
      BY <2>2, <2>3, <3>1
    <3>2. CASE k = m + 1
      <4>1. k # 0 /\ k - 1 = m /\ m \in 0..(m + 1) /\ m # m + 1
        BY <2>2, <3>2
      <4>2. g[k - 1] = f[m]
        BY <4>1
      <4>3. g[k] = Apply(f[m], q[m + 1])
        BY <3>2
      <4> QED
        BY <3>2, <4>1, <4>2, <4>3
    <3>3. CASE k # 0 /\ k # m + 1
      <4>1. k \in 1..m /\ k - 1 \in 0..(m + 1) /\ k - 1 # m + 1
        BY <2>2, <3>3
      <4>2. g[k] = f[k] /\ g[k - 1] = f[k - 1]
        BY <3>3, <4>1
      <4> QED
        BY <2>3, <3>3, <4>1, <4>2
    <3> QED
      BY <3>1, <3>2, <3>3
  <2>5. g = [k \in 0..(m + 1) |-> g[k]]
    OBVIOUS
  <2> HIDE DEF g
  <2>6. Steps(g, r, q, m + 1)
    BY <2>4, <2>5 DEF Steps
  <2> QED
    BY <2>2, <2>6
<1> HIDE DEF S
<1>3. n \in S
  BY <1>1, <1>2, StepByStep
<1> QED
  BY <1>3 DEF S

\* Any f that starts with the tables and goes on statement by statement ends as Ran does.
LEMMA RanIs ==
  ASSUME NEW r, NEW q, Len(q) \in Nat, NEW f, Follows(f, r, q, Len(q))
  PROVE  Ran(r, q) = f[Len(q)]
<1>1. PICK h : Steps(h, r, q, Len(q))
  BY StepsExist
<1>2. \E g : Steps(g, r, q, Len(q)) /\ Ran(r, q) = g[Len(q)]
  <2> DEFINE g == CHOOSE k : k = [m \in 0..Len(q) |-> IF m = 0 THEN r ELSE Apply(k[m - 1], q[m])]
  <2>1. h = [m \in 0..Len(q) |-> IF m = 0 THEN r ELSE Apply(h[m - 1], q[m])]
    BY <1>1 DEF Steps
  <2>2. g = [m \in 0..Len(q) |-> IF m = 0 THEN r ELSE Apply(g[m - 1], q[m])]
    BY <2>1
  <2>3. Ran(r, q) = g[Len(q)]
    BY DEF Ran
  <2>4. Steps(g, r, q, Len(q))
    BY <2>2 DEF Steps
  <2> HIDE DEF g
  <2> QED
    BY <2>3, <2>4
<1>3. PICK g : Steps(g, r, q, Len(q)) /\ Ran(r, q) = g[Len(q)]
  BY <1>2
<1>4. g[0] = r /\ \A k \in 1..Len(q) : g[k] = Apply(g[k - 1], q[k])
  BY <1>3, StepsAre DEF Follows
<1> DEFINE S == {k \in 0..Len(q) : f[k] = g[k]}
<1>5. 0 \in S
  BY <1>4 DEF Follows
<1>6. ASSUME NEW k \in 0..(Len(q) - 1), k \in S PROVE k + 1 \in S
  <2>1. k + 1 \in 1..Len(q) /\ (k + 1) - 1 = k
    OBVIOUS
  <2>2. f[k + 1] = Apply(f[k], q[k + 1]) /\ g[k + 1] = Apply(g[k], q[k + 1])
    BY <1>4, <2>1 DEF Follows
  <2> QED
    BY <1>6, <2>1, <2>2
<1> HIDE DEF S
<1>7. Len(q) \in S
  BY <1>5, <1>6, StepByStep
<1> QED
  BY <1>3, <1>7 DEF S

LEMMA RanSteps ==
  ASSUME NEW r, NEW q, Len(q) \in Nat
  PROVE  \E f : Follows(f, r, q, Len(q)) /\ Ran(r, q) = f[Len(q)]
<1>1. PICK f : Steps(f, r, q, Len(q))
  BY StepsExist
<1>2. Follows(f, r, q, Len(q))
  BY <1>1, StepsAre
<1> QED
  BY <1>2, RanIs

\* An empty queue leaves the tables alone; a statement at the end is executed last,
\* and the one at the head first.
LEMMA RanEmpty == ASSUME NEW r PROVE Ran(r, <<>>) = r
<1>1. PICK q : q = <<>> /\ Len(q) = 0
  OBVIOUS
<1>2. PICK f : Follows(f, r, q, Len(q)) /\ Ran(r, q) = f[Len(q)]
  BY <1>1, RanSteps
<1> QED
  BY <1>1, <1>2 DEF Follows

LEMMA RanAppend ==
  ASSUME NEW r, NEW S, NEW q \in Seq(S), NEW s \in S
  PROVE  Ran(r, Append(q, s)) = Apply(Ran(r, q), s)
<1> DEFINE n == Len(q)
           p == Append(q, s)
<1>1. /\ n \in Nat /\ Len(p) = n + 1 /\ p[n + 1] = s
      /\ \A k \in 1..n : p[k] = q[k]
  OBVIOUS
<1>2. PICK f : Follows(f, r, q, n) /\ Ran(r, q) = f[n]
  BY <1>1, RanSteps
<1> DEFINE g == [k \in 0..(n + 1) |-> IF k = n + 1 THEN Apply(f[n], s) ELSE f[k]]
<1> HIDE DEF n, p
<1>3. g[n + 1] = Apply(f[n], s) /\ \A k \in 0..n : g[k] = f[k]
  <2>1. n + 1 \in 0..(n + 1) /\ \A k \in 0..n : k \in 0..(n + 1) /\ k # n + 1
    BY <1>1
  <2> QED
    BY <2>1
<1> HIDE DEF g
<1>4. ASSUME NEW k \in 1..(n + 1) PROVE g[k] = Apply(g[k - 1], p[k])
  <2>1. CASE k = n + 1
    <3>1. k - 1 = n /\ n \in 0..n
      BY <1>1, <2>1
    <3> QED
      BY <1>1, <1>3, <2>1, <3>1
  <2>2. CASE k # n + 1
    <3>1. k \in 1..n /\ k \in 0..n /\ k - 1 \in 0..n
      BY <1>1, <2>2
    <3> QED
      BY <1>1, <1>2, <1>3, <3>1 DEF Follows
  <2> QED
    BY <2>1, <2>2
<1>5. 0 \in 0..n /\ n + 1 \in Nat
  BY <1>1
<1>6. g[0] = r
  BY <1>2, <1>3, <1>5 DEF Follows
<1>7. Follows(g, r, p, n + 1)
  BY <1>4, <1>6 DEF Follows
<1>8. Ran(r, p) = g[n + 1]
  BY <1>1, <1>5, <1>7, RanIs
<1> QED
  BY <1>2, <1>3, <1>8 DEF n, p

LEMMA RanHead ==
  ASSUME NEW r, NEW S, NEW q \in Seq(S), q # <<>>
  PROVE  Ran(Apply(r, Head(q)), Tail(q)) = Ran(r, q)
<1> DEFINE t == Tail(q)
           n == Len(t)
           o == Apply(r, Head(q))
<1>1. /\ n \in Nat /\ Len(q) = n + 1 /\ n + 1 \in Nat /\ Head(q) = q[1]
      /\ \A k \in 1..n : t[k] = q[k + 1]
  OBVIOUS
<1> HIDE DEF t
<1>2. PICK f : Follows(f, r, q, n + 1) /\ Ran(r, q) = f[n + 1]
  BY <1>1, RanSteps
<1> DEFINE g == [k \in 0..n |-> f[k + 1]]
<1> HIDE DEF n, o
<1>3. \A k \in 0..n : g[k] = f[k + 1]
  OBVIOUS
<1> HIDE DEF g
<1>4. g[0] = o
  <2>1. 0 \in 0..n /\ 1 \in 1..(n + 1) /\ 0 + 1 = 1 /\ 1 - 1 = 0
    BY <1>1
  <2>2. f[1] = Apply(f[0], q[1]) /\ f[0] = r
    BY <1>2, <2>1 DEF Follows
  <2> QED
    BY <1>1, <1>3, <2>1, <2>2 DEF o
<1>5. ASSUME NEW k \in 1..n PROVE g[k] = Apply(g[k - 1], t[k])
  <2>1. k \in 0..n /\ k - 1 \in 0..n /\ k + 1 \in 1..(n + 1) /\ (k + 1) - 1 = k /\ (k - 1) + 1 = k
    BY <1>1
  <2>2. f[k + 1] = Apply(f[k], q[k + 1])
    BY <1>2, <2>1 DEF Follows
  <2> QED
    BY <1>1, <1>3, <2>1, <2>2
<1>6. Follows(g, o, t, n)
  BY <1>4, <1>5 DEF Follows
<1>7. Ran(o, t) = g[n]
  BY <1>1, <1>6, RanIs DEF n
<1>8. n \in 0..n
  BY <1>1
<1> QED
  BY <1>2, <1>3, <1>7, <1>8 DEF o, t

\* The statements of one connection leave the tables of the other alone, whatever
\* these hold.
LEMMA RanReads ==
  ASSUME NEW r, NEW o, TableTypes(r), TableTypes(o), r.teams = o.teams, r.mems = o.mems,
         NEW q \in Seq(ReadStmt)
  PROVE  /\ TableTypes(Ran(r, q))
         /\ Ran(r, q).teams = Ran(o, q).teams /\ Ran(r, q).mems = Ran(o, q).mems
<1> DEFINE n == Len(q)
<1>1. n \in Nat /\ \A k \in 1..n : q[k] \in ReadStmt
  OBVIOUS
<1>2. PICK f : Follows(f, r, q, n) /\ Ran(r, q) = f[n]
  BY <1>1, RanSteps
<1>3. PICK g : Follows(g, o, q, n) /\ Ran(o, q) = g[n]
  BY <1>1, RanSteps
<1> DEFINE S == {k \in 0..n : /\ TableTypes(f[k]) /\ TableTypes(g[k])
                              /\ f[k].teams = g[k].teams /\ f[k].mems = g[k].mems}
<1> HIDE DEF n
<1>4. 0 \in S
  BY <1>1, <1>2, <1>3 DEF Follows
<1>5. ASSUME NEW k \in 0..(n - 1), k \in S PROVE k + 1 \in S
  <2>1. k + 1 \in 1..n /\ k + 1 \in 0..n /\ (k + 1) - 1 = k
    BY <1>1
  <2>2. PICK s : s = q[k + 1] /\ s \in ReadStmt
    BY <1>1, <2>1
  <2>3. f[k + 1] = Apply(f[k], s) /\ g[k + 1] = Apply(g[k], s)
    BY <1>2, <1>3, <2>1, <2>2 DEF Follows
  <2>4. PICK a, b : a = f[k] /\ b = g[k]
    OBVIOUS
  <2>5. /\ TableTypes(a) /\ TableTypes(b) /\ a.teams = b.teams /\ a.mems = b.mems
    BY <1>5, <2>4
  <2>6. /\ TableTypes(Apply(a, s)) /\ TableTypes(Apply(b, s))
        /\ Apply(a, s).teams = Apply(b, s).teams /\ Apply(a, s).mems = Apply(b, s).mems
    <3>1. CASE s \in TeamStmt
      BY <2>5, <3>1, ApplyTeam
    <3>2. CASE s \in MemStmt
      <4>1. Apply(a, s).mems = With(a.mems, <<s.user, s.id>>, s.status)
        BY <2>5, <3>2, Calls DEF Apply, TableTypes
      <4>2. Apply(b, s).mems = With(b.mems, <<s.user, s.id>>, s.status)
        BY <2>5, <3>2, Calls DEF Apply, TableTypes
      <4> QED
        BY <2>5, <3>2, <4>1, <4>2, ApplyMem
    <3>3. CASE s \in RefuseStmt
      <4>1. Apply(a, s).mems = Without(a.mems, <<s.user, s.id>>)
        BY <2>5, <3>3, Calls DEF Apply, TableTypes
      <4>2. Apply(b, s).mems = Without(b.mems, <<s.user, s.id>>)
        BY <2>5, <3>3, Calls DEF Apply, TableTypes
      <4> QED
        BY <2>5, <3>3, <4>1, <4>2, ApplyRefuse
    <3> QED
      BY <2>2, <3>1, <3>2, <3>3 DEF ReadStmt
  <2> QED
    BY <2>1, <2>3, <2>4, <2>6
<1> HIDE DEF S
<1>6. n \in S
  BY <1>1, <1>4, <1>5, StepByStep
<1> QED
  BY <1>2, <1>3, <1>6 DEF S

LEMMA RanWrites ==
  ASSUME NEW r, NEW o, TableTypes(r), TableTypes(o), r.games = o.games, NEW q \in Seq(GameStmt)
  PROVE  TableTypes(Ran(r, q)) /\ Ran(r, q).games = Ran(o, q).games
<1> DEFINE n == Len(q)
<1>1. n \in Nat /\ \A k \in 1..n : q[k] \in GameStmt
  OBVIOUS
<1>2. PICK f : Follows(f, r, q, n) /\ Ran(r, q) = f[n]
  BY <1>1, RanSteps
<1>3. PICK g : Follows(g, o, q, n) /\ Ran(o, q) = g[n]
  BY <1>1, RanSteps
<1> DEFINE S == {k \in 0..n : TableTypes(f[k]) /\ TableTypes(g[k]) /\ f[k].games = g[k].games}
<1> HIDE DEF n
<1>4. 0 \in S
  BY <1>1, <1>2, <1>3 DEF Follows
<1>5. ASSUME NEW k \in 0..(n - 1), k \in S PROVE k + 1 \in S
  <2>1. k + 1 \in 1..n /\ k + 1 \in 0..n /\ (k + 1) - 1 = k
    BY <1>1
  <2>2. PICK s : s = q[k + 1] /\ s \in GameStmt
    BY <1>1, <2>1
  <2>3. f[k + 1] = Apply(f[k], s) /\ g[k + 1] = Apply(g[k], s)
    BY <1>2, <1>3, <2>1, <2>2 DEF Follows
  <2>4. PICK a, b : a = f[k] /\ b = g[k]
    OBVIOUS
  <2>5. TableTypes(a) /\ TableTypes(b) /\ a.games = b.games
    BY <1>5, <2>4
  <2>6. TableTypes(Apply(a, s)) /\ Apply(a, s).games = [a.games EXCEPT ![s.user][s.game] = s.server]
    BY <2>2, <2>5, ApplyGame
  <2>7. TableTypes(Apply(b, s)) /\ Apply(b, s).games = [b.games EXCEPT ![s.user][s.game] = s.server]
    BY <2>2, <2>5, ApplyGame
  <2>8. Apply(a, s).games = Apply(b, s).games
    BY <2>5, <2>6, <2>7
  <2> QED
    BY <2>1, <2>3, <2>4, <2>6, <2>7, <2>8
<1> HIDE DEF S
<1>6. n \in S
  BY <1>1, <1>4, <1>5, StepByStep
<1> QED
  BY <1>2, <1>3, <1>6 DEF S

\* The row of a user in a team's list, 0 for none.
Row(d, u, i) == IF <<u, i>> \in DOMAIN d.mems THEN d.mems[<<u, i>>] ELSE 0

\* What the READ connection will make of the tables shows the teams and their members.
TeamsShown(d) ==
  /\ DOMAIN d.teams = DOMAIN teams
  /\ \A i \in DOMAIN teams : d.teams[i] = Line(teams[i])

MembersShown(d) ==
  \A u \in Users, i \in Ids :
    /\ (i \in DOMAIN teams /\ u \in teams[i].wait) <=> Row(d, u, i) = 2
    /\ Row(d, u, i) = 1 => (i \in DOMAIN teams /\ u \in teams[i].mems)

Shown(d) == TeamsShown(d) /\ MembersShown(d)

LEMMA CatchUpIs ==
  QueuedStatementsCatchUp <=> Ran(rows, writeQ).games = gameInfo /\ Shown(Ran(rows, readQ))
  BY DEF QueuedStatementsCatchUp, Shown, TeamsShown, MembersShown, Line, Row

\* What one statement does to a user's row.
LEMMA RowMem ==
  ASSUME NEW r, TableTypes(r), NEW s \in MemStmt, NEW u, NEW i
  PROVE  Row(Apply(r, s), u, i) = IF u = s.user /\ i = s.id THEN s.status ELSE Row(r, u, i)
<1>1. CASE u = s.user /\ i = s.id
  BY <1>1, ApplyMem DEF Row
<1>2. CASE ~(u = s.user /\ i = s.id)
  <2> DEFINE p == <<u, i>>
             o == <<s.user, s.id>>
             m == Apply(r, s).mems
  <2>1. p # o
    BY <1>2
  <2>2. DOMAIN m = DOMAIN r.mems \cup {o} /\ \A x \in DOMAIN r.mems \ {o} : m[x] = r.mems[x]
    BY ApplyMem
  <2> HIDE DEF p, o, m
  <2>3. (p \in DOMAIN m <=> p \in DOMAIN r.mems) /\ (p \in DOMAIN m => m[p] = r.mems[p])
    BY <2>1, <2>2
  <2> QED
    BY <1>2, <2>3 DEF Row, p, m
<1> QED
  BY <1>1, <1>2

LEMMA RowRefuse ==
  ASSUME NEW r, TableTypes(r), NEW s \in RefuseStmt, NEW u, NEW i
  PROVE  Row(Apply(r, s), u, i) = IF u = s.user /\ i = s.id THEN 0 ELSE Row(r, u, i)
<1>1. CASE u = s.user /\ i = s.id
  BY <1>1, ApplyRefuse DEF Row
<1>2. CASE ~(u = s.user /\ i = s.id)
  <2>1. <<u, i>> # <<s.user, s.id>>
    BY <1>2
  <2> QED
    BY <1>2, <2>1, ApplyRefuse DEF Row
<1> QED
  BY <1>1, <1>2

\* A handler that hands over one statement.
LEMMA OneRead ==
  ASSUME IInv, NEW st \in ReadStmt, Read(<<st>>), UNCHANGED rows
  PROVE  /\ TableTypes(Ran(rows, readQ))
         /\ Ran(rows, readQ)' = Apply(Ran(rows, readQ), st)
<1>1. readQ \in Seq(ReadStmt) /\ TableTypes(rows)
  BY DEF IInv, Types
<1>2. readQ' = Append(readQ, st)
  BY <1>1 DEF Read
<1> QED
  BY <1>1, <1>2, RanAppend, RanReads

\* The steps that say nothing of game information.
LEMMA InfoStands ==
  ASSUME QueuedStatementsCatchUp, UNCHANGED <<rows, writeQ, gameInfo>>, Shown(Ran(rows, readQ))'
  PROVE  QueuedStatementsCatchUp'
<1>1. Ran(rows, writeQ).games = gameInfo
  BY CatchUpIs
<1>2. Ran(rows', writeQ').games = gameInfo'
  BY <1>1
<1>3. QueuedStatementsCatchUp' <=> Ran(rows', writeQ').games = gameInfo' /\ Shown(Ran(rows, readQ))'
  BY DEF QueuedStatementsCatchUp, Shown, TeamsShown, MembersShown, Line, Row
<1> QED
  BY <1>2, <1>3

LEMMA JoinCatchesUp ==
  ASSUME IInv, QueuedStatementsCatchUp,
         NEW u \in Users, NEW i \in 1..MaxTeams, JoinTeamToS(u, i) \/ Approve(u, i)
  PROVE  QueuedStatementsCatchUp'
<1> DEFINE st == UpdateTeamMem(u, i, IF JoinTeamToS(u, i) THEN 2 ELSE 1)
           d  == Ran(rows, readQ)
<1>1. i \in DOMAIN teams /\ Read(<<st>>) /\ UNCHANGED <<gameInfo, writeQ, rows>>
  BY DEF JoinTeamToS, Approve
<1>2. i \in Ids /\ teams[i] \in TeamType /\ teams \in [DOMAIN teams -> TeamType]
  BY <1>1 DEF IInv, Types, Ids
<1>3. st \in MemStmt /\ st \in ReadStmt /\ st.user = u /\ st.id = i
      /\ st.status = IF JoinTeamToS(u, i) THEN 2 ELSE 1
  BY <1>2 DEF UpdateTeamMem, MemStmt, ReadStmt
<1>4. /\ DOMAIN teams' = DOMAIN teams
      /\ \A j \in DOMAIN teams \ {i} : teams'[j] = teams[j]
      /\ Line(teams'[i]) = Line(teams[i])
      /\ teams[i].mems \subseteq teams'[i].mems
      /\ teams'[i].mems \subseteq teams[i].mems \cup {u}
      /\ JoinTeamToS(u, i) => teams'[i].wait = teams[i].wait \cup {u}
      /\ ~JoinTeamToS(u, i) => teams'[i].wait = teams[i].wait \ {u} /\ u \in teams'[i].mems
  <2>1. CASE JoinTeamToS(u, i)
    <3>1. teams' = [teams EXCEPT ![i].wait = teams[i].wait \cup {u}]
      BY <2>1 DEF JoinTeamToS
    <3> QED
      BY <1>1, <1>2, <2>1, <3>1 DEF TeamType, Line
  <2>2. CASE ~JoinTeamToS(u, i)
    <3>1. teams' = Enter(teams, u, i)
      BY <2>2 DEF Approve
    <3>2. teams' = [teams EXCEPT ![i] = [[teams[i] EXCEPT !.mems = teams[i].mems \cup {u}]
                                            EXCEPT !.wait = teams[i].wait \ {u}]]
      BY <1>1, <1>2, <3>1 DEF Enter, TeamType
    <3> QED
      BY <1>1, <1>2, <2>2, <3>2 DEF TeamType, Line
  <2> QED
    BY <2>1, <2>2
<1> HIDE DEF st, d
<1>5. TableTypes(d) /\ d' = Apply(d, st)
  BY <1>1, <1>3, OneRead DEF d
<1>6. Shown(d)
  BY CatchUpIs DEF d
<1>7. TeamsShown(d)'
  <2>1. d'.teams = d.teams
    BY <1>3, <1>5, ApplyMem
  <2>2. \A j \in DOMAIN teams : Line(teams'[j]) = Line(teams[j])
    BY <1>4
  <2> QED
    BY <1>4, <1>6, <2>1, <2>2 DEF Shown, TeamsShown
<1>8. MembersShown(d)'
  <2> SUFFICES ASSUME NEW w \in Users, NEW j \in Ids
               PROVE  /\ (j \in DOMAIN teams' /\ w \in teams'[j].wait) <=> Row(d', w, j) = 2
                      /\ Row(d', w, j) = 1 => (j \in DOMAIN teams' /\ w \in teams'[j].mems)
    BY DEF MembersShown
  <2>1. Row(d', w, j) = IF w = u /\ j = i THEN st.status ELSE Row(d, w, j)
    BY <1>3, <1>5, RowMem
  <2>2. /\ (j \in DOMAIN teams /\ w \in teams[j].wait) <=> Row(d, w, j) = 2
        /\ Row(d, w, j) = 1 => (j \in DOMAIN teams /\ w \in teams[j].mems)
    BY <1>6 DEF Shown, MembersShown
  <2>3. CASE j # i
    BY <1>4, <2>1, <2>2, <2>3
  <2>4. CASE j = i /\ w # u
    BY <1>1, <1>4, <2>1, <2>2, <2>4
  <2>5. CASE j = i /\ w = u
    BY <1>1, <1>3, <1>4, <2>1, <2>2, <2>5
  <2> QED
    BY <2>3, <2>4, <2>5
<1>9. Shown(d)'
  BY <1>7, <1>8 DEF Shown
<1> QED
  BY <1>1, <1>9, InfoStands DEF d

LEMMA RefuseCatchesUp ==
  ASSUME IInv, QueuedStatementsCatchUp, NEW u \in Users, NEW i \in 1..MaxTeams, Refuse(u, i)
  PROVE  QueuedStatementsCatchUp'
<1> DEFINE st == RefuseInTeam(u, i)
           d  == Ran(rows, readQ)
<1>1. i \in DOMAIN teams /\ Read(<<st>>) /\ UNCHANGED <<gameInfo, writeQ, rows>>
      /\ teams' = [teams EXCEPT ![i].wait = teams[i].wait \ {u}]
  BY DEF Refuse
<1>2. i \in Ids /\ teams[i] \in TeamType /\ teams \in [DOMAIN teams -> TeamType]
  BY <1>1 DEF IInv, Types, Ids
<1>3. st \in RefuseStmt /\ st \in ReadStmt /\ st.user = u /\ st.id = i
  BY <1>2 DEF RefuseInTeam, RefuseStmt, ReadStmt
<1>4. /\ DOMAIN teams' = DOMAIN teams
      /\ \A j \in DOMAIN teams \ {i} : teams'[j] = teams[j]
      /\ Line(teams'[i]) = Line(teams[i])
      /\ teams'[i].mems = teams[i].mems /\ teams'[i].wait = teams[i].wait \ {u}
  BY <1>1, <1>2 DEF TeamType, Line
<1> HIDE DEF st, d
<1>5. TableTypes(d) /\ d' = Apply(d, st)
  BY <1>1, <1>3, OneRead DEF d
<1>6. Shown(d)
  BY CatchUpIs DEF d
<1>7. TeamsShown(d)'
  <2>1. d'.teams = d.teams
    BY <1>3, <1>5, ApplyRefuse
  <2>2. \A j \in DOMAIN teams : Line(teams'[j]) = Line(teams[j])
    BY <1>4
  <2> QED
    BY <1>4, <1>6, <2>1, <2>2 DEF Shown, TeamsShown
<1>8. MembersShown(d)'
  <2> SUFFICES ASSUME NEW w \in Users, NEW j \in Ids
               PROVE  /\ (j \in DOMAIN teams' /\ w \in teams'[j].wait) <=> Row(d', w, j) = 2
                      /\ Row(d', w, j) = 1 => (j \in DOMAIN teams' /\ w \in teams'[j].mems)
    BY DEF MembersShown
  <2>1. Row(d', w, j) = IF w = u /\ j = i THEN 0 ELSE Row(d, w, j)
    BY <1>3, <1>5, RowRefuse
  <2>2. /\ (j \in DOMAIN teams /\ w \in teams[j].wait) <=> Row(d, w, j) = 2
        /\ Row(d, w, j) = 1 => (j \in DOMAIN teams /\ w \in teams[j].mems)
    BY <1>6 DEF Shown, MembersShown
  <2>3. CASE j # i
    BY <1>4, <2>1, <2>2, <2>3
  <2>4. CASE j = i
    BY <1>1, <1>4, <2>1, <2>2, <2>4
  <2> QED
    BY <2>3, <2>4
<1>9. Shown(d)'
  BY <1>7, <1>8 DEF Shown
<1> QED
  BY <1>1, <1>9, InfoStands DEF d

LEMMA CreateCatchesUp ==
  ASSUME IInv, QueuedStatementsCatchUp,
         NEW u \in Users, NEW g \in Games, NEW v \in Servers, createTeam(u, g, v)
  PROVE  QueuedStatementsCatchUp'
<1> DEFINE i == createTeamId
           t == [game |-> g, server |-> v, leader |-> u, mems |-> {u}, wait |-> {}]
           a == UpdateTeam(i, t)
           b == UpdateTeamMem(u, i, 1)
           d == Ran(rows, readQ)
           e == Apply(d, a)
<1>1. /\ i <= MaxTeams /\ teams' = Enter(With(teams, i, t), u, i)
      /\ Read(<<a, b>>) /\ UNCHANGED <<gameInfo, writeQ, rows>>
  BY DEF createTeam
<1>2. i \in Ids /\ i \notin DOMAIN teams
  BY <1>1, NewIdIsFree, TeamAssumption DEF IInv, Types, Ids
<1> HIDE DEF i
<1>3. t \in TeamType
  BY DEF TeamType
<1>4. /\ a \in TeamStmt /\ a \in ReadStmt /\ a.id = i /\ Line(a) = Line(t)
      /\ b \in MemStmt /\ b \in ReadStmt /\ b.user = u /\ b.id = i /\ b.status = 1
  BY <1>2, <1>3 DEF UpdateTeam, UpdateTeamMem, TeamStmt, MemStmt, ReadStmt, Line
<1>5. /\ DOMAIN teams' = DOMAIN teams \cup {i}
      /\ Line(teams'[i]) = Line(t) /\ teams'[i].mems = {u} /\ teams'[i].wait = {}
      /\ \A j \in DOMAIN teams : teams'[j] = teams[j]
  <2> DEFINE ts == With(teams, i, t)
  <2>1. /\ DOMAIN ts = DOMAIN teams \cup {i} /\ ts[i] = t
        /\ \A j \in DOMAIN teams : ts[j] = teams[j]
        /\ ts \in [DOMAIN ts -> TeamType] /\ DOMAIN ts \subseteq Ids
    BY <1>2, <1>3 DEF With, IInv, Types
  <2>2. t.mems = {u} /\ t.wait = {} /\ i \in DOMAIN ts
    BY <2>1
  <2> HIDE DEF ts, t
  <2>3. /\ DOMAIN Enter(ts, u, i) = DOMAIN ts
        /\ Enter(ts, u, i)[i].mems = ts[i].mems \cup {u}
        /\ Enter(ts, u, i)[i].wait = ts[i].wait \ {u}
        /\ Line(Enter(ts, u, i)[i]) = Line(ts[i])
        /\ \A j \in DOMAIN ts \ {i} : Enter(ts, u, i)[j] = ts[j]
    BY <2>1, <2>2, EnterFacts
  <2>4. teams' = Enter(ts, u, i)
    BY <1>1 DEF ts
  <2> QED
    BY <1>2, <2>1, <2>2, <2>3, <2>4
<1> HIDE DEF t, a, b
<1>6. TableTypes(d) /\ d' = Apply(e, b)
  <2>1. readQ \in Seq(ReadStmt) /\ TableTypes(rows)
    BY DEF IInv, Types
  <2>2. readQ' = Append(Append(readQ, a), b) /\ Append(readQ, a) \in Seq(ReadStmt)
    BY <1>1, <1>4, <2>1 DEF Read
  <2>3. rows' = rows
    BY <1>1
  <2>4. TableTypes(Ran(rows, readQ)) /\ Ran(rows, Append(readQ, a)) = Apply(Ran(rows, readQ), a)
    BY <1>4, <2>1, RanAppend, RanReads
  <2>5. Ran(rows, Append(Append(readQ, a), b)) = Apply(Ran(rows, Append(readQ, a)), b)
    BY <1>4, <2>2, RanAppend
  <2> QED
    BY <2>2, <2>3, <2>4, <2>5
<1> HIDE DEF d, e
<1>7. Shown(d)
  BY CatchUpIs DEF d
<1>8. /\ TableTypes(e) /\ e.teams = With(d.teams, i, Line(t)) /\ e.mems = d.mems
  BY <1>4, <1>6, ApplyTeam DEF e
<1>9. /\ d'.teams = e.teams
      /\ \A w, j : Row(d', w, j) = IF w = u /\ j = i THEN 1 ELSE Row(e, w, j)
  <2>1. Apply(e, b).teams = e.teams
    BY <1>4, <1>8, ApplyMem
  <2>2. ASSUME NEW w, NEW j
        PROVE  Row(Apply(e, b), w, j) = IF w = u /\ j = i THEN 1 ELSE Row(e, w, j)
    BY <1>4, <1>8, RowMem
  <2> QED
    BY <1>6, <2>1, <2>2
<1>10. TeamsShown(d)'
  <2>1. /\ DOMAIN d'.teams = DOMAIN d.teams \cup {i} /\ d'.teams[i] = Line(t)
        /\ \A j \in DOMAIN d.teams \ {i} : d'.teams[j] = d.teams[j]
    BY <1>8, <1>9 DEF With
  <2>2. /\ DOMAIN d.teams = DOMAIN teams
        /\ \A j \in DOMAIN teams : d.teams[j] = Line(teams[j])
    BY <1>7 DEF Shown, TeamsShown
  <2> QED
    BY <1>2, <1>5, <2>1, <2>2 DEF TeamsShown
<1>11. MembersShown(d)'
  <2> SUFFICES ASSUME NEW w \in Users, NEW j \in Ids
               PROVE  /\ (j \in DOMAIN teams' /\ w \in teams'[j].wait) <=> Row(d', w, j) = 2
                      /\ Row(d', w, j) = 1 => (j \in DOMAIN teams' /\ w \in teams'[j].mems)
    BY DEF MembersShown
  <2>1. Row(e, w, j) = Row(d, w, j)
    BY <1>8 DEF Row
  <2>2. /\ (j \in DOMAIN teams /\ w \in teams[j].wait) <=> Row(d, w, j) = 2
        /\ Row(d, w, j) = 1 => (j \in DOMAIN teams /\ w \in teams[j].mems)
    BY <1>7 DEF Shown, MembersShown
  <2>3. CASE j = i
    BY <1>2, <1>5, <1>9, <2>1, <2>2, <2>3
  <2>4. CASE j # i
    BY <1>5, <1>9, <2>1, <2>2, <2>4
  <2> QED
    BY <2>3, <2>4
<1>12. Shown(d)'
  BY <1>10, <1>11 DEF Shown
<1> QED
  BY <1>1, <1>12, InfoStands DEF d

LEMMA InfoCatchesUp ==
  ASSUME IInv, QueuedStatementsCatchUp,
         NEW u \in Users, NEW g \in Games, NEW s \in Servers, GameInfo(u, g, s)
  PROVE  QueuedStatementsCatchUp'
<1> DEFINE st == UpdateGameInfo(u, g, s)
           w  == Ran(rows, writeQ)
<1>1. /\ writeQ' = Append(writeQ, st) /\ gameInfo' = [gameInfo EXCEPT ![u][g] = s]
      /\ UNCHANGED <<teams, readQ, rows>>
  BY DEF GameInfo, Write
<1>2. st \in GameStmt /\ st.user = u /\ st.game = g /\ st.server = s
  BY DEF UpdateGameInfo, GameStmt
<1>3. writeQ \in Seq(GameStmt) /\ TableTypes(rows)
  BY DEF IInv, Types
<1> HIDE DEF st
<1>4. TableTypes(w) /\ w' = Apply(w, st)
  BY <1>1, <1>2, <1>3, RanAppend, RanWrites
<1> HIDE DEF w
<1>5. w.games = gameInfo /\ Shown(Ran(rows, readQ))
  BY CatchUpIs DEF w
<1>6. w'.games = gameInfo'
  BY <1>1, <1>2, <1>4, <1>5, ApplyGame
<1>7. Shown(Ran(rows, readQ))'
  BY <1>1, <1>5 DEF Shown, TeamsShown, MembersShown
<1> QED
  BY <1>6, <1>7 DEF w, QueuedStatementsCatchUp, Shown, TeamsShown, MembersShown, Line, Row

LEMMA ReadCatchesUp ==
  ASSUME IInv, QueuedStatementsCatchUp, ExecRead
  PROVE  QueuedStatementsCatchUp'
<1> DEFINE h == Head(readQ)
<1>1. /\ rows' = Apply(rows, h) /\ readQ' = Tail(readQ) /\ readQ # <<>>
      /\ UNCHANGED <<gameInfo, teams, writeQ>>
  BY DEF ExecRead
<1>2. readQ \in Seq(ReadStmt) /\ writeQ \in Seq(GameStmt) /\ TableTypes(rows)
  BY DEF IInv, Types
<1>3. h \in ReadStmt
  BY <1>1, <1>2
<1>4. Ran(rows', readQ') = Ran(rows, readQ)
  BY <1>1, <1>2, RanHead
<1> HIDE DEF h
<1>5. TableTypes(rows') /\ rows'.games = rows.games
  BY <1>1, <1>2, <1>3, ApplyTeam, ApplyMem, ApplyRefuse DEF ReadStmt
<1>6. Ran(rows', writeQ').games = Ran(rows, writeQ).games
  BY <1>1, <1>2, <1>5, RanWrites
<1> QED
  BY <1>1, <1>4, <1>6 DEF QueuedStatementsCatchUp

LEMMA WriteCatchesUp ==
  ASSUME IInv, QueuedStatementsCatchUp, ExecWrite
  PROVE  QueuedStatementsCatchUp'
<1> DEFINE h == Head(writeQ)
<1>1. /\ rows' = Apply(rows, h) /\ writeQ' = Tail(writeQ) /\ writeQ # <<>>
      /\ UNCHANGED <<gameInfo, teams, readQ>>
  BY DEF ExecWrite
<1>2. readQ \in Seq(ReadStmt) /\ writeQ \in Seq(GameStmt) /\ TableTypes(rows)
  BY DEF IInv, Types
<1>3. h \in GameStmt
  BY <1>1, <1>2
<1>4. Ran(rows', writeQ') = Ran(rows, writeQ)
  BY <1>1, <1>2, RanHead
<1> HIDE DEF h
<1>5. TableTypes(rows') /\ rows'.teams = rows.teams /\ rows'.mems = rows.mems
  BY <1>1, <1>2, <1>3, ApplyGame
<1>6. /\ Ran(rows', readQ').teams = Ran(rows, readQ).teams
      /\ Ran(rows', readQ').mems = Ran(rows, readQ).mems
  BY <1>1, <1>2, <1>5, RanReads
<1> QED
  BY <1>1, <1>4, <1>6 DEF QueuedStatementsCatchUp

\* A restart loads the tables, with nothing queued.
LEMMA LoadCatchesUp ==
  ASSUME IInv, QueuedStatementsCatchUp, Restart
  PROVE  QueuedStatementsCatchUp'
<1>1. /\ readQ' = <<>> /\ writeQ' = <<>> /\ gameInfo' = rows.games /\ rows' = rows
      /\ teams' = [i \in DOMAIN rows.teams |->
                     [game   |-> rows.teams[i].game,
                      server |-> rows.teams[i].server,
                      leader |-> rows.teams[i].leader,
                      mems   |-> RowUsers(i, 1), wait |-> RowUsers(i, 2)]]
  BY DEF Restart
<1>2. TableTypes(rows)
  BY DEF IInv, Types
<1>3. Ran(rows', readQ') = rows /\ Ran(rows', writeQ') = rows
  BY <1>1, RanEmpty
<1>4. TeamsShown(rows)'
  <2>1. \A i \in DOMAIN rows.teams : rows.teams[i] \in RowType
    BY <1>2 DEF TableTypes
  <2> QED
    BY <1>1, <2>1 DEF TeamsShown, Line, RowType
<1>5. MembersShown(rows)'
  <2> SUFFICES ASSUME NEW u \in Users, NEW i \in Ids
               PROVE  /\ (i \in DOMAIN teams' /\ u \in teams'[i].wait) <=> Row(rows, u, i) = 2
                      /\ Row(rows, u, i) = 1 => (i \in DOMAIN teams' /\ u \in teams'[i].mems)
    BY <1>1 DEF MembersShown
  <2>1. <<u, i>> \in DOMAIN rows.mems => i \in DOMAIN rows.teams
    BY DEF IInv, TeamsFirst, NoOrphanRows
  <2>2. \A s \in {1, 2} : u \in RowUsers(i, s) <=> Row(rows, u, i) = s
    BY DEF RowUsers, Row
  <2>3. \A s \in {1, 2} : Row(rows, u, i) = s => i \in DOMAIN rows.teams
    BY <2>1 DEF Row
  <2> QED
    BY <1>1, <2>2, <2>3
<1>6. Shown(Ran(rows, readQ))'
  BY <1>1, <1>3, <1>4, <1>5 DEF Shown, TeamsShown, MembersShown
<1>7. Ran(rows', writeQ').games = gameInfo'
  BY <1>1, <1>3
<1> QED
  BY <1>6, <1>7 DEF QueuedStatementsCatchUp, Shown, TeamsShown, MembersShown, Line, Row

LEMMA InitCatchesUp == Init => QueuedStatementsCatchUp
<1> SUFFICES ASSUME Init PROVE QueuedStatementsCatchUp
  OBVIOUS
<1>1. /\ rows.teams = <<>> /\ rows.mems = <<>> /\ rows.games = gameInfo
      /\ teams = <<>> /\ readQ = <<>> /\ writeQ = <<>>
  BY DEF Init, NoRows
<1>2. Ran(rows, readQ) = rows /\ Ran(rows, writeQ) = rows
  BY <1>1, RanEmpty
<1>3. DOMAIN rows.teams = {} /\ DOMAIN rows.mems = {} /\ DOMAIN teams = {}
  BY <1>1
<1> QED
  BY <1>1, <1>2, <1>3 DEF QueuedStatementsCatchUp

LEMMA NextCatchesUp == IInv /\ QueuedStatementsCatchUp /\ [Next]_vars => QueuedStatementsCatchUp'
<1> SUFFICES ASSUME IInv, QueuedStatementsCatchUp, [Next]_vars PROVE QueuedStatementsCatchUp'
  OBVIOUS
<1>1. CASE UNCHANGED vars
  BY <1>1 DEF vars, QueuedStatementsCatchUp
<1> QED
  BY <1>1, InfoCatchesUp, CreateCatchesUp, JoinCatchesUp, RefuseCatchesUp, ReadCatchesUp,
     WriteCatchesUp, LoadCatchesUp DEF Next

\* For any teams and any number of statements, crashes and restarts: the tables and
\* what is queued for them amount to what is in memory, team by team and user by
\* user; nothing a handler does goes unwritten, and a refusal never leaves an
\* application behind (FightDb::updateTeam, updateTeamMem, refuseInTeam).
THEOREM StatementsCatchUp == Spec => []QueuedStatementsCatchUp
<1>1. IInv /\ QueuedStatementsCatchUp /\ [Next]_vars => (IInv /\ QueuedStatementsCatchUp)'
  BY NextTeam, NextCatchesUp
<1>2. Init => IInv /\ QueuedStatementsCatchUp
  BY InitTeam, InitCatchesUp
<1> QED
  BY <1>1, <1>2, PTL DEF Spec

=============================================================================
