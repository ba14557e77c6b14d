------------------------------ MODULE Accounts ------------------------------
(***************************************************************************)
(* Start-up, log-in and the data of users, between the main timer and the  *)
(* two database connections.                                               *)
(*                                                                         *)
(* At start TeamManager::init asks for all teams, and each of four answers *)
(* asks for the next table: users, their games, their teams.  Nothing      *)
(* waits for it: cafes log in, then users, each through a query of their   *)
(* own, and a user who has logged in has his identity and his games        *)
(* fetched (User::online).  When both have come (selectRet) he is sent his *)
(* main data.  Identities are read and written through the read            *)
(* connection, games are written through the write one.                    *)
(*                                                                         *)
(* A connection executes its statements one by one and their answers are   *)
(* handled in that order (DbConnection).  An execution may fail: then the  *)
(* callback gets no result and returns.                                    *)
(*                                                                         *)
(* A user who is in may ask for lists.  They are sent in messages of a few *)
(* entries, out of memory or, for areas, cafes and servers, when the rows  *)
(* have come.                                                              *)
(***************************************************************************)
EXTENDS Integers, Sequences, SequencesExt

CONSTANTS
  Users,      \* accounts, all with a row
  Members,    \* those with a row in a team
  MaxVer,     \* values an identity or a game takes (bound)
  MaxLogins,  \* log-ins of a user (bound)
  MaxFails,   \* failed executions (bound)
  Lengths,    \* how long a list may be
  PageSize,   \* entries of one message: five
  MaxAsks,    \* lists asked for (bound)
  Nil         \* no session, no entry, no data

ASSUME AccountsAssumption ==
  /\ Members \subseteq Users
  /\ MaxVer \in Nat \ {0} /\ {MaxLogins, MaxFails, MaxAsks} \subseteq Nat
  /\ Lengths \subseteq Nat /\ PageSize \in Nat \ {0}

\* Nil is no session, no main data and no entry of TeamManager::m_users.
ASSUME NilAssumption ==
  /\ Nil \notin [selectRecord : Nat, identify : Nat, game : Nat]
  /\ Nil \notin [identify : Nat, game : Nat, team : BOOLEAN]
  /\ Nil \notin [game : Nat, team : BOOLEAN]

VARIABLES
  reads,     \* statements queued on the read connection
  answers,   \* what it has executed, not yet handled
  writes,    \* statements queued on the write connection: <<user, game>>
  identRow,  \* the tables: identity of each user, zero if there is none
  gameRow,   \* and his game
  cafe,      \* the cafe: "out", "asked", "in"
  logging,   \* m_loginTels
  sessions,  \* UserManager::m_users
  mems,      \* TeamManager::m_users
  shown,     \* the main data each client has
  entries,   \* the last list that was answered with
  pages,     \* and its messages
  logins,
  asks,
  fails,
  fault      \* a handler used a user who is not there

dbVars   == <<writes, identRow, gameRow>>
userVars == <<logging, sessions, shown>>
listVars == <<entries, pages, asks>>
vars == <<reads, answers, dbVars, cafe, userVars, mems, listVars, logins, fails, fault>>

Versions == 1..MaxVer

Load(table)       == [kind |-> table]
About(kind, u)    == [kind |-> kind, user |-> u]
Write(kind, u, v) == [kind |-> kind, user |-> u, val |-> v]

Online(u) == sessions[u] # Nil
Running   == ~fault

-----------------------------------------------------------------------------
Init ==
  /\ reads = <<Load("teams")>>
  /\ answers = <<>>
  /\ writes = <<>>
  /\ identRow \in [Users -> {0, 1}]
  /\ gameRow \in [Users -> {0, 1}]
  /\ cafe = "out"
  /\ logging = {}
  /\ sessions = [u \in Users |-> Nil]
  /\ mems = [u \in Users |-> Nil]
  /\ shown = [u \in Users |-> Nil]
  /\ entries = <<>>
  /\ pages = Nil
  /\ logins = 0 /\ asks = 0 /\ fails = 0
  /\ fault = FALSE

Query(qs) == reads' = reads \o qs

(***************************************************************************)
(* Messages of the clients.                                                *)
(***************************************************************************)

CafeLogin_SlipAtOnce ==
  /\ Running /\ cafe = "out"
  /\ cafe' = "in"
  /\ UNCHANGED <<reads, answers, dbVars, userVars, mems, logins, listVars, fails, fault>>

CafeLogin ==
  /\ Running /\ cafe = "out"
  /\ cafe' = "asked"
  /\ Query(<<Load("cafe")>>)
  /\ UNCHANGED <<answers, dbVars, userVars, mems, logins, listVars, fails, fault>>

LoginTel_SlipTwice(u) ==
  /\ Running /\ cafe = "in" /\ logins < MaxLogins
  /\ logins' = logins + 1
  /\ logging' = logging \union {u}
  /\ Query(<<About("login", u)>>)
  /\ UNCHANGED <<answers, dbVars, cafe, sessions, shown, mems, listVars, fails, fault>>

LoginTel(u) ==
  /\ Running /\ cafe = "in" /\ u \notin logging /\ logins < MaxLogins
  /\ logins' = logins + 1
  /\ logging' = logging \union {u}
  /\ Query(<<About("login", u)>>)
  /\ UNCHANGED <<answers, dbVars, cafe, sessions, shown, mems, listVars, fails, fault>>

IdentifyData(u, v) ==
  /\ Running /\ Online(u)
  /\ identRow[u] < v /\ \A i \in DOMAIN reads : reads[i].kind # "setIdentify"
  /\ Query(<<Write("setIdentify", u, v)>>)
  /\ UNCHANGED <<answers, dbVars, cafe, userVars, mems, logins, listVars, fails, fault>>

\* Refused once he has a team; otherwise table and memory go their own ways.
GameInfo(u, v) ==
  /\ Running /\ Online(u)
  /\ gameRow[u] < v /\ writes = <<>>
  /\ mems[u] # Nil /\ ~mems[u].team
  /\ writes' = Append(writes, <<u, v>>)
  /\ mems' = [mems EXCEPT ![u].game = v]
  /\ UNCHANGED <<reads, answers, identRow, gameRow, cafe, userVars, logins, listVars, fails, fault>>

\* His cafe goes, or he logs in elsewhere.
DelUser(u) ==
  /\ Running /\ Online(u)
  /\ sessions' = [sessions EXCEPT ![u] = Nil]
  /\ shown' = [shown EXCEPT ![u] = Nil]
  /\ UNCHANGED <<reads, answers, dbVars, cafe, logging, mems, logins, listVars, fails, fault>>

-----------------------------------------------------------------------------
(***************************************************************************)
(* The database threads.                                                   *)
(***************************************************************************)

\* The rows a statement finds, or has just written.
Found(q) ==
  CASE q.kind = "identify"    -> Write("identify", q.user, identRow[q.user])
    [] q.kind = "game"        -> Write("game", q.user, gameRow[q.user])
    [] q.kind = "games"       -> [kind |-> "games", rows |-> gameRow]
    [] OTHER                  -> q

Execute ==
  /\ Running /\ reads # <<>>
  /\ answers' = Append(answers, Found(Head(reads)))
  /\ identRow' = IF Head(reads).kind = "setIdentify"
                 THEN [identRow EXCEPT ![Head(reads).user] = Head(reads).val]
                 ELSE identRow
  /\ reads' = Tail(reads)
  /\ UNCHANGED <<writes, gameRow, cafe, userVars, mems, logins, listVars, fails, fault>>

\* The callback gets no result and does nothing.
ExecuteFails ==
  /\ Running /\ reads # <<>> /\ fails < MaxFails
  /\ fails' = fails + 1
  /\ reads' = Tail(reads)
  /\ UNCHANGED <<answers, dbVars, cafe, userVars, mems, logins, listVars, fault>>

ExecuteWrite ==
  /\ Running /\ writes # <<>>
  /\ gameRow' = [gameRow EXCEPT ![Head(writes)[1]] = Head(writes)[2]]
  /\ writes' = Tail(writes)
  /\ UNCHANGED <<reads, answers, identRow, cafe, userVars, mems, logins, listVars, fails, fault>>

-----------------------------------------------------------------------------
(***************************************************************************)
(* The callbacks of the load.                                              *)
(***************************************************************************)

Answered(kind) == Running /\ answers # <<>> /\ Head(answers).kind = kind
Handled == answers' = Tail(answers)

InitAllTeamBack ==
  /\ Answered("teams") /\ Handled
  /\ Query(<<Load("users")>>)
  /\ UNCHANGED <<dbVars, cafe, userVars, mems, logins, listVars, fails, fault>>

Member == [game |-> 0, team |-> FALSE]

\* insertMem enters a user of the table, whether or not he is there.
InitAllUserBack ==
  /\ Answered("users") /\ Handled
  /\ mems' = [u \in Users |-> Member]
  /\ Query(<<Load("games")>>)
  /\ UNCHANGED <<dbVars, cafe, userVars, logins, listVars, fails, fault>>

InitAllUserGameBack ==
  /\ Answered("games") /\ Handled
  /\ LET rows == Head(answers).rows
     IN mems' = [u \in Users |-> IF rows[u] = 0 \/ mems[u] = Nil THEN mems[u]
                                 ELSE [mems[u] EXCEPT !.game = rows[u]]]
  /\ Query(<<Load("members")>>)
  /\ UNCHANGED <<dbVars, cafe, userVars, logins, listVars, fails, fault>>

InitAllUserTeamBack ==
  /\ Answered("members") /\ Handled
  /\ mems' = [u \in Users |-> IF u \notin Members \/ mems[u] = Nil THEN mems[u]
                              ELSE [mems[u] EXCEPT !.team = TRUE]]
  /\ UNCHANGED <<reads, dbVars, cafe, userVars, logins, listVars, fails, fault>>

(***************************************************************************)
(* The callbacks of the log-ins.                                           *)
(***************************************************************************)

LoginCheck ==
  /\ Answered("cafe") /\ Handled
  /\ cafe' = "in"
  /\ UNCHANGED <<reads, dbVars, userVars, mems, logins, listVars, fails, fault>>

Session(record, identify, game) ==
  [selectRecord |-> record, identify |-> identify, game |-> game]

\* The password is right: a new User, online() and TeamManager::addUser.
LoginTelCheck ==
  /\ Answered("login") /\ Handled
  /\ LET u == Head(answers).user
     IN /\ logging' = logging \ {u}
        /\ sessions' = [sessions EXCEPT ![u] = Session(2, 0, 0)]
        /\ shown' = [shown EXCEPT ![u] = Nil]
        /\ mems' = [mems EXCEPT ![u] = IF @ = Nil THEN Member ELSE @]
        /\ Query(<<About("identify", u), About("game", u)>>)
  /\ UNCHANGED <<dbVars, cafe, logins, listVars, fails, fault>>

MainData(u, s) == [identify |-> s.identify, game |-> s.game, team |-> mems[u].team]

\* sendUserData keeps quiet while selects are out.
SendUserData(u, s) ==
  IF s.selectRecord = 0 THEN [shown EXCEPT ![u] = MainData(u, s)] ELSE shown

\* One select less, counted after the answer has been entered in s.
SelectRet_SlipLate(s) == [s EXCEPT !.selectRecord = IF @ <= 1 THEN @ ELSE @ - 1]
SelectRet(s) == [s EXCEPT !.selectRecord = IF @ = 0 THEN 0 ELSE @ - 1]

Selected(u, s) ==
  /\ sessions' = [sessions EXCEPT ![u] = SelectRet(s)]
  /\ shown' = IF s.selectRecord = 0 THEN shown ELSE SendUserData(u, SelectRet(s))

\* An answer without a row counts for nothing.
SelectIdentifyBack ==
  /\ Answered("identify") /\ Handled
  /\ LET a == Head(answers)
     IN IF a.val # 0 /\ Online(a.user)
        THEN Selected(a.user, [sessions[a.user] EXCEPT !.identify = a.val])
        ELSE UNCHANGED <<sessions, shown>>
  /\ UNCHANGED <<reads, dbVars, cafe, logging, mems, logins, listVars, fails, fault>>

\* The user is not asked for: if he has gone, a null pointer is used.
SelectUserGameBack ==
  /\ Answered("game") /\ Handled
  /\ LET a == Head(answers)
     IN /\ fault' = (a.val # 0 /\ ~Online(a.user))
        /\ IF a.val # 0 /\ Online(a.user)
           THEN Selected(a.user, [sessions[a.user] EXCEPT !.game = a.val])
           ELSE UNCHANGED <<sessions, shown>>
  /\ UNCHANGED <<reads, dbVars, cafe, logging, mems, logins, listVars, fails>>

\* identifyDataBack: setIdentify, and with it the main data.
IdentifyDataCheck ==
  /\ Answered("setIdentify") /\ Handled
  /\ LET a == Head(answers)
         s == [sessions[a.user] EXCEPT !.identify = a.val]
     IN IF Online(a.user)
        THEN /\ sessions' = [sessions EXCEPT ![a.user] = s]
             /\ shown' = SendUserData(a.user, s)
        ELSE UNCHANGED <<sessions, shown>>
  /\ UNCHANGED <<reads, dbVars, cafe, logging, mems, logins, listVars, fails, fault>>

-----------------------------------------------------------------------------
(***************************************************************************)
(* Lists.                                                                  *)
(***************************************************************************)

\* One entry more in the message that is being filled; a full one is sent.
Filled(f, entry) ==
  LET page == Append(f.page, entry)
  IN IF Len(page) = PageSize
     THEN [sent |-> Append(f.sent, page), page |-> <<>>]
     ELSE [sent |-> f.sent, page |-> page]

\* One message after another is filled; what is left over goes last, and a list
\* without entries is one empty message.
Pages(list) ==
  LET Fill[k \in 0..Len(list)] ==
        IF k = 0 THEN [sent |-> <<>>, page |-> <<>>] ELSE Filled(Fill[k - 1], list[k])
      last == Fill[Len(list)]
  IN IF Len(last.page) # 0 \/ Len(last.page) = Len(list)
     THEN Append(last.sent, last.page)
     ELSE last.sent

Lists == {[i \in 1..n |-> i] : n \in Lengths}

CanAsk(u) == Running /\ Online(u) /\ asks < MaxAsks

\* areaCoffeenet, province, city, area and allGameServer ask the database.
AskList(u) ==
  /\ CanAsk(u)
  /\ asks' = asks + 1
  /\ Query(<<About("list", u)>>)
  /\ UNCHANGED <<answers, dbVars, cafe, userVars, mems, entries, pages, logins, fails, fault>>

Send(list) == entries' = list /\ pages' = Pages(list)

\* The asker's id comes with the rows: without one nobody is answered.
ListBack ==
  /\ Answered("list") /\ Handled
  /\ \E list \in Lists :
       IF list # <<>> /\ Online(Head(answers).user)
       THEN Send(list)
       ELSE UNCHANGED <<entries, pages>>
  /\ UNCHANGED <<reads, dbVars, cafe, userVars, mems, asks, logins, fails, fault>>

\* TeamerList and coffTeam answer out of memory.
ShowList(u) ==
  /\ CanAsk(u)
  /\ asks' = asks + 1
  /\ \E list \in Lists : Send(list)
  /\ UNCHANGED <<reads, answers, dbVars, cafe, userVars, mems, logins, fails, fault>>

-----------------------------------------------------------------------------
Callbacks ==
  \/ InitAllTeamBack
  \/ InitAllUserBack
  \/ InitAllUserGameBack
  \/ InitAllUserTeamBack
  \/ LoginCheck
  \/ LoginTelCheck
  \/ SelectIdentifyBack
  \/ SelectUserGameBack
  \/ IdentifyDataCheck
  \/ ListBack

Next ==
  \/ CafeLogin
  \/ \E u \in Users : LoginTel(u)
  \/ \E u \in Users, v \in Versions : IdentifyData(u, v)
  \/ \E u \in Users, v \in Versions : GameInfo(u, v)
  \/ \E u \in Users : DelUser(u)
  \/ \E u \in Users : AskList(u)
  \/ \E u \in Users : ShowList(u)
  \/ Execute
  \/ ExecuteFails
  \/ ExecuteWrite
  \/ Callbacks

\* The database threads and the main timer go on; nobody has to send anything.
Safety == Init /\ [][Next]_vars
Spec == /\ Safety
        /\ WF_vars(Execute) /\ WF_vars(ExecuteWrite) /\ WF_vars(Callbacks)

-----------------------------------------------------------------------------
(***************************************************************************)
(* Properties.                                                             *)
(***************************************************************************)

Statements ==
  [kind : {"teams", "users", "games", "members", "cafe"}]
    \union [kind : {"login", "identify", "game", "list"}, user : Users]
    \union [kind : {"setIdentify"}, user : Users, val : Versions]

Data == 0..MaxVer

TypeOK ==
  /\ ToSet(reads) \subseteq Statements
  /\ \A i \in DOMAIN answers : \E q \in Statements : q.kind = answers[i].kind
  /\ ToSet(writes) \subseteq Users \X Versions
  /\ identRow \in [Users -> Data] /\ gameRow \in [Users -> Data]
  /\ cafe \in {"out", "asked", "in"}
  /\ logging \subseteq Users
  /\ sessions \in [Users -> {Nil} \union
                    [selectRecord : 0..2, identify : Data, game : Data]]
  /\ mems \in [Users -> {Nil} \union [game : Data, team : BOOLEAN]]
  /\ shown \in [Users -> {Nil} \union
                 [identify : Data, game : Data, team : BOOLEAN]]
  /\ fault \in BOOLEAN

\* The load of the users replaces nobody a log-in has entered, although nothing
\* waits for it (insertMem, addUser): the queries of a cafe and of its users come
\* behind the load's on the one read connection.
LoadReplacesNobody ==
  [][\A u \in Users : mems[u] # Nil => /\ mems'[u] # Nil
                                       /\ mems[u].team => mems'[u].team
                                       /\ mems[u].game # 0 => mems'[u].game # 0]_vars

PendingIdentity(u) ==
  \E q \in ToSet(reads) \union ToSet(answers) :
    q.kind \in {"identify", "setIdentify"} /\ q.user = u

\* When no statement about it is under way, an identity in memory is the table's,
\* and a client that has been sent main data has that identity in them, whatever
\* identities and log-ins came meanwhile (online, selectRet, setIdentify): all its
\* statements share one connection.
IdentityShown ==
  \A u \in Users :
    Online(u) /\ fails = 0 =>
      /\ ~PendingIdentity(u) => sessions[u].identify = identRow[u]
      /\ shown[u] # Nil => shown[u].identify = sessions[u].identify

\* Main data are shown exactly when no select is counted as out, and then hold an
\* identity and a game (sendUserData).  The count does not say which select an answer
\* belongs to; that it is right rests on m_loginTels and the order of the
\* connection: no answer of one log-in comes after the next.
ShownWhole ==
  \A u \in Users :
    Online(u) => /\ shown[u] # Nil <=> sessions[u].selectRecord = 0
                 /\ shown[u] # Nil => shown[u].identify # 0 /\ shown[u].game # 0

\* The messages of a list are the list: its entries in order, none twice and none
\* left out, every message full but the last, and one message at least, so that a
\* client who counts up to the total knows that he has it all.
ListsWhole ==
  pages # Nil =>
    /\ FlattenSeq(pages) = entries
    /\ Len(pages) > 0
    /\ \A i \in 1..Len(pages) - 1 : Len(pages[i]) = PageSize
    /\ Len(pages) > 1 => pages[Len(pages)] # <<>>

\* Types, what a client has been shown agrees with memory and the tables, and a
\* list arrives whole.
AccountsInv == TypeOK /\ IdentityShown /\ ShownWhole /\ ListsWhole

\* A user whose identity and game have rows when he logs in gets his main data,
\* unless he goes again, a statement fails or a handler uses one who is gone.  (One
\* who gets his identity later waits for ever: the select that found nothing still
\* counts as out, and setIdentify sends nothing.)
Selecting(u) ==
  /\ Online(u) /\ {About("identify", u), About("game", u)} \subseteq ToSet(reads)
  /\ identRow[u] # 0 /\ gameRow[u] # 0

MainDataArrives ==
  \A u \in Users :
    Selecting(u) ~> shown[u] # Nil \/ ~Online(u) \/ fails > 0 \/ fault

=============================================================================
