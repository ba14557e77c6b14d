------------------------------ MODULE Session ------------------------------
(***************************************************************************)
(* Who is logged in: the connections a café server has made, the cafés     *)
(* and the users on them.  The main timer checks new connections, logs     *)
(* cafés in and out and logs users in; the "tcp conns" thread takes a lost *)
(* connection, its café and the café's users away (through                 *)
(* e_afterErasePublicConn) while the timer may be in a log-in.             *)
(*                                                                         *)
(* m_conns' m_lock is held by the network thread from Lose to Drop; the    *)
(* timer takes it for one step at a time.  The lock of the café map is     *)
(* taken for single steps too; cafeLocked is TRUE when one of them has     *)
(* returned without releasing it.                                          *)
(*                                                                         *)
(* fault: something undefined was reached (an ended iterator or a null     *)
(* pointer is used); what follows is not described.                        *)
(*                                                                         *)
(* The pass over m_clients erases and then increments: after the last one  *)
(* it increments end().  In the list of the build (libstdc++) the node     *)
(* behind the last is the head itself, and the node behind that the first: *)
(* the pass begins again and ends when nothing more has come, so           *)
(* CheckLogin and DropClient go on.  A time-out does not increment but     *)
(* looks into the element at end(), which is none: a fault.                *)
(*                                                                         *)
(* Operators named _Slip<What> are mutated forms, as in SingleFail.        *)
(***************************************************************************)
EXTENDS FiniteSets

CONSTANTS
  Conns,    \* connections: as many as there are at a time
  Cafes,    \* cafés, each with its account
  Users,    \* users, each with his telephone number
  Nil       \* not there

ASSUME NilAssumption == Nil \notin Conns /\ Nil \notin Cafes

VARIABLES
  left,               \* connections whose client has gone
  clients,            \* ClientChecker::m_clients
  login,              \* ClientChecker::m_login: account -> connection
  allConns, pubConns, \* connection -> id, id -> connection
  online, listed,     \* CoffeenetManager::m_coffeenets; Coffeenet::m_users
  users,              \* UserManager::m_users: user -> his café
  inbox, loginTels,   \* received log-ins of users; UserManager::m_loginTels
  loading,            \* users whose game data is awaited from the database
  timer, cafe,        \* where the timer is in loginCheck, and for which café
  net, lost, victims, \* where the network thread is, what it takes away
  cafeLocked, fault

connVars == <<allConns, pubConns>>
userVars == <<users, inbox, loginTels, loading>>
timerVars == <<timer, cafe>>
netVars  == <<net, lost, victims>>
vars == <<left, clients, login, connVars, online, listed, userVars,
          timerVars, netVars, cafeLocked, fault>>

Init ==
  /\ left = {} /\ clients = {}
  /\ login = [c \in Cafes |-> Nil]
  /\ allConns = [k \in Conns |-> Nil] /\ pubConns = [c \in Cafes |-> Nil]
  /\ online = {} /\ listed = [c \in Cafes |-> {}]
  /\ users = [u \in Users |-> Nil] /\ loginTels = [u \in Users |-> Nil]
  /\ inbox = {} /\ loading = {}
  /\ timer = "idle" /\ cafe = Nil
  /\ net = "idle" /\ lost = Nil /\ victims = {}
  /\ cafeLocked = FALSE /\ fault = "none"

MLockFree == net = "idle"

TimerAt(place) == timer = place /\ fault = "none"
NetAt(place)   == net = place /\ fault = "none"

-----------------------------------------------------------------------------
(***************************************************************************)
(* Connections come and go.                                                *)
(***************************************************************************)

Held(k) == k \in clients \/ allConns[k] # Nil \/ \E c \in Cafes : login[c] = k

\* One that the server has let go of comes as another.
Accept(k) ==
  /\ ~Held(k) /\ fault = "none"
  /\ clients' = clients \union {k}
  /\ left' = left \ {k}
  /\ UNCHANGED <<login, connVars, online, listed, userVars, timerVars, netVars,
                 cafeLocked, fault>>

Leave(k) ==
  /\ Held(k) /\ k \notin left /\ fault = "none"
  /\ left' = left \union {k}
  /\ UNCHANGED <<clients, login, connVars, online, listed, userVars, timerVars,
                 netVars, cafeLocked, fault>>

\* A packet of the café, a user's log-in, goes into the receive queue under the
\* café's id and may be dealt with when the connection is already gone.
Receive(u, c) ==
  /\ NetAt("idle") /\ pubConns[c] # Nil
  /\ inbox' = inbox \union {<<u, c>>}
  /\ UNCHANGED <<left, clients, login, connVars, online, listed, users, loginTels,
                 loading, timerVars, netVars, cafeLocked, fault>>

-----------------------------------------------------------------------------
(***************************************************************************)
(* ClientChecker::timerExec.  It passes over a list from which it erases:  *)
(* a pass may leave a connection out, the next one sees it.  So the order  *)
(* is left out and each look at one connection is a step.                  *)
(***************************************************************************)

\* If another log-in for the account is under way, this one is forgotten; otherwise
\* the database is asked.
EnterLogin(k, c) ==
  login' = IF login[c] = Nil THEN [login EXCEPT ![c] = k] ELSE login

CheckLogin_SlipKeep(k, c) ==
  /\ TimerAt("idle") /\ k \in clients
  /\ EnterLogin(k, c)
  /\ UNCHANGED <<left, clients, connVars, online, listed, userVars, timerVars, netVars,
                 cafeLocked, fault>>

\* A log-in for the account c arrives.  Entered or not, the list lets go of the
\* connection.
CheckLogin(k, c) ==
  /\ TimerAt("idle") /\ k \in clients
  /\ clients' = clients \ {k}
  /\ EnterLogin(k, c)
  /\ UNCHANGED <<left, connVars, online, listed, userVars, timerVars, netVars,
                 cafeLocked, fault>>

\* tryRecv throws.
DropClient(k) ==
  /\ TimerAt("idle") /\ k \in clients \intersect left
  /\ clients' = clients \ {k}
  /\ UNCHANGED <<left, login, connVars, online, listed, userVars, timerVars, netVars,
                 cafeLocked, fault>>

\* Five minutes are over.  The pass goes on with the next connection without
\* asking whether there is one; behind the last there is none.
TimeOutClient(k) ==
  /\ TimerAt("idle") /\ k \in clients
  /\ clients' = clients \ {k}
  /\ fault' \in IF clients' = {} THEN {"client"} ELSE {"none", "client"}
  /\ UNCHANGED <<left, login, connVars, online, listed, userVars, timerVars, netVars,
                 cafeLocked>>

-----------------------------------------------------------------------------
(***************************************************************************)
(* ClientChecker::loginCheck, called back with the account's row.          *)
(***************************************************************************)

WrongPassword(c) ==
  /\ TimerAt("idle") /\ login[c] # Nil
  /\ clients' = clients \union {login[c]}
  /\ login' = [login EXCEPT ![c] = Nil]
  /\ UNCHANGED <<left, connVars, online, listed, userVars, timerVars, netVars,
                 cafeLocked, fault>>

\* selectCoffeenetInfoBack looks into the row before it asks whether there is one:
\* the account c may not be in the table (any longer).
NoSuchAccount(c) ==
  /\ TimerAt("idle") /\ login[c] # Nil
  /\ fault' = "row"
  /\ UNCHANGED <<left, clients, login, connVars, online, listed, userVars, timerVars,
                 netVars, cafeLocked>>

\* offlineIfExist looks for the café, and so does offline again; if it has gone
\* in between, offline returns, as if it had not been there at all.
RightPassword(c) ==
  /\ TimerAt("idle") /\ login[c] # Nil
  /\ timer' = IF c \in online THEN "offline" ELSE "add"
  /\ cafe' = c
  /\ UNCHANGED <<left, clients, login, connVars, online, listed, userVars, netVars,
                 cafeLocked, fault>>

\* delUser for each user of gone; it uses its iterator before it asks whether
\* there is such a user.
DelUsers(gone) ==
  IF \E u \in gone : users[u] = Nil
    THEN fault' = "delUser" /\ UNCHANGED users
    ELSE /\ users' = [u \in Users |-> IF u \in gone THEN Nil ELSE users[u]]
         /\ UNCHANGED fault

\* Coffeenet::offline, through the iterator found before.
OfflineUsers ==
  /\ TimerAt("offline")
  /\ timer' = "kick"
  /\ IF cafe \in online THEN DelUsers(listed[cafe]) ELSE fault' = "cafe" /\ UNCHANGED users
  /\ UNCHANGED <<left, clients, login, connVars, online, listed, inbox, loginTels,
                 loading, cafe, netVars, cafeLocked>>

\* Game::erasePublicConn.
Kick ==
  /\ TimerAt("kick") /\ MLockFree
  /\ timer' = "erase"
  /\ allConns' = [k \in Conns |-> IF k = pubConns[cafe] THEN Nil ELSE allConns[k]]
  /\ pubConns' = [pubConns EXCEPT ![cafe] = Nil]
  /\ UNCHANGED <<left, clients, login, online, listed, userVars, cafe, netVars,
                 cafeLocked, fault>>

\* m_coffeenets.erase(it).
EraseCafe ==
  /\ TimerAt("erase")
  /\ timer' = "add"
  /\ online' = online \ {cafe}
  /\ listed' = [listed EXCEPT ![cafe] = {}]
  /\ fault' = IF cafe \in online THEN fault ELSE "cafe"
  /\ UNCHANGED <<left, clients, login, connVars, userVars, cafe, netVars, cafeLocked>>

\* e_clientConfirmed is addPublicConnection; nobody looks at its result.
AddConn ==
  /\ TimerAt("add") /\ MLockFree
  /\ timer' = "insert"
  /\ IF pubConns[cafe] = Nil /\ allConns[login[cafe]] = Nil
       THEN /\ allConns' = [allConns EXCEPT ![login[cafe]] = cafe]
            /\ pubConns' = [pubConns EXCEPT ![cafe] = login[cafe]]
       ELSE UNCHANGED connVars
  /\ UNCHANGED <<left, clients, login, online, listed, userVars, cafe, netVars,
                 cafeLocked, fault>>

InsertCafe_SlipKeepLock ==
  /\ TimerAt("insert") /\ ~cafeLocked
  /\ timer' = "greet"
  /\ online' = online \union {cafe}
  /\ listed' = [listed EXCEPT ![cafe] = {}]
  /\ cafeLocked' = TRUE
  /\ UNCHANGED <<left, clients, login, connVars, userVars, cafe, netVars, fault>>

\* CoffeenetManager::online, under the lock of the café map.
InsertCafe ==
  /\ TimerAt("insert") /\ ~cafeLocked
  /\ timer' = "greet"
  /\ online' = online \union {cafe}
  /\ listed' = [listed EXCEPT ![cafe] = {}]
  /\ UNCHANGED <<left, clients, login, connVars, userVars, cafe, netVars,
                 cafeLocked, fault>>

\* Coffeenet::online sends the answer (m_lock); m_login.erase.
Greet ==
  /\ TimerAt("greet") /\ MLockFree
  /\ timer' = "idle" /\ cafe' = Nil
  /\ login' = [login EXCEPT ![cafe] = Nil]
  /\ UNCHANGED <<left, clients, connVars, online, listed, userVars, netVars,
                 cafeLocked, fault>>

-----------------------------------------------------------------------------
(***************************************************************************)
(* UserManager.                                                            *)
(***************************************************************************)

\* If the user is being logged in, the packet is ignored.
LoginTel(u, c) ==
  /\ TimerAt("idle") /\ <<u, c>> \in inbox
  /\ inbox' = inbox \ {<<u, c>>}
  /\ loginTels' = IF loginTels[u] = Nil THEN [loginTels EXCEPT ![u] = c] ELSE loginTels
  /\ UNCHANGED <<left, clients, login, connVars, online, listed, users, loading,
                 timerVars, netVars, cafeLocked, fault>>

\* loginTelCheck with a wrong password.
LoginTelRefused(u) ==
  /\ TimerAt("idle") /\ loginTels[u] # Nil
  /\ loginTels' = [loginTels EXCEPT ![u] = Nil]
  /\ UNCHANGED <<left, clients, login, connVars, online, listed, users, inbox, loading,
                 timerVars, netVars, cafeLocked, fault>>

\* offIfExist: the café a user was on must be there; it is told, and keeps him in
\* its list all the same (Coffeenet::delUser only looks).
OffIfExistFails(u) == users[u] # Nil /\ users[u] \notin online

\* loginTelCheck with the right password.  The user is entered whether or not the
\* café that asked is still there.
LoginTelAccepted(u) ==
  LET new == loginTels[u]
  IN  /\ TimerAt("idle") /\ new # Nil
      /\ loginTels' = [loginTels EXCEPT ![u] = Nil]
      /\ users' = [users EXCEPT ![u] = new]
      /\ listed' = IF new \in online
                     THEN [listed EXCEPT ![new] = @ \union {u}] ELSE listed
      /\ loading' = IF new \in online THEN loading \union {u} ELSE loading
      /\ fault' = IF OffIfExistFails(u) THEN "cafe" ELSE fault
      /\ UNCHANGED <<left, clients, login, connVars, online, inbox, timerVars, netVars,
                     cafeLocked>>

\* selectUserGameBack: the rows, if there are any, are stored in a user who may
\* have gone.
GameRowsBack(u) ==
  /\ TimerAt("idle") /\ u \in loading
  /\ loading' = loading \ {u}
  /\ fault' \in IF users[u] = Nil THEN {"none", "user"} ELSE {"none"}
  /\ UNCHANGED <<left, clients, login, connVars, online, listed, users, inbox,
                 loginTels, timerVars, netVars, cafeLocked>>

-----------------------------------------------------------------------------
(***************************************************************************)
(* The network thread: TcpConnectionManager::eraseConnection.              *)
(***************************************************************************)

\* The id is erased from m_pubConns, whatever connection it has there.
Lose(k) ==
  /\ NetAt("idle") /\ k \in left /\ allConns[k] # Nil
  /\ net' = "delCafe" /\ lost' = k
  /\ pubConns' = [pubConns EXCEPT ![allConns[k]] = Nil]
  /\ UNCHANGED <<left, clients, login, allConns, online, listed, userVars, timerVars,
                 victims, cafeLocked, fault>>

LostCafe == allConns[lost]

DelCafe_SlipStays ==
  /\ NetAt("delCafe") /\ ~cafeLocked /\ LostCafe \in online
  /\ net' = "delUsers"
  /\ victims' = listed[LostCafe]
  /\ UNCHANGED <<left, clients, login, connVars, online, listed, userVars, timerVars,
                 lost, cafeLocked, fault>>

\* CoffeenetManager::delCoffeenet.
DelCafe ==
  /\ NetAt("delCafe") /\ ~cafeLocked /\ LostCafe \in online
  /\ net' = "delUsers"
  /\ online' = online \ {LostCafe}
  /\ victims' = listed[LostCafe]
  /\ listed' = [listed EXCEPT ![LostCafe] = {}]
  /\ UNCHANGED <<left, clients, login, connVars, userVars, timerVars, lost,
                 cafeLocked, fault>>

\* The café is not there: delCoffeenet returns and keeps the lock.
DelCafeMissing ==
  /\ NetAt("delCafe") /\ ~cafeLocked /\ LostCafe \notin online
  /\ net' = "drop"
  /\ cafeLocked' = TRUE
  /\ UNCHANGED <<left, clients, login, connVars, online, listed, userVars, timerVars,
                 lost, victims, fault>>

OfflineVictims ==
  /\ NetAt("delUsers")
  /\ net' = "drop" /\ victims' = {}
  /\ DelUsers(victims)
  /\ UNCHANGED <<left, clients, login, connVars, online, listed, inbox, loginTels,
                 loading, timerVars, lost, cafeLocked>>

\* m_allConns.erase, and m_lock is released.
Drop ==
  /\ NetAt("drop")
  /\ net' = "idle" /\ lost' = Nil
  /\ allConns' = [allConns EXCEPT ![lost] = Nil]
  /\ UNCHANGED <<left, clients, login, pubConns, online, listed, userVars, timerVars,
                 victims, cafeLocked, fault>>

-----------------------------------------------------------------------------

LoginBack(c) == WrongPassword(c) \/ RightPassword(c) \/ NoSuchAccount(c)

LoginSteps == OfflineUsers \/ Kick \/ EraseCafe \/ AddConn \/ InsertCafe \/ Greet

NetSteps == DelCafe \/ DelCafeMissing \/ OfflineVictims \/ Drop

UserStep(u) ==
  \/ LoginTelRefused(u) \/ LoginTelAccepted(u) \/ GameRowsBack(u)
  \/ \E c \in Cafes : Receive(u, c) \/ LoginTel(u, c)

ConnStep(k) ==
  \/ Accept(k) \/ Leave(k) \/ DropClient(k) \/ TimeOutClient(k) \/ Lose(k)
  \/ \E c \in Cafes : CheckLogin(k, c)

Next ==
  \/ \E k \in Conns : ConnStep(k)
  \/ \E c \in Cafes : LoginBack(c)
  \/ LoginSteps
  \/ \E u \in Users : UserStep(u)
  \/ NetSteps

Safety == Init /\ [][Next]_vars

\* The database answers and the callback comes; both threads go on, the timer
\* also when the network thread takes m_lock now and again.
Spec ==
  /\ Safety
  /\ \A c \in Cafes : SF_vars(LoginBack(c))
  /\ SF_vars(LoginSteps) /\ WF_vars(NetSteps)

-----------------------------------------------------------------------------
(***************************************************************************)
(* Properties.                                                             *)
(***************************************************************************)

TypeOK ==
  /\ left \subseteq Conns /\ clients \subseteq Conns
  /\ login \in [Cafes -> Conns \union {Nil}]
  /\ allConns \in [Conns -> Cafes \union {Nil}]
  /\ pubConns \in [Cafes -> Conns \union {Nil}]
  /\ online \subseteq Cafes /\ listed \in [Cafes -> SUBSET Users]
  /\ users \in [Users -> Cafes \union {Nil}] /\ loginTels \in [Users -> Cafes \union {Nil}]
  /\ inbox \subseteq Users \X Cafes /\ loading \subseteq Users
  /\ timer \in {"idle", "offline", "kick", "erase", "add", "insert", "greet"}
  /\ cafe \in Cafes \union {Nil} /\ (timer = "idle" <=> cafe = Nil)
  /\ timer # "idle" => login[cafe] # Nil
  /\ net \in {"idle", "delCafe", "delUsers", "drop"}
  /\ lost \in Conns \union {Nil} /\ (net = "idle" <=> lost = Nil)
  /\ net # "idle" => allConns[lost] # Nil
  /\ victims \subseteq Users /\ cafeLocked \in BOOLEAN
  /\ fault \in {"none", "client", "row", "delUser", "cafe", "user"}

\* The account whose log-in holds k and has not yet given it away.
Holds(c, k) == login[c] = k /\ ~(c = cafe /\ timer \in {"insert", "greet"})

\* However log-ins, refusals, time-outs and losses follow each other, a connection
\* is never in two hands: two log-ins, or a log-in and the list of unchecked ones,
\* or one of these and the registered connections.
OneHand ==
  \A k \in Conns :
    /\ \A c, d \in Cafes : login[c] = k /\ login[d] = k => c = d
    /\ \A c \in Cafes : login[c] = k => k \notin clients
    /\ allConns[k] # Nil => k \notin clients /\ \A c \in Cafes : ~Holds(c, k)

\* m_allConns and m_pubConns name the same connections under the same ids, but for
\* the one that is being lost, whose id no other has taken.  (eraseConnection
\* erases by id: it would hit another connection.)
ConnMapsAgree ==
  /\ \A k \in Conns, c \in Cafes :
       pubConns[c] = k <=> allConns[k] = c /\ k # lost
  /\ net # "idle" => pubConns[LostCafe] = Nil

\* Where a café and its connection part for a while: one is there without the
\* other only between two steps of a log-in or a loss of this very café.
PartedOnPurpose ==
  /\ \A c \in online :
       \/ pubConns[c] # Nil
       \/ net = "delCafe" /\ LostCafe = c
       \/ timer = "erase" /\ cafe = c
  /\ \A c \in Cafes :
       pubConns[c] # Nil => c \in online \/ (timer = "insert" /\ cafe = c)
  /\ timer = "erase" => \A k \in Conns : allConns[k] # cafe
  /\ timer \in {"add", "insert"} => cafe \notin online

\* Who may find the café of a lost connection missing: the log-in that is about to
\* enter it, if its client has gone; then the lock is kept until it would enter it.
LockKept ==
  /\ net # "idle" => lost \in left
  /\ timer \in {"insert", "greet"} =>
       \A k \in Conns : allConns[k] = cafe => k = login[cafe]
  /\ net = "delCafe" /\ LostCafe \notin online => timer = "insert" /\ cafe = LostCafe
  /\ timer = "insert" /\ ~cafeLocked =>
       pubConns[cafe] # Nil \/ (net = "delCafe" /\ LostCafe = cafe)
  /\ cafeLocked => timer = "insert" /\ login[cafe] \in left

SessionInv ==
  /\ TypeOK /\ OneHand /\ ConnMapsAgree
  /\ fault = "none" => PartedOnPurpose /\ LockKept

\* What loginCheck relies on when it registers the connection and the café: the id
\* is not registered, the café not online.
NoDuplicateId ==
  fault = "none" =>
    /\ timer = "add" => pubConns[cafe] = Nil /\ allConns[login[cafe]] = Nil
    /\ timer \in {"add", "insert"} => cafe \notin online

\* When both threads are done, exactly the cafés that are online have a connection:
\* none is left that no loss will ever take away, and no client talks for a café
\* that is not there.
CafesMatchConns ==
  fault = "none" /\ timer = "idle" /\ net = "idle" =>
    \A c \in Cafes : c \in online <=> pubConns[c] # Nil

\* A log-in the database answers comes to its end.  The exception is the client
\* that goes away between the two steps of its own log-in: it leaves the lock of
\* the café map locked, and everything stops.
LoginEnds ==
  \A c \in Cafes :
    login[c] # Nil ~>
      (login[c] = Nil \/ fault # "none" \/ (cafeLocked /\ cafe # Nil /\ login[cafe] \in left))

=============================================================================
