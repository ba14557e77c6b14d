----------------------------- MODULE PrivateNet -----------------------------
(***************************************************************************)
(* The connections between the processes of one installation.              *)
(*                                                                         *)
(* A process dials the endpoints its configuration names (TcpClient::exec) *)
(* and accepts on its own (TcpServer).  Either way the connection goes to  *)
(* the process' PrivateConnectionChecker, where the dialler sends its id   *)
(* and the acceptor answers with its own; each side that is content hands  *)
(* the connection to TcpConnectionManager::addPrivateConnection, under the *)
(* id it was told.  Joining threads, the main thread waits for the number  *)
(* of private connections to equal the number of endpoints to dial, then   *)
(* resumes the main timer.                                                 *)
(*                                                                         *)
(* A process may crash at any step and come back.  What it leaves is a     *)
(* closed connection at its peer, who finds out when he looks: whatever is *)
(* unread by then is read or lost.  Of a connection whose peer vanishes    *)
(* without closing it nothing is said: the code has no time-out for it.    *)
(*                                                                         *)
(* The ids of cafes and of processes are plain numbers of which nobody     *)
(* says that they differ, and eraseConnection looks the id of a connection *)
(* of either kind up among the cafes first.  So a cafe may lose its entry  *)
(* to a process' connection of its id, whose own entry then stays behind   *)
(* until the cafe's connection goes and takes that one.                    *)
(***************************************************************************)
EXTENDS Integers, FiniteSets

CONSTANTS
  Procs,       \* the processes' ids
  Dials,       \* <<p, q>>: the configuration of p names the endpoint of q
  Cafes,       \* <<p, i>>: a cafe of id i, which may be a process' id too, logs in to p
  MaxSockets,  \* connections from one process to another at a time (bound)
  MaxCrashes   \* crashes (bound)

\* An id of zero is a process started without one.
ASSUME PrivateAssumption ==
  /\ Procs \subseteq Nat /\ IsFiniteSet(Procs)
  /\ Dials \subseteq Procs \X Procs
  /\ Cafes \subseteq Procs \X Nat
  /\ MaxSockets \in Nat \ {0} /\ MaxCrashes \in Nat

Socks == {<<d[1], d[2], k>> : d \in Dials, k \in 1..MaxSockets}
Sides == {"out", "in"}
Nothing == -1

VARIABLES
  up,         \* the processes that run
  socks,      \* of each connection its two sides
  priConns,   \* of each process: m_priConns, from ids to connections
  pubConns,   \* <<p, i>>: m_pubConns of p has the id i
  cafeConns,  \* of <<p, i>>: how many cafes' connections of id i m_allConns of p has
  retry,      \* TcpClient: endpoints whose retryTimepoint is still to come
  suspended,  \* processes whose main timer waits
  crashes

cafeVars == <<pubConns, cafeConns>>
netVars == <<up, socks, priConns, cafeVars, retry, suspended, crashes>>

\* A side of a connection: a ConnState, "registered" or "shut"; the id under way to
\* it, unread; the remoteId it was told.
Side(st, told, id) == [state |-> st, told |-> told, remoteId |-> id]
Fresh(st) == Side(st, Nothing, Nothing)
Shut == Fresh("shut")

Checked == {"recvId", "sendRet", "sendId", "recvRet"}

Other(side) == IF side = "out" THEN "in" ELSE "out"
Owner(c, side) == IF side = "out" THEN c[1] ELSE c[2]
PeerGone(c, side) == socks[c][Other(side)] = Shut

Dialled(p) == {q \in Procs : <<p, q>> \in Dials}

-----------------------------------------------------------------------------
Closed == [side \in Sides |-> Shut]

NetInit ==
  /\ up = Procs
  /\ socks = [c \in Socks |-> Closed]
  /\ priConns = [p \in Procs |-> <<>>]
  /\ pubConns = {}
  /\ cafeConns = [x \in Cafes |-> 0]
  /\ retry = {}
  /\ suspended = Procs
  /\ crashes = 0

(***************************************************************************)
(* TcpClient::exec and TcpServer::epollEventHandler.                       *)
(***************************************************************************)

\* The weak pointer to the last connection has not expired: the checker, or the
\* connection manager, still holds it, were it in an entry left behind.
Dialling(p, q) ==
  \E k \in 1..MaxSockets :
    \/ socks[<<p, q, k>>]["out"] # Shut
    \/ \E i \in DOMAIN priConns[p] : priConns[p][i] = <<<<p, q, k>>, "out">>

\* addUncheckedConnection gives the dialler its id to send.
Connect(p, q) ==
  \E k \in 1..MaxSockets :
    LET c == <<p, q, k>>
    IN /\ socks[c] = Closed
       /\ socks' = [socks EXCEPT ![c] = [side \in Sides |->
                       IF side = "out" THEN Fresh("sendId") ELSE Fresh("pending")]]

Dial(p, q) ==
  /\ {p, q} \subseteq up /\ <<p, q>> \notin retry
  /\ ~Dialling(p, q)
  /\ Connect(p, q)
  /\ UNCHANGED <<up, priConns, cafeVars, retry, suspended, crashes>>

\* connect throws; one that times out changes nothing at all.
DialFails(p, q) ==
  /\ p \in up /\ q \notin up /\ <<p, q>> \notin retry
  /\ ~Dialling(p, q)
  /\ retry' = retry \union {<<p, q>>}
  /\ UNCHANGED <<up, socks, priConns, cafeVars, suspended, crashes>>

RetryDue(p, q) ==
  /\ <<p, q>> \in retry
  /\ retry' = retry \ {<<p, q>>}
  /\ UNCHANGED <<up, socks, priConns, cafeVars, suspended, crashes>>

Accept(c) ==
  /\ socks[c]["in"].state = "pending"
  /\ socks' = [socks EXCEPT ![c]["in"].state = "recvId"]
  /\ UNCHANGED <<up, priConns, cafeVars, retry, suspended, crashes>>

-----------------------------------------------------------------------------
(***************************************************************************)
(* PrivateConnectionChecker::checkConn, the step of one connection.        *)
(***************************************************************************)

RecvId(c) ==
  LET me == socks[c]["in"]
  IN /\ me.state = "recvId" /\ me.told # Nothing
     /\ socks' = [socks EXCEPT ![c]["in"] = Side("sendRet", Nothing, me.told)]
     /\ UNCHANGED <<up, priConns, cafeVars, retry, suspended, crashes>>

\* A process without an id is told zero, which is a refusal.
Reply(c) == IF socks[c]["in"].remoteId # 0 THEN c[2] ELSE 0

\* What one side looks like after the other sent it an id.
Told(side, id) == IF side = Shut THEN Shut ELSE [side EXCEPT !.told = id]

SendId(c) ==
  /\ socks[c]["out"].state = "sendId"
  /\ socks' = [socks EXCEPT ![c]["in"] = Told(@, c[1]), ![c]["out"].state = "recvRet"]
  /\ UNCHANGED <<up, priConns, cafeVars, retry, suspended, crashes>>

Entered(table, id, entry) ==
  [i \in DOMAIN table \union {id} |-> IF i = id THEN entry ELSE table[i]]

\* A confirmed id goes to addPrivateConnection; a connection whose id is taken is
\* let go of, and so closed, without a word, as a refused one is.
Accepted_SlipReplace(p, id) == id # 0
Accepted(p, id) == id # 0 /\ id \notin DOMAIN priConns[p]

Confirm(c, side, id) ==
  LET p == Owner(c, side)
  IN priConns' = IF Accepted(p, id)
                 THEN [priConns EXCEPT ![p] = Entered(@, id, <<c, side>>)]
                 ELSE priConns
Confirmed(p, id) ==
  IF Accepted(p, id) THEN Side("registered", Nothing, id) ELSE Shut

SendRet(c) ==
  LET id == socks[c]["in"].remoteId
  IN /\ socks[c]["in"].state = "sendRet"
     /\ Confirm(c, "in", id)
     /\ socks' = [socks EXCEPT ![c]["out"] = Told(@, Reply(c)),
                               ![c]["in"] = Confirmed(c[2], id)]
     /\ UNCHANGED <<up, cafeVars, retry, suspended, crashes>>

RecvRet(c) ==
  LET id == socks[c]["out"].told
  IN /\ socks[c]["out"].state = "recvRet" /\ id # Nothing
     /\ Confirm(c, "out", id)
     /\ socks' = [socks EXCEPT ![c]["out"] = Confirmed(c[1], id)]
     /\ UNCHANGED <<up, cafeVars, retry, suspended, crashes>>

\* recv or send throws; the connection is erased from the list.
CheckThrows(c, side) ==
  /\ socks[c][side].state \in Checked /\ PeerGone(c, side)
  /\ socks' = [socks EXCEPT ![c][side] = Shut]
  /\ UNCHANGED <<up, priConns, cafeVars, retry, suspended, crashes>>

-----------------------------------------------------------------------------
(***************************************************************************)
(* TcpConnectionManager.                                                   *)
(***************************************************************************)

Without(f, i) == [x \in DOMAIN f \ {i} |-> f[x]]

\* eraseConnection looks the id up among the public connections first.
EraseConnection_SlipKeep(p, id) ==
  /\ pubConns' = pubConns \ {<<p, id>>}
  /\ UNCHANGED priConns

EraseConnection(p, id) ==
  /\ pubConns' = pubConns \ {<<p, id>>}
  /\ priConns' = IF <<p, id>> \in pubConns THEN priConns
                 ELSE [priConns EXCEPT ![p] = Without(@, id)]

\* The read handler finds a private connection closed.  The connection is closed
\* here too, whatever became of its entry.
LoseConn(c, side) ==
  /\ socks[c][side].state = "registered" /\ PeerGone(c, side)
  /\ EraseConnection(Owner(c, side), socks[c][side].remoteId)
  /\ socks' = [socks EXCEPT ![c][side] = Shut]
  /\ UNCHANGED <<up, cafeConns, retry, suspended, crashes>>

\* A cafe's connection, x its process and id: addPublicConnection, which refuses
\* an id that has an entry.
CafeComes(x) ==
  /\ x[1] \in up \ suspended /\ x \notin pubConns
  /\ pubConns' = pubConns \union {x}
  /\ cafeConns' = [cafeConns EXCEPT ![x] = @ + 1]
  /\ UNCHANGED <<up, socks, priConns, retry, suspended, crashes>>

\* The read handler finds one closed, be it the one its id stands for or not.
CafeGoes(x) ==
  /\ cafeConns[x] > 0
  /\ EraseConnection(x[1], x[2])
  /\ cafeConns' = [cafeConns EXCEPT ![x] = @ - 1]
  /\ UNCHANGED <<up, socks, retry, suspended, crashes>>

\* erasePublicConnection forgets the entry and its connection.
CafeKicked(x) ==
  /\ x \in pubConns
  /\ pubConns' = pubConns \ {x}
  /\ cafeConns' = [cafeConns EXCEPT ![x] = @ - 1]
  /\ UNCHANGED <<up, socks, priConns, retry, suspended, crashes>>

-----------------------------------------------------------------------------
(***************************************************************************)
(* Process::joinThreads, crashes and starts.                               *)
(***************************************************************************)

Enough_SlipLess(p) == Cardinality(DOMAIN priConns[p]) <= Cardinality(Dialled(p))
Enough(p) == Cardinality(DOMAIN priConns[p]) = Cardinality(Dialled(p))

Resume(p) ==
  /\ p \in up \intersect suspended
  /\ Enough(p)
  /\ suspended' = suspended \ {p}
  /\ UNCHANGED <<up, socks, priConns, cafeVars, retry, crashes>>

Crash(p) ==
  /\ p \in up /\ crashes < MaxCrashes
  /\ crashes' = crashes + 1
  /\ up' = up \ {p}
  /\ socks' = [c \in Socks |-> [side \in Sides |->
                                  IF Owner(c, side) = p THEN Shut ELSE socks[c][side]]]
  /\ priConns' = [priConns EXCEPT ![p] = <<>>]
  /\ pubConns' = {x \in pubConns : x[1] # p}
  /\ cafeConns' = [x \in Cafes |-> IF x[1] = p THEN 0 ELSE cafeConns[x]]
  /\ retry' = {d \in retry : d[1] # p}
  /\ suspended' = suspended \union {p}

Start(p) ==
  /\ p \notin up
  /\ up' = up \union {p}
  /\ UNCHANGED <<socks, priConns, cafeVars, retry, suspended, crashes>>

-----------------------------------------------------------------------------
NetNext ==
  \/ \E d \in Dials : \/ Dial(d[1], d[2])
                      \/ DialFails(d[1], d[2])
                      \/ RetryDue(d[1], d[2])
  \/ \E c \in Socks : \/ Accept(c)
                      \/ RecvId(c)
                      \/ SendRet(c)
                      \/ SendId(c)
                      \/ RecvRet(c)
  \/ \E c \in Socks, side \in Sides : CheckThrows(c, side)
  \/ \E c \in Socks, side \in Sides : LoseConn(c, side)
  \/ \E p \in Procs : Resume(p)
  \/ \E p \in Procs : Crash(p)
  \/ \E p \in Procs : Start(p)
  \/ \E x \in Cafes : CafeComes(x)
  \/ \E x \in Cafes : CafeGoes(x)
  \/ \E x \in Cafes : CafeKicked(x)

\* Every thread goes on: the client and the checker pass over all their
\* connections, epoll reports every descriptor, the main thread looks again, and
\* whoever stopped a process starts it.
Fairness ==
  /\ \A d \in Dials : /\ WF_netVars(Dial(d[1], d[2]))
                      /\ WF_netVars(DialFails(d[1], d[2]))
                      /\ WF_netVars(RetryDue(d[1], d[2]))
  /\ \A c \in Socks : WF_netVars(Accept(c) \/ RecvId(c) \/ SendRet(c) \/ CheckThrows(c, "in"))
  /\ \A c \in Socks : WF_netVars(SendId(c) \/ RecvRet(c) \/ CheckThrows(c, "out"))
  /\ \A c \in Socks, side \in Sides : WF_netVars(LoseConn(c, side))
  /\ \A p \in Procs : WF_netVars(Resume(p)) /\ WF_netVars(Start(p))

\* What every behaviour does, and what the threads' going on adds to it.
NetSafety == NetInit /\ [][NetNext]_netVars
NetSpec == NetSafety /\ Fairness

-----------------------------------------------------------------------------
(***************************************************************************)
(* Properties.                                                             *)
(***************************************************************************)

States == Checked \union {"pending", "registered", "shut"}
Ids == Procs \union {Nothing}

NetTypeOK ==
  /\ up \subseteq Procs /\ suspended \subseteq Procs /\ retry \subseteq Dials
  /\ socks \in [Socks -> [Sides -> [state : States, told : Ids, remoteId : Ids]]]
  /\ \A p \in Procs : /\ DOMAIN priConns[p] \subseteq Procs \ {0}
                      /\ \A i \in DOMAIN priConns[p] : priConns[p][i] \in Socks \X Sides
  /\ pubConns \subseteq Cafes
  /\ cafeConns \in [Cafes -> 0..2]
  /\ crashes \in 0..MaxCrashes

\* The entry of a private connection that is gone: its id is refused to every new
\* connection, and the process does not redial it.
Stale(p, i) ==
  /\ i \in DOMAIN priConns[p]
  /\ LET e == priConns[p][i] IN socks[e[1]][e[2]].state # "registered"

\* One of the cafe's connections, entry or none, is without.
Ousted(p, i) ==
  LET x == <<p, i>>
  IN x \in Cafes /\ cafeConns[x] = IF x \in pubConns THEN 2 ELSE 1

\* The table of private connections tells the truth: an id stands for a
\* connection to the process of that id, registered at this end, and every
\* registered connection is in the table once, across crashes of both
\* (addPrivateConnection, eraseConnection, checkConn).  It is out of date in one
\* case only, and exactly as long as that lasts: while a cafe of the same id has
\* a connection without an entry, which eraseConnection took from it.
\* sendPacketToPrivate, which knows a process by its id only, relies on it.
TableSound ==
  /\ \A p \in Procs : \A i \in DOMAIN priConns[p] :
       LET e == priConns[p][i]
       IN Owner(e[1], e[2]) = p /\ Owner(e[1], Other(e[2])) = i
  /\ \A c \in Socks, side \in Sides :
       socks[c][side].state = "registered" =>
         \E i \in DOMAIN priConns[Owner(c, side)] : priConns[Owner(c, side)][i] = <<c, side>>
  /\ \A p \in Procs, i \in Procs \union {x[2] : x \in Cafes} : Stale(p, i) <=> Ousted(p, i)

\* Types and the tables.
PrivateNetInv == NetTypeOK /\ TableSound

\* Both ends of some connection from p to q are registered.
Linked(p, q) ==
  \E k \in 1..MaxSockets : LET c == <<p, q, k>>
                           IN \A side \in Sides : socks[c][side].state = "registered"

OneWay(p, q) == p # q /\ <<q, p>> \notin Dials

\* When the crashes end every process is linked for good with all it dials,
\* unless it has no id, whatever of the old connections was still in the tables;
\* all that keeps it from that is a cafe with the id of one at the other.
LinkedInTheEnd ==
  \A d \in Dials :
    d[1] # 0 /\ OneWay(d[1], d[2]) =>
      <>[](Linked(d[1], d[2]) \/ Ousted(d[1], d[2]) \/ Ousted(d[2], d[1]))

NobodyDials(p) == \A d \in Dials : d[2] # p

\* A process that nobody dials resumes its main timer only when each of its own
\* connections is registered ("发起私网连接全部成功", process.cpp:253).
ResumedWhenLinked ==
  [][\A p \in suspended \ suspended' :
       NobodyDials(p) => /\ DOMAIN priConns[p] = Dialled(p)
                         /\ \A q \in Dialled(p) : ~Stale(p, q)]_netVars

\* And it does resume, after every start, unless a cafe at a process it dials has its id.
Resumes ==
  \A p \in Procs :
    NobodyDials(p) /\ p # 0 =>
      (p \in suspended ~> (p \notin suspended \/ \E q \in Dialled(p) : Ousted(q, p)))

=============================================================================
