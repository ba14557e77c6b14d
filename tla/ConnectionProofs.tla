-------------------------- MODULE ConnectionProofs --------------------------
(***************************************************************************)
(* Proofs about the two kinds of connections a process has: those between  *)
(* processes (PrivateNet), for any processes, any configuration and any    *)
(* number of connections and crashes, and those of its clients             *)
(* (PacketConn), for any number and size of packets and any room in socket *)
(* and queues.                                                             *)
(***************************************************************************)
EXTENDS PacketConn, PrivateNet, SequenceTheorems, FiniteSetTheorems, TLAPS

-----------------------------------------------------------------------------
(***************************************************************************)
(* PrivateNet.                                                             *)
(***************************************************************************)

Peer(c, side) == Owner(c, Other(side))

Tellable(c, side) == {Nothing, Peer(c, side)} \cup (IF side = "out" THEN {0} ELSE {})

\* What is on its way to a side is the other's id, or the refusal; and the id an
\* acceptor is about to confirm is the dialler's.
ToldRight ==
  /\ \A c \in Socks, side \in Sides : socks[c][side].told \in Tellable(c, side)
  /\ \A c \in Socks : socks[c]["in"].state = "sendRet" => socks[c]["in"].remoteId = c[1]

\* A registered connection goes by its peer's id, and is what that id stands for.
OwnEntry(c, side) ==
  LET p == Owner(c, side)
      i == socks[c][side].remoteId
  IN i = Peer(c, side) /\ i \in DOMAIN priConns[p] /\ priConns[p][i] = <<c, side>>

Entries ==
  \A p \in Procs : \A i \in DOMAIN priConns[p] :
    \E c \in Socks, side \in Sides :
      priConns[p][i] = <<c, side>> /\ Owner(c, side) = p /\ Peer(c, side) = i

Registered ==
  \A c \in Socks, side \in Sides :
    socks[c][side].state = "registered" => OwnEntry(c, side)

One(b) == IF b THEN 1 ELSE 0

\* Of a cafe's connections of one id the first has the entry of a cafe, and a second
\* stands, as it were, for the stale entry of a process: it is the one whose entry
\* went in place of that.
Accounted ==
  /\ \A p \in Procs, i \in Procs : Stale(p, i) => <<p, i>> \in Cafes
  /\ \A x \in Cafes : cafeConns[x] = One(x \in pubConns) + One(Stale(x[1], x[2]))

\* No cafe comes to a process that waits.
NoneYet == \A x \in Cafes : x[1] \in suspended => cafeConns[x] = 0

SideType == [state : States, told : Ids, remoteId : Ids]

Types ==
  /\ up \subseteq Procs /\ suspended \subseteq Procs /\ retry \subseteq Dials
  /\ socks \in [Socks -> [Sides -> SideType]]
  /\ DOMAIN priConns = Procs
  /\ \A p \in Procs : DOMAIN priConns[p] \subseteq Procs \ {0}
  /\ pubConns \subseteq Cafes
  /\ cafeConns \in [Cafes -> Nat]
  /\ crashes \in 0..MaxCrashes

IInv == Types /\ ToldRight /\ Entries /\ Registered /\ Accounted /\ NoneYet

LEMMA Ends ==
  ASSUME NEW c \in Socks
  PROVE  c[1] \in Procs /\ c[2] \in Procs /\ <<c[1], c[2]>> \in Dials
<1>1. PICK d \in Dials, k \in 1..MaxSockets : c = <<d[1], d[2], k>>
  BY DEF Socks
<1> QED
  BY <1>1, PrivateAssumption

LEMMA NotAnId == Nothing \notin Procs
  BY PrivateAssumption DEF Nothing

\* An entry is stale when its connection is not registered.
LEMMA StaleEntry ==
  ASSUME NEW p, NEW i \in DOMAIN priConns[p], NEW c, NEW side, priConns[p][i] = <<c, side>>
  PROVE  Stale(p, i) <=> socks[c][side].state # "registered"
  BY DEF Stale

\* The invariant says what the checked one says.
LEMMA Implied == IInv => PrivateNetInv
<1> SUFFICES ASSUME IInv PROVE PrivateNetInv
  OBVIOUS
<1>1. ASSUME NEW x \in Cafes PROVE cafeConns[x] \in 0..2
  BY <1>1 DEF IInv, Accounted, One
<1>2. NetTypeOK
  <2>1. ASSUME NEW p \in Procs, NEW i \in DOMAIN priConns[p]
        PROVE  priConns[p][i] \in Socks \X Sides
    <3>1. PICK c \in Socks, side \in Sides : priConns[p][i] = <<c, side>>
      BY DEF IInv, Entries
    <3> QED
      BY <3>1
  <2>2. cafeConns \in [Cafes -> 0..2]
    BY <1>1 DEF IInv, Types
  <2> QED
    BY <2>1, <2>2 DEF IInv, Types, NetTypeOK, SideType
<1>3. TableSound
  <2>1. ASSUME NEW p \in Procs, NEW i \in DOMAIN priConns[p]
        PROVE  LET e == priConns[p][i]
               IN Owner(e[1], e[2]) = p /\ Owner(e[1], Other(e[2])) = i
    BY <2>1 DEF IInv, Entries, Peer
  <2>2. ASSUME NEW c \in Socks, NEW side \in Sides, socks[c][side].state = "registered"
        PROVE  \E i \in DOMAIN priConns[Owner(c, side)] : priConns[Owner(c, side)][i] = <<c, side>>
    BY <2>2 DEF IInv, Registered, OwnEntry
  <2>3. ASSUME NEW p \in Procs, NEW i \in Procs \union {x[2] : x \in Cafes}
        PROVE  Stale(p, i) <=> Ousted(p, i)
    <3>1. CASE <<p, i>> \in Cafes
      <4>1. cafeConns[<<p, i>>] = One(<<p, i>> \in pubConns) + One(Stale(p, i))
        BY <3>1 DEF IInv, Accounted
      <4> QED
        BY <3>1, <4>1 DEF One, Ousted
    <3>2. CASE <<p, i>> \notin Cafes
      <4>1. Stale(p, i) => i \in Procs
        BY DEF Stale, IInv, Types
      <4> QED
        BY <3>2, <4>1 DEF IInv, Accounted, Ousted
    <3> QED
      BY <3>1, <3>2
  <2> QED
    BY <2>1, <2>2, <2>3 DEF TableSound
<1> QED
  BY <1>2, <1>3 DEF PrivateNetInv

LEMMA InitNet == NetInit => IInv
<1> SUFFICES ASSUME NetInit PROVE IInv
  OBVIOUS
<1>1. \A c \in Socks, side \in Sides : socks[c][side] = Shut
  BY DEF NetInit, Closed
<1>2. Shut \in SideType /\ Shut.state = "shut" /\ Shut.told = Nothing
  BY DEF Shut, Fresh, Side, SideType, States, Ids
<1>3. Types
  BY <1>2, PrivateAssumption DEF NetInit, Closed, Types
<1>4. ToldRight /\ Registered
  BY <1>1, <1>2 DEF ToldRight, Tellable, Registered, Sides
<1>5. \A p \in Procs : DOMAIN priConns[p] = {}
  BY DEF NetInit
<1>6. Entries
  BY <1>5 DEF Entries
<1>7. \A p \in Procs : \A i : ~Stale(p, i)
  BY <1>5 DEF Stale
<1>8. \A x \in Cafes : x[1] \in Procs
  BY PrivateAssumption
<1>9. Accounted /\ NoneYet
  BY <1>7, <1>8 DEF NetInit, Accounted, NoneYet, One
<1> QED
  BY <1>3, <1>4, <1>6, <1>9 DEF IInv

-----------------------------------------------------------------------------
\* A step that leaves the tables alone and registers nothing: each side it changes
\* stays told the truth, and no registered one is among them.
Untouched(c, side) ==
  /\ socks'[c][side].told \in {socks[c][side].told} \cup Tellable(c, side)
  /\ socks[c][side].state = "registered"
       => socks'[c][side].state = "registered" /\ socks'[c][side].remoteId = socks[c][side].remoteId
  /\ socks'[c][side].state = "registered" => socks[c][side].state = "registered"
  /\ (side = "in" /\ socks'[c][side].state = "sendRet") => socks'[c][side].remoteId = c[1]

\* It leaves the entries as stale as they were.
LEMMA SameStale ==
  ASSUME IInv, UNCHANGED priConns, \A c \in Socks, side \in Sides : Untouched(c, side)
  PROVE  \A p \in Procs : \A i : Stale(p, i)' <=> Stale(p, i)
<1> SUFFICES ASSUME NEW p \in Procs, NEW i \in DOMAIN priConns[p]
             PROVE  Stale(p, i)' <=> Stale(p, i)
  BY DEF Stale
<1>1. PICK c \in Socks, side \in Sides : priConns[p][i] = <<c, side>>
  BY DEF IInv, Entries
<1>2. Untouched(c, side)
  OBVIOUS
<1> QED
  BY <1>1, <1>2 DEF Stale, Untouched

\* The cafes are accounted for as long as none comes or goes and no entry is made
\* stale or removed for being so.
LEMMA SameAccounts ==
  ASSUME IInv, UNCHANGED cafeVars, \A p \in Procs : \A i : Stale(p, i)' <=> Stale(p, i)
  PROVE  Accounted'
<1>1. \A x \in Cafes : x[1] \in Procs
  BY PrivateAssumption
<1> QED
  BY <1>1 DEF IInv, Accounted, One, cafeVars

LEMMA QuietStep ==
  ASSUME IInv, UNCHANGED <<priConns, cafeVars, suspended>>, Types',
         \A c \in Socks, side \in Sides : Untouched(c, side)
  PROVE  IInv'
<1>1. ToldRight'
  BY DEF IInv, ToldRight, Tellable, Untouched, Peer, Sides
<1>2. Entries'
  BY DEF IInv, Entries
<1>3. Registered'
  BY DEF IInv, Registered, OwnEntry, Untouched
<1>4. Accounted' /\ NoneYet'
  BY SameStale, SameAccounts DEF IInv, NoneYet, cafeVars
<1> QED
  BY <1>1, <1>2, <1>3, <1>4 DEF IInv

\* A step that confirms c under the id it was told (addPrivateConnection) and shuts
\* its side if that is refused.
LEMMA ConfirmStep ==
  ASSUME IInv, Types', NEW c \in Socks, NEW side \in Sides, NEW id \in {0, Peer(c, side)},
         socks[c][side].state # "registered",
         Confirm(c, side, id),
         socks'[c][side] = Confirmed(Owner(c, side), id),
         Untouched(c, Other(side)),
         \A k \in Socks \ {c} : socks'[k] = socks[k],
         UNCHANGED <<cafeVars, suspended>>
  PROVE  IInv'
<1> DEFINE p == Owner(c, side)
<1>1. p \in Procs /\ Peer(c, side) \in Procs /\ Other(side) \in Sides /\ Other(side) # side
      /\ Sides = {side, Other(side)}
  BY Ends DEF Owner, Peer, Other, Sides
<1>2. \A k \in Socks, s \in Sides : <<k, s>> # <<c, side>> => Untouched(k, s)
  BY <1>1 DEF Untouched, IInv, ToldRight
<1>3. ToldRight'
  <2>1. socks'[c][side].told = Nothing /\ socks'[c][side].state # "sendRet"
    BY DEF Confirmed, Side, Shut, Fresh
  <2> QED
    BY <1>1, <1>2, <2>1 DEF IInv, ToldRight, Tellable, Untouched, Peer, Sides
<1>4. CASE ~Accepted(p, id)
  <2>1. UNCHANGED priConns /\ socks'[c][side] = Shut
    BY <1>4 DEF Confirm, Confirmed
  <2>2. Untouched(c, side)
    BY <2>1 DEF Shut, Fresh, Side, Untouched, Tellable
  <2>3. \A k \in Socks, s \in Sides : Untouched(k, s)
    BY <1>2, <2>2
  <2> QED
    BY <2>1, <2>3, QuietStep
<1>5. CASE Accepted(p, id)
  <2>1. id = Peer(c, side) /\ id \notin DOMAIN priConns[p]
    BY <1>5 DEF Accepted
  <2>2. /\ priConns' = [priConns EXCEPT ![p] = Entered(priConns[p], id, <<c, side>>)]
        /\ socks'[c][side].state = "registered" /\ socks'[c][side].remoteId = id
    BY <1>5 DEF Confirm, Confirmed, Side
  <2>3. /\ DOMAIN priConns'[p] = DOMAIN priConns[p] \union {id}
        /\ priConns'[p][id] = <<c, side>>
        /\ \A i \in DOMAIN priConns[p] : priConns'[p][i] = priConns[p][i]
        /\ \A q \in Procs \ {p} : priConns'[q] = priConns[q]
    BY <1>1, <2>1, <2>2 DEF IInv, Types, Entered
  <2>4. Entries'
    <3> SUFFICES ASSUME NEW q \in Procs, NEW i \in DOMAIN priConns'[q]
                 PROVE  \E k \in Socks, s \in Sides :
                          priConns'[q][i] = <<k, s>> /\ Owner(k, s) = q /\ Peer(k, s) = i
      BY DEF Entries, Peer, Owner
    <3>1. CASE q = p /\ i = id
      BY <2>1, <2>2, <2>3, <3>1
    <3>2. CASE ~(q = p /\ i = id)
      <4>1. i \in DOMAIN priConns[q] /\ priConns'[q][i] = priConns[q][i]
        BY <2>3, <3>2
      <4> QED
        BY <4>1 DEF IInv, Entries
    <3> QED
      BY <3>1, <3>2
  <2>5. Registered'
    <3> SUFFICES ASSUME NEW k \in Socks, NEW s \in Sides, socks'[k][s].state = "registered"
                 PROVE  OwnEntry(k, s)'
      BY DEF Registered
    <3>1. CASE k = c /\ s = side
      BY <2>1, <2>2, <2>3, <3>1 DEF OwnEntry, Peer, Owner
    <3>2. CASE ~(k = c /\ s = side)
      <4>1. Untouched(k, s)
        BY <1>2, <3>2
      <4>2. OwnEntry(k, s) /\ socks'[k][s].remoteId = socks[k][s].remoteId
        BY <4>1 DEF Untouched, IInv, Registered
      <4>3. Owner(k, s) \in Procs
        BY Ends DEF Owner
      <4> QED
        BY <4>2, <4>3, <2>3, <1>1 DEF OwnEntry, Peer, Owner
    <3> QED
      BY <3>1, <3>2
  <2>6. \A q \in Procs : \A i : Stale(q, i)' <=> Stale(q, i)
    <3> SUFFICES ASSUME NEW q \in Procs, NEW i PROVE Stale(q, i)' <=> Stale(q, i)
      OBVIOUS
    <3>1. CASE q = p /\ i = id
      BY <2>1, <2>2, <2>3, <3>1 DEF Stale
    <3>2. CASE ~(q = p /\ i = id) /\ i \in DOMAIN priConns[q]
      <4>1. i \in DOMAIN priConns'[q] /\ priConns'[q][i] = priConns[q][i]
        BY <2>3, <3>2
      <4>2. PICK k \in Socks, s \in Sides :
              priConns[q][i] = <<k, s>> /\ Owner(k, s) = q /\ Peer(k, s) = i
        BY <3>2 DEF IInv, Entries
      <4>3. Untouched(k, s)
        BY <1>2, <2>1, <3>2, <4>2
      <4> QED
        BY <3>2, <4>1, <4>2, <4>3 DEF Stale, Untouched
    <3>3. CASE ~(q = p /\ i = id) /\ i \notin DOMAIN priConns[q]
      BY <2>3, <3>3 DEF Stale
    <3> QED
      BY <3>1, <3>2, <3>3
  <2>7. Accounted' /\ NoneYet'
    BY <2>6, SameAccounts DEF IInv, NoneYet, cafeVars
  <2> QED
    BY <1>3, <2>4, <2>5, <2>7 DEF IInv
<1> QED
  BY <1>4, <1>5

-----------------------------------------------------------------------------
\* A step that shuts sides, and takes from the tables entries of these only.
ShutsOnly(S) ==
  \A c \in Socks, side \in Sides :
    socks'[c][side] = IF <<c, side>> \in S THEN Shut ELSE socks[c][side]

Keeps(p, i) == i \in DOMAIN priConns'[p] /\ priConns'[p][i] = priConns[p][i]

ErasesOnly(S) ==
  /\ \A p \in Procs : \A i \in DOMAIN priConns'[p] : i \in DOMAIN priConns[p] /\ Keeps(p, i)
  /\ \A p \in Procs : \A i \in DOMAIN priConns[p] : priConns[p][i] \notin S => Keeps(p, i)

LEMMA ShutStep ==
  ASSUME IInv, NEW S \in SUBSET (Socks \X Sides), ShutsOnly(S), ErasesOnly(S)
  PROVE  ToldRight' /\ Entries' /\ Registered'
<1>1. Shut.state = "shut" /\ Shut.told = Nothing
  BY DEF Shut, Fresh, Side
<1>2. ToldRight'
  BY <1>1 DEF IInv, ToldRight, Tellable, Peer, Sides, ShutsOnly
<1>3. Entries'
  BY DEF IInv, Entries, ErasesOnly, Keeps
<1>4. Registered'
  <2> SUFFICES ASSUME NEW c \in Socks, NEW side \in Sides, socks'[c][side].state = "registered"
               PROVE  OwnEntry(c, side)'
    BY DEF Registered
  <2>1. <<c, side>> \notin S /\ socks'[c][side] = socks[c][side]
    BY <1>1 DEF ShutsOnly
  <2>2. OwnEntry(c, side)
    BY <2>1 DEF IInv, Registered
  <2>3. Owner(c, side) \in Procs
    BY Ends DEF Owner
  <2> QED
    BY <2>1, <2>2, <2>3 DEF OwnEntry, Peer, Owner, ErasesOnly, Keeps
<1> QED
  BY <1>2, <1>3, <1>4

\* An entry that is kept and whose connection is not shut is as stale as it was.
LEMMA KeptStale ==
  ASSUME IInv, NEW S \in SUBSET (Socks \X Sides), ShutsOnly(S),
         NEW p \in Procs, NEW i \in DOMAIN priConns[p], priConns[p][i] \notin S, Keeps(p, i)
  PROVE  Stale(p, i)' <=> Stale(p, i)
<1>1. PICK c \in Socks, side \in Sides : priConns[p][i] = <<c, side>>
  BY DEF IInv, Entries
<1>2. socks'[c][side] = socks[c][side]
  BY <1>1 DEF ShutsOnly
<1> QED
  BY <1>1, <1>2 DEF Stale, Keeps

LEMMA ConfirmedTypes ==
  ASSUME Types, NEW c \in Socks, NEW side \in Sides, NEW id \in Ids \ {Nothing}, Confirm(c, side, id),
         socks' \in [Socks -> [Sides -> SideType]],
         UNCHANGED <<up, cafeVars, retry, suspended, crashes>>
  PROVE  Types'
<1> DEFINE p == Owner(c, side)
<1>1. p \in Procs
  BY Ends DEF Owner
<1>2. CASE ~Accepted(p, id)
  BY <1>2 DEF Confirm, Types, cafeVars
<1>3. CASE Accepted(p, id)
  <2>1. priConns' = [priConns EXCEPT ![p] = Entered(priConns[p], id, <<c, side>>)]
    BY <1>3 DEF Confirm
  <2>2. DOMAIN priConns' = Procs /\ DOMAIN priConns'[p] = DOMAIN priConns[p] \union {id}
        /\ \A q \in Procs \ {p} : priConns'[q] = priConns[q]
    BY <1>1, <2>1 DEF Entered, Types
  <2>3. id # 0 /\ id \in Procs
    BY <1>3 DEF Accepted, Ids
  <2> QED
    BY <2>2, <2>3 DEF Types, cafeVars
<1> QED
  BY <1>2, <1>3

\* What the records of the model are.
LEMMA SideFacts ==
  /\ \A st, told, id : Side(st, told, id).state = st /\ Side(st, told, id).told = told
                       /\ Side(st, told, id).remoteId = id
  /\ \A st \in States, told \in Ids, id \in Ids : Side(st, told, id) \in SideType
  /\ Nothing \in Ids /\ Shut \in SideType /\ Shut.state = "shut" /\ Shut.told = Nothing
  BY DEF Side, SideType, Ids, Shut, Fresh, States

LEMMA ToldFacts ==
  ASSUME NEW s \in SideType, NEW id \in Ids
  PROVE  /\ Told(s, id) \in SideType
         /\ Told(s, id).state = s.state /\ Told(s, id).remoteId = s.remoteId
         /\ Told(s, id).told \in {s.told, id}
  BY DEF Told, SideType

\* A step of one connection that leaves the tables alone.
LEMMA QuietConn ==
  ASSUME IInv, NEW c \in Socks,
         UNCHANGED <<up, priConns, cafeVars, retry, suspended, crashes>>,
         socks' \in [Socks -> [Sides -> SideType]],
         \A k \in Socks \ {c} : socks'[k] = socks[k],
         \A side \in Sides : Untouched(c, side)
  PROVE  IInv'
<1>1. \A k \in Socks, side \in Sides : Untouched(k, side)
  BY DEF Untouched, IInv, ToldRight
<1>2. Types'
  BY DEF IInv, Types, cafeVars
<1> QED
  BY <1>1, <1>2, QuietStep

\* One side of a connection, or both, exchanged for others.
LEMMA SetSide ==
  ASSUME Types, NEW c \in Socks, NEW side \in Sides, NEW a \in SideType,
         socks' = [socks EXCEPT ![c][side] = a]
  PROVE  /\ socks' \in [Socks -> [Sides -> SideType]]
         /\ \A k \in Socks \ {c} : socks'[k] = socks[k]
         /\ socks'[c][side] = a
         /\ \A s \in Sides \ {side} : socks'[c][s] = socks[c][s]
  BY DEF Types

LEMMA SetSides ==
  ASSUME Types, NEW c \in Socks, NEW a \in SideType, NEW b \in SideType,
         socks' = [socks EXCEPT ![c]["in"] = a, ![c]["out"] = b]
  PROVE  /\ socks' \in [Socks -> [Sides -> SideType]]
         /\ \A k \in Socks \ {c} : socks'[k] = socks[k]
         /\ socks'[c]["in"] = a /\ socks'[c]["out"] = b
  BY DEF Types, Sides

\* A step that touches neither a connection nor a table.
LEMMA TablesAlone ==
  ASSUME IInv, UNCHANGED <<socks, priConns, cafeVars>>, Types', suspended' \subseteq suspended
  PROVE  IInv'
<1>1. \A c \in Socks, side \in Sides : Untouched(c, side)
  BY DEF IInv, ToldRight, Untouched
<1>2. Accounted' /\ NoneYet'
  BY <1>1, SameStale, SameAccounts DEF IInv, NoneYet, cafeVars
<1>3. ToldRight' /\ Entries' /\ Registered'
  BY DEF IInv, ToldRight, Tellable, Entries, Registered, OwnEntry
<1> QED
  BY <1>2, <1>3 DEF IInv

LEMMA NextNet == IInv /\ [NetNext]_netVars => IInv'
<1> SUFFICES ASSUME IInv, [NetNext]_netVars PROVE IInv'
  OBVIOUS
<1>t. Types /\ ToldRight
  BY DEF IInv
<1>1. ASSUME NEW d \in Dials, Dial(d[1], d[2]) PROVE IInv'
  <2>1. PICK k \in 1..MaxSockets :
          LET c == <<d[1], d[2], k>>
          IN /\ socks[c] = Closed
             /\ socks' = [socks EXCEPT ![c] = [side \in Sides |->
                            IF side = "out" THEN Fresh("sendId") ELSE Fresh("pending")]]
    BY <1>1 DEF Dial, Connect
  <2> DEFINE c == <<d[1], d[2], k>>
  <2>2. c \in Socks
    BY DEF Socks
  <2>3. \A side \in Sides : socks[c][side] = Shut
    BY <2>1 DEF Closed
  <2>4. Fresh("sendId") \in SideType /\ Fresh("pending") \in SideType
    BY SideFacts DEF Fresh, States, Checked
  <2>5. Types'
    BY <1>1, <1>t, <2>1, <2>2, <2>4 DEF Dial, Types, cafeVars
  <2>6. \A x \in Socks, side \in Sides : Untouched(x, side)
    <3> SUFFICES ASSUME NEW x \in Socks, NEW side \in Sides PROVE Untouched(x, side)
      OBVIOUS
    <3>1. CASE x = c
      BY <1>t, <2>1, <2>2, <2>3, <3>1, SideFacts DEF Types, Untouched, Tellable, Fresh
    <3>2. CASE x # c
      <4>1. socks'[x] = socks[x]
        BY <1>t, <2>1, <3>2 DEF Types
      <4> QED
        BY <1>t, <4>1 DEF ToldRight, Tellable, Untouched
    <3> QED
      BY <3>1, <3>2
  <2> QED
    BY <1>1, <2>5, <2>6, QuietStep DEF Dial
<1>2. ASSUME NEW d \in Dials, DialFails(d[1], d[2]) \/ RetryDue(d[1], d[2]) PROVE IInv'
  <2>1. UNCHANGED <<up, socks, priConns, cafeVars, suspended, crashes>> /\ retry' \subseteq Dials
    BY <1>t, <1>2, PrivateAssumption DEF DialFails, RetryDue, Types
  <2> QED
    BY <1>t, <2>1, TablesAlone DEF Types, cafeVars
<1>3. ASSUME NEW c \in Socks, Accept(c) PROVE IInv'
  <2> DEFINE a == [socks[c]["in"] EXCEPT !.state = "recvId"]
  <2>1. socks[c]["in"] \in SideType /\ "in" \in Sides
    BY <1>t DEF Types, Sides
  <2>2. a \in SideType /\ a.state = "recvId" /\ a.told = socks[c]["in"].told
    BY <2>1 DEF SideType, States, Checked
  <2>3. socks' = [socks EXCEPT ![c]["in"] = a]
    BY <1>3 DEF Accept
  <2>4. \A side \in Sides : Untouched(c, side)
    BY <1>3, <1>t, <2>1, <2>2, <2>3, SetSide DEF Accept, Untouched, ToldRight, Tellable
  <2>5. /\ socks' \in [Socks -> [Sides -> SideType]]
        /\ \A k \in Socks \ {c} : socks'[k] = socks[k]
    BY <1>t, <2>1, <2>2, <2>3, SetSide
  <2> QED
    BY <1>3, <2>4, <2>5, QuietConn DEF Accept
<1>4. ASSUME NEW c \in Socks, RecvId(c) PROVE IInv'
  <2> DEFINE a == Side("sendRet", Nothing, socks[c]["in"].told)
  <2>1. socks[c]["in"] \in SideType /\ "in" \in Sides /\ socks[c]["in"].told \in Ids
    BY <1>t DEF Types, Sides, SideType
  <2>2. socks[c]["in"].told = c[1]
    BY <1>4, <1>t, <2>1 DEF RecvId, ToldRight, Tellable, Peer, Owner, Other
  <2>3. a \in SideType /\ a.state = "sendRet" /\ a.told = Nothing /\ a.remoteId = c[1]
    BY <2>1, <2>2, SideFacts DEF States, Checked
  <2>4. socks' = [socks EXCEPT ![c]["in"] = a] /\ socks[c]["in"].state = "recvId"
    BY <1>4 DEF RecvId
  <2>5. \A side \in Sides : Untouched(c, side)
    BY <1>t, <2>1, <2>3, <2>4, SetSide DEF Untouched, ToldRight, Tellable
  <2>6. /\ socks' \in [Socks -> [Sides -> SideType]]
        /\ \A k \in Socks \ {c} : socks'[k] = socks[k]
    BY <1>t, <2>1, <2>3, <2>4, SetSide
  <2> QED
    BY <1>4, <2>5, <2>6, QuietConn DEF RecvId
<1>5. ASSUME NEW c \in Socks, SendRet(c) PROVE IInv'
  <2> DEFINE id == socks[c]["in"].remoteId
             a  == Told(socks[c]["out"], Reply(c))
             b  == Confirmed(c[2], id)
  <2>1. {"in", "out"} \subseteq Sides /\ socks[c]["in"] \in SideType /\ socks[c]["out"] \in SideType
    BY <1>t DEF Types, Sides
  <2>2. id = c[1] /\ socks[c]["in"].state = "sendRet" /\ Confirm(c, "in", id)
    BY <1>5, <1>t DEF SendRet, ToldRight, Tellable
  <2>3. Reply(c) \in Ids /\ Reply(c) \in {0, c[2]} /\ id \in Ids
    BY <2>2, Ends DEF Reply, Ids
  <2>4. b \in SideType
    BY <2>3, SideFacts DEF Confirmed, States
  <2>5. a \in SideType /\ a.state = socks[c]["out"].state /\ a.remoteId = socks[c]["out"].remoteId
        /\ a.told \in {socks[c]["out"].told, Reply(c)}
    BY <2>1, <2>3, ToldFacts
  <2>6. socks' = [socks EXCEPT ![c]["in"] = b, ![c]["out"] = a]
    BY <1>5, <1>t, <2>1 DEF SendRet, Types
  <2>7. /\ socks' \in [Socks -> [Sides -> SideType]]
        /\ \A k \in Socks \ {c} : socks'[k] = socks[k]
        /\ socks'[c]["in"] = b /\ socks'[c]["out"] = a
    BY <1>t, <2>4, <2>5, <2>6 DEF Types, Sides
  <2>8. Untouched(c, "out")
    BY <1>t, <2>1, <2>3, <2>5, <2>7 DEF Untouched, ToldRight, Tellable, Peer, Owner, Other
  <2>9. id \in Ids \ {Nothing} /\ UNCHANGED <<up, cafeVars, retry, suspended, crashes>>
    BY <1>5, <2>2, Ends, NotAnId DEF SendRet, Ids
  <2>10. Types'
    BY <1>t, <2>1, <2>2, <2>7, <2>9, ConfirmedTypes
  <2>11. Owner(c, "in") = c[2] /\ Peer(c, "in") = c[1] /\ Other("in") = "out"
    BY DEF Peer, Owner, Other
  <2>12. /\ id \in {0, Peer(c, "in")}
         /\ socks[c]["in"].state # "registered"
         /\ socks'[c]["in"] = Confirmed(Owner(c, "in"), id)
         /\ Untouched(c, Other("in"))
    BY <2>2, <2>7, <2>8, <2>11
  <2> QED
    BY <2>1, <2>2, <2>7, <2>9, <2>10, <2>12, ConfirmStep
<1>6. ASSUME NEW c \in Socks, SendId(c) PROVE IInv'
  <2> DEFINE a == Told(socks[c]["in"], c[1])
             b == [socks[c]["out"] EXCEPT !.state = "recvRet"]
  <2>1. {"in", "out"} \subseteq Sides /\ socks[c]["in"] \in SideType /\ socks[c]["out"] \in SideType
    BY <1>t DEF Types, Sides
  <2>2. c[1] \in Ids
    BY Ends DEF Ids
  <2>3. a \in SideType /\ a.state = socks[c]["in"].state /\ a.remoteId = socks[c]["in"].remoteId
        /\ a.told \in {socks[c]["in"].told, c[1]}
    BY <2>1, <2>2, ToldFacts
  <2>4. b \in SideType /\ b.state = "recvRet" /\ b.told = socks[c]["out"].told
    BY <2>1 DEF SideType, States, Checked
  <2>5. socks' = [socks EXCEPT ![c]["in"] = a, ![c]["out"] = b]
    BY <1>6, <1>t, <2>1 DEF SendId, Types
  <2>6. /\ socks' \in [Socks -> [Sides -> SideType]]
        /\ \A k \in Socks \ {c} : socks'[k] = socks[k]
        /\ socks'[c]["in"] = a /\ socks'[c]["out"] = b
    BY <1>t, <2>3, <2>4, <2>5 DEF Types, Sides
  <2>7. Untouched(c, "in") /\ Untouched(c, "out")
    BY <1>6, <1>t, <2>1, <2>3, <2>4, <2>6 DEF SendId, Untouched, ToldRight, Tellable, Peer, Owner, Other
  <2>8. \A side \in Sides : Untouched(c, side)
    BY <2>7 DEF Sides
  <2> QED
    BY <1>6, <2>6, <2>8, QuietConn DEF SendId
<1>7. ASSUME NEW c \in Socks, RecvRet(c) PROVE IInv'
  <2> DEFINE id == socks[c]["out"].told
             a  == Confirmed(c[1], id)
  <2>1. "out" \in Sides /\ socks[c]["out"] \in SideType /\ id \in Ids
    BY <1>t DEF Types, Sides, SideType
  <2>2. id \in {0, c[2]} /\ socks[c]["out"].state = "recvRet" /\ Confirm(c, "out", id)
    BY <1>7, <1>t, <2>1 DEF RecvRet, ToldRight, Tellable, Peer, Owner, Other
  <2>3. a \in SideType
    BY <2>1, SideFacts DEF Confirmed, States
  <2>4. socks' = [socks EXCEPT ![c]["out"] = a]
    BY <1>7 DEF RecvRet
  <2>5. /\ socks' \in [Socks -> [Sides -> SideType]]
        /\ \A k \in Socks \ {c} : socks'[k] = socks[k]
        /\ socks'[c]["out"] = a /\ socks'[c]["in"] = socks[c]["in"]
    BY <1>t, <2>1, <2>3, <2>4, SetSide DEF Sides
  <2>6. Untouched(c, "in")
    BY <1>t, <2>5 DEF Untouched, ToldRight, Tellable
  <2>7. id \in Ids \ {Nothing} /\ UNCHANGED <<up, cafeVars, retry, suspended, crashes>>
    BY <1>7, <2>1 DEF RecvRet
  <2>8. Types'
    BY <1>t, <2>1, <2>2, <2>5, <2>7, ConfirmedTypes
  <2>9. Owner(c, "out") = c[1] /\ Peer(c, "out") = c[2] /\ Other("out") = "in"
    BY DEF Peer, Owner, Other
  <2>10. /\ id \in {0, Peer(c, "out")}
         /\ socks[c]["out"].state # "registered"
         /\ socks'[c]["out"] = Confirmed(Owner(c, "out"), id)
         /\ Untouched(c, Other("out"))
    BY <2>2, <2>5, <2>6, <2>9
  <2> QED
    BY <2>1, <2>2, <2>5, <2>7, <2>8, <2>10, ConfirmStep
<1>8. ASSUME NEW c \in Socks, NEW side \in Sides, CheckThrows(c, side) PROVE IInv'
  <2>1. socks[c][side].state # "registered" /\ socks' = [socks EXCEPT ![c][side] = Shut]
    BY <1>8 DEF CheckThrows, Checked
  <2>2. \A s \in Sides : Untouched(c, s)
    BY <1>t, <2>1, SideFacts, SetSide DEF Untouched, ToldRight, Tellable
  <2> QED
    BY <1>8, <1>t, <2>1, <2>2, SideFacts, SetSide, QuietConn DEF CheckThrows
<1>9. ASSUME NEW c \in Socks, NEW side \in Sides, LoseConn(c, side) PROVE IInv'
  <2> DEFINE p == Owner(c, side)
             i == Peer(c, side)
             S == {<<c, side>>}
  <2>1. p \in Procs /\ socks[c][side].remoteId = i /\ i \in Procs /\ i \in DOMAIN priConns[p]
        /\ priConns[p][i] = <<c, side>> /\ socks[c][side].state = "registered"
    <3>1. p \in Procs /\ i \in Procs
      BY Ends DEF Owner, Peer, Other
    <3>2. socks[c][side].state = "registered"
      BY <1>9 DEF LoseConn
    <3>3. OwnEntry(c, side)
      BY <3>2 DEF IInv, Registered
    <3> QED
      BY <3>1, <3>2, <3>3 DEF OwnEntry
  <2>2. /\ socks' \in [Socks -> [Sides -> SideType]]
        /\ \A k \in Socks \ {c} : socks'[k] = socks[k]
        /\ socks'[c][side] = Shut
        /\ \A s \in Sides \ {side} : socks'[c][s] = socks[c][s]
    BY <1>9, <1>t, SideFacts, SetSide DEF LoseConn
  <2>3. \A q \in Procs : \A j \in DOMAIN priConns[q] :
          priConns[q][j] = <<c, side>> => q = p /\ j = i
    BY <2>1 DEF IInv, Entries
  <2>4. ShutsOnly(S) /\ S \in SUBSET (Socks \X Sides)
    BY <2>2 DEF ShutsOnly
  <2>5. EraseConnection(p, i) /\ UNCHANGED <<up, cafeConns, retry, suspended, crashes>>
    BY <1>9, <2>1 DEF LoseConn
  <2>6. NoneYet'
    BY <2>5 DEF IInv, NoneYet
  <2>7. ~Stale(p, i)
    BY <2>1, StaleEntry
  <2>a. \A x \in Cafes : x = <<x[1], x[2]>> /\ x[1] \in Procs
    BY PrivateAssumption
  <2>8. CASE <<p, i>> \notin pubConns
    <3>1. priConns' = [priConns EXCEPT ![p] = Without(priConns[p], i)] /\ pubConns' = pubConns
      BY <1>t, <2>1, <2>5, <2>8 DEF EraseConnection, Types
    <3>2. /\ DOMAIN priConns'[p] = DOMAIN priConns[p] \ {i}
          /\ \A j \in DOMAIN priConns[p] \ {i} : Keeps(p, j)
          /\ \A q \in Procs \ {p} : priConns'[q] = priConns[q]
          /\ DOMAIN priConns' = Procs
      BY <1>t, <2>1, <3>1 DEF Without, Types, Keeps
    <3>3. Types'
      BY <1>t, <2>2, <2>5, <3>1, <3>2 DEF Types
    <3>4. ErasesOnly(S)
      BY <2>1, <3>2 DEF ErasesOnly, Keeps
    <3>5. ASSUME NEW q \in Procs, NEW j PROVE Stale(q, j)' <=> Stale(q, j)
      <4>1. CASE q = p /\ j = i
        <5>1. ~Stale(p, i)'
          BY <3>2 DEF Stale
        <5> QED
          BY <2>7, <4>1, <5>1
      <4>2. CASE ~(q = p /\ j = i) /\ j \in DOMAIN priConns[q]
        <5>1. priConns[q][j] \notin S
          BY <2>3, <4>2
        <5>2. Keeps(q, j)
          BY <3>4, <4>2, <5>1 DEF ErasesOnly
        <5> QED
          BY <2>4, <4>2, <5>1, <5>2, KeptStale
      <4>3. CASE j \notin DOMAIN priConns[q]
        BY <3>2, <4>3 DEF Stale
      <4> QED
        BY <4>1, <4>2, <4>3
    <3>6. Accounted'
      BY <2>5, <3>1, <3>5, SameAccounts DEF cafeVars
    <3> QED
      BY <2>4, <2>6, <3>3, <3>4, <3>6, ShutStep DEF IInv
  <2>9. CASE <<p, i>> \in pubConns
    <3>1. pubConns' = pubConns \ {<<p, i>>} /\ priConns' = priConns
      BY <2>5, <2>9 DEF EraseConnection
    <3>2. Types'
      BY <1>t, <2>2, <2>5, <3>1 DEF Types
    <3>3. ErasesOnly(S)
      BY <3>1 DEF ErasesOnly, Keeps
    <3>4. <<p, i>> \in Cafes /\ Stale(p, i)'
      <4>1. /\ i \in DOMAIN priConns'[p] /\ priConns'[p][i] = <<c, side>>
            /\ socks'[c][side].state = "shut"
        BY <2>1, <2>2, <3>1, SideFacts
      <4>2. <<c, side>>[1] = c /\ <<c, side>>[2] = side
        OBVIOUS
      <4>3. Stale(p, i)'
        BY <4>1, <4>2 DEF Stale
      <4> QED
        BY <1>t, <2>9, <4>3 DEF Types
    <3>5. ASSUME NEW q \in Procs, NEW j, <<q, j>> # <<p, i>> PROVE Stale(q, j)' <=> Stale(q, j)
      <4>1. CASE j \in DOMAIN priConns[q]
        <5>1. priConns[q][j] \notin S /\ Keeps(q, j)
          BY <2>3, <3>1, <3>5, <4>1 DEF Keeps
        <5> QED
          BY <2>4, <4>1, <5>1, KeptStale
      <4>2. CASE j \notin DOMAIN priConns[q]
        BY <3>1, <4>2 DEF Stale
      <4> QED
        BY <4>1, <4>2
    <3>6. Accounted'
      <4>1. ASSUME NEW q \in Procs, NEW j \in Procs, Stale(q, j)' PROVE <<q, j>> \in Cafes
        BY <3>4, <3>5, <4>1 DEF IInv, Accounted
      <4>2. ASSUME NEW x \in Cafes
            PROVE  cafeConns'[x] = One(x \in pubConns') + One(Stale(x[1], x[2])')
        <5>1. cafeConns'[x] = One(x \in pubConns) + One(Stale(x[1], x[2]))
          BY <2>5 DEF IInv, Accounted
        <5>2. CASE x = <<p, i>>
          <6>1. x[1] = p /\ x[2] = i
            BY <5>2
          <6>2. One(x \in pubConns) = 1 /\ One(x \in pubConns') = 0
            BY <2>9, <3>1, <5>2 DEF One
          <6>3. One(Stale(x[1], x[2])) = 0 /\ One(Stale(x[1], x[2])') = 1
            BY <2>7, <3>4, <6>1 DEF One
          <6> QED
            BY <5>1, <6>2, <6>3
        <5>3. CASE x # <<p, i>>
          <6>1. Stale(x[1], x[2])' <=> Stale(x[1], x[2])
            BY <2>a, <3>5, <5>3
          <6>2. x \in pubConns' <=> x \in pubConns
            BY <3>1, <5>3
          <6> QED
            BY <5>1, <6>1, <6>2 DEF One
        <5> QED
          BY <5>2, <5>3
      <4> QED
        BY <4>1, <4>2 DEF Accounted, One
    <3> QED
      BY <2>4, <2>6, <3>2, <3>3, <3>6, ShutStep DEF IInv
  <2> QED
    BY <2>8, <2>9
<1>10. ASSUME NEW p \in Procs, Resume(p) \/ Start(p) PROVE IInv'
  <2>1. /\ UNCHANGED <<socks, priConns, cafeVars, retry, crashes>>
        /\ up' \subseteq Procs /\ suspended' \subseteq suspended
    BY <1>t, <1>10 DEF Resume, Start, Types
  <2> QED
    BY <1>t, <2>1, TablesAlone DEF Types, cafeVars
<1>11. ASSUME NEW p \in Procs, Crash(p) PROVE IInv'
  <2> DEFINE S == {x \in Socks \X Sides : Owner(x[1], x[2]) = p}
  <2>1. ShutsOnly(S) /\ S \in SUBSET (Socks \X Sides)
    BY <1>11 DEF Crash, ShutsOnly
  <2>2. DOMAIN priConns' = Procs /\ DOMAIN priConns'[p] = {}
        /\ \A q \in Procs \ {p} : priConns'[q] = priConns[q]
    BY <1>11, <1>t DEF Crash, Types
  <2>3. socks' \in [Socks -> [Sides -> SideType]]
    BY <1>11, <1>t, SideFacts DEF Crash, Types
  <2>4. /\ pubConns' = {x \in pubConns : x[1] # p}
        /\ cafeConns' = [x \in Cafes |-> IF x[1] = p THEN 0 ELSE cafeConns[x]]
        /\ suspended' = suspended \union {p}
    BY <1>11 DEF Crash
  <2>5. Types'
    BY <1>11, <1>t, <2>2, <2>3, <2>4, PrivateAssumption DEF Crash, Types
  <2>6. \A q \in Procs : \A i \in DOMAIN priConns[q] : priConns[q][i] \in S <=> q = p
    BY DEF IInv, Entries
  <2>7. ErasesOnly(S)
    BY <2>2, <2>6 DEF ErasesOnly, Keeps
  <2>8. NoneYet'
    BY <2>4 DEF IInv, NoneYet
  <2>9. \A i : ~Stale(p, i)'
    BY <2>2 DEF Stale
  <2>10. ASSUME NEW q \in Procs \ {p}, NEW i PROVE Stale(q, i)' <=> Stale(q, i)
    <3>1. CASE i \in DOMAIN priConns[q]
      <4>1. priConns[q][i] \notin S /\ Keeps(q, i)
        BY <2>2, <2>6, <3>1 DEF Keeps
      <4> QED
        BY <2>1, <3>1, <4>1, KeptStale
    <3>2. CASE i \notin DOMAIN priConns[q]
      BY <2>2, <3>2 DEF Stale
    <3> QED
      BY <3>1, <3>2
  <2>11. Accounted'
    <3>1. ASSUME NEW q \in Procs, NEW j \in Procs, Stale(q, j)' PROVE <<q, j>> \in Cafes
      BY <2>9, <2>10, <3>1 DEF IInv, Accounted
    <3>2. ASSUME NEW x \in Cafes
          PROVE  cafeConns'[x] = One(x \in pubConns') + One(Stale(x[1], x[2])')
      <4>1. CASE x[1] = p
        BY <2>4, <2>9, <4>1 DEF One
      <4>2. CASE x[1] # p
        <5>1. x[1] \in Procs \ {p}
          BY <4>2, PrivateAssumption
        <5>2. Stale(x[1], x[2])' <=> Stale(x[1], x[2])
          BY <2>10, <5>1
        <5> QED
          BY <2>4, <4>2, <5>2 DEF One, IInv, Accounted
      <4> QED
        BY <4>1, <4>2
    <3> QED
      BY <3>1, <3>2 DEF Accounted, One
  <2> HIDE DEF S
  <2> QED
    BY <2>1, <2>5, <2>7, <2>8, <2>11, ShutStep DEF IInv
<1>12. ASSUME NEW x \in Cafes, CafeComes(x) \/ CafeGoes(x) \/ CafeKicked(x) PROVE IInv'
  <2> DEFINE p == x[1]
             i == x[2]
  <2>1. x = <<p, i>> /\ p \in Procs /\ (\A y \in Cafes : y = <<y[1], y[2]>> /\ y[1] \in Procs)
    BY PrivateAssumption
  <2>2. /\ UNCHANGED <<up, socks, retry, suspended, crashes>>
        /\ cafeConns[x] \in Nat /\ cafeConns[x] = One(x \in pubConns) + One(Stale(p, i))
        /\ \A y \in Cafes : One(y \in pubConns) \in {0, 1} /\ One(Stale(y[1], y[2])) \in {0, 1}
    BY <1>12, <1>t DEF CafeComes, CafeGoes, CafeKicked, Types, IInv, Accounted, One
  <2>3. ASSUME UNCHANGED priConns, pubConns' \subseteq Cafes, p \notin suspended,
               NEW n \in Nat, cafeConns' = [cafeConns EXCEPT ![x] = n],
               \A y \in Cafes \ {x} : y \in pubConns' <=> y \in pubConns,
               n = One(x \in pubConns') + One(Stale(p, i))
        PROVE  IInv'
    <3>1. /\ cafeConns' \in [Cafes -> Nat] /\ cafeConns'[x] = n
          /\ \A y \in Cafes \ {x} : cafeConns'[y] = cafeConns[y]
      BY <1>t, <2>3 DEF Types
    <3>2. Types' /\ ToldRight' /\ Entries' /\ Registered'
      BY <2>2, <2>3, <3>1
         DEF IInv, Types, ToldRight, Tellable, Entries, Registered, OwnEntry
    <3>3. \A q, j : Stale(q, j)' <=> Stale(q, j)
      <4>1. UNCHANGED <<socks, priConns>>
        BY <2>2, <2>3
      <4> QED
        BY <4>1 DEF Stale
    <3>4. Accounted'
      BY <2>1, <2>2, <2>3, <3>1, <3>3 DEF IInv, Accounted, One
    <3>5. NoneYet'
      BY <2>2, <2>3, <3>1 DEF IInv, NoneYet
    <3> QED
      BY <3>2, <3>4, <3>5 DEF IInv
  <2>4. CASE CafeComes(x)
    <3>1. /\ x \notin pubConns /\ p \notin suspended /\ UNCHANGED priConns
          /\ pubConns' = pubConns \union {x}
          /\ cafeConns' = [cafeConns EXCEPT ![x] = cafeConns[x] + 1]
      BY <1>t, <2>4 DEF CafeComes, Types
    <3>2. cafeConns[x] + 1 = One(x \in pubConns') + One(Stale(p, i)) /\ cafeConns[x] + 1 \in Nat
      BY <2>2, <3>1 DEF One
    <3> QED
      BY <1>t, <2>3, <3>1, <3>2 DEF Types
  <2>5. x \in pubConns \/ cafeConns[x] > 0 => p \notin suspended
    BY <2>2 DEF IInv, NoneYet, One
  <2>6. CASE x \in pubConns /\ ~CafeComes(x)
    <3>1. /\ p \notin suspended /\ UNCHANGED priConns
          /\ pubConns' = pubConns \ {x}
          /\ cafeConns' = [cafeConns EXCEPT ![x] = cafeConns[x] - 1]
      BY <1>12, <1>t, <2>1, <2>5, <2>6 DEF CafeGoes, CafeKicked, EraseConnection, Types
    <3>2. cafeConns[x] - 1 = One(x \in pubConns') + One(Stale(p, i)) /\ cafeConns[x] - 1 \in Nat
      BY <2>2, <2>6, <3>1 DEF One
    <3> QED
      BY <1>t, <2>3, <3>1, <3>2 DEF Types
  <2>7. CASE x \notin pubConns /\ ~CafeComes(x)
    <3>1. /\ cafeConns[x] > 0 /\ p \notin suspended
          /\ pubConns' = pubConns \ {x}
          /\ priConns' = [priConns EXCEPT ![p] = Without(priConns[p], i)]
          /\ cafeConns' = [cafeConns EXCEPT ![x] = cafeConns[x] - 1]
      BY <1>12, <1>t, <2>1, <2>5, <2>7 DEF CafeGoes, CafeKicked, EraseConnection, Types
    <3>2. Stale(p, i) /\ cafeConns[x] = 1 /\ pubConns' = pubConns
      BY <2>2, <2>7, <3>1 DEF One
    <3>3. /\ DOMAIN priConns' = Procs /\ DOMAIN priConns'[p] = DOMAIN priConns[p] \ {i}
          /\ \A j \in DOMAIN priConns[p] \ {i} : Keeps(p, j)
          /\ \A q \in Procs \ {p} : priConns'[q] = priConns[q]
      BY <1>t, <2>1, <3>1 DEF Types, Without, Keeps
    <3>4. /\ cafeConns' \in [Cafes -> Nat] /\ cafeConns'[x] = 0
          /\ \A y \in Cafes \ {x} : cafeConns'[y] = cafeConns[y]
      BY <1>t, <3>1, <3>2 DEF Types
    <3>5. Types' /\ ToldRight'
      BY <1>t, <2>2, <3>2, <3>3, <3>4 DEF Types, ToldRight, Tellable
    <3>6. Entries'
      BY <3>3 DEF IInv, Entries, Keeps
    <3>7. Registered'
      <4> SUFFICES ASSUME NEW c \in Socks, NEW side \in Sides, socks[c][side].state = "registered"
                   PROVE  OwnEntry(c, side)'
        BY <2>2 DEF Registered
      <4>1. OwnEntry(c, side) /\ Owner(c, side) \in Procs
        <5>1. OwnEntry(c, side)
          BY DEF IInv, Registered
        <5> QED
          BY <5>1, Ends DEF Owner
      <4>2. ~Stale(Owner(c, side), socks[c][side].remoteId)
        BY <4>1, StaleEntry DEF OwnEntry
      <4>3. ~(Owner(c, side) = p /\ socks[c][side].remoteId = i)
        BY <3>2, <4>2
      <4> QED
        BY <2>2, <3>3, <4>1, <4>3 DEF OwnEntry, Peer, Owner, Keeps
    <3>8. /\ ~Stale(p, i)'
          /\ \A q \in Procs : \A j : <<q, j>> # <<p, i>> => (Stale(q, j)' <=> Stale(q, j))
      <4>1. ~Stale(p, i)'
        BY <3>3 DEF Stale
      <4>2. ASSUME NEW q \in Procs, NEW j, <<q, j>> # <<p, i>>
            PROVE  /\ j \in DOMAIN priConns'[q] <=> j \in DOMAIN priConns[q]
                   /\ j \in DOMAIN priConns[q] => priConns'[q][j] = priConns[q][j]
        BY <3>3, <4>2 DEF Keeps
      <4>3. UNCHANGED socks
        BY <2>2
      <4>4. ASSUME NEW q \in Procs, NEW j, <<q, j>> # <<p, i>>
            PROVE  Stale(q, j)' <=> Stale(q, j)
        <5>1. /\ j \in DOMAIN priConns'[q] <=> j \in DOMAIN priConns[q]
              /\ j \in DOMAIN priConns[q] => priConns'[q][j] = priConns[q][j]
          BY <4>2, <4>4
        <5>2. CASE j \in DOMAIN priConns[q]
          BY <4>3, <5>1, <5>2 DEF Stale
        <5>3. CASE j \notin DOMAIN priConns[q]
          BY <5>1, <5>3 DEF Stale
        <5> QED
          BY <5>2, <5>3
      <4> QED
        BY <4>1, <4>4
    <3>9. Accounted'
      BY <2>1, <2>2, <2>7, <3>2, <3>4, <3>8 DEF IInv, Accounted, One
    <3>10. NoneYet'
      BY <2>2, <3>1, <3>4 DEF IInv, NoneYet
    <3> QED
      BY <3>5, <3>6, <3>7, <3>9, <3>10 DEF IInv
  <2> QED
    BY <2>4, <2>6, <2>7
<1>13. CASE UNCHANGED netVars
  BY <1>13, <1>t, TablesAlone DEF netVars, cafeVars, Types
<1> QED
  BY <1>1, <1>2, <1>3, <1>4, <1>5, <1>6, <1>7, <1>8, <1>9, <1>10, <1>11, <1>12, <1>13 DEF NetNext

\* For any processes and cafes, whatever ids they share, whatever the processes dial
\* and however often they crash: an id in m_priConns stands for one registered
\* connection to the process of that id, every registered connection is in the
\* table, and an entry outlives its connection exactly while a cafe of the same id
\* has a connection without an entry (addPrivateConnection, eraseConnection,
\* PrivateConnectionChecker::checkConn).
THEOREM TablesAreSound == NetSafety => []PrivateNetInv
<1>1. QED
  BY InitNet, NextNet, Implied, PTL DEF NetSafety

\* All that is in the table of a process nobody dials, it dialled itself.
LEMMA OwnDials ==
  ASSUME IInv, NEW p \in Procs, NobodyDials(p)
  PROVE  DOMAIN priConns[p] \subseteq Dialled(p)
<1> SUFFICES ASSUME NEW i \in DOMAIN priConns[p] PROVE i \in Dialled(p)
  OBVIOUS
<1>1. PICK c \in Socks, side \in Sides : Owner(c, side) = p /\ Peer(c, side) = i
  BY DEF IInv, Entries
<1>2. side = "out"
  BY <1>1, Ends DEF NobodyDials, Owner, Sides
<1> QED
  BY <1>1, <1>2, Ends DEF Owner, Peer, Other, Dialled

\* So a table of the right size is the right table; and no cafe has come that could
\* have left it stale.
LEMMA ResumeStep ==
  ASSUME IInv, [NetNext]_netVars, NEW p \in suspended \ suspended', NobodyDials(p)
  PROVE  DOMAIN priConns[p] = Dialled(p) /\ \A q \in Dialled(p) : ~Stale(p, q)
<1>1. p \in Procs
  BY DEF IInv, Types
<1>2. Resume(p)
  <2>1. \A q \in Procs : Resume(q) => q = p
    BY DEF Resume
  <2> QED
    BY <2>1 DEF NetNext, netVars, Dial, DialFails, RetryDue, Accept, RecvId, SendRet, SendId, RecvRet,
                CheckThrows, LoseConn, Crash, Start, CafeComes, CafeGoes, CafeKicked
<1>3. IsFiniteSet(Dialled(p))
  BY PrivateAssumption, FS_Subset DEF Dialled
<1>4. DOMAIN priConns[p] \in SUBSET Dialled(p)
  BY <1>1, OwnDials
<1>5. Cardinality(Dialled(p)) = Cardinality(DOMAIN priConns[p])
  BY <1>2 DEF Resume, Enough
<1>6. ASSUME NEW q \in Dialled(p) PROVE ~Stale(p, q)
  <2>1. CASE <<p, q>> \in Cafes
    <3>1. cafeConns[<<p, q>>] = 0
      BY <2>1 DEF IInv, NoneYet
    <3>2. cafeConns[<<p, q>>] = One(<<p, q>> \in pubConns) + One(Stale(p, q))
      BY <2>1 DEF IInv, Accounted
    <3> QED
      BY <3>1, <3>2 DEF One
  <2>2. CASE <<p, q>> \notin Cafes
    BY <1>1, <1>6, <2>2 DEF IInv, Accounted, Dialled
  <2> QED
    BY <2>1, <2>2
<1> QED
  BY <1>3, <1>4, <1>5, <1>6, FS_Subset

\* Counting is enough for joinThreads: a process that nobody dials resumes only when
\* it is connected to every process of its configuration.
THEOREM ResumesLinked == NetSafety => ResumedWhenLinked
<1>1. IInv /\ [NetNext]_netVars
        => [\A p \in suspended \ suspended' :
              NobodyDials(p) => /\ DOMAIN priConns[p] = Dialled(p)
                                /\ \A q \in Dialled(p) : ~Stale(p, q)]_netVars
  BY ResumeStep
<1> QED
  BY <1>1, InitNet, NextNet, PTL DEF NetSafety, ResumedWhenLinked

-----------------------------------------------------------------------------
(***************************************************************************)
(* PacketConn.                                                             *)
(***************************************************************************)

USE SizesAssumption

\* What addPublicConnection leaves behind.
LEMMA InitConnInv == Init => ConnInv
<1> SUFFICES ASSUME Init PROVE ConnInv
  OBVIOUS
<1>1. TypeOK
  <2>1. 0 \in 0..Incoming
    OBVIOUS
  <2>2. /\ <<>> \in Seq(Nat) /\ <<>> \in Seq(Packets) /\ <<>> \in Seq(Calls)
        /\ <<>> \in Seq(Seq(Nat))
    BY EmptySeq
  <2>3. known \in BOOLEAN /\ registered \in BOOLEAN /\ armed \in BOOLEAN
    BY DEF Init
  <2>4. events \in SUBSET EventKinds /\ refused \in SUBSET Calls
    BY DEF Init
  <2>5. /\ sendBuf \in Packets \union {NoPacket} /\ cursor \in 0..(Units - 1)
        /\ sockOut \in 0..SockRoom /\ clientNo \in 0..Incoming
    BY <2>1 DEF Init, Packets
  <2>6. QED
    BY <2>2, <2>3, <2>4, <2>5 DEF Init, TypeOK
<1>2. OneSender /\ BufferBeforeQueue
  BY DEF Init, OneSender, BufferBeforeQueue, NoPacket
<1>3. ArmedIffWaiting /\ ArmedInside
  BY DEF Init, ArmedIffWaiting, ArmedInside, AnswerLeft
<1>4. QED
  BY <1>1, <1>2, <1>3 DEF ConnInv

\* Both parts of what recv() divides.
LEMMA PartsAreSeqs ==
  ASSUME NEW S, NEW s \in Seq(S), NEW n \in 0..Len(s)
  PROVE  SubSeq(s, 1, n) \in Seq(S) /\ SubSeq(s, n + 1, Len(s)) \in Seq(S)
<1>1. \A i \in 1..Len(s) : s[i] \in S
  OBVIOUS
<1>2. QED
  BY <1>1, SubSeqProperties

LEMMA NextConnInv == ConnInv /\ [Next]_vars => ConnInv'
<1> SUFFICES ASSUME ConnInv, [Next]_vars PROVE ConnInv'
  OBVIOUS
<1> USE DEF ConnInv, TypeOK, OneSender, BufferBeforeQueue, ArmedIffWaiting, ArmedInside,
            EventKinds, SendLockFree, Current,
            sendVars, connVars, recvVars
<1>u. UNCHANGED <<next, sendBuf, sendQueue>> => (AnswerLeft' <=> AnswerLeft)
  BY DEF AnswerLeft
<1>1. CASE CallSend
  BY <1>u, <1>1 DEF CallSend
<1>2. CASE EnterSend
  BY <1>u, <1>2 DEF EnterSend, SendLockFree
<1>3. CASE RefuseSend
  BY <1>3 DEF AnswerLeft, Packets, Calls, Answer, NoPacket, RefuseSend, SendReturns
<1>4. CASE QueueBehind
  BY <1>4 DEF AnswerLeft, Packets, Calls, Answer, NoPacket, QueueBehind, SendReturns
<1>5. CASE QueueFirst
  BY <1>5 DEF AnswerLeft, Packets, Calls, Answer, NoPacket, QueueFirst
<1>6. CASE SetSendPacket
  BY <1>6 DEF AnswerLeft, Packets, Calls, Answer, NoPacket, SetSendPacket
<1>7. CASE TimerSendsAll
  BY <1>7 DEF AnswerLeft, Packets, Calls, Answer, NoPacket, TimerSendsAll, SendReturns, SendsRest
<1>8. CASE TimerSendsPart
  BY <1>8 DEF AnswerLeft, Packets, Calls, Answer, NoPacket, TimerSendsPart, SendsPart
<1>9. CASE TimerSendThrows
  BY <1>9 DEF AnswerLeft, Packets, Calls, Answer, NoPacket, TimerSendThrows, SendReturns, SendThrows
<1>10. CASE Arm
  BY <1>10 DEF AnswerLeft, Packets, Calls, Answer, NoPacket, Arm, SendReturns
<1>11. CASE DealTcpPacket
  BY <1>u, <1>11 DEF DealTcpPacket
<1>12. CASE Kick
  <2>a. TypeOK'
    BY <1>12 DEF Kick
  <2>b. OneSender' /\ BufferBeforeQueue'
    BY <1>12 DEF Kick
  <2>c. ArmedIffWaiting' /\ ArmedInside'
    BY <1>u, <1>12 DEF Kick
  <2> QED
    BY <2>a, <2>b, <2>c
<1>13. CASE Wait
  BY <1>u, <1>13 DEF Wait, Reported
<1>14. CASE Look
  BY <1>u, <1>14 DEF Look, MLockFree
<1>15. CASE LookUnknown
  BY <1>u, <1>15 DEF LookUnknown, HandlerReturns, MLockFree
<1>16. CASE Recv
  <2> DEFINE n == IF Len(sockIn) < Missing THEN Len(sockIn) ELSE Missing
  <2>1. n \in 1..Len(sockIn)
    BY <1>16 DEF Recv, Missing
  <2>2. /\ recvBuf' = recvBuf \o SubSeq(sockIn, 1, n)
        /\ sockIn' = SubSeq(sockIn, n + 1, Len(sockIn))
    BY <1>16 DEF Recv
  <2> HIDE DEF n
  <2>3. sockIn \in Seq(Nat) /\ n \in 0..Len(sockIn)
    BY <2>1
  <2>4. SubSeq(sockIn, 1, n) \in Seq(Nat) /\ sockIn' \in Seq(Nat)
    BY <2>2, <2>3, PartsAreSeqs
  <2>5. recvBuf' \in Seq(Nat)
    BY <2>2, <2>4
  <2>a. TypeOK'
    BY <1>16, <2>4, <2>5 DEF Recv
  <2>b. OneSender' /\ BufferBeforeQueue'
    BY <1>16, <2>4, <2>5 DEF Recv
  <2>c. ArmedIffWaiting' /\ ArmedInside'
    BY <1>u, <1>16, <2>4, <2>5 DEF Recv
  <2> QED
    BY <2>a, <2>b, <2>c
<1>17. CASE RecvNothing
  BY <1>u, <1>17 DEF RecvNothing, HandlerReturns
<1>18. CASE RecvThrows
  BY <1>u, <1>18 DEF RecvThrows
<1>19. CASE PushRecv
  BY <1>u, <1>19 DEF PushRecv
<1>20. CASE RecvQueueFull
  <2>a. TypeOK'
    BY <1>20 DEF RecvQueueFull, HandlerReturns
  <2>b. OneSender' /\ BufferBeforeQueue'
    BY <1>20 DEF RecvQueueFull, HandlerReturns
  <2>c. ArmedIffWaiting' /\ ArmedInside'
    BY <1>u, <1>20 DEF RecvQueueFull, HandlerReturns
  <2> QED
    BY <2>a, <2>b, <2>c
<1>21. CASE EnterWrite
  BY <1>u, <1>21 DEF EnterWrite, SendLockFree
<1>22. CASE NetSendsAll
  BY <1>22 DEF AnswerLeft, Packets, Calls, Answer, NoPacket, NetSendsAll, SendsRest
<1>23. CASE NetSendsPart
  <2>1. PICK n \in 0..Units : SendsPart(n)
    BY <1>23 DEF NetSendsPart
  <2>2. cursor' \in 0..(Units - 1) /\ sockOut' \in 0..SockRoom
    BY <2>1 DEF SendsPart
  <2>3. UNCHANGED <<sendBuf, sendQueue, sent, refused>> /\ sendBuf # NoPacket
    BY <2>1 DEF SendsPart
  <2>4. events' \in SUBSET EventKinds /\ (net' # "wait" <=> events' # {})
    BY <1>23 DEF NetSendsPart, HandlerReturns
  <2>5. QED
    BY <1>u, <1>23, <2>2, <2>3, <2>4 DEF NetSendsPart, HandlerReturns
<1>24. CASE NetSendThrows
  BY <1>u, <1>24 DEF NetSendThrows, SendThrows
<1>25. CASE NextFromQueue
  BY <1>25 DEF AnswerLeft, Packets, Calls, Answer, NoPacket, NextFromQueue
<1>26. CASE Disarm
  BY <1>u, <1>26 DEF Disarm, HandlerReturns
<1>27. CASE Lose
  BY <1>u, <1>27 DEF Lose, HandlerReturns, MLockFree
<1>28. CASE LastPointerGone
  BY <1>u, <1>28 DEF LastPointerGone
<1>29. CASE ClientReads
  BY <1>u, <1>29 DEF ClientReads
<1>30. CASE ClientWrites
  BY <1>u, <1>30 DEF ClientWrites
<1>31. CASE ClientGoes
  BY <1>u, <1>31 DEF ClientGoes
<1>32. CASE UNCHANGED vars
  BY <1>u, <1>32 DEF vars
<1>33. QED
  BY <1>1, <1>2, <1>3, <1>4, <1>5, <1>6, <1>7, <1>8, <1>9, <1>10, <1>11, <1>12, <1>13,
     <1>14, <1>15, <1>16, <1>17, <1>18, <1>19, <1>20, <1>21, <1>22, <1>23, <1>24,
     <1>25, <1>26, <1>27, <1>28, <1>29, <1>30, <1>31, <1>32
     DEF Next, Timer, Network, Client, Send, Receive, Write

\* ConnInv is an invariant: types, one sender at a time, the queue behind the
\* buffer, and write events armed exactly while something waits.
THEOREM ConnInvariant == Safety => []ConnInv
  BY InitConnInv, NextConnInv, PTL DEF Safety

\* Outside of sendLock a live connection is armed for write events if and only if
\* a packet waits in its send buffer.
THEOREM ArmedWhenWaiting == Safety => []ArmedIffWaiting
<1>1. ConnInv => ArmedIffWaiting
  BY DEF ConnInv
<1>2. QED
  BY <1>1, ConnInvariant, PTL

(***************************************************************************)
(* The send path is a line of packets.                                     *)
(***************************************************************************)

\* What the invariant says of the packets that wait.
LEMMA WaitingFacts ==
  ASSUME ConnInv
  PROVE  /\ sendQueue \in Seq(Packets) /\ sendQueue \in Seq(Calls)
         /\ Len(sendQueue) \in 0..(QueueMax + 1)
         /\ Waiting \in Seq(Packets)
         /\ sendBuf # NoPacket =>
              /\ sendBuf \in Packets
              /\ Waiting # <<>> /\ Head(Waiting) = sendBuf /\ Tail(Waiting) = sendQueue
              /\ Len(Waiting) = Len(sendQueue) + 1
         /\ sendBuf = NoPacket => Waiting = sendQueue /\ cursor = 0
<1>1. sendQueue \in Seq(Calls) /\ sendQueue \in Seq(Packets)
  BY DEF ConnInv, TypeOK, Packets
<1>2. Len(sendQueue) \in 0..(QueueMax + 1)
  BY <1>1 DEF ConnInv, BufferBeforeQueue
<1>3. CASE sendBuf = NoPacket
  BY <1>1, <1>2, <1>3 DEF ConnInv, BufferBeforeQueue, Waiting
<1>4. CASE sendBuf # NoPacket
  <2>1. sendBuf \in Packets /\ Waiting = <<sendBuf>> \o sendQueue
    BY <1>4 DEF ConnInv, TypeOK, Waiting
  <2> HIDE DEF Packets
  <2>2. /\ Waiting \in Seq(Packets) /\ Waiting # <<>> /\ Head(Waiting) = sendBuf
        /\ Tail(Waiting) = sendQueue /\ Len(Waiting) = Len(sendQueue) + 1
    BY <1>1, <2>1
  <2> HIDE DEF Calls, NoPacket
  <2> QED
    BY <1>1, <1>2, <1>4, <2>1, <2>2, Zenon
<1> QED
  BY <1>3, <1>4

\* Putting one element before and one behind a sequence, in either order.
LEMMA ConsAppend ==
  ASSUME NEW S, NEW a \in S, NEW s \in Seq(S), NEW b \in S
  PROVE  <<a>> \o Append(s, b) = Append(<<a>> \o s, b)
<1> DEFINE l == <<a>> \o Append(s, b)
           r == Append(<<a>> \o s, b)
<1>1. l \in Seq(S) /\ r \in Seq(S) /\ Len(l) = Len(s) + 2 /\ Len(r) = Len(s) + 2
  OBVIOUS
<1>2. \A i \in 1..(Len(s) + 2) : l[i] = r[i]
  OBVIOUS
<1> HIDE DEF l, r
<1>3. l = r
  BY <1>1, <1>2, SeqEqual
<1>4. QED
  BY <1>3 DEF l, r

\* A step that leaves the buffer, the queue and the records alone is a stutter.
LEMMA QuietLine ==
  ASSUME UNCHANGED <<sendBuf, sendQueue, cursor, sent, refused>>
  PROVE  UNCHANGED Line!lineVars
  BY DEF Line!lineVars, Waiting

\* The rest of the packet in the buffer leaves.
LEMMA RestLeaves ==
  ASSUME ConnInv, NEW n \in 1..Units, SendsRest(n)
  PROVE  Line!WriteLast(n)
<1>1. sendBuf # NoPacket /\ sendBuf' = NoPacket /\ UNCHANGED sendQueue
  BY DEF SendsRest
<1>2. Waiting' = Tail(Waiting) /\ Waiting # <<>> /\ Head(Waiting) = sendBuf
  BY <1>1, WaitingFacts DEF Waiting
<1>3. QED
  BY <1>2 DEF SendsRest, Line!WriteLast

\* A part of it leaves, or nothing.
LEMMA PartLeaves ==
  ASSUME ConnInv, NEW n \in 0..Units, SendsPart(n)
  PROVE  [Line!Next]_(Line!lineVars)
<1>1. UNCHANGED Waiting /\ Waiting # <<>>
  BY WaitingFacts DEF SendsPart, Waiting
<1>2. CASE n = 0
  BY <1>2, QuietLine DEF SendsPart, ConnInv, TypeOK
<1>3. CASE n \in 1..Units
  <2>1. Line!Write(n)
    BY <1>1 DEF SendsPart, Line!Write
  <2>2. QED
    BY <2>1, <1>3 DEF Line!Next
<1>4. QED
  BY <1>2, <1>3

\* Every step of the connection is a step of the line or a stutter.
LEMMA LineStep == ConnInv /\ [Next]_vars => [Line!Next]_(Line!lineVars)
<1> SUFFICES ASSUME ConnInv, [Next]_vars PROVE [Line!Next]_(Line!lineVars)
  OBVIOUS
<1>1. CASE RefuseSend
  <2>1. sendBuf # NoPacket /\ Len(sendQueue) = QueueMax + 1 /\ next \in Calls /\ next \in Packets
    BY <1>1 DEF RefuseSend, ConnInv, TypeOK, BufferBeforeQueue, OneSender, Packets
  <2>2. UNCHANGED Waiting /\ Len(Waiting) = QueueMax + 2
    BY <1>1, <2>1, WaitingFacts DEF RefuseSend, Waiting
  <2>3. Line!Refuse(next)
    BY <1>1, <2>2 DEF RefuseSend, Line!Refuse
  <2>4. QED
    BY <2>1, <2>3 DEF Line!Next
<1>2. CASE QueueBehind \/ QueueFirst
  <2>1. /\ sendBuf # NoPacket /\ Len(sendQueue) <= QueueMax /\ next \in Calls /\ next \in Packets
        /\ sendQueue' = Append(sendQueue, next)
        /\ UNCHANGED <<sendBuf, cursor, sent, refused>>
    BY <1>2 DEF QueueBehind, QueueFirst, ConnInv, TypeOK, BufferBeforeQueue, OneSender, Packets
  <2>2. Waiting' = Append(Waiting, next)
    <3>1. Waiting = <<sendBuf>> \o sendQueue /\ Waiting' = <<sendBuf>> \o Append(sendQueue, next)
      BY <2>1 DEF Waiting
    <3>2. sendBuf \in Packets /\ sendQueue \in Seq(Packets)
      BY <2>1, WaitingFacts
    <3>3. QED
      BY <2>1, <3>1, <3>2, ConsAppend
  <2>3. Len(Waiting) < QueueMax + 2
    BY <2>1, WaitingFacts
  <2>4. Line!Take(next)
    BY <2>1, <2>2, <2>3 DEF Line!Take
  <2>5. QED
    BY <2>1, <2>4 DEF Line!Next
<1>3. CASE SetSendPacket
  <2>1. /\ sendBuf = NoPacket /\ sendQueue = <<>> /\ cursor = 0 /\ next \in Calls /\ next \in Packets
        /\ sendBuf' = next /\ cursor' = 0 /\ UNCHANGED <<sendQueue, sent, refused>>
    BY <1>3, WaitingFacts DEF SetSendPacket, ConnInv, OneSender, Packets
  <2>2. next # NoPacket
    BY <2>1 DEF Calls, NoPacket
  <2>3. Waiting = <<>> /\ Waiting' = <<next>>
    BY <2>1, <2>2 DEF Waiting
  <2>4. Line!Take(next)
    BY <2>1, <2>3 DEF Line!Take
  <2>5. QED
    BY <2>1, <2>4 DEF Line!Next
<1>4. CASE TimerSendsAll \/ NetSendsAll
  <2>1. PICK n \in 1..Units : SendsRest(n)
    BY <1>4 DEF TimerSendsAll, NetSendsAll
  <2>2. QED
    BY <2>1, RestLeaves DEF Line!Next
<1>5. CASE TimerSendsPart \/ NetSendsPart
  <2>1. PICK n \in 0..Units : SendsPart(n)
    BY <1>5 DEF TimerSendsPart, NetSendsPart
  <2>2. QED
    BY <2>1, PartLeaves
<1>6. CASE NextFromQueue
  <2>1. /\ sendBuf = NoPacket /\ cursor = 0 /\ sendQueue # <<>>
        /\ sendBuf' = Head(sendQueue) /\ sendQueue' = Tail(sendQueue) /\ cursor' = 0
        /\ UNCHANGED <<sent, refused>>
    BY <1>6, WaitingFacts DEF NextFromQueue, ConnInv, BufferBeforeQueue
  <2>2. Head(sendQueue) # NoPacket
    BY <2>1, WaitingFacts DEF Calls, NoPacket
  <2>3. <<Head(sendQueue)>> \o Tail(sendQueue) = sendQueue
    BY <2>1, WaitingFacts
  <2>4. UNCHANGED Waiting
    BY <2>1, <2>2, <2>3 DEF Waiting
  <2>5. QED
    BY <2>1, <2>4 DEF Line!lineVars
<1>7. CASE \/ CallSend \/ EnterSend \/ TimerSendThrows \/ Arm \/ DealTcpPacket \/ Kick
  BY <1>7, QuietLine
     DEF CallSend, EnterSend, TimerSendThrows, Arm, DealTcpPacket, Kick, sendVars
<1>8. CASE \/ Wait \/ Look \/ LookUnknown \/ Receive \/ Lose
  BY <1>8, QuietLine
     DEF Wait, Look, LookUnknown, Receive, Recv, RecvNothing, RecvThrows, PushRecv,
         RecvQueueFull, Lose, sendVars
<1>9. CASE EnterWrite \/ NetSendThrows \/ Disarm
  BY <1>9, QuietLine DEF EnterWrite, NetSendThrows, Disarm, sendVars
<1>10. CASE LastPointerGone \/ Client \/ UNCHANGED vars
  BY <1>10, QuietLine
     DEF LastPointerGone, Client, ClientReads, ClientWrites, ClientGoes, vars, sendVars
<1>11. QED
  BY <1>1, <1>2, <1>3, <1>4, <1>5, <1>6, <1>7, <1>8, <1>9, <1>10
     DEF Next, Timer, Network, Send, Write

\* The packets handed to sendPacketToPublic leave in order, each whole and once,
\* and one is refused only when the queue and the buffer are full.
THEOREM ConnIsLine == Safety => ImplementsLine
<1>1. Init => Line!Init
  <2> SUFFICES ASSUME Init PROVE Line!Init
    OBVIOUS
  <2>2. sent = <<>> /\ refused = {} /\ sendQueue = <<>>
    BY DEF Init
  <2>3. CASE sendBuf = NoPacket
    BY <2>2, <2>3 DEF Init, Line!Init, Waiting
  <2>4. CASE sendBuf = Answer
    <3>1. Waiting = <<Answer>> /\ Answer \in Packets
      BY <2>2, <2>4 DEF Waiting, Answer, NoPacket, Packets
    <3>2. cursor \in 0..(Units - 1)
      BY DEF Init
    <3> QED
      BY <2>2, <3>1, <3>2 DEF Line!Init
  <2> QED
    BY <2>3, <2>4 DEF Init
<1>2. QED
  BY <1>1, LineStep, ConnInvariant, PTL DEF Safety, ImplementsLine, Line!Spec

(***************************************************************************)
(* The receive path.                                                       *)
(***************************************************************************)

\* The units from the n-th on are a sequence of that many numbers.
LEMMA UnitsFromFacts ==
  ASSUME NEW n \in Nat, NEW len \in Nat
  PROVE  /\ UnitsFrom(n, len) \in Seq(Nat) /\ Len(UnitsFrom(n, len)) = len
         /\ \A j \in 1..len : UnitsFrom(n, len)[j] = n + j
<1>1. UnitsFrom(n, len) \in [1..len -> Nat]
  BY DEF UnitsFrom
<1>2. UnitsFrom(n, len) \in Seq(Nat)
  BY <1>1
<1>3. Len(UnitsFrom(n, len)) = len
  BY <1>1, <1>2, LenProperties
<1>4. QED
  BY <1>2, <1>3 DEF UnitsFrom

\* A prefix and the rest make the sequence.
LEMMA SplitSeq ==
  ASSUME NEW S, NEW r \in Seq(S), NEW s \in Seq(S), NEW n \in 0..Len(s)
  PROVE  (r \o SubSeq(s, 1, n)) \o SubSeq(s, n + 1, Len(s)) = r \o s
<1> DEFINE front == SubSeq(s, 1, n)
           back  == SubSeq(s, n + 1, Len(s))
<1>1. \A i \in 1..Len(s) : s[i] \in S
  OBVIOUS
<1>2. /\ front \in Seq(S) /\ Len(front) = n
      /\ \A i \in 1..n : front[i] = s[i]
  BY <1>1, SubSeqProperties
<1>3. /\ back \in Seq(S) /\ Len(back) = Len(s) - n
      /\ \A i \in 1..(Len(s) - n) : back[i] = s[n + i]
  BY <1>1, SubSeqProperties
<1> HIDE DEF front, back
<1>4. front \o back = s
  <2>1. /\ front \o back \in Seq(S) /\ Len(front \o back) = Len(front) + Len(back)
        /\ \A i \in 1..(Len(front) + Len(back)) :
             (front \o back)[i] = IF i <= Len(front) THEN front[i] ELSE back[i - Len(front)]
    BY <1>2, <1>3, ConcatProperties
  <2>2. n \in Nat /\ Len(s) \in Nat /\ Len(front) + Len(back) = Len(s)
    BY <1>2, <1>3
  <2>3. \A i \in 1..Len(s) : (front \o back)[i] = s[i]
    <3> TAKE i \in 1..Len(s)
    <3>1. CASE i <= n
      BY <1>2, <2>1, <2>2, <3>1
    <3>2. CASE ~(i <= n)
      <4>1. i - n \in 1..(Len(s) - n) /\ n + (i - n) = i
        BY <2>2, <3>2
      <4>2. QED
        BY <1>2, <1>3, <2>1, <2>2, <3>2, <4>1
    <3>3. QED
      BY <3>1, <3>2
  <2>4. QED
    BY <2>1, <2>2, <2>3, SeqEqual
<1>5. (r \o front) \o back = r \o (front \o back)
  BY <1>2, <1>3, ConcatAssociative
<1>6. QED
  BY <1>4, <1>5 DEF front, back

\* A packet more: what the buffer held is the next packet of the stream, and what
\* is left begins after it.
LEMMA PacketComplete ==
  ASSUME NEW done \in Nat, NEW c \in Nat, done <= c,
         NEW buf \in Seq(Nat), NEW s \in Seq(Nat), Len(buf) = Units,
         buf \o s = UnitsFrom(done, c - done)
  PROVE  /\ done + Units <= c
         /\ buf = UnitsFrom(done, Units)
         /\ s = UnitsFrom(done + Units, c - (done + Units))
<1> DEFINE w == UnitsFrom(done, c - done)
<1>1. /\ c - done \in Nat /\ w \in Seq(Nat) /\ Len(w) = c - done
      /\ \A j \in 1..(c - done) : w[j] = done + j
  <2>1. c - done \in Nat
    OBVIOUS
  <2>2. QED
    BY <2>1, UnitsFromFacts
<1>2. buf \o s = w
  OBVIOUS
<1> HIDE DEF w
<1>3. /\ Len(w) = Units + Len(s)
      /\ \A j \in 1..(Units + Len(s)) : w[j] = IF j <= Units THEN buf[j] ELSE s[j - Units]
  BY <1>2, ConcatProperties
<1>4. Len(s) = c - (done + Units) /\ Len(s) \in Nat /\ done + Units <= c
  BY <1>1, <1>3
<1>5. buf = UnitsFrom(done, Units)
  <2>1. \A j \in 1..Units : buf[j] = done + j
    BY <1>1, <1>3, <1>4
  <2>2. /\ UnitsFrom(done, Units) \in Seq(Nat) /\ Len(UnitsFrom(done, Units)) = Units
        /\ \A j \in 1..Units : UnitsFrom(done, Units)[j] = done + j
    BY UnitsFromFacts
  <2>3. QED
    BY <2>1, <2>2, SeqEqual
<1>6. s = UnitsFrom(done + Units, Len(s))
  <2>1. \A j \in 1..Len(s) : s[j] = (done + Units) + j
    <3> TAKE j \in 1..Len(s)
    <3>1. Units + j \in 1..(c - done) /\ (Units + j) - Units = j /\ ~(Units + j <= Units)
      BY <1>4
    <3>2. w[Units + j] = s[j] /\ w[Units + j] = done + (Units + j)
      BY <1>1, <1>3, <3>1
    <3>3. QED
      BY <3>2
  <2>2. /\ UnitsFrom(done + Units, Len(s)) \in Seq(Nat)
        /\ Len(UnitsFrom(done + Units, Len(s))) = Len(s)
        /\ \A j \in 1..Len(s) : UnitsFrom(done + Units, Len(s))[j] = (done + Units) + j
    <3>1. done + Units \in Nat
      OBVIOUS
    <3>2. QED
      BY <1>4, <3>1, UnitsFromFacts
  <2>3. QED
    BY <2>1, <2>2, SeqEqual
<1>7. QED
  BY <1>4, <1>5, <1>6

\* A unit more at the end of the stream.
LEMMA UnitMore ==
  ASSUME NEW done \in Nat, NEW c \in Nat, done <= c
  PROVE  Append(UnitsFrom(done, c - done), c + 1) = UnitsFrom(done, (c + 1) - done)
<1> DEFINE w == UnitsFrom(done, c - done)
           u == UnitsFrom(done, (c + 1) - done)
<1>1. c - done \in Nat /\ (c + 1) - done \in Nat
  OBVIOUS
<1>2. /\ w \in Seq(Nat) /\ Len(w) = c - done
      /\ \A j \in 1..(c - done) : w[j] = done + j
  BY <1>1, UnitsFromFacts
<1>3. /\ u \in Seq(Nat) /\ Len(u) = (c + 1) - done
      /\ \A j \in 1..((c + 1) - done) : u[j] = done + j
  BY <1>1, UnitsFromFacts
<1> HIDE DEF w, u
<1>4. Append(w, c + 1) \in Seq(Nat) /\ Len(Append(w, c + 1)) = Len(u)
  BY <1>1, <1>2, <1>3
<1>5. \A j \in 1..Len(u) : Append(w, c + 1)[j] = u[j]
  BY <1>1, <1>2, <1>3
<1>6. Append(w, c + 1) = u
  BY <1>3, <1>4, <1>5, SeqEqual
<1>7. QED
  BY <1>6 DEF w, u

\* An element of a sequence moves to the end of the one before it.
LEMMA MoveHead ==
  ASSUME NEW S, NEW h \in Seq(S), NEW q \in Seq(S), q # <<>>
  PROVE  Append(h, Head(q)) \o Tail(q) = h \o q
<1> DEFINE l == Append(h, Head(q)) \o Tail(q)
           r == h \o q
<1>1. l \in Seq(S) /\ r \in Seq(S) /\ Len(l) = Len(r)
  OBVIOUS
<1>2. \A i \in 1..Len(l) : l[i] = r[i]
  OBVIOUS
<1> HIDE DEF l, r
<1>3. l = r
  BY <1>1, <1>2, SeqEqual
<1>4. QED
  BY <1>3 DEF l, r

\* Appending to the second of two sequences appends to both.
LEMMA AppendToConcat ==
  ASSUME NEW S, NEW h \in Seq(S), NEW q \in Seq(S), NEW a \in S
  PROVE  h \o Append(q, a) = Append(h \o q, a)
<1> DEFINE l == h \o Append(q, a)
           r == Append(h \o q, a)
<1>1. l \in Seq(S) /\ r \in Seq(S) /\ Len(l) = Len(r)
  OBVIOUS
<1>2. \A i \in 1..Len(l) : l[i] = r[i]
  OBVIOUS
<1> HIDE DEF l, r
<1>3. l = r
  BY <1>1, <1>2, SeqEqual
<1>4. QED
  BY <1>3 DEF l, r

\* Nothing is written and nothing received at first.
LEMMA InitReceivedInOrder == Init => ReceivedInOrder
<1> SUFFICES ASSUME Init PROVE ReceivedInOrder
  OBVIOUS
<1>1. Taken = <<>> /\ recvBuf = <<>> /\ sockIn = <<>> /\ clientNo = 0
  BY DEF Init, Taken
<1>2. Len(Taken) = 0 /\ Len(recvBuf) = 0 /\ recvBuf \o sockIn = <<>>
  BY <1>1
<1>3. UnitsFrom(0, 0) = <<>>
  BY UnitsFromFacts
<1>4. QED
  BY <1>1, <1>2, <1>3 DEF ReceivedInOrder

\* Only four steps touch the receive path, and each keeps the stream in order.
LEMMA NextReceivedInOrder ==
  ConnInv /\ ReceivedInOrder /\ [Next]_vars => ReceivedInOrder'
<1> SUFFICES ASSUME ConnInv, ReceivedInOrder, [Next]_vars PROVE ReceivedInOrder'
  OBVIOUS
<1> DEFINE done == Units * Len(Taken)
<1>t. /\ clientNo \in Nat /\ sockIn \in Seq(Nat) /\ recvBuf \in Seq(Nat)
      /\ recvQueue \in Seq(Seq(Nat)) /\ handled \in Seq(Seq(Nat))
      /\ Taken \in Seq(Seq(Nat)) /\ done \in Nat
  <2>1. Taken \in Seq(Seq(Nat))
    BY ConcatProperties DEF ConnInv, TypeOK, Taken
  <2>2. done \in Nat
    BY <2>1, LenProperties
  <2>3. QED
    BY <2>1, <2>2 DEF ConnInv, TypeOK
<1>i. /\ \A k \in 1..Len(Taken) : Taken[k] = UnitsFrom(Units * (k - 1), Units)
      /\ done <= clientNo
      /\ recvBuf \o sockIn = UnitsFrom(done, clientNo - done)
      /\ Len(recvBuf) <= Units
  BY DEF ReceivedInOrder
<1>1. CASE DealTcpPacket
  <2>1. Taken' = Taken
    <3>1. Taken' = Append(handled, Head(recvQueue)) \o Tail(recvQueue)
      BY <1>1 DEF DealTcpPacket, Taken
    <3>2. recvQueue # <<>>
      BY <1>1 DEF DealTcpPacket
    <3>3. Append(handled, Head(recvQueue)) \o Tail(recvQueue) = handled \o recvQueue
      BY <1>t, <3>2, MoveHead
    <3>4. QED
      BY <3>1, <3>3 DEF Taken
  <2>2. UNCHANGED <<clientNo, sockIn, recvBuf>>
    BY <1>1 DEF DealTcpPacket
  <2>3. QED
    BY <2>1, <2>2 DEF ReceivedInOrder
<1>2. CASE Recv
  <2> DEFINE n == IF Len(sockIn) < Missing THEN Len(sockIn) ELSE Missing
  <2>1. /\ recvBuf' = recvBuf \o SubSeq(sockIn, 1, n)
        /\ sockIn' = SubSeq(sockIn, n + 1, Len(sockIn))
        /\ UNCHANGED <<clientNo, handled, recvQueue>>
    BY <1>2 DEF Recv
  <2>2. n \in 0..Len(sockIn) /\ Len(recvBuf) + n <= Units
    BY <1>t, <1>2, <1>i DEF Recv, Missing
  <2> HIDE DEF n
  <2>3. recvBuf' \o sockIn' = recvBuf \o sockIn
    BY <1>t, <2>1, <2>2, SplitSeq
  <2>4. Len(recvBuf') <= Units
    <3>1. \A i \in 1..n : sockIn[i] \in Nat
      BY <1>t, <2>2
    <3>2. SubSeq(sockIn, 1, n) \in Seq(Nat) /\ Len(SubSeq(sockIn, 1, n)) = n
      BY <2>2, <3>1, SubSeqProperties
    <3>3. QED
      BY <1>t, <2>1, <2>2, <3>2
  <2>5. UNCHANGED Taken
    BY <2>1 DEF Taken
  <2>6. QED
    BY <2>1, <2>3, <2>4, <2>5, <1>i DEF ReceivedInOrder
<1>3. CASE PushRecv
  <2>1. Len(recvBuf) = Units
    BY <1>t, <1>3, <1>i DEF PushRecv, Missing
  <2>2. /\ done + Units <= clientNo
        /\ recvBuf = UnitsFrom(done, Units)
        /\ sockIn = UnitsFrom(done + Units, clientNo - (done + Units))
    <3> HIDE DEF done
    <3>1. QED
      BY <1>t, <1>i, <2>1, PacketComplete
  <2>3. Taken' = Append(Taken, recvBuf)
    BY <1>t, <1>3, AppendToConcat DEF PushRecv, Taken
  <2>4. Len(Taken') = Len(Taken) + 1 /\ Units * Len(Taken') = done + Units
    BY <1>t, <2>3
  <2>5. \A k \in 1..Len(Taken') : Taken'[k] = UnitsFrom(Units * (k - 1), Units)
    <3> TAKE k \in 1..Len(Taken')
    <3>1. CASE k \in 1..Len(Taken)
      <4>1. Taken'[k] = Taken[k]
        BY <1>t, <2>3, <3>1
      <4>2. QED
        BY <4>1, <3>1, <1>i
    <3>2. CASE k = Len(Taken) + 1
      <4>1. Taken'[k] = recvBuf
        BY <1>t, <2>3, <3>2
      <4>2. Units * (k - 1) = done
        BY <1>t, <3>2
      <4>3. QED
        BY <4>1, <4>2, <2>2
    <3>3. QED
      BY <1>t, <2>4, <3>1, <3>2
  <2>6. recvBuf' = <<>> /\ sockIn' = sockIn /\ clientNo' = clientNo
    BY <1>3 DEF PushRecv
  <2>7. recvBuf' \o sockIn' = sockIn /\ Len(recvBuf') = 0
    BY <1>t, <2>6, ConcatEmptySeq
  <2>8. QED
    BY <2>2, <2>4, <2>5, <2>6, <2>7 DEF ReceivedInOrder
<1>4. CASE ClientWrites
  <2>1. /\ clientNo' = clientNo + 1 /\ sockIn' = Append(sockIn, clientNo + 1)
        /\ UNCHANGED <<recvBuf, handled, recvQueue>>
    BY <1>4 DEF ClientWrites
  <2>2. recvBuf \o sockIn' = Append(recvBuf \o sockIn, clientNo + 1)
    <3>1. clientNo + 1 \in Nat
      BY <1>t
    <3> DEFINE m == clientNo + 1
    <3> HIDE DEF m
    <3>2. m \in Nat
      BY <3>1 DEF m
    <3>3. recvBuf \o Append(sockIn, m) = Append(recvBuf \o sockIn, m)
      BY <1>t, <3>2, AppendToConcat
    <3>4. QED
      BY <2>1, <3>3 DEF m
  <2>3. UNCHANGED Taken
    BY <2>1 DEF Taken
  <2>4. recvBuf \o sockIn' = UnitsFrom(done, (clientNo + 1) - done)
    <3> HIDE DEF done
    <3>1. QED
      BY <1>t, <1>i, <2>2, UnitMore
  <2>5. done <= clientNo + 1
    BY <1>t, <1>i
  <2>6. QED
    BY <1>i, <2>1, <2>3, <2>4, <2>5 DEF ReceivedInOrder
<1>5. CASE UNCHANGED <<clientNo, sockIn, recvBuf, recvQueue, handled>>
  BY <1>5 DEF ReceivedInOrder, Taken
<1>6. CASE \/ CallSend \/ Send \/ Kick
  BY <1>6, <1>5
     DEF CallSend, Send, EnterSend, RefuseSend, QueueBehind, QueueFirst, SetSendPacket,
         TimerSendsAll, TimerSendsPart, TimerSendThrows, Arm, Kick, recvVars
<1>7. CASE \/ Wait \/ Look \/ LookUnknown \/ RecvNothing \/ RecvThrows \/ RecvQueueFull
           \/ Write \/ Lose
  BY <1>7, <1>5
     DEF Wait, Look, LookUnknown, RecvNothing, RecvThrows, RecvQueueFull, Write, EnterWrite,
         NetSendsAll, NetSendsPart, NetSendThrows, NextFromQueue, Disarm,
         Lose, recvVars
<1>8. CASE \/ LastPointerGone \/ ClientReads \/ ClientGoes \/ UNCHANGED vars
  BY <1>8, <1>5 DEF LastPointerGone, ClientReads, ClientGoes, vars, recvVars
<1>9. QED
  BY <1>1, <1>2, <1>3, <1>4, <1>6, <1>7, <1>8 DEF Next, Timer, Network, Receive, Client

\* The handlers get the client's packets, whole, in order, none twice and none left
\* out, however often the receive queue was full.
THEOREM ReceivesInOrder == Safety => []ReceivedInOrder
<1>1. Init => ReceivedInOrder
  BY InitReceivedInOrder
<1>2. QED
  BY <1>1, NextReceivedInOrder, ConnInvariant, PTL DEF Safety

=============================================================================
