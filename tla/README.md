# Verification of bcjj

`bcjj` is a C++11 platform for e-sports fights between the teams of net cafés:
a small server framework (`base/`) and one process built on it
(`processes/game/`). This directory holds TLA+ models of the parts whose
correctness depends on order, timing or a crash, TLC configurations that check
them on small instances, and TLAPS proofs, for every size, about the lock-free
queue, the database connection built on two of them, the bracket of a fight and
its recovery after a crash, the fights in memory, the sending and receiving on a
connection, the log-in and loss of cafés on two threads, what users are shown of
themselves, teams and their tables, the start of a game, and the table of
connections between processes. Each definition that stands for code names its
lines in the `map` of `PROJECT.json`.

## 1. The system

### Threads

| thread | what it runs |
|---|---|
| main | `Process::init`, `lanchThreads`, then `joinThreads`, which polls every 100 ms |
| main timer | `ProcessTimer::exec`: **all** business. Every 20 ms the received packets (`dealTcpPackets`), every 50 ms the database callbacks and the unchecked clients, every minute `FightManager::contrl` and the search for new fights |
| db read, db write | `DbConnection::exec`: run the queued statements, queue the results |
| tcp conns, public and private server, client, connection checker | sockets; the erase of a lost public connection calls into the café map *on this thread* |

So handlers do not interleave with one another; they interleave with the
database threads (through two lock-free queues per connection), with the
network threads (through locks), with the clock, with signals and with crashes.

### Components

| component | state | operations | made correct by |
|---|---|---|---|
| Single-elimination rule and fight (`fight_rule_single_fail`, `fight_rule`, `fight`) | entrants `m_objs`, matches of the round `m_challDatas`, the fight's status | seeding, minute tick, house, result, promotion | the matches of any order of results form one bracket; nobody is stuck; the ranking is right |
| Fight manager, area fights (`fight_manager`, `area_fight`) | all fights, indexes by café, city, team | load, search for new ones, sign-up, queries | a fight is loaded once; sign-ups reach the right fight; parents get the winners |
| Teams (`team_manager`) | teams with members and applicants, per user the team and the server of each game | create, apply, approve or refuse, load | the maps agree with each other and, when the queues are empty, with the tables |
| Persistence (`fight_db`, `user_db`, `coffeenet_db`) | the tables | statements and callbacks | a restart finds what memory knew, or a consistent earlier state |
| SPSC ring (`lock_free_circular_queue_ss.h`) | cells, two private counters | `push`, `pop`, `empty` | a bounded FIFO queue without races |
| Database connection (`db_connection`) | two rings, the connection | `exeStoreSql`, `exec`, `callBackTimerExec` | statements once, in order; answers once, in order; nothing lost below capacity |
| Process, threads, timer (`process`, `process_thread`, `process_timer`) | thread table, switches, the suspension | launch, resume, stop, join | a signal ends a running process |
| Connection manager (`tcp_connection_manager`, `packet_connection`) | connections, send buffers and queues, the receive queue | send, epoll read, write and error | packets leave whole and in order; none waits for ever |
| Private connections (`private_connection_checker`, `tcp_client`, `tcp_server`) | connections being checked | handshake, time-out | both ends agree on the identity |
| Cafés and users (`coffeenet_*`, `user_*`) | unchecked clients, cafés, users, pending log-ins | connect, log in, kick, drop | one session per account; a user has a café; locks are released |
| Configuration (`process_config`) | what `process.xml` gives the process | load | it comes up with its own addresses or not at all |
| XML library (`xmlparse/`) | a document of linked nodes | edit, search, read, write, stream | the links are a tree; what is written is read back |
| Sockets, dispatch, helpers | — | thin wrappers, tables, formatting | not modelled |
| `fight_rule_loop`, `fight_rule_time_score` | — | not part of the build | not modelled |

`PROJECT.json` lists every component with its status, and under `hazards` what
is hard to test, each at its line.

## 2. The modules

| module | models | extends or uses |
|---|---|---|
| `SingleFail` | one fight under the single-elimination rule | — |
| `SingleFailProofs` | theorems about `SingleFail` and `FightRecovery`, from lemmas on least numbers, places and counts | extends both and `TLAPS` |
| `BoundedFifo` | what a user of the ring may rely on (abstract) | — |
| `SpscQueue` | the ring, one memory access per step | instantiates `BoundedFifo` |
| `SpscQueueProofs` | theorems about `SpscQueue` | extends it and `TLAPS` |
| `DbConnection` | one database connection between two threads, launch to exit | relies on `SpscQueue`'s result |
| `DbConnectionProofs` | theorems about `DbConnection` | extends it and `TLAPS` |
| `TeamManager` | teams, applications, the statements on their way, the tables, a crash | relies on `DbConnection`'s result |
| `PacketLine` | what the handlers may rely on when they send (abstract) | — |
| `PacketConn` | one public connection: main timer, network thread, client | instantiates `PacketLine` |
| `ConnectionProofs` | theorems about `PacketConn` and `PrivateNet` | extends both and `TLAPS` |
| `Session` | cafés and users logging in, moving and being lost, on two threads | — |
| `SessionProofs` | theorems about `Session` | extends it and `TLAPS` |
| `FightRecovery` | the fight with its statements, the write connection, a crash and the start from the rows | extends `SingleFail` |
| `FightBoard` | which fights are in memory: load, minute search, sign-up, promotion, the finders | relies on `DbConnection`'s result |
| `House` | the two houses of a match up to the start of the game | — |
| `FightManagerProofs` | theorems about `House` and `FightBoard` | extends both and `TLAPS` |
| `TeamProofs` | theorems about `TeamManager` | extends it and `TLAPS` |
| `Accounts` | start-up load of teams and users, log-ins, users' data, lists | relies on `DbConnection`'s result |
| `AccountsProofs` | theorems about `Accounts` | extends it and `TLAPS` |
| `PrivateNet` | processes dialling each other, crashes, the resumption of the main timer | — |
| `XmlForest` | what a client of the XML library may rely on: nested trees (abstract) | — |
| `XmlTree`, `XmlParse`, `XmlStream` | the library's nodes; reading and writing files; printer and streams | each extends the one before |
| `ProcessConfig` | `process.xml` from its editing to the process that reads it | extends `XmlStream`, instantiates `XmlForest` |
| `MC…` | instances for TLC where the values are no numbers, and the symmetry of `TeamManager` | |

`FightRecovery` composes the rule with the database, `Session` the cafés with
the users and the connections, `Accounts` the users with the teams. Two results
are used without repeating their steps: a ring's calls are atomic (`SpscQueue`),
so `DbConnection` works on sequences; and statements of one connection are
executed and answered in the order they were issued (`DbInv`), so `FightBoard`,
`TeamManager`, `FightRecovery` and `Accounts` keep them in sequences too.

Operators named `X_Slip…` are `X` with one plausible slip. They are no part of
a model: putting one in the place of `X` must break the property it is listed
for under `mutants`, which shows that the property speaks of the code.

### `SingleFail`

| variable | code |
|---|---|
| `status` | `FightData::m_status` |
| `reached` | which of `reachStartApplyTime`, `reachStartFightTime`, `reachStopFightTime` hold |
| `objs` | `FightRule::m_objs` (`house` abstracts "`team` is not empty") |
| `challs` | `FightRule::m_challDatas` |
| `promoted` | the lists `stopRule` hands to `addNextLvMem` |
| `fault` | the endless `continue` of `contrl` or the dereferenced `end()` of `createChallData` |

`ContrlFight`, `ContrlStart` and `ContrlWait` are the minute tick
(`Fight::contrl`, all its checks in their order), `CreateHouse` is
`ChallengerMem`, `FightResult` is `fightResult` with the `contrl` it ends in.
`RuleContrl` is the rule's loop: matches name disjoint teams, so what the loop
does to each is written as a function of the state before it (`Settled`,
`Remaining`), with the early return and the endless loop kept apart.

The model starts with entrants loaded from their rows; `FightBoard` has the
sign-up, with the id it leaves unset. `Position` and `Opponent` say what
`initPosition` does to each entrant from his rank in the id order, `Doubled` is
the value `getPositionVal` has after some turns of its loop.

### `FightRecovery`

The handlers of `SingleFail`, each with the statements it queues, in their
order: `SeedStmts` for `initPosition` (pair by pair, `SeedPair`), `SettleStmts`
for the rule's loop (`SettleMatch`) and `PairStmts` for `createChallData`
(`PairMatch`), `ApplyStmts` and `StopStmts` for the status.
`rows` is the tables, `stmts` the queue of the write connection, `Execute` its
thread, `Restart` a crash with the load that follows. A handler's statements are
no transaction. Each one says whether a crash just before it leaves a fight that
can be resumed (`safe`), and `torn` remembers that one did not: then nothing is
promised. Such a crash can load two teams with the same position, of which the
`std::map` of `createChallData` keeps one, so that the rows written no longer match
what is in memory. Without it `RecoverySound` promises all of this: memory is a sound
fight (`MatchSound`, `BracketWhole`), `contrl` meets neither its endless loop nor
the end of a map in it (`NoFault`), and the rows with what is still queued (`Ran`)
are that fight (`RowsCatchUp`), all but the houses and the games won in a match
that is not over, which no handler writes.

### `FightBoard`

| variable | code |
|---|---|
| `posted`, `statusRow`, `entrantRows` | the fight tables; only the web site adds fights |
| `pending`, `answers` | the read connection's two queues |
| `fights` | `m_fights`: of each fight its status, its entrants (key and own id), whether its rule has matches left |
| `index` | `m_coffFights`, `m_cityFights`, `m_provinceFights` |
| `objToFights`, `recommend`, `initOver` | the members of these names |
| `clock` | minutes, to which `Posting`'s apply, start and stop refer |

Inside a fight only what others see is kept; `BracketEnds` stands for the
rest of `SingleFail`, with `stopRule`'s promotion into the parent. The id that
`signUp` never sets is either what was meant or `Junk`, in memory and in the row.
A query says of itself whether it was issued while an earlier search was
unanswered (`overlaps`), which is what `ResetOnlyByOverlap` speaks of. The tick
writes a status only when it changes, and a stop every minute (`Written`): a fight
that an overlap has reset does not set its row back.

### `House`

`house` is `FightObjData::team` of both teams: the players with their ready flag
and the last place, the leader's or nobody's. `early` remembers that a leader
counts as ready because he has reported. `start` is whom the last step told that
the game starts. `ChallengerGone` is the refusal sent through the user who was
not found, and ends the description.

### `Accounts`

| variable | code |
|---|---|
| `reads`, `answers`, `writes` | the queues of the read and of the write connection |
| `identRow`, `gameRow` | the tables |
| `cafe`, `logging` | a café's log-in; `m_loginTels` |
| `sessions` | `UserManager::m_users`: the count of selects (`m_selectRecord`), identity and game of each |
| `mems` | `TeamManager::m_users` |
| `shown` | the main data each client was last sent |
| `entries`, `pages` | the list last answered with, and its messages |

`Session` is about who is logged in where; here every user sits in one café and
the question is what he is shown. The load of `TeamManager::init` is four
answers, each issuing the next query.

### `PrivateNet`

| variable | code |
|---|---|
| `socks` | of each connection its two sides: `ConnState` in the checker, `registered` in the manager, `shut`; the id on its way; the `remoteId` it was told |
| `priConns`, `pubConns` | `m_priConns`, `m_pubConns` of each process |
| `cafeConns` | how many connections of a café `m_allConns` of a process has, with an entry in `m_pubConns` or without |
| `retry` | `TcpClient`'s endpoints whose `retryTimepoint` is still to come |
| `suspended` | `ProcessTimer`'s switch |
| `up`, `crashes` | external: which processes run |

`checkConn` is one step per connection and pass. A side that is content registers
without knowing of the other: the acceptor when it has answered, the dialler when
it has the answer, and either lets go of a connection whose id it already has.

A café is here a process and an id, and that id may be a process' id too:
`EraseConnection` looks a lost connection's number up among the cafés first, so
the loss of a private connection can take the entry of a café (`CafeComes`,
`CafeGoes` and `CafeKicked` are the rest of its life). Two operators name what
follows: a private entry whose connection is gone is `Stale`, a café with a
connection that has no entry is `Ousted`. `TableSound` says that for each id at
each process the one holds exactly while the other does; `LinkedInTheEnd` and
`Resumes` are excused by `Ousted` and by nothing else of the kind.

### `SpscQueue`, `BoundedFifo`

Every access to a cell is a step: the acquire load of the status, the counter,
the copy of the item, the reset, the release store. The statuses are the only
atomics and both threads write a cell's item only between an acquire load and a
release store, so interleaving the steps shows every behaviour of a race-free
execution; `NoRace` shows that the execution is race-free. Counters are taken
modulo `Width`; `Size` divides it, as a power of two of at most 2^24 divides
2^64. Both sides look at the status a bounded number of times (twice in `push`:
the comment says three, the loop leaves before its third look; three times in
`pop`).

`Items` is the refinement mapping: the items from the head cell to the tail
cell. A push takes effect at its release store, a pop at its own, a refused
call at its last look.

### `DbConnection`

`db`, `timer` and `main` say where the three threads are. The queues are
sequences, each `push` or `pop` one step; the branches for "not empty but pop
failed" are dead by `SeenItemStays` and left out. A statement is its number and
whether a callback waits for its answer. `refused`, `executed`, `dropped` and
`handled` record its fate, `peak` the most that were ever outstanding.
One thread stands for the database threads (read and write are alike and share
nothing), and the network threads, which start and stop in the same way, are
left out. A signal runs `Process::stop` a thread at a time, in the order of the
thread table, between any two steps of the others.

### `TeamManager`

Each handler is one action; its guards are the handler's returns. Memory is
`gameInfo`, `teamOf` (both in `m_users`) and `teams`; `readQ` and `writeQ` are
the statements on their way, `rows` the tables. `Restart` loses memory and both
queues and loads the tables, which leaves one choice open: if a user has rows
for several teams of a game, the last row wins and the order of rows is the
database's. It loads in one step; the four callbacks of the real load are in
`Accounts`. `listed` holds whom
a client's copy of a team's list may show: an answer may name somebody another
answer has dealt with since, because the handler does not look.

The stored procedures are not part of the repository. They are modelled from
their callers: an update inserts or replaces the row of its key, a refusal
erases the row of a user and a team.

### `PacketConn`, `PacketLine`

| variable | code |
|---|---|
| `timer`, `net` | where the main timer is in `sendPacketToPublic`, the network thread in `waitImpl` and the handlers it calls |
| `events` | the events of one socket in the batch `epoll_wait` returned |
| `sendBuf`, `cursor` | `PacketConnection::m_sendBuf` and how much of it is sent |
| `sendQueue` | `ConnectionHolder::sendQueue` |
| `recvBuf`, `recvQueue` | `m_recvBuf`, `TcpConnectionManager::m_recvQueue` (of this connection's packets) |
| `known` | the holder is in `m_allConns` and `m_pubConns` |
| `registered`, `armed` | the socket is in the epoll set; for write events as well |
| `sockOut`, `sockIn`, `peer` | the kernel's buffers and the other end (external) |

Business runs on the main timer alone, so one call of `sendPacketToPublic` is
under way at a time. What is at risk is its race with the epoll thread: both
send from `m_sendBuf`, both change which events the socket waits for, under
`sendLock`. A lock is held by the thread whose control state says so; a step
between two such states may meet any step of the other thread that needs no
lock. (`sendLock` and `m_lock` are spinlocks written with relaxed atomics in a
translation unit of their own; on x86 the exchange they compile to orders the
accesses around it. The model takes them for locks.)

A packet is `Units` units. The first unit of an incoming packet stands for its
length, which is read alone, as `addCursor` reads it; received units carry
their number in the client's stream. The connection may have been refused a
log-in before: `Init` allows what is left of that `Answer` in the buffer and in
the socket. Nobody waits for write events for it, the next packet sent queues
behind it and arms them (`AnswerLeft` in `ArmedIffWaiting`). The events are level-triggered: what `Wait`
reports is computed from the state when it returns and may be stale when it is
handled. `LastPointerGone` is the close by the last `shared_ptr` after a kick,
which leaves the socket in the epoll set until then.

If the receive queue is full when a packet is complete, the packet stays in the
buffer (the log line says it is lost, it is not) and nothing wakes the thread
for it: it is delivered when the client sends more. That every complete packet
is handled in the end does therefore not hold, and is not claimed.

### `Session`

| variable | code |
|---|---|
| `clients`, `login` | `ClientChecker::m_clients`, `m_login` |
| `allConns`, `pubConns` | `TcpConnectionManager::m_allConns`, `m_pubConns` |
| `online`, `listed` | `CoffeenetManager::m_coffeenets` and each café's `m_users` |
| `users`, `loginTels` | `UserManager::m_users` (of a user only his café), `m_loginTels` |
| `inbox`, `loading` | received packets of cafés, rows on their way from the database |
| `timer`, `cafe` | where the main timer is in `loginCheck`, and for which café |
| `net`, `lost`, `victims` | where the network thread is in `eraseConnection` and `delCoffeenet` |
| `cafeLocked` | the lock of the café map has been left locked |

`PacketConn` looks into one connection, `Session` at all of them, at the cafés
they speak for and the users on these. The two threads meet in a log-in:
`loginCheck` kicks the old session (`OfflineUsers`, `Kick`, `EraseCafe`) and
enters the new one (`AddConn`, `InsertCafe`, `Greet`), each a step because a
connection may be lost between any two; a loss (`Lose`, `DelCafe`,
`OfflineVictims`, `Drop`) holds the connection lock from end to end. All other
handlers run on the timer alone and are one step.

A step that would use an ended iterator or a null pointer sets `fault` to its
place, and nothing is said of what follows; the safety properties speak of the
states before. (`NoSuchAccount` is one of these: the row of an account that is not
in the table.) The pass over `m_clients` erases and then increments, and so may
increment `end()`. In libstdc++, which the repository is built with, the list is a
ring through its head: the pass begins again and ends at the next `end()`, with no
connection touched that it would not touch anyway, so `CheckLogin` and
`DropClient` go on. After a time-out the element at `end()` is used before any
increment; there is none, which is a `fault`. A step on a map is whole: what two threads that touch the same
`unordered_map` do to its nodes is not described. `delCoffeenet` and
`loginTelCheck` each read a node they have just erased (coffeenet_manager.cpp:61,
user_manager.cpp:194): the freed node still holds what is read, and the model
takes it so.

What the code promises of users is little: a user stays listed by every café he
has been on, and one whose café went away while he logged
in stays without a café. So the properties of the passing run are about
connections and cafés. `LoginEnds` names the one way in which everything stops:
a client that goes away between `AddConn` and `InsertCafe` of its own log-in.
Its café is not yet in the map, so `delCoffeenet` returns without unlocking
(`DelCafeMissing`), and `InsertCafe` waits for ever.

### `XmlTree`, `XmlParse`, `XmlStream`, `ProcessConfig`, `XmlForest`

The first three are functions of a document `d`: `d.n` is the heap of nodes with
their five links, `d.err` the first error, `d.abort` that an assert failed (the
build keeps them). They are checked where `ProcessConfig` uses them.

| variable of `ProcessConfig` | code |
|---|---|
| `file`, `whole` | `process.xml`, and the last complete text that was to be in it |
| `doc` | the `TiXmlDocument` of a program that edits it |
| `asked`, `edits` | that program's last request, and how many it has made |
| `up` | the process: what `load()` has put into the members of `ProcessConfig`, or how it ended |

A text is a sequence of tokens: the characters the parser looks at, and pieces it
never looks into (words, figures, `?xml`, `--`, `[CDATA[`, an entity). Names are
runs of pieces, so a cut can fall inside a name, but not inside a piece. A parse
function is given a position and the document and returns both, as the code's
return a pointer and leave a document; 0 is the null pointer. Where the code's
loops change several locals, the model recurses on them (`ParseAttributes`,
`ReadValue`, `ParseNodes`, `StreamContent`). What `StreamIn` has taken of a
stream is always a beginning of it, so its functions return a position only; its
errors are left out, `Parse` clears them.

The editing program is external; nobody in this repository edits a document, but
the library offers it, and the process depends on the same nodes. It clones
nodes of its own and of the document, at any place, and asks for a place beside a
child of another node as well. Deleted nodes are out of `d.n`, so a link to one
makes TLC stop. `ImplementsForest` is the refinement: `Nest` turns the linked
nodes into a nested tree, in which each edit changes one place.
`LinkEndChild` is called with elements, texts and comments: given a document it
trips its own assert. `Start` is one process reading the file; its flags for the
database are any value if their node is missing.

## 3. The runs

| run | instance | what it shows |
|---|---|---|
| `bracket` | a field of 0 to 5 entrants, best of three | `SingleFailInv`, `HousesOfThisRound`, `BracketWhole`; `StopsPlayedOut`; `ByesAdvance` |
| `recovery` | 3 entrants, one game per match, a crash between any two statements | `RecoverySound`; `FinishesUnlessTorn` |
| `board` | a province's fight, a city's that feeds it, a café's under another rule; 1 team, 1 failing query, 2 unanswered ones when a tick adds two | `BoardInv`; `ResetOnlyByOverlap`, `OnlyWinnersJoinLate`; `PostsArrive` |
| `house` | teams of 3 and 2, 2 cafés, 4 houses or log-ins | `HouseInv`; `LedHousesStart` |
| `team` | 3 users, 1 game, 2 servers, teams of 2, 2 teams, 1 crash | `TeamInv`, `QueuedStatementsCatchUp`, `NoOrphanRows` |
| `accounts` | 1 user, 2 log-ins, 1 failing statement, lists of 0, 4 and 5 in messages of 2 | `AccountsInv`; `LoadReplacesNobody`; `MainDataArrives` |
| `ring` | 4 cells, counters modulo 8, two items | `RingSafe`; `ImplementsFifo` |
| `dbconn` | queues of 2, 3 statements, 2 signals | `DbInv`; `EveryAnswerHandled`, `StopEnds` |
| `conn` | 3 packets of 2 units out, perhaps an earlier answer ahead of them, a socket of 2 units, a queue that refuses beyond 1; 5 units in, a receive queue of 1 | `ConnInv`, `ReceivedInOrder`; `ImplementsLine`; `EveryPacketSent` |
| `session` | 2 connections at a time (closed ones come again), 2 cafés, 1 user | `SessionInv`, `CafesMatchConns`; `LoginEnds` |
| `privnet` | 3 processes, two of which dial the third, one of them without an id; 2 connections at a time for a pair; a café at each end of one dialled pair, each with the other process' id; 2 crashes | `PrivateNetInv`; `ResumedWhenLinked`; `LinkedInTheEnd`, `Resumes` |
| `config` | 11 files, 2 processes; documents of up to 6 nodes for the first edit and 4 for the second; 5 nodes of the client's, 2 attributes, 2 values | `XmlInv`, `SavedReadsBack`, `CutShows`, `ConfigSound`; `ImplementsForest` |

Invariants first, then action properties and refinements, then liveness.

**Bounds.** Five entrants give a bracket of eight seats: three rounds, three
byes, a round whose matches end in every order, and fields of 0 to 5 give every
kind of padding below it. The rule looks at ids only through their order, so
the fields `{}`, `{1}`, ..., `{1..5}` (`FirstTeams` in `MCSingleFail`) stand for
every field of their size. Best of three lets games that do not end a match, and
reports that contradict, fall between others. `recovery` has three entrants, who
meet in a bye, a semi-final and a final; no handler runs while statements of an
earlier one are queued (`MaxBacklog = 0`). That loses no crash: statements are
executed in order, so one that falls among those of an earlier handler leaves the
rows it would leave if the later ones had not run. Four entrants meet
there a match that is not found (below).

Four cells are passed twice before the counters wrap at eight, so a full ring,
an empty ring and a wrap meet; the proofs lift both numbers. Queues of two with
three statements overflow on either side. Three users for teams of two are the
least for which the roster limit refuses someone, two teams the least for two
applications at once; `MaxReads`, `MaxWrites`, `MaxIssued` and `MaxCrashes` bound
the statements waiting, those ever issued and the restarts, and the proofs lift
all of them. Three outgoing packets behind an answer are the least that fill the send buffer
and a queue of two, so that the last may be refused; a packet of two units can be
cut, and a socket of two can be full. Five units in are two packets and the
beginning of a third, which meet a full receive queue; the proofs lift every
number. Two connections are an old session and a log-in that kicks it, or two
cafés for a user to move between; as a closed connection comes again as a new
one, runs of any length are in reach.

Three fights on the board are the least ladder with a fight that is never built;
one posted at the start and two later give the searches something to find while
the load is under way, two unanswered queries let them overlap, one may fail.
One team is enough to be entered, promoted and reset. The first fight has an
entrant already; the city's opens its sign-up in the first minute and starts in
the second. No fight of the instance is paused; the theorems about the board are
for every `Posting`. Teams of three and two
have players besides the leader, one leader names himself or not, and two cafés
separate them. `accounts` has lists that end in a full message (4), in one that
is not full (5) and in none (0); the code's five is `PageSize`. `privnet` has a
process that dials, another that dials without having an id, and the one both
dial; two connections for a pair let a redial meet what the crash
left, and two crashes hit both ends. The cafés have the ids that do harm: a café
at the dialled process with the dialler's id, one at the dialler with that of the
process it dials. One that shares no id never meets a private entry.

The files of `config` are the repository's `process.xml` with two of its
processes, the same contents in another order and spelling, a configuration small
enough to be edited, and small documents with every kind of node and of error.
The longest is cut at every token. An edit beside a node needs the node, its
neighbours on both sides and a parent: four nodes with the document, and the
second edit meets every tree the first one leaves. A second value has all the
characters that are encoded.

**Fairness.** `TimerSpec`: the minute timer keeps calling `contrl` (the thread
loops until the process ends). `CoopFairness` adds assumptions about people,
named so: the clock goes on, leaders who may create a house or make a report that
settles their match in the end do; strong fairness, because the other leader's
steps disable and enable theirs. In `House`, players press ready as long as it
does something. In `SpscQueue` each thread goes on inside a call (the
loops are bounded, nothing blocks); nobody has to call. In `DbConnection` every
thread goes on, a tick ends and the 50 ms event comes again and again (strong:
business in between keeps the tick busy), callbacks return; neither signals nor
private connections have to come. In `FightBoard`, `Accounts` and `FightRecovery`
the database thread goes on and the main timer runs callbacks and ticks: one
queue each, which other handlers cannot keep from being drained (weak);
the clock need not go on in `FightBoard`. In
`PacketConn` a call that was begun goes on
(weak), the network thread goes on though the other thread may hold a lock it
wants now and again, and the tick that takes received packets comes again and
again though sends delay it (both strong); the client that stays reads what it
is sent. In `Session` the database answers a log-in and its callback comes though
other handlers delay it (strong), the timer goes on in a log-in though the network
thread takes the connection lock now and again (strong), and the network thread
goes on (weak). Nothing makes the client write or go, or the timer send or kick.
In `PrivateNet` every thread passes over all its connections (weak, for each
connection), and a process that stopped is started again; that is the one
assumption about the outside. The liveness runs use no symmetry.

`CHECK_DEADLOCK FALSE` stands where the system may stop: the process exits
(`dbconn`), a connection ends (`conn`), a fault ends the description (`session`,
`house`, `accounts`), a fight is over (`recovery`), a process without work waits
(`privnet`), the process has read its file (`config`), and the bounds on statements or on the clock run out (`team`, `board`).

### Known disagreements

Met while modelling, written into the models as the code has them, and excluded
from the properties by name:

* fight_rule.h:52 says that a match is kept under the smaller of its two ids, and
  `fightResult` looks it up there (fight_rule_single_fail.cpp:344).
  `createChallData` keeps it under the team with the lower position (:112). With
  entrants 1 to 4, 4 beats 1 and 2 beats 3, the final is kept under 4: no report
  of it is ever accepted, and the fight never ends. `BracketWhole` says that it
  takes two teams that have won before.
* `getTop` takes the first entrants by id and sorts only those by rounds won
  (fight_rule_single_fail.cpp:255): the champion need not be promoted, and a
  parent that takes no number gets one all the same.
* A sign-up stores an id that was never set (fight_rule.cpp:44); a winner who is
  promoted late enters a parent that already runs (fight.cpp:258).
* `fightMemData` clears only the first bytes of its message and counts entrants
  it skips (fight_manager.cpp:410); an empty list from the database is not
  answered at all (coffeenet_db.cpp:126).
* `m_allFights` is never filled (fight_manager.cpp:239 reads it), so the search
  for a fight of the whole country finds nothing.
* `ChallengerMem` refuses a player who has gone through the user it did not find
  (fight_manager.cpp:781) and uses a fight or an entrant it has just said does not
  exist (:764-789).
* The start of a game is sent to the café of the leader who was ready last, also
  for players of other cafés (fight_rule.cpp:130).
* An approval does not look whether the applicant has joined another team since
  (team_manager.cpp:507): a user can be a member of two teams of a game. After a
  restart an applicant counts as a member for `haveTeam` (:98).
* A user stays listed at a café he has left, and goes with it
  (coffeenet.cpp:58); the loss of a client in the midst of its own log-in leaves
  the café map locked (coffeenet_manager.cpp:53).
* A user who gets his identity after his log-in is not sent his main data before
  he logs in again (user.cpp:117).
* A process that is dialled counts accepted connections too: it may resume with
  its own missing, or never (process.cpp:254).
* The ids of cafés and of processes are looked up in one place as if they could
  not be equal (tcp_connection_manager.cpp:233), but `process.xml` numbers its
  processes from 1 and the cafés' numbers come from their table. If a process
  has a café and a private peer of the same number, the loss of the peer takes
  away the café's entry and logs the café out (`e_afterErasePublicConn`), although
  its connection stays; the peer's own entry stays in `m_priConns`, so it is
  neither redialled nor let in again until the café's connection goes. With the
  configuration as shipped no process has both.
* The answer to a log-in that was refused is sent once (coffeenet_checker.cpp:313);
  what the socket had no room for waits until the café has logged in and the next
  packet is sent to it.
* The row of an unknown account is used before it is looked at
  (coffeenet_db.cpp:43).
* The loader asks for `connectProcess` (process_config.cpp:91), the repository's
  `process.xml` has `connectionProcess`: its processes dial nobody. A file that
  could not be read to its end is used all the same (xml_parse_doc.cpp:16), and
  one that ends after a blank in its declaration ends the process at an assert
  (tinyxmlparser.cpp:543).
* `operator>>` stops inside a comment that begins with `>` or `->`
  (tinyxmlparser.cpp:1325; `PlainInStream` excludes both, the instance has no such
  comment), and at an unknown node that begins with a blank and a slash (:641);
  nothing in the repository calls it; `EncodeString`
  leaves what looks like a reference alone, and a reader turns it into a character
  (tinyxml.cpp:59).
* Signing up: a repeated request cancels the first (user_manager.cpp:50), the
  answer is looked up under the QQ number (user_db.cpp:49) or under a key of fixed
  length (coffeenet_checker.cpp:270), and its result is read as a byte of text
  (coffeenet_db.cpp:101). That part is not modelled.

## 4. What is proved

`SingleFailProofs`, for every set of ids, a field of any size, best of 1, 3, 5 or
7, and any number of teams to promote:

| theorem | statement |
|---|---|
| `RoundsAreSound` | `Spec => []IInv` |
| `MatchesAreSound` | `Spec => []SingleFailInv` |
| `HousesEndWithTheirMatch` | `Spec => []HousesOfThisRound` |
| `StopsWhenPlayedOut` | `Spec => StopsPlayedOut` |
| `BracketIsWhole` | `Spec => []BracketWhole` |
| `RecoveryIsSound` | `RecoverySpec => []RecoverySound`, for any backlog of statements and any number of crashes |

That `createChallData` never meets an odd number of teams is a fact about all the
rounds before. `Halving` carries it: the matches of a round and the teams that are
through it are together as many as a power of two, of which a match that ends
takes one place and leaves one (`SettledSeats`, a bijection from the places
before the loop to those after it). `Matches`, `Opponents` and `Spread` make the
loop well defined: no team is in two matches, whoever has an opponent is in one,
and no two have the same place. `Level` says that those in a match have won
equally often and the others once more; with `Reports` and `Undecided` it gives
`HousesOfThisRound`. `RuleKeeps` is one call of `contrl`, in which the endless
`continue` and the dereferenced `end()` are shown to be out of reach;
`FirstRound` is `initPosition`, from `SeedsAre`; `PairedRound` is
`createChallData`, from `NeighbourIs`. `PositionValIs` says what `getPositionVal`
computes. In the place of an induction over its loop and the ranks the first lemmas
have that a set of numbers has a least one and that counting those below numbers a
set from 0 on.

`BracketWhole` says of every match and of the end what only the whole history
explains, so it needs an invariant of its own beside `IInv`: `TreeInv`, that the
matches and results are a `Tree` of some level `v`. A team in a match has won `v`
times and one that is through the round `v + 1` times, whoever is out no more than
`v` (`Wins`); every team comes from the part of the bracket of exactly one team that
is left (`Parts`); two opponents are the two halves of one part (`Halves`); every even
place was given to a team (`Seeded`); the seats of the round times the size of a part fill the bracket, and so does every
earlier round's number of winners (`Counts`); and a match of the first round is kept
under the smaller id (`Keyed`). `SettledTree` is the loop of `contrl`: a part passes
from the loser to the winner and stays one team's (`Won`, `LostTo`), so the level
rises where the match has ended. `PairedTree` is `createChallData`: without a gap in
the numbers of the parts (`PartsInOrder`) a team's place by position is the number of
its part, so whom the code takes as neighbours are two halves. `FirstTree` is
`initPosition`, where `SeedPlaces` gives the places and the larger id of the worse
seed. The powers of two are `BlockSize`, a recursive function over `Doubled`, because
the provers know nothing of `^`.

`RecoveryIsSound` is about what a crash leaves. Memory alone does not decide that, nor
do the rows alone: a crash may come before any statement of the queue. So the
invariant follows the rows statement by statement. `Live` is a fight from which the
rule can go on: entered and not seeded, or one of which `Played` and `Tree` hold.
A table is `Resumable` when a live fight without houses is in it, and a `Path` is
the tables from `rows` on, one for each statement, with a resumable one in front
of every statement that is `safe`. `RecInv` says, unless `torn`, that memory is
live, that no fault was met, and that a path from the rows through what is queued
ends in tables that have `Caught` up with memory. That is inductive where
`RecoverySound` is not: executing a statement takes the first step of the path
(`LeadsNext`), a handler lengthens it (`LeadsJoined`), and a crash before a safe
statement, or with nothing queued, loads a live fight (`CaughtResumes`,
`RestartKeeps`). What is left is one path per handler: `SeedLeads`, in which only
the first pair's statements are safe; `SettleLeads`, in which the walk over
the matches is cut after each of them, so that every fight half settled has to be
live (`LoopStep`: the loop over some of the matches first, then over the next, is
the loop over all of them, for any set of them, and `LoopLive` that such a part of it
keeps the bracket); `PairLeads`, none of whose statements is safe (`OpenersAre`: the
pairs in the order of positions open all the matches); and `StatusLeads` for the
status. `LeadsJoined` makes one path of the paths of the groups, and `LeadsIsRan` has
that a path leads to `Ran`; both are inductions along a queue (`OneByOne`).
With the loser's row left out of `SettleMatch` exactly the case of a match that ends in
`SettleMatchLeads` is no longer provable.

`SpscQueueProofs`, for every set of items, every `Size > 0` and every `Width`
that `Size` divides:

| theorem | statement |
|---|---|
| `RingInvariant` | `Spec => []RingInv` |
| `TypeCorrect` | `Spec => []TypeOK` |
| `ItemsNeverRace` | `Spec => []NoRace` |
| `SeenItemIsPopped` | `Spec => []SeenItemStays` |
| `RingIsSafe` | `Spec => []RingSafe`, all of them, as the run checks it |
| `RingIsFifo` | `Safety => Fifo!Safety` |

`TypeOK`, `NoRace` and `SeenItemStays` are not inductive: they say nothing of
how statuses, positions and counters belong together. `RingInv` does: the full
cells are exactly the `Count` cells from the head on (`FullCellsInOrder`), a
position in use is its counter's or the one before (`PositionsFollowCounters`),
what a thread saw of its cell stays true (`LookStaysTrue`), and the published
item is the argument (`ItemInPlace`). `RealPosSucc` is the arithmetic of the
wrap, `DistanceFacts`, `DistancePush` and `DistancePop` that of the ring;
`QuietShape`, `PublishShape` and `ReleaseShape` say how a step changes the
shape, `QuietItems`, `PublishItems` and `ReleaseItems` how it changes the queue
the ring stands for. `FifoStep` maps every step to a step of the queue or a
stutter: `PushPublish` to `Push`, `PopRelease` to `Pop`, the last refused looks
to `RefusePush` and `RefusePop`, everything else to calls and stutters.

`ConnectionProofs`, first part: `PacketConn`, for every number of packets, every length, every room of
socket and queues:

| theorem | statement |
|---|---|
| `ConnInvariant` | `Safety => []ConnInv` |
| `ArmedWhenWaiting` | `Safety => []ArmedIffWaiting` |
| `ConnIsLine` | `Safety => ImplementsLine` |
| `ReceivesInOrder` | `Safety => []ReceivedInOrder` |

What a reader wants of the locks is `ArmedIffWaiting`: outside of `sendLock` the
socket waits for write events exactly when a packet waits in the buffer. Inside
it does not hold, so the invariant adds what each thread still owes
(`ArmedInside`), that the buffer is used by one thread at a time (`OneSender`)
and that packets queue only behind one in the buffer (`BufferBeforeQueue`).
`NextConnInv` has one step per action. `LineStep` maps the steps to the line:
`QuietLine` for those that leave it alone, `RestLeaves` and `PartLeaves` for
the two outcomes of `trySend` in either thread. Receiving is a fact about one
sequence, `recvBuf \o sockIn`, that continues `Taken`; it is inductive together
with `TypeOK`, and the lemmas before it say how a prefix moves from the socket
to the buffer (`MoveHead`, `SplitSeq`) and from there to the queue
(`PacketComplete`).

`SessionProofs`, for every number of connections, cafés and users:

| theorem | statement |
|---|---|
| `SessionInvariant` | `Safety => []SessionInv` |
| `IdsAreFree` | `Safety => []NoDuplicateId` |
| `CafesHaveConns` | `Safety => []CafesMatchConns` |
| `LeftLockedOnlyByOwnLogin` | the lock of the café map stays locked only during the log-in of a client that has gone |

`CafesMatchConns` speaks of the states in which both threads are done;
`SessionInv` says how the café map and the connection maps may part in between.
`PartedOnPurpose` names the two places (a loss before `DelCafe`, a kick before
`EraseCafe`) where a café has no connection, and the one (between `AddConn` and
`InsertCafe`) where a connection has no café. `LockKept` follows a loss that hits
the log-in of its own café. Under both lies `ConnMapsAgree`, with the id of the
connection being lost free until `Drop`: that is what `m_lock`, held from `Lose`
to `Drop`, is for. `OneHand` makes the connection of a log-in unregistered until
`AddConn`. All steps together are in `NextSessionInv`, one step per action; the
assumption used is that `Nil` is no connection and no café.

`FightManagerProofs`, first part: `House`, for any two teams with any members,
leaders and cafés:

| theorem | statement |
|---|---|
| `StartIsRight` | `HouseSpec => []HouseInv` |

The second leader's `ready` looks at one flag of the other house, its leader's.
That this flag means the whole house is ready is `MarkMeansReady`: it is set when
all the others are (`ReadyLeader`) or by a report (`early`), and flags go down
only together (`CreateHouse`). With `NoHouseNoBoss`, which keeps a house that is
not made from having a leader, it is inductive; `MarkReady` and `CreateHouse` are
treated once, in `Marked` and `Created`.

`ConnectionProofs`, second part: `PrivateNet`, for any processes and cafés, whatever ids they
share and whatever is dialled, and any number of connections and crashes:

| theorem | statement |
|---|---|
| `TablesAreSound` | `NetSafety => []PrivateNetInv` |
| `ResumesLinked` | `NetSafety => ResumedWhenLinked` |

`TableSound` does not say why an id that arrives is the peer's. `ToldRight` does:
what is on its way to a side is the other's id or a refusal, and an acceptor that
is about to confirm holds the dialler's. `Registered` says under which id a
registered connection is in the table, `Entries` what each id stands for.
`QuietStep`, `ConfirmStep` and `ShutStep` are the three things a step can do to a
side; every action is one or two of them. When a registered connection goes,
`EraseConnection` takes one of two entries, and `Accounted` keeps the books: the
connections of a café at a process are as many as its entries in `m_pubConns` and
the stale private entries of its number there. So a stale entry is there exactly
while a café's connection lacks its own, which is the last part of `TableSound`.
The only assumptions are that ids are natural numbers and processes finitely many
(`PrivateAssumption`); processes may dial each other, and themselves. The main thread
resumes the timer on a count, not on the ids it was told to dial; `ResumesLinked` is that
for a process nobody dials the count suffices (`OwnDials`: every id in its table
is one it dials, and the table is no larger than the set of those), and that no
entry it counts is stale: cafés log in only once the timer runs (`NoneYet`).

`TeamProofs`, for any number of users, games, servers, teams, statements and
crashes:

| theorem | statement |
|---|---|
| `TeamsAreSound` | `Spec => []TeamInv` |
| `NoMemberWithoutTeam` | `Spec => []NoOrphanRows` |
| `StatementsCatchUp` | `Spec => []QueuedStatementsCatchUp` |

A crash throws away the queue and loads the rows, so the invariant has to know
what rows a crash can leave: `TeamsFirst` says of every statement on its way that
adds a member that the row of his team is there or further ahead in the queue, for every
prefix of which a crash may be the end; `RowsOfMembers` that every row of a
member, written or queued, is that of a member in memory, so that the limit on
teams in memory bounds what a restart loads. `ApplyTeam`, `ApplyMem`,
`ApplyRefuse` and `ApplyGame` say what a statement does to the rows, `OneStatement`
what queueing one does, and each handler is a lemma. `LargestId` proves that
`createTeamId` finds a largest id; it goes by the well-foundedness of the strict
subset order on finite sets, in the place of an induction.

`StatementsCatchUp` speaks of `Ran(r, q)`, the tables after all the statements of
a queue, a recursive function. `StepByStep` is what makes it accessible: what
holds at 0 and goes on from each number below n to the next holds at n, else
there were a least number at which it did not. From it follow that `Ran` is the
only function with these steps (`RanIs`), that a statement issued is one more
`Apply` (`RanAppend`), and that executing the oldest one leaves the end where it
was (`RanHead`). The invariant is then inductive with `TeamInv`: a handler
changes memory and `Ran` in the same way, the database's thread neither.

`DbConnectionProofs`, for queues of any size, any number of statements and
signals:

| theorem | statement |
|---|---|
| `StatementsAreSound` | `Spec => []DbInv` |

`Control` is about the threads (who was launched, whom a signal stopped), `Fates`
about the statements. Both orders are facts about one sequence: what was executed,
what the thread holds and what is queued, one behind the other, ascend (`Flow`),
and so do the results handled and those queued (`Answered`). That nothing is lost
below `Cap` is a count: the statements outstanding are those in the two queues
and in the thread's hands (`Accounted`), so a full queue means that more than
`Cap` were outstanding at once (`PeakSeen`). `StoreFates`, `QueryFates`,
`DrainFates` and `CallBackFates` are the four ways in which a statement moves.

`FightManagerProofs`, second part: `FightBoard`, for any fights on any ladder,
any teams and cafés, and any number of queries, executed or lost:

| theorem | statement |
|---|---|
| `BoardIsSound` | `Spec => []BoardInv` |
| `ResetsAreOverlaps` | `Spec => ResetOnlyByOverlap` |
| `LateJoinersWon` | `Spec => OnlyWinnersJoinLate` |

Answers that wait and queries that wait are numbered as one queue (`Kind(i)`,
`Brings(i, f)`: may entry i bring fight f?), so that executing a query changes
nothing (`QueueStep`). `BoardIInv` adds to `BoardInv` what may wait behind what:
`Loading`, the three queries of the load in their order, with the searches that
a minute tick issued before the fights were known ahead of the entrants, none of
those behind them bringing an old fight; and `Searches`, that no waiting search
brings a fight that has loaded entrants, and one that overlapped none brings no
fight in memory. The second half is `ResetsAreOverlaps`; without the first half
`LoadedStay`, that what the start-up loaded stays, would not be inductive.
`AnswersRight` says what rows an answer can name, `FightsRight` how memory and
the index belong together. `MaxClock` and `MaxLost` may be any numbers
(`BoundAssumption`), a fight's parent was posted before it (`LadderAssumption`).

`AccountsProofs`, for any users and members, any number of log-ins and failing
statements, and lists of any length in messages of any size above 0:

| theorem | statement |
|---|---|
| `AccountsAreSound` | `Safety => []AccountsInv` |
| `NobodyIsReplaced` | `Safety => LoadReplacesNobody` |

The read connection is again one queue, answers first (`Waiting`, `Kind`, `Who`),
and every step takes its first entry, adds at the end, or both (`QueueStep`).
`IInv` is: `Types`; `Order`, what kind may wait and what may wait behind it, a condition
on each entry and on each pair (`Fits`); `Selects`, that a session counts exactly
the selects of its user that wait (`Counted`), which is what decides that main
data are sent; `Known`, that an identity in memory or on its way is one of the
table; `Tells`, that as long as no statement has failed the last answer about an
identity tells what the table holds, and memory does when none waits; and
`ListsWhole`. The last is about `Pages`, which a recursive function fills
(`Filled`): `PagesWhole` has by `StepByStep` that the messages joined are the
list, each of them full but the last. `NilAssumption` says that `Nil` is none of
the records it stands in for; a version is at least 1 (`AccountsAssumption`).
Without the guard on `m_loginTels` in `LoginTel` exactly the step of that handler
is no longer provable.

Only model-checked:

* every liveness property, and with them that both calls of the ring return (the
  fairness of `Fifo!FairSpec` needs `ENABLED`): beyond the prover;
* everything about documents (`XmlInv`, `SavedReadsBack`, `CutShows`,
  `ConfigSound`, `ImplementsForest`): the functions of the XML library are
  recursive operators on heaps, which the provers cannot see into.

The library's induction theorems take an operator, which none of the provers can
be given. Where a recursive function has to be followed (`Ran`, `Filled`) the
proofs use a least counterexample (`StepByStep`, `OneByOne`) instead.

## 5. Not modelled, and what is left

* Of the XML library: positions in the text, white space kept on request, the byte
  order mark, encodings and characters beyond ASCII, numbers as attribute values,
  user data, and documents given to `LinkEndChild`.
* Generic code: md5 in two copies, the string, date and log helpers.
* `fight_rule_loop` and `fight_rule_time_score`: no rule of the Makefile links
  them and nothing creates them.
* Sockets, epoll wrappers, the message records and the table of handlers:
  input and output, and a table filled once.
* The queries of the fight manager that only format one fight, and the signing up
  of users and cafés, whose answers go astray as listed above.
* MySQL and the stored procedures beyond their effect on keys. The handlers are
  given the inputs of well-behaved clients: an entrant's leader, a listed
  applicant.
* A data race inside a container (the maps two threads use without a lock in
  `Session`): the models stop at whole operations.

Left to do, in this order: a field in
`SingleFail` that late winners may enter, and the network threads in the launch and
the stop of `DbConnection`.
