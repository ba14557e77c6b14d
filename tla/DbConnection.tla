---------------------------- MODULE DbConnection ----------------------------
(***************************************************************************)
(* One database connection of the process: DbConnection                    *)
(* (base/process/db_connection.cpp) with the two threads that share it,    *)
(* its own and the main timer's, from Process::lanchThreads to the end     *)
(* that Process::stop leads to (process.cpp, process_thread.cpp,           *)
(* process_timer.cpp).                                                     *)
(*                                                                         *)
(* The two queues are LockFreeCircularQueueSPSC.  SpscQueue shows that     *)
(* each of their operations acts at one instant, so push and pop are one   *)
(* step each here, and that the branches "not empty but pop failed" are    *)
(* dead.  A statement is a record of its number, in the order of issue,    *)
(* and of whether a callback waits for its result; what MySQL answers,     *)
(* errors included, changes nothing here: an error is logged and the       *)
(* callback runs with a null result.                                       *)
(*                                                                         *)
(* Operators named _Slip<What> are mutated forms, as in SingleFail.        *)
(***************************************************************************)
EXTENDS Integers, Sequences, FiniteSets

CONSTANTS
  Cap,         \* maxSize() of either queue
  MaxQueries,  \* bound: statements issued
  MaxSignals   \* bound: SIGINT or SIGTERM received

ASSUME CapAssumption == Cap \in Nat \ {0} /\ MaxQueries \in Nat /\ MaxSignals \in Nat

VARIABLES
  in, out,     \* m_callBackSqlIn, m_callBackSqlOut
  db, held,    \* the connection's thread: where exec() is, the popped statement
  timer,       \* the main timer's thread: where ProcessTimer::exec() is
  suspended,   \* ProcessTimer::m_suspend
  on,          \* the threads whose ProcessThread::m_switch is on
  threads,     \* Process::m_threads
  main,        \* the main thread: the next step of init, lanchThreads, joinThreads
  stopping,    \* the loop of Process::stop, "" when no signal is being handled
  signals,     \* how many signals came
  issued, refused, executed, dropped, handled,   \* the fate of every statement
  peak         \* the most statements that were ever outstanding

queues  == <<in, out>>
control == <<on, threads, main, stopping, signals>>
fates   == <<refused, executed, dropped, handled>>
vars == <<queues, db, held, timer, suspended, control, issued, fates, peak>>

Query == [id : 1..MaxQueries, back : BOOLEAN]

Init ==
  /\ in = <<>> /\ out = <<>>
  /\ db = "off" /\ held = <<>>
  /\ timer = "off" /\ suspended = FALSE
  /\ on = {} /\ threads = {} /\ main = "init"
  /\ stopping = "" /\ signals = 0
  /\ issued = 0 /\ refused = {} /\ executed = <<>> /\ dropped = {} /\ handled = <<>>
  /\ peak = 0

\* Statements accepted whose last step, execution or callback, is still to come.
Outstanding ==
  issued - Cardinality(refused) - Cardinality(dropped) - Len(handled)
    - Cardinality({i \in DOMAIN executed : ~executed[i].back})

(***************************************************************************)
(* The producer's side: the main thread during init, then the main timer's *)
(* business, message handlers and database callbacks.                      *)
(***************************************************************************)

\* exeStoreSql: a statement that finds the queue full is logged and forgotten.
ExeStoreSql ==
  /\ main = "init" \/ timer \in {"tick", "handler"}
  /\ issued < MaxQueries
  /\ issued' = issued + 1
  /\ peak' = IF Outstanding + 1 > peak THEN Outstanding + 1 ELSE peak
  /\ \E back \in BOOLEAN :
       LET q == [id |-> issued + 1, back |-> back]
       IN IF Len(in) < Cap THEN in' = Append(in, q) /\ UNCHANGED refused
                           ELSE refused' = refused \cup {q.id} /\ UNCHANGED in
  /\ UNCHANGED <<out, db, held, timer, suspended, control, executed, dropped, handled>>

\* ProcessTimer::exec: the switch is looked at between ticks only.
TimerWakes ==
  /\ timer = "wake"
  /\ timer' = IF "timer" \notin on THEN "ended"
              ELSE IF suspended THEN "wake" ELSE "tick"
  /\ UNCHANGED <<queues, db, held, suspended, control, issued, fates, peak>>

TickEnds ==
  /\ timer = "tick"
  /\ timer' = "wake"
  /\ UNCHANGED <<queues, db, held, suspended, control, issued, fates, peak>>

\* The 50 ms event: callBackTimerExec.
CallBackTimerExec ==
  /\ timer = "tick"
  /\ timer' = "callback"
  /\ UNCHANGED <<queues, db, held, suspended, control, issued, fates, peak>>

CallBackPop_SlipTwice ==
  /\ timer = "callback"
  /\ IF out = <<>> THEN timer' = "tick" /\ UNCHANGED <<out, handled>>
     ELSE /\ timer' = "handler"
          /\ handled' = Append(handled, Head(out))
          /\ out' = IF Len(out) > 1 THEN Tail(Tail(out)) ELSE <<>>
  /\ UNCHANGED <<in, db, held, suspended, control, issued, refused, executed, dropped, peak>>

\* Its loop: pop a result and run the callback, or leave when there is none.
CallBackPop ==
  /\ timer = "callback"
  /\ IF out = <<>> THEN timer' = "tick" /\ UNCHANGED <<out, handled>>
     ELSE /\ timer' = "handler"
          /\ handled' = Append(handled, Head(out))
          /\ out' = Tail(out)
  /\ UNCHANGED <<in, db, held, suspended, control, issued, refused, executed, dropped, peak>>

HandlerReturns ==
  /\ timer = "handler"
  /\ timer' = "callback"
  /\ UNCHANGED <<queues, db, held, suspended, control, issued, fates, peak>>

(***************************************************************************)
(* The connection's thread: exec.                                          *)
(***************************************************************************)

\* checkSwitch; a stopped thread returns, whatever its queue holds by now.
Check ==
  /\ db = "check"
  /\ db' = IF "db" \in on THEN "drain" ELSE "ended"
  /\ UNCHANGED <<queues, held, timer, suspended, control, issued, fates, peak>>

Drain_SlipLast ==
  /\ db = "drain"
  /\ IF in = <<>> THEN db' = "sleep" /\ UNCHANGED <<in, held>>
                  ELSE db' = "query" /\ held' = <<in[Len(in)]>>
                       /\ in' = SubSeq(in, 1, Len(in) - 1)
  /\ UNCHANGED <<out, timer, suspended, control, issued, fates, peak>>

\* The inner loop's test and pop.
Drain ==
  /\ db = "drain"
  /\ IF in = <<>> THEN db' = "sleep" /\ UNCHANGED <<in, held>>
                  ELSE db' = "query" /\ held' = <<Head(in)>> /\ in' = Tail(in)
  /\ UNCHANGED <<out, timer, suspended, control, issued, fates, peak>>

\* The statement has run; what push answers for its result is not looked at.
QueryDone ==
  /\ db = "query"
  /\ executed' = executed \o held
  /\ LET q == held[1]
     IN CASE ~q.back             -> UNCHANGED <<out, dropped>>
          [] q.back /\ Len(out) < Cap -> out' = Append(out, q) /\ UNCHANGED dropped
          [] OTHER               -> dropped' = dropped \cup {q.id} /\ UNCHANGED out
  /\ db' = "drain" /\ held' = <<>>
  /\ UNCHANGED <<in, timer, suspended, control, issued, refused, handled, peak>>

SleepEnds ==
  /\ db = "sleep"
  /\ db' = "check"
  /\ UNCHANGED <<queues, held, timer, suspended, control, issued, fates, peak>>

(***************************************************************************)
(* The main thread, and the signal handler.                                *)
(***************************************************************************)

\* init is over; ProcessThread::run turns the switch on and starts exec.
RunDb ==
  /\ main = "init" /\ main' = "insert db"
  /\ on' = on \cup {"db"} /\ db' = "check"
  /\ UNCHANGED <<queues, held, timer, suspended, threads, stopping, signals, issued, fates, peak>>

InsertDb ==
  /\ main = "insert db" /\ main' = "run timer"
  /\ threads' = threads \cup {"db"}
  /\ UNCHANGED <<queues, db, held, timer, suspended, on, stopping, signals, issued, fates, peak>>

RunTimer ==
  /\ main = "run timer" /\ main' = "insert timer"
  /\ suspended' = TRUE
  /\ on' = on \cup {"timer"} /\ timer' = "wake"
  /\ UNCHANGED <<queues, db, held, threads, stopping, signals, issued, fates, peak>>

InsertTimer ==
  /\ main = "insert timer" /\ main' = "join"
  /\ threads' = threads \cup {"timer"}
  /\ UNCHANGED <<queues, db, held, timer, suspended, on, stopping, signals, issued, fates, peak>>

\* joinThreads: all private connections are up.
Resume ==
  /\ main = "join" /\ threads # {} /\ suspended
  /\ suspended' = FALSE
  /\ UNCHANGED <<queues, db, held, timer, control, issued, fates, peak>>

\* joinThreads: a thread has returned from exec.
Join(t) ==
  /\ main = "join" /\ t \in threads
  /\ IF t = "db" THEN db = "ended" ELSE timer = "ended"
  /\ threads' = threads \ {t}
  /\ UNCHANGED <<queues, db, held, timer, suspended, on, main, stopping, signals, issued, fates, peak>>

\* joinThreads returns when no thread is left, and the process exits.
Exit ==
  /\ main = "join" /\ threads = {}
  /\ main' = "exited"
  /\ UNCHANGED <<queues, db, held, timer, suspended, on, threads, stopping, signals, issued, fates, peak>>

Signal ==
  /\ main # "exited" /\ stopping = "" /\ signals < MaxSignals
  /\ stopping' = "db" /\ signals' = signals + 1
  /\ UNCHANGED <<queues, db, held, timer, suspended, on, threads, main, issued, fates, peak>>

StopThread_SlipFirst ==
  /\ stopping # ""
  /\ IF stopping \in threads THEN on' = on \ {stopping} ELSE UNCHANGED on
  /\ stopping' = ""
  /\ UNCHANGED <<queues, db, held, timer, suspended, threads, main, signals, issued, fates, peak>>

\* stop() goes through m_threads in the order of their names, "db ..." before
\* "main timer"; a thread that is not in the map yet is not stopped.
StopThread ==
  /\ stopping # ""
  /\ IF stopping \in threads THEN on' = on \ {stopping} ELSE UNCHANGED on
  /\ stopping' = IF stopping = "db" THEN "timer" ELSE ""
  /\ UNCHANGED <<queues, db, held, timer, suspended, threads, main, signals, issued, fates, peak>>

DbThread == Check \/ Drain \/ QueryDone \/ SleepEnds
Timer    == TimerWakes \/ TickEnds \/ CallBackTimerExec \/ CallBackPop \/ HandlerReturns
Launch   == RunDb \/ InsertDb \/ RunTimer \/ InsertTimer
MainJoin == Join("db") \/ Join("timer") \/ Exit

Next ==
  \/ ExeStoreSql \/ Timer
  \/ DbThread
  \/ Launch \/ Resume \/ MainJoin
  \/ Signal \/ StopThread

Safety == Init /\ [][Next]_vars

\* All threads keep running, the ticks end, the 50 ms event comes again and
\* again, and every callback returns; the private connections may never come up
\* and a signal may never come.
Spec ==
  /\ Safety
  /\ WF_vars(DbThread) /\ WF_vars(Launch) /\ WF_vars(MainJoin) /\ WF_vars(StopThread)
  /\ WF_vars(TimerWakes) /\ WF_vars(CallBackPop) /\ WF_vars(HandlerReturns)
  /\ SF_vars(TickEnds) /\ SF_vars(CallBackTimerExec)

(***************************************************************************)
(* Properties.                                                             *)
(***************************************************************************)

TypeOK ==
  /\ in \in Seq(Query) /\ Len(in) <= Cap /\ out \in Seq(Query) /\ Len(out) <= Cap
  /\ db \in {"off", "check", "drain", "query", "sleep", "ended"}
  /\ held \in {<<>>} \cup {<<q>> : q \in Query} /\ (db = "query" <=> held # <<>>)
  /\ timer \in {"off", "wake", "tick", "callback", "handler", "ended"}
  /\ suspended \in BOOLEAN
  /\ on \subseteq {"db", "timer"} /\ threads \subseteq {"db", "timer"}
  /\ main \in {"init", "insert db", "run timer", "insert timer", "join", "exited"}
  /\ stopping \in {"", "db", "timer"} /\ signals \in 0..MaxSignals
  /\ issued \in 0..MaxQueries
  /\ refused \subseteq 1..MaxQueries /\ dropped \subseteq 1..MaxQueries
  /\ executed \in Seq(Query) /\ handled \in Seq(Query)
  /\ peak \in 0..MaxQueries

Ids(s)    == {s[i].id : i \in DOMAIN s}
Ascend(s) == \A i, j \in DOMAIN s : i < j => s[i].id < s[j].id

\* Statements reach the database once each and in the order of issue: those
\* executed, the one being executed and those queued are, in this order, all
\* that exeStoreSql did not refuse.
ExecutedInOrder ==
  LET flow == executed \o held \o in
  IN Ascend(flow) /\ Ids(flow) = 1..issued \ refused

\* Callbacks run once each and in the order of execution, on the results that
\* found room.
AnswersInOrder ==
  LET flow == handled \o out
  IN /\ Ascend(flow)
     /\ {flow[i] : i \in DOMAIN flow}
          = {q \in {executed[i] : i \in DOMAIN executed} : q.back /\ q.id \notin dropped}

\* No statement is refused and no result dropped unless more than Cap of them
\* were outstanding at once: a process that waits for its answers loses none.
NoneLostBelowCap == (refused # {} \/ dropped # {}) => peak > Cap

\* The connection's thread is ended by a signal only, and the process never
\* exits before both threads have returned.
EndsBySignal ==
  /\ db = "ended" \/ timer = "ended" => signals > 0
  /\ main = "exited" => db = "ended" /\ timer = "ended"

\* However the two threads, the launch and the signals interleave: types, statements
\* and answers once each and in order, none lost before a queue overflows, and no
\* thread that ends by itself.
DbInv == TypeOK /\ ExecutedInOrder /\ AnswersInOrder /\ NoneLostBelowCap /\ EndsBySignal

IsHandled(i)  == \E j \in 1..Len(handled) : handled[j].id = i

\* Once the timer runs every result that found room reaches its callback.
EveryAnswerHandled ==
  \A i \in 1..MaxQueries :
    (main = "join" /\ ~suspended /\ \E j \in 1..Len(out) : out[j].id = i)
      ~> (IsHandled(i) \/ signals > 0)

\* A signal that comes once the threads are launched makes the process exit,
\* however many statements are queued and whatever state the threads are in.
StopEnds == (main = "join" /\ stopping = "db") ~> (main = "exited")

=============================================================================
