--------------------------- MODULE AccountsProofs ---------------------------
(***************************************************************************)
(* Proofs about Accounts, for any users, any number of log-ins, failures   *)
(* and lists, any length of a list and any size of a message.              *)
(*                                                                         *)
(* What waits on the read connection is one queue: first the answers that  *)
(* are not handled yet, then the statements that are not executed.  An     *)
(* execution moves nothing, a failure takes one entry out, a callback      *)
(* takes out the first and may add at the end.  Most of what the callbacks *)
(* count on is about the order of that queue.                              *)
(***************************************************************************)
EXTENDS Accounts, SequenceTheorems, WellFoundedInduction, TLAPS

Answers ==
  [kind : {"teams", "users", "members", "cafe"}]
    \cup [kind : {"games"}, rows : [Users -> Data]]
    \cup [kind : {"login", "list"}, user : Users]
    \cup [kind : {"identify", "game"}, user : Users, val : Data]
    \cup [kind : {"setIdentify"}, user : Users, val : Versions]

UserKinds == {"login", "identify", "game", "list", "setIdentify"}

SessionType == [selectRecord : 0..2, identify : Data, game : Data]
MemberType  == [game : Data, team : BOOLEAN]
ShownType   == [identify : Data, game : Data, team : BOOLEAN]

QueueTypes == reads \in Seq(Statements) /\ answers \in Seq(Answers)

Types ==
  /\ QueueTypes
  /\ writes \in Seq(Users \X Versions)
  /\ identRow \in [Users -> Data] /\ gameRow \in [Users -> Data]
  /\ cafe \in {"out", "asked", "in"}
  /\ logging \subseteq Users
  /\ sessions \in [Users -> {Nil} \cup SessionType]
  /\ mems \in [Users -> {Nil} \cup MemberType]
  /\ shown \in [Users -> {Nil} \cup ShownType]
  /\ fails \in Nat /\ fault \in BOOLEAN

\* The queue.
Waiting == Len(answers) + Len(reads)
Kind(i) == IF i <= Len(answers) THEN answers[i].kind ELSE reads[i - Len(answers)].kind
Who(i)  == IF i <= Len(answers) THEN answers[i].user ELSE reads[i - Len(answers)].user

Is(i, kind, u)   == Kind(i) = kind /\ Who(i) = u
Pending(kind, u) == \E i \in 1..Waiting : Is(i, kind, u)
Concerns(i, u)   == Kind(i) \in {"identify", "setIdentify"} /\ Who(i) = u

\* What may wait behind what: the load is at the front and nobody logs in before the
\* table of the users has come; of a user one log-in waits at most and one of each of
\* its selects, and these come before the next log-in.
Fits(i, j) ==
  /\ Kind(j) # "teams"
  /\ Kind(j) = "users" => Kind(i) \notin {"teams", "users", "login"}
  /\ Kind(j) \in {"login", "identify", "game"} => ~Is(i, Kind(j), Who(j)) /\ ~Is(i, "login", Who(j))

\* And what must be so while it waits.
Each(i) ==
  /\ Kind(i) = "login" => Who(i) \in logging /\ cafe = "in"
  /\ Kind(i) = "teams" => cafe # "in"
  /\ Kind(i) \in {"teams", "users"} => \A u \in Users : mems[u] = Nil

Order ==
  /\ \A i \in 1..Waiting : Each(i)
  /\ \A i, j \in 1..Waiting : i < j => Fits(i, j)

\* The selects of a user that count as out: one less for his game, and one less for his
\* identity unless that is still under way or was set before it came.
Left(s) == s.selectRecord + (IF s.game # 0 THEN 1 ELSE 0)

Counted(u) ==
  LET s == sessions[u]
  IN /\ Left(s) \in 1..2
     /\ Pending("identify", u) \/ s.identify = 0 => Left(s) = 2
     /\ Pending("game", u) => s.game = 0
     /\ shown[u] # Nil <=> s.selectRecord = 0
     /\ shown[u] # Nil => shown[u].identify = s.identify /\ shown[u].game # 0

Selects == \A u \in Users : Online(u) => mems[u] # Nil /\ Counted(u)

\* An identity that is known, or on its way, is in the table: it is never taken out.
Known ==
  /\ \A u \in Users : Online(u) /\ sessions[u].identify # 0 => identRow[u] # 0
  /\ \A i \in 1..Len(answers) :
       answers[i].kind \in {"identify", "setIdentify"} /\ answers[i].val # 0
         => identRow[answers[i].user] # 0

\* The last answer about an identity tells what is in the table; so does memory when
\* there is none.
LastTells ==
  /\ \A i \in 1..Len(answers), u \in Users :
       Concerns(i, u) /\ (\A j \in 1..Waiting : j > i => ~Concerns(j, u)) => answers[i].val = identRow[u]
  /\ \A u \in Users :
       Online(u) /\ (\A j \in 1..Waiting : ~Concerns(j, u)) => sessions[u].identify = identRow[u]

Tells == fails = 0 => LastTells

IInv == Types /\ Order /\ Selects /\ Known /\ Tells /\ ListsWhole

-----------------------------------------------------------------------------
(***************************************************************************)
(* The steps of the queue.                                                 *)
(***************************************************************************)

Same(i, k)   == Kind(i)' = Kind(k) /\ (Kind(k) \in UserKinds => Who(i)' = Who(k))
Issued(i, q) == Kind(i)' = q.kind /\ Who(i)' = q.user

\* The first d entries are taken out, n stay, and the statements of more come behind.
QueueStep(d, n, more) ==
  /\ QueueTypes'
  /\ n \in Nat /\ d \in {0, 1} /\ Len(more) \in Nat
  /\ Waiting = n + d /\ Waiting' = n + Len(more)
  /\ \A i \in 1..n : Same(i, i + d)
  /\ \A k \in 1..Len(more) : Issued(n + k, more[k])

\* The answers that stay are those that were there.
Moved(d) == \A i \in 1..Len(answers') : i + d \in 1..Len(answers) /\ answers'[i] = answers[i + d]

LEMMA QueueLengths ==
  ASSUME QueueTypes
  PROVE  Len(answers) \in Nat /\ Len(reads) \in Nat /\ Waiting \in Nat
BY LenProperties DEF QueueTypes, Waiting

LEMMA IssueStep ==
  ASSUME QueueTypes, NEW more \in Seq(Statements), reads' = reads \o more, answers' = answers,
         NEW n \in Nat, n = Waiting
  PROVE  QueueStep(0, n, more) /\ Moved(0)
<1>1. Len(answers) \in Nat /\ Len(reads) \in Nat /\ Waiting \in Nat
  BY QueueLengths
<1>2. /\ reads' \in Seq(Statements) /\ Len(reads') = Len(reads) + Len(more) /\ Len(more) \in Nat
      /\ \A i \in 1..(Len(reads) + Len(more)) :
           reads'[i] = IF i <= Len(reads) THEN reads[i] ELSE more[i - Len(reads)]
  BY ConcatProperties, LenProperties DEF QueueTypes
<1>3. QueueTypes' /\ Waiting' = Waiting + Len(more)
  BY <1>1, <1>2 DEF QueueTypes, Waiting
<1>4. ASSUME NEW i \in 1..n
      PROVE  Same(i, i + 0)
  <2>1. CASE i <= Len(answers)
    BY <1>1, <2>1 DEF Same, Kind, Who
  <2>2. CASE ~(i <= Len(answers))
    <3>1. i - Len(answers) \in 1..Len(reads) /\ i + 0 = i
      BY <1>1, <2>2 DEF Waiting
    <3>2. reads'[i - Len(answers)] = reads[i - Len(answers)]
      BY <1>1, <1>2, <3>1
    <3> QED
      BY <2>2, <3>1, <3>2 DEF Same, Kind, Who
  <2> QED
    BY <2>1, <2>2
<1>5. ASSUME NEW k \in 1..Len(more)
      PROVE  Issued(n + k, more[k])
  <2>1. ~(n + k <= Len(answers')) /\ (n + k) - Len(answers') = Len(reads) + k
    BY <1>1, <1>2 DEF Waiting
  <2>2. reads'[(n + k) - Len(answers')] = more[k]
    BY <1>1, <1>2, <2>1
  <2> QED
    BY <2>1, <2>2 DEF Issued, Kind, Who
<1>6. Moved(0)
  BY <1>1 DEF Moved
<1> QED
  BY <1>1, <1>2, <1>3, <1>4, <1>5, <1>6 DEF QueueStep

LEMMA IdleStep ==
  ASSUME QueueTypes, reads' = reads, answers' = answers, NEW n \in Nat, n = Waiting
  PROVE  QueueStep(0, n, <<>>) /\ Moved(0)
<1>1. reads' = reads \o <<>>
  BY DEF QueueTypes
<1>2. <<>> \in Seq(Statements)
  OBVIOUS
<1> QED
  BY <1>1, <1>2, IssueStep

LEMMA HandleStep ==
  ASSUME QueueTypes, NEW more \in Seq(Statements), answers # <<>>,
         reads' = reads \o more, answers' = Tail(answers), NEW n \in Nat, n = Waiting - 1
  PROVE  /\ QueueStep(1, n, more) /\ Moved(1) /\ Head(answers) \in Answers
         /\ Len(answers) \in Nat /\ 1 \in 1..Len(answers) /\ Head(answers) = answers[1]
         /\ Kind(1) = Head(answers).kind /\ Who(1) = Head(answers).user
<1>1. Len(answers) \in Nat /\ Len(reads) \in Nat /\ Waiting \in Nat
  BY QueueLengths
<1>2. /\ reads' \in Seq(Statements) /\ Len(reads') = Len(reads) + Len(more) /\ Len(more) \in Nat
      /\ \A i \in 1..(Len(reads) + Len(more)) :
           reads'[i] = IF i <= Len(reads) THEN reads[i] ELSE more[i - Len(reads)]
  BY ConcatProperties, LenProperties DEF QueueTypes
<1>3. /\ answers' \in Seq(Answers) /\ Len(answers') = Len(answers) - 1 /\ Len(answers) > 0
      /\ \A i \in 1..(Len(answers) - 1) : answers'[i] = answers[i + 1]
      /\ Head(answers) = answers[1] /\ Head(answers) \in Answers
  BY <1>1, HeadTailProperties DEF QueueTypes
<1>4. QueueTypes' /\ Waiting' = (Waiting - 1) + Len(more) /\ Waiting > 0 /\ 1 <= Waiting
      /\ Kind(1) = Head(answers).kind /\ Who(1) = Head(answers).user
  BY <1>1, <1>2, <1>3 DEF QueueTypes, Waiting, Kind, Who
<1>5. ASSUME NEW i \in 1..n
      PROVE  Same(i, i + 1)
  <2>1. CASE i <= Len(answers')
    <3>1. answers'[i] = answers[i + 1] /\ i + 1 <= Len(answers)
      BY <1>1, <1>3, <2>1
    <3> QED
      BY <2>1, <3>1 DEF Same, Kind, Who
  <2>2. CASE ~(i <= Len(answers'))
    <3>1. /\ i - Len(answers') \in 1..Len(reads) /\ i - Len(answers') = (i + 1) - Len(answers)
          /\ ~(i + 1 <= Len(answers))
      BY <1>1, <1>3, <2>2 DEF Waiting
    <3>2. reads'[i - Len(answers')] = reads[(i + 1) - Len(answers)]
      BY <1>1, <1>2, <3>1
    <3> QED
      BY <2>2, <3>1, <3>2 DEF Same, Kind, Who
  <2> QED
    BY <2>1, <2>2
<1>6. ASSUME NEW k \in 1..Len(more)
      PROVE  Issued(n + k, more[k])
  <2>1. ~(n + k <= Len(answers')) /\ (n + k) - Len(answers') = Len(reads) + k
    BY <1>1, <1>2, <1>3 DEF Waiting
  <2>2. reads'[(n + k) - Len(answers')] = more[k]
    BY <1>1, <1>2, <2>1
  <2> QED
    BY <2>1, <2>2 DEF Issued, Kind, Who
<1>7. 1 \in 1..Len(answers) /\ Moved(1)
  BY <1>1, <1>3 DEF Moved
<1> QED
  BY <1>1, <1>2, <1>3, <1>4, <1>5, <1>6, <1>7 DEF QueueStep

\* The answer to a statement is about what the statement was about.
LEMMA FoundIs ==
  ASSUME Types, NEW q \in Statements
  PROVE  /\ Found(q) \in Answers /\ Found(q).kind = q.kind
         /\ q.kind \in UserKinds => Found(q).user = q.user /\ q.user \in Users
         /\ q.kind = "identify" => Found(q).val = identRow[q.user]
         /\ q.kind = "setIdentify" => Found(q).val = q.val /\ q.val \in Versions
<1>1. CASE q \in [kind : {"teams", "users", "members", "cafe"}]
  BY <1>1 DEF Found, Answers, UserKinds
<1>2. CASE q \in [kind : {"games"}]
  <2>1. Found(q) = [kind |-> "games", rows |-> gameRow]
    BY <1>2 DEF Found
  <2> QED
    BY <1>2, <2>1 DEF Answers, UserKinds, Types
<1>3. CASE q \in [kind : {"login", "list"}, user : Users]
  BY <1>3 DEF Found, Answers, UserKinds
<1>4. CASE q \in [kind : {"identify"}, user : Users]
  <2>1. Found(q) = [kind |-> "identify", user |-> q.user, val |-> identRow[q.user]]
    BY <1>4 DEF Found, Write
  <2> QED
    BY <1>4, <2>1 DEF Answers, UserKinds, Types
<1>5. CASE q \in [kind : {"game"}, user : Users]
  <2>1. Found(q) = [kind |-> "game", user |-> q.user, val |-> gameRow[q.user]]
    BY <1>5 DEF Found, Write
  <2> QED
    BY <1>5, <2>1 DEF Answers, UserKinds, Types
<1>6. CASE q \in [kind : {"setIdentify"}, user : Users, val : Versions]
  BY <1>6 DEF Found, Answers, UserKinds
<1> QED
  BY <1>1, <1>2, <1>3, <1>4, <1>5, <1>6 DEF Statements

\* The oldest statement is executed: it stays where it is in the queue.
LEMMA ExecuteStep ==
  ASSUME Types, Execute, NEW n \in Nat, n = Waiting
  PROVE  /\ QueueStep(0, n, <<>>)
         /\ Head(reads) \in Statements /\ Len(answers) + 1 \in 1..Waiting
         /\ Kind(Len(answers) + 1) = Head(reads).kind /\ Who(Len(answers) + 1) = Head(reads).user
         /\ Len(answers) \in Nat /\ Len(answers') = Len(answers) + 1
         /\ \A i \in 1..Len(answers) : answers'[i] = answers[i]
         /\ answers'[Len(answers) + 1] = Found(Head(reads))
<1> DEFINE a == Found(Head(reads))
<1>1. Len(answers) \in Nat /\ Len(reads) \in Nat /\ Waiting \in Nat
  BY QueueLengths DEF Types
<1>2. reads # <<>> /\ reads' = Tail(reads) /\ answers' = Append(answers, a)
  BY DEF Execute
<1>3. /\ reads' \in Seq(Statements) /\ Len(reads') = Len(reads) - 1 /\ Len(reads) > 0
      /\ \A i \in 1..(Len(reads) - 1) : reads'[i] = reads[i + 1]
      /\ Head(reads) = reads[1] /\ Head(reads) \in Statements
  BY <1>1, <1>2, HeadTailProperties DEF Types, QueueTypes
<1>4. a \in Answers /\ a.kind = reads[1].kind /\ (reads[1].kind \in UserKinds => a.user = reads[1].user)
  BY <1>3, FoundIs
<1> HIDE DEF a
<1>5. /\ answers' \in Seq(Answers) /\ Len(answers') = Len(answers) + 1
      /\ \A i \in 1..Len(answers) : answers'[i] = answers[i]
      /\ answers'[Len(answers) + 1] = a
  BY <1>1, <1>2, <1>4, AppendProperties DEF Types, QueueTypes
<1>6. QueueTypes' /\ Waiting' = Waiting
  BY <1>1, <1>3, <1>5 DEF QueueTypes, Waiting
<1>7. ASSUME NEW i \in 1..n
      PROVE  Same(i, i + 0)
  <2>1. CASE i <= Len(answers)
    BY <1>1, <1>5, <2>1 DEF Same, Kind, Who
  <2>2. CASE i = Len(answers) + 1
    <3>1. ~(i <= Len(answers)) /\ i - Len(answers) = 1 /\ i <= Len(answers') /\ i + 0 = i
      BY <1>1, <1>5, <2>2
    <3> QED
      BY <1>4, <1>5, <2>2, <3>1 DEF Same, Kind, Who
  <2>3. CASE i > Len(answers) + 1
    <3>1. /\ ~(i <= Len(answers)) /\ ~(i <= Len(answers')) /\ i + 0 = i
          /\ i - Len(answers') \in 1..(Len(reads) - 1) /\ (i - Len(answers')) + 1 = i - Len(answers)
      BY <1>1, <1>3, <1>5, <2>3 DEF Waiting
    <3>2. reads'[i - Len(answers')] = reads[i - Len(answers)]
      BY <1>3, <3>1
    <3> QED
      BY <3>1, <3>2 DEF Same, Kind, Who
  <2> QED
    BY <1>1, <2>1, <2>2, <2>3
<1>8. Len(answers) + 1 \in 1..Waiting
      /\ Kind(Len(answers) + 1) = reads[1].kind /\ Who(Len(answers) + 1) = reads[1].user
  BY <1>1, <1>3 DEF Waiting, Kind, Who
<1>9. Len(<<>>) = 0
  OBVIOUS
<1> QED
  BY <1>1, <1>3, <1>5, <1>6, <1>7, <1>8, <1>9 DEF QueueStep, a

\* A failed one is taken out.
LEMMA FailStep ==
  ASSUME Types, ExecuteFails
  PROVE  /\ QueueTypes' /\ Waiting \in Nat /\ Waiting > 0 /\ Waiting' = Waiting - 1
         /\ answers' = answers
         /\ \A i \in 1..Waiting' : Same(i, IF i <= Len(answers) THEN i ELSE i + 1)
<1>1. Len(answers) \in Nat /\ Len(reads) \in Nat /\ Waiting \in Nat
  BY QueueLengths DEF Types
<1>2. reads # <<>> /\ reads' = Tail(reads) /\ answers' = answers
  BY DEF ExecuteFails
<1>3. /\ reads' \in Seq(Statements) /\ Len(reads') = Len(reads) - 1 /\ Len(reads) > 0
      /\ \A i \in 1..(Len(reads) - 1) : reads'[i] = reads[i + 1]
  BY <1>1, <1>2, HeadTailProperties DEF Types, QueueTypes
<1>4. QueueTypes' /\ Waiting' = Waiting - 1 /\ Waiting > 0
  BY <1>1, <1>2, <1>3 DEF Types, QueueTypes, Waiting
<1>5. ASSUME NEW i \in 1..Waiting'
      PROVE  Same(i, IF i <= Len(answers) THEN i ELSE i + 1)
  <2>1. CASE i <= Len(answers)
    BY <1>2, <2>1 DEF Same, Kind, Who
  <2>2. CASE ~(i <= Len(answers))
    <3>1. /\ i - Len(answers) \in 1..(Len(reads) - 1) /\ (i - Len(answers)) + 1 = (i + 1) - Len(answers)
          /\ ~(i + 1 <= Len(answers))
      BY <1>1, <1>4, <2>2 DEF Waiting
    <3>2. reads'[i - Len(answers)] = reads[(i + 1) - Len(answers)]
      BY <1>3, <3>1
    <3> QED
      BY <1>2, <2>2, <3>1, <3>2 DEF Same, Kind, Who
  <2> QED
    BY <2>1, <2>2
<1> QED
  BY <1>1, <1>2, <1>4, <1>5

-----------------------------------------------------------------------------
(***************************************************************************)
(* The order of the queue.                                                 *)
(***************************************************************************)

LEMMA PairKept ==
  ASSUME NEW i, NEW j, NEW k, NEW l, Same(i, k), Same(j, l), Fits(k, l)
  PROVE  Fits(i, j)'
  BY DEF Same, Fits, Is, UserKinds

\* What waits after a step is what waited before or what came new.
LEMMA QueueIs ==
  ASSUME NEW d, NEW n, NEW more, QueueStep(d, n, more), NEW i \in 1..Waiting'
  PROVE  \/ i \in 1..n /\ i + d \in (1 + d)..Waiting /\ i + d \in 1..Waiting /\ Same(i, i + d)
         \/ \E k \in 1..Len(more) : i = n + k /\ Issued(i, more[k])
<1>1. CASE i <= n
  BY <1>1 DEF QueueStep
<1>2. CASE ~(i <= n)
  <2>1. PICK k \in Int : k = i - n
    BY DEF QueueStep
  <2>2. k \in 1..Len(more) /\ i = n + k
    BY <1>2, <2>1 DEF QueueStep
  <2> QED
    BY <2>2 DEF QueueStep
<1> QED
  BY <1>1, <1>2 DEF QueueStep

\* The order is kept when what comes new fits behind the rest, and what waits is still
\* as it must be.
LEMMA OrderStep ==
  ASSUME Order, NEW d, NEW n, NEW more, QueueStep(d, n, more),
         \A i \in 1..Waiting' : Each(i)',
         \A k \in 1..Len(more), i \in 1..Waiting' : i < n + k => Fits(i, n + k)'
  PROVE  Order'
<1>1. ASSUME NEW i \in 1..Waiting', NEW j \in 1..Waiting', i < j PROVE Fits(i, j)'
  <2>1. CASE \E k \in 1..Len(more) : j = n + k
    BY <1>1, <2>1
  <2>2. CASE ~\E k \in 1..Len(more) : j = n + k
    <3>1. j \in 1..n /\ j + d \in 1..Waiting /\ Same(j, j + d) /\ n \in Nat /\ d \in {0, 1}
      BY <2>2, QueueIs DEF QueueStep
    <3>2. i \in 1..n /\ i + d \in 1..Waiting /\ i + d < j + d
      BY <1>1, <3>1 DEF QueueStep
    <3>3. Same(i, i + d)
      BY <3>2 DEF QueueStep
    <3>4. Fits(i + d, j + d)
      BY <3>1, <3>2 DEF Order
    <3> QED
      BY <3>1, <3>3, <3>4, PairKept
  <2> QED
    BY <2>1, <2>2
<1> QED
  BY <1>1 DEF Order

\* Statements that fit anywhere.
Quiet == {"cafe", "setIdentify", "list", "games", "members"}

\* What must be so of the entries that stay is so after the step.
EachStays(d) ==
  \A i \in (1 + d)..Waiting :
    /\ Kind(i) = "login" => Who(i) \in logging' /\ cafe' = "in"
    /\ Kind(i) = "teams" => cafe' # "in"
    /\ Kind(i) \in {"teams", "users"} => \A u \in Users : mems'[u] = Nil

LEMMA StayingEach ==
  ASSUME NEW d, NEW i, NEW k \in (1 + d)..Waiting, Same(i, k), EachStays(d)
  PROVE  Each(i)'
  BY DEF Each, Same, UserKinds, EachStays

\* A step that issues such statements only.
LEMMA QuietOrder ==
  ASSUME Order, NEW d, NEW n, NEW more, QueueStep(d, n, more), EachStays(d),
         \A k \in 1..Len(more) : more[k].kind \in Quiet
  PROVE  Order'
<1>1. ASSUME NEW k \in 1..Len(more) PROVE Kind(n + k)' \in Quiet
  BY DEF QueueStep, Issued
<1>2. ASSUME NEW k \in 1..Len(more), NEW i PROVE Fits(i, n + k)'
  BY <1>1 DEF Quiet, Fits
<1>3. ASSUME NEW i \in 1..Waiting' PROVE Each(i)'
  <2>1. CASE i \in 1..n /\ i + d \in (1 + d)..Waiting /\ i + d \in 1..Waiting /\ Same(i, i + d)
    BY <2>1, StayingEach
  <2>2. CASE \E k \in 1..Len(more) : i = n + k
    BY <1>1, <2>2 DEF Quiet, Each
  <2> QED
    BY <2>1, <2>2, QueueIs
<1> QED
  BY <1>2, <1>3, OrderStep

\* Behind the first of the queue.
LEMMA BehindFirst ==
  ASSUME Order, NEW n \in Nat, Waiting = n + 1
  PROVE  Each(1) /\ \A i \in (1 + 1)..Waiting : Fits(1, i) /\ Each(i) /\ i \in 1..Waiting
<1>1. 1 \in 1..Waiting
  OBVIOUS
<1>2. ASSUME NEW i \in (1 + 1)..Waiting PROVE i \in 1..Waiting /\ 1 < i
  OBVIOUS
<1> QED
  BY <1>1, <1>2 DEF Order

-----------------------------------------------------------------------------
(***************************************************************************)
(* What stays true when nobody's session is touched.                       *)
(***************************************************************************)

\* A select that waits has waited before, or comes new.
LEMMA StillPending ==
  ASSUME NEW d, NEW n, NEW more, QueueStep(d, n, more),
         NEW kind \in UserKinds, NEW u, Pending(kind, u)',
         \A k \in 1..Len(more) : ~(more[k].kind = kind /\ more[k].user = u)
  PROVE  \E i \in (1 + d)..Waiting : i \in 1..Waiting /\ Is(i, kind, u)
<1>1. PICK i \in 1..Waiting' : Is(i, kind, u)'
  BY DEF Pending
<1>2. CASE \E k \in 1..Len(more) : i = n + k /\ Issued(i, more[k])
  BY <1>1, <1>2 DEF Issued, Is
<1>3. CASE i + d \in (1 + d)..Waiting /\ i + d \in 1..Waiting /\ Same(i, i + d)
  BY <1>1, <1>3 DEF Same, Is, UserKinds
<1> QED
  BY <1>2, <1>3, QueueIs

NoSelects(more) == \A k \in 1..Len(more) : more[k].kind \notin {"identify", "game"}

NoneNew ==
  \A u \in Users : /\ Pending("identify", u)' => Pending("identify", u)
                   /\ Pending("game", u)' => Pending("game", u)

LEMMA NoneComesNew ==
  ASSUME NEW d, NEW n, NEW more, QueueStep(d, n, more), NoSelects(more)
  PROVE  NoneNew
<1>1. ASSUME NEW u \in Users, NEW kind \in {"identify", "game"}, Pending(kind, u)'
      PROVE  Pending(kind, u)
  <2>1. kind \in UserKinds /\ \A k \in 1..Len(more) : ~(more[k].kind = kind /\ more[k].user = u)
    BY DEF NoSelects, UserKinds
  <2> QED
    BY <1>1, <2>1, StillPending DEF Pending
<1> QED
  BY <1>1 DEF NoneNew

\* What is counted of one user depends on his session, on what he is shown and on his
\* selects that wait.
LEMMA CountedStands ==
  ASSUME NEW u \in Users, Counted(u), sessions'[u] = sessions[u], shown'[u] = shown[u],
         Pending("identify", u)' => Pending("identify", u),
         Pending("game", u)' => Pending("game", u)
  PROVE  Counted(u)'
<1> DEFINE s == sessions[u]
<1>1. Left(s)' = Left(s) /\ s' = s
  BY DEF Left
<1>2. /\ Left(s) \in 1..2
      /\ Pending("identify", u) \/ s.identify = 0 => Left(s) = 2
      /\ Pending("game", u) => s.game = 0
      /\ shown[u] # Nil <=> s.selectRecord = 0
      /\ shown[u] # Nil => shown[u].identify = s.identify /\ shown[u].game # 0
  BY DEF Counted
<1> HIDE DEF s
<1>3. /\ Left(s)' \in 1..2
      /\ Pending("identify", u)' \/ s'.identify = 0 => Left(s)' = 2
      /\ Pending("game", u)' => s'.game = 0
      /\ shown'[u] # Nil <=> s'.selectRecord = 0
      /\ shown'[u] # Nil => shown'[u].identify = s'.identify /\ shown'[u].game # 0
  BY <1>1, <1>2
<1> QED
  BY <1>3 DEF Counted, s

KeepsMembers == \A u \in Users : mems[u] # Nil => mems'[u] # Nil

LEMMA SelectsStand ==
  ASSUME Selects, NoneNew, KeepsMembers, sessions' = sessions, shown' = shown
  PROVE  Selects'
<1>1. ASSUME NEW u \in Users, Online(u)' PROVE mems'[u] # Nil /\ Counted(u)'
  <2>1. Online(u)
    BY <1>1 DEF Online
  <2>2. mems[u] # Nil /\ Counted(u)
    BY <2>1 DEF Selects
  <2> QED
    BY <2>2, CountedStands DEF NoneNew, KeepsMembers
<1> QED
  BY <1>1 DEF Selects

LEMMA KnownStands ==
  ASSUME Known, NEW d, Moved(d), identRow' = identRow,
         \A u \in Users : Online(u)' /\ sessions'[u].identify # 0
                            => Online(u) /\ sessions[u].identify # 0
  PROVE  Known'
<1>1. ASSUME NEW i \in 1..Len(answers'),
             answers'[i].kind \in {"identify", "setIdentify"}, answers'[i].val # 0
      PROVE  identRow'[answers'[i].user] # 0
  <2>1. i + d \in 1..Len(answers) /\ answers'[i] = answers[i + d]
    BY DEF Moved
  <2> QED
    BY <1>1, <2>1 DEF Known
<1>2. ASSUME NEW u \in Users, Online(u)', sessions'[u].identify # 0 PROVE identRow'[u] # 0
  BY <1>2 DEF Known
<1> QED
  BY <1>1, <1>2 DEF Known

\* An answer that has become the last about an identity was that before, or it was the
\* first.
LEMMA LastBefore ==
  ASSUME NEW d, NEW n, NEW more, QueueStep(d, n, more), NEW u, NEW i,
         \A j \in 1..Waiting' : j > i => ~Concerns(j, u)', i \in Nat
  PROVE  \A j \in 1..Waiting : j > i + d => ~Concerns(j, u)
<1>1. ASSUME NEW j \in 1..Waiting, j > i + d, Concerns(j, u) PROVE FALSE
  <2>1. PICK l \in 1..n : l + d = j /\ l > i
    <3>1. j - d \in 1..n /\ (j - d) + d = j /\ j - d > i
      BY <1>1 DEF QueueStep
    <3> QED
      BY <3>1
  <2>2. Same(l, j) /\ l \in 1..Waiting'
    BY <2>1 DEF QueueStep
  <2>3. Concerns(l, u)'
    BY <1>1, <2>2 DEF Same, Concerns, UserKinds
  <2> QED
    BY <2>1, <2>2, <2>3
<1> QED
  BY <1>1

\* When the queue only moves, the answers that stay still tell.
LEMMA AnswersTell ==
  ASSUME LastTells, NEW d, NEW n, NEW more, QueueStep(d, n, more), Moved(d), identRow' = identRow,
         NEW u \in Users, NEW i \in 1..Len(answers'), Concerns(i, u)',
         \A j \in 1..Waiting' : j > i => ~Concerns(j, u)'
  PROVE  answers'[i].val = identRow'[u]
<1>1. i + d \in 1..Len(answers) /\ answers'[i] = answers[i + d]
  BY DEF Moved
<1>2. Concerns(i + d, u)
  BY <1>1 DEF Concerns, Kind, Who
<1>3. \A j \in 1..Waiting : j > i + d => ~Concerns(j, u)
  BY LastBefore
<1> QED
  BY <1>1, <1>2, <1>3 DEF LastTells

\* A step that hands out no answer about an identity.
LEMMA TellsStand ==
  ASSUME Types, Tells, NEW d, NEW n, NEW more, QueueStep(d, n, more), Moved(d), identRow' = identRow,
         fails' = fails,
         \A u \in Users : d = 1 => ~Concerns(1, u),
         \A u \in Users : Online(u)' => \/ Online(u) /\ sessions'[u].identify = sessions[u].identify
                                        \/ \E i \in 1..Waiting' : Concerns(i, u)'
  PROVE  Tells'
<1> SUFFICES ASSUME fails = 0 PROVE LastTells'
  BY DEF Tells
<1>1. LastTells
  BY DEF Tells
<1>2. ASSUME NEW i \in 1..Len(answers'), NEW u \in Users, Concerns(i, u)',
             \A j \in 1..Waiting' : j > i => ~Concerns(j, u)'
      PROVE  answers'[i].val = identRow'[u]
  BY <1>1, <1>2, AnswersTell
<1>3. ASSUME NEW u \in Users, Online(u)', \A j \in 1..Waiting' : ~Concerns(j, u)'
      PROVE  sessions'[u].identify = identRow'[u]
  <2>1. Online(u) /\ sessions'[u].identify = sessions[u].identify
    BY <1>3
  <2>2. \A j \in 1..Waiting : j > 0 + d => ~Concerns(j, u)
    BY <1>3, LastBefore
  <2>3. \A j \in 1..Waiting : ~Concerns(j, u)
    BY <2>2 DEF QueueStep
  <2> QED
    BY <1>1, <2>1, <2>3 DEF LastTells
<1> QED
  BY <1>2, <1>3 DEF LastTells

\* All three, for a step that has nothing to do with selects.
LEMMA Stands ==
  ASSUME IInv, NEW d, NEW n, NEW more, QueueStep(d, n, more), Moved(d), NoSelects(more),
         UNCHANGED <<identRow, sessions, shown, fails>>, KeepsMembers,
         d = 1 => Kind(1) \notin {"identify", "setIdentify"}
  PROVE  Selects' /\ Known' /\ Tells'
<1>1. Selects'
  BY NoneComesNew, SelectsStand DEF IInv
<1>2. \A u \in Users : /\ Online(u)' => Online(u) /\ sessions'[u].identify = sessions[u].identify
                       /\ d = 1 => ~Concerns(1, u)
  BY DEF Online, Concerns
<1>3. Known'
  BY <1>2, KnownStands DEF IInv
<1>4. Tells'
  BY <1>2, TellsStand DEF IInv
<1> QED
  BY <1>1, <1>3, <1>4

-----------------------------------------------------------------------------
(***************************************************************************)
(* Messages of the clients.                                                *)
(***************************************************************************)

LEMMA StatementsAre ==
  /\ \A kind \in {"teams", "users", "games", "members", "cafe"} :
       Load(kind) \in Statements /\ Load(kind).kind = kind
  /\ \A kind \in {"login", "identify", "game", "list"}, u \in Users :
       About(kind, u) \in Statements /\ About(kind, u).kind = kind /\ About(kind, u).user = u
  /\ \A u \in Users, v \in Versions :
       Write("setIdentify", u, v) \in Statements /\ Write("setIdentify", u, v).kind = "setIdentify"
BY DEF Statements, Load, About, Write

LEMMA OneStatement ==
  ASSUME NEW q \in Statements
  PROVE  <<q>> \in Seq(Statements) /\ Len(<<q>>) = 1 /\ <<q>>[1] = q
OBVIOUS

LEMMA NoStatement == <<>> \in Seq(Statements) /\ Len(<<>>) = 0
OBVIOUS

\* One statement comes, none goes.
LEMMA OneIssued ==
  ASSUME QueueTypes, NEW q \in Statements, Query(<<q>>), answers' = answers
  PROVE  \E n \in Nat, more \in Seq(Statements) :
           /\ more = <<q>> /\ Len(more) = 1 /\ more[1] = q
           /\ n = Waiting /\ QueueStep(0, n, more) /\ Moved(0)
<1>1. PICK n \in Nat : n = Waiting
  BY QueueLengths
<1>2. <<q>> \in Seq(Statements) /\ Len(<<q>>) = 1 /\ <<q>>[1] = q
  BY OneStatement
<1>3. QueueStep(0, n, <<q>>) /\ Moved(0)
  BY <1>1, <1>2, IssueStep DEF Query
<1> QED
  BY <1>1, <1>2, <1>3

\* The same for a statement that fits anywhere, when nothing else is touched that the
\* invariant is about.
LEMMA QuietIssue ==
  ASSUME IInv, NEW q \in Statements, q.kind \in Quiet, Query(<<q>>), EachStays(0),
         UNCHANGED <<answers, identRow, sessions, mems, shown, fails, entries, pages>>
  PROVE  QueueTypes' /\ Order' /\ Selects' /\ Known' /\ Tells' /\ ListsWhole'
<1>1. PICK n \in Nat, more \in Seq(Statements) :
           /\ more = <<q>> /\ Len(more) = 1 /\ more[1] = q
           /\ n = Waiting /\ QueueStep(0, n, more) /\ Moved(0)
  BY OneIssued DEF IInv, Types
<1>2. \A k \in 1..Len(more) : more[k] = q
  BY <1>1
<1>3. Order'
  BY <1>1, <1>2, QuietOrder DEF IInv
<1>4. NoSelects(more) /\ KeepsMembers
  BY <1>2 DEF NoSelects, KeepsMembers, Quiet
<1>5. Selects' /\ Known' /\ Tells'
  <2> HIDE DEF IInv
  <2> QED
    BY <1>1, <1>4, Stands
<1>6. QueueTypes' /\ ListsWhole'
  BY <1>1 DEF QueueStep, IInv, ListsWhole
<1> QED
  BY <1>3, <1>5, <1>6

\* Nothing is said of the queue when the cafe, the log-ins and memory stay as they are.
LEMMA EachOf ==
  ASSUME Order, UNCHANGED <<logging, cafe, mems>>, Waiting \in Nat
  PROVE  EachStays(0)
<1>1. \A i \in (1 + 0)..Waiting : Each(i)
  BY DEF Order
<1> QED
  BY <1>1 DEF Each, EachStays

LEMMA CafeLoginKeeps ==
  ASSUME IInv, CafeLogin
  PROVE  IInv'
<1>1. /\ cafe = "out" /\ cafe' = "asked" /\ Query(<<Load("cafe")>>)
      /\ UNCHANGED <<answers, writes, identRow, gameRow, logging, sessions, shown, mems, entries, pages, fails, fault>>
  BY DEF CafeLogin, dbVars, userVars, listVars
<1>2. Load("cafe") \in Statements /\ Load("cafe").kind \in Quiet
  BY StatementsAre DEF Quiet
<1>3. EachStays(0)
  <2>1. \A i \in (1 + 0)..Waiting : Each(i)
    BY QueueLengths DEF Order, IInv, Types
  <2> QED
    BY <1>1, <2>1 DEF Each, EachStays
<1>4. QueueTypes' /\ Order' /\ Selects' /\ Known' /\ Tells' /\ ListsWhole'
  BY <1>1, <1>2, <1>3, QuietIssue
<1>5. Types'
  BY <1>1, <1>4 DEF IInv, Types
<1> QED
  BY <1>4, <1>5 DEF IInv

LEMMA IdentifyDataKeeps ==
  ASSUME IInv, NEW u \in Users, NEW v \in Versions, IdentifyData(u, v)
  PROVE  IInv'
<1>1. /\ Query(<<Write("setIdentify", u, v)>>)
      /\ UNCHANGED <<answers, writes, identRow, gameRow, cafe, logging, sessions, shown, mems, entries, pages, fails, fault>>
  BY DEF IdentifyData, dbVars, userVars, listVars
<1>2. Write("setIdentify", u, v) \in Statements /\ Write("setIdentify", u, v).kind \in Quiet
  BY StatementsAre DEF Quiet
<1>3. EachStays(0)
  BY <1>1, EachOf, QueueLengths DEF IInv, Types
<1>4. QueueTypes' /\ Order' /\ Selects' /\ Known' /\ Tells' /\ ListsWhole'
  BY <1>1, <1>2, <1>3, QuietIssue
<1>5. Types'
  BY <1>1, <1>4 DEF IInv, Types
<1> QED
  BY <1>4, <1>5 DEF IInv

LEMMA AskListKeeps ==
  ASSUME IInv, NEW u \in Users, AskList(u)
  PROVE  IInv'
<1>1. /\ Query(<<About("list", u)>>)
      /\ UNCHANGED <<answers, writes, identRow, gameRow, cafe, logging, sessions, shown, mems, entries, pages, fails, fault>>
  BY DEF AskList, dbVars, userVars
<1>2. About("list", u) \in Statements /\ About("list", u).kind \in Quiet
  BY StatementsAre DEF Quiet
<1>3. EachStays(0)
  BY <1>1, EachOf, QueueLengths DEF IInv, Types
<1>4. QueueTypes' /\ Order' /\ Selects' /\ Known' /\ Tells' /\ ListsWhole'
  BY <1>1, <1>2, <1>3, QuietIssue
<1>5. Types'
  BY <1>1, <1>4 DEF IInv, Types
<1> QED
  BY <1>4, <1>5 DEF IInv

\* m_loginTels: none of his log-ins waits.
LEMMA LoginTelKeeps ==
  ASSUME IInv, NEW u \in Users, LoginTel(u)
  PROVE  IInv'
<1>1. /\ cafe = "in" /\ u \notin logging /\ logging' = logging \union {u} /\ Query(<<About("login", u)>>)
      /\ UNCHANGED <<answers, writes, identRow, gameRow, cafe, sessions, shown, mems, entries, pages, fails, fault>>
  BY DEF LoginTel, dbVars, listVars
<1>2. /\ About("login", u) \in Statements
      /\ About("login", u).kind = "login" /\ About("login", u).user = u
  BY StatementsAre
<1>3. PICK n \in Nat, more \in Seq(Statements) :
           /\ more = <<About("login", u)>> /\ Len(more) = 1 /\ more[1] = About("login", u)
           /\ n = Waiting /\ QueueStep(0, n, more) /\ Moved(0)
  BY <1>1, <1>2, OneIssued DEF IInv, Types
<1>4. /\ Waiting' = n + 1 /\ QueueTypes' /\ Issued(n + 1, more[1])
      /\ Kind(n + 1)' = "login" /\ Who(n + 1)' = u
  BY <1>2, <1>3 DEF QueueStep, Issued
<1>5. Order'
  <2>1. EachStays(0)
    <3>1. \A i \in (1 + 0)..Waiting : Each(i)
      BY <1>3 DEF Order, IInv
    <3> QED
      BY <1>1, <3>1 DEF Each, EachStays
  <2>2. ASSUME NEW i \in 1..Waiting' PROVE Each(i)'
    <3>1. CASE i = n + 1
      BY <1>1, <1>4, <3>1 DEF Each
    <3>2. CASE i \in 1..n
      <4>1. i \in (1 + 0)..Waiting /\ Same(i, i)
        BY <1>3, <3>2 DEF QueueStep
      <4> QED
        BY <2>1, <4>1, StayingEach
    <3> QED
      BY <1>4, <3>1, <3>2
  <2>3. ASSUME NEW k \in 1..Len(more), NEW i \in 1..Waiting', i < n + k PROVE Fits(i, n + k)'
    <3>1. k = 1 /\ i \in 1..n /\ i \in 1..Waiting
      BY <1>3, <1>4, <2>3
    <3>2. Same(i, i)
      BY <1>3, <3>1 DEF QueueStep
    <3>3. ~Is(i, "login", u)'
      <4>1. Each(i)
        BY <3>1 DEF Order, IInv
      <4> QED
        BY <1>1, <3>2, <4>1 DEF Each, Same, Is, UserKinds
    <3> QED
      BY <1>4, <3>1, <3>3 DEF Fits
  <2> QED
    BY <1>3, <2>2, <2>3, OrderStep DEF IInv
<1>6. NoSelects(more) /\ KeepsMembers
  BY <1>1, <1>2, <1>3 DEF NoSelects, KeepsMembers
<1>7. Selects' /\ Known' /\ Tells'
  BY <1>1, <1>3, <1>6, Stands
<1>8. Types' /\ ListsWhole'
  BY <1>1, <1>4 DEF IInv, Types, ListsWhole
<1> QED
  BY <1>5, <1>7, <1>8 DEF IInv

\* mems[u] is there, so that neither the teams nor the users are still to come.
LEMMA GameInfoKeeps ==
  ASSUME IInv, NEW u \in Users, NEW v \in Versions, GameInfo(u, v)
  PROVE  IInv'
<1>1. /\ mems[u] # Nil /\ mems' = [mems EXCEPT ![u].game = v] /\ writes' = Append(writes, <<u, v>>)
      /\ UNCHANGED <<reads, answers, identRow, gameRow, cafe, logging, sessions, shown, entries, pages, fails, fault>>
  BY DEF GameInfo, userVars, listVars
<1>2. PICK n \in Nat : n = Waiting
  BY QueueLengths DEF IInv, Types
<1>3. QueueStep(0, n, <<>>) /\ Moved(0)
  BY <1>1, <1>2, IdleStep DEF IInv, Types
<1>4. \A i \in (1 + 0)..Waiting : Each(i)
  BY <1>2 DEF Order, IInv
<1>5. EachStays(0)
  <2>1. \A i \in (1 + 0)..Waiting : Kind(i) \notin {"teams", "users"}
    BY <1>1, <1>4 DEF Each
  <2> QED
    BY <1>1, <1>4, <2>1 DEF Each, EachStays
<1>6. Order'
  BY <1>3, <1>5, NoStatement, QuietOrder DEF IInv
<1>7. mems'[u] \in MemberType /\ \A w \in Users : w # u => mems'[w] = mems[w]
  <2>1. mems[u] \in MemberType /\ v \in Data
    BY <1>1, AccountsAssumption DEF IInv, Types, Versions, Data
  <2>2. [mems[u] EXCEPT !.game = v] \in MemberType
    BY <2>1 DEF MemberType
  <2> QED
    BY <1>1, <2>2 DEF IInv, Types
<1>8. mems' \in [Users -> {Nil} \cup MemberType]
  BY <1>1, <1>7 DEF IInv, Types
<1>9. KeepsMembers
  BY <1>7, NilAssumption DEF KeepsMembers, MemberType, Data
<1>10. NoSelects(<<>>)
  BY DEF NoSelects
<1>11. Selects' /\ Known' /\ Tells'
  BY <1>1, <1>3, <1>9, <1>10, Stands
<1>12. Types' /\ ListsWhole'
  BY <1>1, <1>3, <1>8 DEF IInv, Types, ListsWhole, QueueStep
<1> QED
  BY <1>6, <1>11, <1>12 DEF IInv

\* A session is gone.
LEMMA DelUserKeeps ==
  ASSUME IInv, NEW u \in Users, DelUser(u)
  PROVE  IInv'
<1>1. /\ sessions' = [sessions EXCEPT ![u] = Nil] /\ shown' = [shown EXCEPT ![u] = Nil]
      /\ UNCHANGED <<reads, answers, writes, identRow, gameRow, cafe, logging, mems, entries, pages, fails, fault>>
  BY DEF DelUser, dbVars, listVars
<1>2. PICK n \in Nat : n = Waiting
  BY QueueLengths DEF IInv, Types
<1>3. QueueStep(0, n, <<>>) /\ Moved(0)
  BY <1>1, <1>2, IdleStep DEF IInv, Types
<1>4. Order'
  <2>1. EachStays(0)
    BY <1>1, <1>2, EachOf DEF IInv
  <2> QED
    BY <1>3, <2>1, NoStatement, QuietOrder DEF IInv
<1>5. /\ ~Online(u)'
      /\ \A w \in Users : w # u => sessions'[w] = sessions[w] /\ shown'[w] = shown[w]
  BY <1>1 DEF IInv, Types, Online
<1>6. NoneNew
  BY <1>3, NoneComesNew DEF NoSelects
<1>7. Selects'
  <2>1. ASSUME NEW w \in Users, Online(w)' PROVE mems'[w] # Nil /\ Counted(w)'
    <3>1. w # u /\ Online(w)
      BY <1>5, <2>1 DEF Online
    <3>2. mems[w] # Nil /\ Counted(w)
      BY <3>1 DEF IInv, Selects
    <3> QED
      BY <1>1, <1>5, <1>6, <3>1, <3>2, CountedStands DEF NoneNew
  <2> QED
    BY <2>1 DEF Selects
<1>8. \A w \in Users : Online(w)' => Online(w) /\ sessions'[w].identify = sessions[w].identify
  BY <1>5 DEF Online
<1>9. Known'
  BY <1>1, <1>3, <1>8, KnownStands DEF IInv
<1>10. Tells'
  BY <1>1, <1>3, <1>8, TellsStand DEF IInv
<1>11. Types' /\ ListsWhole'
  BY <1>1, <1>3 DEF IInv, Types, ListsWhole, QueueStep
<1> QED
  BY <1>4, <1>7, <1>9, <1>10, <1>11 DEF IInv

-----------------------------------------------------------------------------
(***************************************************************************)
(* The database threads.                                                   *)
(***************************************************************************)

\* The answer tells what the table holds after the statement.
LEMMA ExecuteKeeps ==
  ASSUME IInv, Execute
  PROVE  IInv'
<1> DEFINE q == Head(reads)
           e == Len(answers) + 1
<1>1. /\ identRow' = IF q.kind = "setIdentify" THEN [identRow EXCEPT ![q.user] = q.val] ELSE identRow
      /\ UNCHANGED <<writes, gameRow, cafe, logging, sessions, shown, mems, entries, pages, fails, fault>>
  BY DEF Execute, userVars, listVars
<1>2. PICK n \in Nat : n = Waiting
  BY QueueLengths DEF IInv, Types
<1>3. /\ QueueStep(0, n, <<>>)
      /\ q \in Statements /\ e \in 1..Waiting /\ Kind(e) = q.kind /\ Who(e) = q.user
      /\ Len(answers) \in Nat /\ Len(answers') = e
      /\ \A i \in 1..Len(answers) : answers'[i] = answers[i]
      /\ answers'[e] = Found(q)
  BY <1>2, ExecuteStep DEF IInv
<1>4. /\ Found(q).kind = q.kind
      /\ q.kind \in UserKinds => Found(q).user = q.user /\ q.user \in Users
      /\ q.kind = "identify" => Found(q).val = identRow[q.user]
      /\ q.kind = "setIdentify" => Found(q).val = q.val /\ q.val \in Versions
  BY <1>3, FoundIs DEF IInv
<1> HIDE DEF q
<1>5. /\ identRow' \in [Users -> Data]
      /\ \A u \in Users : ~(q.kind = "setIdentify" /\ q.user = u) => identRow'[u] = identRow[u]
      /\ q.kind = "setIdentify" => identRow'[q.user] = q.val /\ q.val # 0
  BY <1>1, <1>4, AccountsAssumption DEF IInv, Types, Versions, Data, UserKinds
<1>6. \A u \in Users : identRow[u] # 0 => identRow'[u] # 0
  BY <1>5
<1>7. Order'
  <2>1. EachStays(0)
    BY <1>1, <1>2, EachOf DEF IInv
  <2> QED
    BY <1>3, <2>1, NoStatement, QuietOrder DEF IInv
<1>8. NoneNew
  BY <1>3, NoneComesNew DEF NoSelects
<1>9. Selects'
  BY <1>1, <1>8, SelectsStand DEF IInv, KeepsMembers
<1>10. Known'
  <2>1. ASSUME NEW i \in 1..Len(answers'),
               answers'[i].kind \in {"identify", "setIdentify"}, answers'[i].val # 0
        PROVE  identRow'[answers'[i].user] # 0
    <3>1. CASE i \in 1..Len(answers)
      <4>1. answers[i].user \in Users
        <5>1. answers[i] \in Answers
          BY <3>1 DEF IInv, Types, QueueTypes
        <5> QED
          BY <1>3, <2>1, <3>1, <5>1 DEF Answers
      <4> QED
        BY <1>3, <1>6, <2>1, <3>1, <4>1 DEF IInv, Known
    <3>2. CASE i = e
      BY <1>3, <1>4, <1>5, <2>1, <3>2 DEF UserKinds
    <3> QED
      BY <1>3, <3>1, <3>2
  <2>2. \A u \in Users : Online(u)' /\ sessions'[u].identify # 0 => identRow'[u] # 0
    BY <1>1, <1>6 DEF IInv, Known, Online
  <2> QED
    BY <2>1, <2>2 DEF Known
<1>11. Tells'
  <2> SUFFICES ASSUME fails = 0 PROVE LastTells'
    BY <1>1 DEF Tells
  <2>1. LastTells
    BY DEF IInv, Tells
  <2>2. ASSUME NEW u \in Users, ~Concerns(e, u) PROVE identRow'[u] = identRow[u]
    BY <1>3, <1>5, <2>2 DEF Concerns
  <2>3. ASSUME NEW i \in 1..Len(answers'), NEW u \in Users, Concerns(i, u)',
               \A j \in 1..Waiting' : j > i => ~Concerns(j, u)'
        PROVE  answers'[i].val = identRow'[u]
    <3>1. i \in Nat /\ \A j \in 1..Waiting : j > i + 0 => ~Concerns(j, u)
      <4>1. i \in Nat
        OBVIOUS
      <4> QED
        BY <1>3, <2>3, <4>1, LastBefore
    <3>2. CASE i \in 1..Len(answers)
      <4>1. Concerns(i, u)
        BY <1>3, <2>3, <3>2 DEF Concerns, Kind, Who
      <4>2. answers'[i].val = identRow[u]
        BY <1>3, <2>1, <3>1, <3>2, <4>1 DEF LastTells
      <4>3. ~Concerns(e, u)
        BY <1>3, <3>1, <3>2
      <4> QED
        BY <2>2, <4>2, <4>3
    <3>3. CASE i = e
      <4>1. q.kind \in {"identify", "setIdentify"} /\ q.user = u
        BY <1>3, <1>4, <2>3, <3>3 DEF Concerns, Kind, Who, UserKinds
      <4> QED
        BY <1>3, <1>4, <1>5, <3>3, <4>1
    <3> QED
      BY <1>3, <3>2, <3>3
  <2>4. ASSUME NEW u \in Users, Online(u)', \A j \in 1..Waiting' : ~Concerns(j, u)'
        PROVE  sessions'[u].identify = identRow'[u]
    <3>1. \A j \in 1..Waiting : j > 0 + 0 => ~Concerns(j, u)
      BY <1>3, <2>4, LastBefore
    <3>2. \A j \in 1..Waiting : ~Concerns(j, u)
      BY <1>2, <3>1
    <3> QED
      BY <1>1, <1>3, <2>1, <2>2, <2>4, <3>2 DEF LastTells, Online
  <2> QED
    BY <2>3, <2>4 DEF LastTells
<1>12. Types' /\ ListsWhole'
  BY <1>1, <1>3, <1>5 DEF IInv, Types, ListsWhole, QueueStep
<1> QED
  BY <1>7, <1>9, <1>10, <1>11, <1>12 DEF IInv

\* A statement that failed leaves a gap that changes no order; nothing is said of the
\* identities any more.
LEMMA ExecuteFailsKeeps ==
  ASSUME IInv, ExecuteFails
  PROVE  IInv'
<1>1. /\ fails' = fails + 1 /\ answers' = answers
      /\ UNCHANGED <<writes, identRow, gameRow, cafe, logging, sessions, shown, mems, entries, pages, fault>>
  BY DEF ExecuteFails, dbVars, userVars, listVars
<1>2. /\ QueueTypes' /\ Waiting \in Nat /\ Waiting > 0 /\ Waiting' = Waiting - 1
      /\ \A i \in 1..Waiting' : Same(i, IF i <= Len(answers) THEN i ELSE i + 1)
  BY FailStep DEF IInv
<1>3. Len(answers) \in Nat
  BY QueueLengths DEF IInv, Types
<1>4. PICK a \in Nat : a = Len(answers)
  BY <1>3
<1> DEFINE Old(i) == IF i <= a THEN i ELSE i + 1
<1>5. ASSUME NEW i \in 1..Waiting'
      PROVE  Old(i) \in 1..Waiting /\ Same(i, Old(i)) /\ Old(i) \in Int
  BY <1>2, <1>4
<1>6. ASSUME NEW i \in 1..Waiting', NEW j \in 1..Waiting', i < j PROVE Old(i) < Old(j)
  BY <1>2, <1>4, <1>6
<1> HIDE DEF Old
<1>7. Order'
  <2>1. ASSUME NEW i \in 1..Waiting' PROVE Each(i)'
    <3>1. Each(Old(i)) /\ Same(i, Old(i))
      BY <1>5 DEF IInv, Order
    <3> QED
      BY <1>1, <3>1 DEF Each, Same, UserKinds
  <2>2. ASSUME NEW i \in 1..Waiting', NEW j \in 1..Waiting', i < j PROVE Fits(i, j)'
    <3>1. Fits(Old(i), Old(j)) /\ Same(i, Old(i)) /\ Same(j, Old(j))
      BY <1>5, <1>6, <2>2 DEF IInv, Order
    <3> QED
      BY <3>1, PairKept
  <2> QED
    BY <2>1, <2>2 DEF Order
<1>8. NoneNew
  <2>1. ASSUME NEW u \in Users, NEW kind \in UserKinds, Pending(kind, u)' PROVE Pending(kind, u)
    <3>1. PICK i \in 1..Waiting' : Is(i, kind, u)'
      BY <2>1 DEF Pending
    <3>2. Old(i) \in 1..Waiting /\ Is(Old(i), kind, u)
      BY <1>5, <3>1 DEF Same, Is, UserKinds
    <3> QED
      BY <3>2 DEF Pending
  <2> QED
    BY <2>1 DEF NoneNew, UserKinds
<1>9. Selects'
  BY <1>1, <1>8, SelectsStand DEF IInv, KeepsMembers
<1>10. Known'
  BY <1>1 DEF IInv, Known, Online
<1>11. Types' /\ Tells' /\ ListsWhole'
  BY <1>1, <1>2 DEF IInv, Types, Tells, ListsWhole
<1> QED
  BY <1>7, <1>9, <1>10, <1>11 DEF IInv

LEMMA ExecuteWriteKeeps ==
  ASSUME IInv, ExecuteWrite
  PROVE  IInv'
<1>1. /\ writes # <<>> /\ writes' = Tail(writes)
      /\ gameRow' = [gameRow EXCEPT ![Head(writes)[1]] = Head(writes)[2]]
      /\ UNCHANGED <<reads, answers, identRow, cafe, logging, sessions, shown, mems, entries, pages, fails, fault>>
  BY DEF ExecuteWrite, userVars, listVars
<1>2. PICK n \in Nat : n = Waiting
  BY QueueLengths DEF IInv, Types
<1>3. QueueStep(0, n, <<>>) /\ Moved(0)
  BY <1>1, <1>2, IdleStep DEF IInv, Types
<1>4. Order'
  <2>1. EachStays(0)
    BY <1>1, <1>2, EachOf DEF IInv
  <2> QED
    BY <1>3, <2>1, NoStatement, QuietOrder DEF IInv
<1>5. Selects' /\ Known' /\ Tells'
  <2>1. NoSelects(<<>>) /\ KeepsMembers
    BY <1>1 DEF NoSelects, KeepsMembers
  <2> QED
    BY <1>1, <1>3, <2>1, Stands
<1>6. writes' \in Seq(Users \X Versions) /\ gameRow' \in [Users -> Data]
  <2>1. Head(writes) \in Users \X Versions /\ Tail(writes) \in Seq(Users \X Versions)
    BY <1>1, HeadTailProperties DEF IInv, Types
  <2> QED
    BY <1>1, <2>1, AccountsAssumption DEF IInv, Types, Versions, Data
<1>7. Types' /\ ListsWhole'
  BY <1>1, <1>3, <1>6 DEF IInv, Types, ListsWhole, QueueStep
<1> QED
  BY <1>4, <1>5, <1>7 DEF IInv

-----------------------------------------------------------------------------
(***************************************************************************)
(* The callbacks.                                                          *)
(***************************************************************************)

\* The first answer is taken out: what it is, and what may come behind it.
LEMMA FirstHandled ==
  ASSUME IInv, NEW kind, Answered(kind), Handled, NEW more \in Seq(Statements), reads' = reads \o more
  PROVE  /\ Head(answers) \in Answers /\ Head(answers).kind = kind
         /\ 1 \in 1..Len(answers) /\ Head(answers) = answers[1]
         /\ Kind(1) = kind /\ Who(1) = Head(answers).user
         /\ Each(1) /\ \A i \in (1 + 1)..Waiting : Fits(1, i) /\ Each(i) /\ i \in 1..Waiting
         /\ \E n \in Nat, m \in Seq(Statements) : m = more /\ QueueStep(1, n, m) /\ Moved(1)
<1>1. Waiting \in Nat /\ Len(answers) \in Nat /\ Len(reads) \in Nat
  BY QueueLengths DEF IInv, Types
<1>2. answers # <<>> /\ answers' = Tail(answers) /\ Head(answers).kind = kind
  BY DEF Answered, Handled
<1>3. Len(answers) > 0
  BY <1>1, <1>2 DEF IInv, Types, QueueTypes
<1>4. PICK n \in Nat : n = Waiting - 1
  BY <1>1, <1>3 DEF Waiting
<1>5. /\ QueueStep(1, n, more) /\ Moved(1) /\ Head(answers) \in Answers
      /\ Len(answers) \in Nat /\ 1 \in 1..Len(answers) /\ Head(answers) = answers[1]
      /\ Kind(1) = Head(answers).kind /\ Who(1) = Head(answers).user
  BY <1>2, <1>4, HandleStep DEF IInv, Types
<1>6. Waiting = n + 1
  BY <1>1, <1>4
<1>7. Each(1) /\ \A i \in (1 + 1)..Waiting : Fits(1, i) /\ Each(i) /\ i \in 1..Waiting
  BY <1>6, BehindFirst DEF IInv
<1> QED
  BY <1>2, <1>5, <1>7

\* No more than one load is under way, and nobody logs in while the teams are awaited.
LEMMA InitAllTeamBackKeeps ==
  ASSUME IInv, InitAllTeamBack
  PROVE  IInv'
<1>1. /\ Answered("teams") /\ Handled /\ Query(<<Load("users")>>)
      /\ UNCHANGED <<writes, identRow, gameRow, cafe, logging, sessions, shown, mems, entries, pages, fails, fault>>
  BY DEF InitAllTeamBack, dbVars, userVars, listVars
<1>2. /\ Load("users").kind = "users" /\ <<Load("users")>> \in Seq(Statements)
      /\ Len(<<Load("users")>>) = 1 /\ <<Load("users")>>[1] = Load("users")
  BY StatementsAre, OneStatement
<1>3. /\ Kind(1) = "teams" /\ Each(1)
      /\ \A i \in (1 + 1)..Waiting : Fits(1, i) /\ Each(i)
  BY <1>1, <1>2, FirstHandled DEF Query
<1>4. PICK n \in Nat, more \in Seq(Statements) : /\ more = <<Load("users")>> /\ QueueStep(1, n, more) /\ Moved(1)
  BY <1>1, <1>2, FirstHandled DEF Query
<1>5. Len(more) = 1 /\ more[1].kind = "users" /\ Waiting' = n + 1 /\ Kind(n + 1)' = "users"
  BY <1>2, <1>4 DEF QueueStep, Issued
<1>6. Order'
  <2>1. EachStays(1)
    BY <1>1, <1>3 DEF Each, EachStays
  <2>2. \A i \in (1 + 1)..Waiting : Kind(i) \notin {"teams", "users", "login"}
    BY <1>3 DEF Fits, Each
  <2>3. ASSUME NEW i \in 1..Waiting'
        PROVE  \/ i = n + 1
               \/ i \in 1..n /\ i + 1 \in (1 + 1)..Waiting /\ Same(i, i + 1)
    <3>1. \A k \in 1..Len(more) : k = 1
      BY <1>5
    <3> QED
      BY <1>4, <3>1, QueueIs
  <2>4. ASSUME NEW i \in 1..Waiting' PROVE Each(i)'
    <3>1. CASE i = n + 1
      BY <1>1, <1>3, <1>5, <3>1 DEF Each
    <3> QED
      BY <2>1, <2>3, <3>1, StayingEach
  <2>5. ASSUME NEW k \in 1..Len(more), NEW i \in 1..Waiting', i < n + k PROVE Fits(i, n + k)'
    <3>1. k = 1
      BY <1>5
    <3>2. i + 1 \in (1 + 1)..Waiting /\ Same(i, i + 1)
      BY <2>3, <2>5, <3>1
    <3>3. Kind(i)' \notin {"teams", "users", "login"}
      BY <2>2, <3>2 DEF Same
    <3> QED
      BY <1>5, <3>1, <3>3 DEF Fits
  <2> QED
    BY <1>4, <2>4, <2>5, OrderStep DEF IInv
<1>7. NoSelects(more) /\ KeepsMembers
  BY <1>1, <1>5 DEF NoSelects, KeepsMembers
<1>8. Selects' /\ Known' /\ Tells'
  BY <1>1, <1>3, <1>4, <1>7, Stands
<1>9. Types' /\ ListsWhole'
  BY <1>1, <1>4 DEF IInv, Types, ListsWhole, QueueStep
<1> QED
  BY <1>6, <1>8, <1>9 DEF IInv

LEMMA MembersAre ==
  /\ Member \in MemberType /\ Member # Nil
  /\ Nil \notin MemberType /\ Nil \notin ShownType /\ Nil \notin SessionType
<1>1. Data \subseteq Nat /\ 0 \in Data
  BY AccountsAssumption DEF Data
<1>2. MemberType \subseteq [game : Nat, team : BOOLEAN] /\ Member \in MemberType
  BY <1>1 DEF Member, MemberType
<1>3. ShownType \subseteq [identify : Nat, game : Nat, team : BOOLEAN]
  BY <1>1 DEF ShownType
<1>4. SessionType \subseteq [selectRecord : Nat, identify : Nat, game : Nat]
  <2>1. 0..2 \subseteq Nat
    OBVIOUS
  <2> HIDE DEF Data
  <2> QED
    BY <1>1, <2>1 DEF SessionType
<1> QED
  BY <1>2, <1>3, <1>4, NilAssumption

AllQuiet(more) == \A k \in 1..Len(more) : more[k].kind \in Quiet

LEMMA QuietAre ==
  /\ \A q \in Statements : q.kind \in Quiet => AllQuiet(<<q>>)
  /\ AllQuiet(<<>>)
<1>1. ASSUME NEW q \in Statements, q.kind \in Quiet, NEW k \in 1..Len(<<q>>) PROVE <<q>>[k].kind \in Quiet
  BY <1>1, OneStatement
<1> QED
  BY <1>1 DEF AllQuiet

\* What a callback that has nothing to do with sessions keeps.
LEMMA QuietCallback ==
  ASSUME IInv, NEW kind \in {"users", "games", "members", "cafe", "list"}, Answered(kind), Handled,
         NEW more \in Seq(Statements), reads' = reads \o more,
         AllQuiet(more), UNCHANGED <<identRow, sessions, shown, fails>>, KeepsMembers, EachStays(1)
  PROVE  QueueTypes' /\ Order' /\ Selects' /\ Known' /\ Tells'
<1>1. Kind(1) = kind
  BY FirstHandled
<1>2. PICK n \in Nat, m \in Seq(Statements) : m = more /\ QueueStep(1, n, m) /\ Moved(1)
  BY FirstHandled
<1>3. Order'
  BY <1>2, QuietOrder DEF IInv, AllQuiet
<1>4. NoSelects(m) /\ (1 = 1 => Kind(1) \notin {"identify", "setIdentify"})
  BY <1>1, <1>2 DEF NoSelects, Quiet, AllQuiet
<1>5. Selects' /\ Known' /\ Tells'
  BY <1>2, <1>4, Stands
<1> QED
  BY <1>2, <1>3, <1>5 DEF QueueStep

\* Nobody is entered yet: the users' table is still first in the queue.
LEMMA InitAllUserBackKeeps ==
  ASSUME IInv, InitAllUserBack
  PROVE  IInv'
<1>1. /\ Answered("users") /\ Handled /\ Query(<<Load("games")>>)
      /\ mems' = [u \in Users |-> Member]
      /\ UNCHANGED <<writes, identRow, gameRow, cafe, logging, sessions, shown, entries, pages, fails, fault>>
  BY DEF InitAllUserBack, dbVars, userVars, listVars
<1>2. <<Load("games")>> \in Seq(Statements) /\ AllQuiet(<<Load("games")>>)
  <2>1. Load("games") \in Statements /\ Load("games").kind \in Quiet
    BY StatementsAre DEF Quiet
  <2> QED
    BY <2>1, OneStatement, QuietAre
<1>3. Kind(1) = "users" /\ \A i \in (1 + 1)..Waiting : Fits(1, i) /\ Each(i)
  BY <1>1, <1>2, FirstHandled DEF Query
<1>4. EachStays(1)
  <2>1. \A i \in (1 + 1)..Waiting : Kind(i) \notin {"teams", "users"}
    BY <1>3 DEF Fits
  <2> QED
    BY <1>1, <1>3, <2>1 DEF Each, EachStays
<1>5. KeepsMembers /\ mems' \in [Users -> {Nil} \cup MemberType]
  BY <1>1, MembersAre DEF KeepsMembers
<1>6. QueueTypes' /\ Order' /\ Selects' /\ Known' /\ Tells'
  BY <1>1, <1>2, <1>4, <1>5, QuietCallback DEF Query
<1>7. Types' /\ ListsWhole'
  BY <1>1, <1>5, <1>6 DEF IInv, Types, ListsWhole
<1> QED
  BY <1>6, <1>7 DEF IInv

\* An entry that is not there is not made, and one that is there stays.
LEMMA NilStays ==
  ASSUME IInv, NEW kind, Answered(kind), Handled, NEW more \in Seq(Statements), reads' = reads \o more,
         UNCHANGED <<logging, cafe>>, \A u \in Users : mems[u] = Nil => mems'[u] = Nil
  PROVE  EachStays(1)
<1>1. \A i \in (1 + 1)..Waiting : Fits(1, i) /\ Each(i)
  BY FirstHandled
<1> QED
  BY <1>1 DEF Each, EachStays

LEMMA InitAllUserGameBackKeeps ==
  ASSUME IInv, InitAllUserGameBack
  PROVE  IInv'
<1> DEFINE rows == Head(answers).rows
<1>1. /\ Answered("games") /\ Handled /\ Query(<<Load("members")>>)
      /\ mems' = [u \in Users |-> IF rows[u] = 0 \/ mems[u] = Nil THEN mems[u]
                                  ELSE [mems[u] EXCEPT !.game = rows[u]]]
      /\ UNCHANGED <<writes, identRow, gameRow, cafe, logging, sessions, shown, entries, pages, fails, fault>>
  BY DEF InitAllUserGameBack, dbVars, userVars, listVars
<1>2. <<Load("members")>> \in Seq(Statements) /\ AllQuiet(<<Load("members")>>)
  <2>1. Load("members") \in Statements /\ Load("members").kind \in Quiet
    BY StatementsAre DEF Quiet
  <2> QED
    BY <2>1, OneStatement, QuietAre
<1>3. rows \in [Users -> Data]
  <2>1. Head(answers) \in Answers /\ Head(answers).kind = "games"
    BY <1>1, <1>2, FirstHandled DEF Query
  <2> QED
    BY <2>1 DEF Answers
<1> HIDE DEF rows
<1>4. ASSUME NEW u \in Users
      PROVE  /\ mems[u] = Nil => mems'[u] = Nil
             /\ mems[u] # Nil => mems'[u] \in MemberType
  <2>1. CASE mems[u] = Nil
    BY <1>1, <2>1
  <2>2. CASE mems[u] # Nil
    <3>1. mems[u] \in MemberType
      BY <2>2 DEF IInv, Types
    <3>2. [mems[u] EXCEPT !.game = rows[u]] \in MemberType
      BY <1>3, <3>1 DEF MemberType
    <3> QED
      BY <1>1, <2>2, <3>1, <3>2
  <2> QED
    BY <2>1, <2>2
<1>5. KeepsMembers /\ mems' \in [Users -> {Nil} \cup MemberType]
  <2>1. DOMAIN mems' = Users /\ mems' = [u \in Users |-> mems'[u]]
    BY <1>1
  <2> QED
    BY <1>4, <2>1, MembersAre DEF KeepsMembers
<1>6. EachStays(1)
  BY <1>1, <1>2, <1>4, NilStays DEF Query
<1>7. QueueTypes' /\ Order' /\ Selects' /\ Known' /\ Tells'
  BY <1>1, <1>2, <1>5, <1>6, QuietCallback DEF Query
<1>8. Types' /\ ListsWhole'
  BY <1>1, <1>5, <1>7 DEF IInv, Types, ListsWhole
<1> QED
  BY <1>7, <1>8 DEF IInv

LEMMA InitAllUserTeamBackKeeps ==
  ASSUME IInv, InitAllUserTeamBack
  PROVE  IInv'
<1>1. /\ Answered("members") /\ Handled
      /\ mems' = [u \in Users |-> IF u \notin Members \/ mems[u] = Nil THEN mems[u]
                                  ELSE [mems[u] EXCEPT !.team = TRUE]]
      /\ UNCHANGED <<reads, writes, identRow, gameRow, cafe, logging, sessions, shown, entries, pages, fails, fault>>
  BY DEF InitAllUserTeamBack, dbVars, userVars, listVars
<1>2. reads' = reads \o <<>> /\ AllQuiet(<<>>)
  BY <1>1, QuietAre DEF IInv, Types, QueueTypes
<1>3. ASSUME NEW u \in Users
      PROVE  /\ mems[u] = Nil => mems'[u] = Nil
             /\ mems[u] # Nil => mems'[u] \in MemberType
  <2>1. CASE mems[u] = Nil
    BY <1>1, <2>1
  <2>2. CASE mems[u] # Nil
    <3>1. mems[u] \in MemberType
      BY <2>2 DEF IInv, Types
    <3>2. [mems[u] EXCEPT !.team = TRUE] \in MemberType
      BY <3>1 DEF MemberType
    <3> QED
      BY <1>1, <2>2, <3>1, <3>2
  <2> QED
    BY <2>1, <2>2
<1>4. KeepsMembers /\ mems' \in [Users -> {Nil} \cup MemberType]
  <2>1. DOMAIN mems' = Users /\ mems' = [u \in Users |-> mems'[u]]
    BY <1>1
  <2> QED
    BY <1>3, <2>1, MembersAre DEF KeepsMembers
<1>5. EachStays(1)
  BY <1>1, <1>2, <1>3, NoStatement, NilStays
<1>6. QueueTypes' /\ Order' /\ Selects' /\ Known' /\ Tells'
  BY <1>1, <1>2, <1>4, <1>5, NoStatement, QuietCallback
<1>7. Types' /\ ListsWhole'
  BY <1>1, <1>4, <1>6 DEF IInv, Types, ListsWhole
<1> QED
  BY <1>6, <1>7 DEF IInv

\* The teams have been loaded: their answer came before this one.
LEMMA LoginCheckKeeps ==
  ASSUME IInv, LoginCheck
  PROVE  IInv'
<1>1. /\ Answered("cafe") /\ Handled /\ cafe' = "in"
      /\ UNCHANGED <<reads, writes, identRow, gameRow, logging, sessions, shown, mems, entries, pages, fails, fault>>
  BY DEF LoginCheck, dbVars, userVars, listVars
<1>2. reads' = reads \o <<>> /\ AllQuiet(<<>>)
  BY <1>1, QuietAre DEF IInv, Types, QueueTypes
<1>3. \A i \in (1 + 1)..Waiting : Fits(1, i) /\ Each(i)
  BY <1>1, <1>2, NoStatement, FirstHandled
<1>4. EachStays(1)
  <2>1. \A i \in (1 + 1)..Waiting : Kind(i) # "teams"
    BY <1>3 DEF Fits
  <2> QED
    BY <1>1, <1>3, <2>1 DEF Each, EachStays
<1>5. QueueTypes' /\ Order' /\ Selects' /\ Known' /\ Tells'
  BY <1>1, <1>2, <1>4, NoStatement, QuietCallback DEF KeepsMembers
<1>6. Types' /\ ListsWhole'
  BY <1>1, <1>5 DEF IInv, Types, ListsWhole
<1> QED
  BY <1>5, <1>6 DEF IInv

\* The next log-in of his has not come, and what is asked for him is asked for this one.
LEMMA LoginTelCheckKeeps ==
  ASSUME IInv, LoginTelCheck
  PROVE  IInv'
<1> DEFINE u == Head(answers).user
           asked == <<About("identify", u), About("game", u)>>
<1>1. /\ Answered("login") /\ Handled /\ Query(asked)
      /\ logging' = logging \ {u}
      /\ sessions' = [sessions EXCEPT ![u] = Session(2, 0, 0)]
      /\ shown' = [shown EXCEPT ![u] = Nil]
      /\ mems' = [mems EXCEPT ![u] = IF @ = Nil THEN Member ELSE @]
      /\ UNCHANGED <<writes, identRow, gameRow, cafe, entries, pages, fails, fault>>
  BY DEF LoginTelCheck, dbVars, listVars
<1>2. u \in Users
  <2>1. answers # <<>> /\ Head(answers).kind = "login"
    BY <1>1 DEF Answered
  <2>2. Head(answers) \in Answers
    BY <2>1, HeadTailProperties DEF IInv, Types, QueueTypes
  <2> QED
    BY <2>1, <2>2 DEF Answers
<1>3. PICK w \in Users : w = u
  BY <1>2
<1> HIDE DEF u
<1>4. asked \in Seq(Statements) /\ Len(asked) = 2
      /\ asked[1].kind = "identify" /\ asked[1].user = w
      /\ asked[2].kind = "game" /\ asked[2].user = w
  BY <1>3, StatementsAre
<1> HIDE DEF asked
<1>5. /\ Kind(1) = "login" /\ Who(1) = w
      /\ \A i \in (1 + 1)..Waiting : Fits(1, i) /\ Each(i) /\ i \in 1..Waiting
  BY <1>1, <1>3, <1>4, FirstHandled DEF Query, u
<1>6. PICK n \in Nat, more \in Seq(Statements) : more = asked /\ QueueStep(1, n, more) /\ Moved(1)
  BY <1>1, <1>4, FirstHandled DEF Query
<1>7. /\ Waiting' = n + 2 /\ Len(more) = 2
      /\ Kind(n + 1)' = "identify" /\ Who(n + 1)' = w
      /\ Kind(n + 2)' = "game" /\ Who(n + 2)' = w
  <2>1. Len(more) = 2 /\ 1 \in 1..Len(more) /\ 2 \in 1..Len(more)
    <3>1. Len(more) = 2
      BY <1>4, <1>6, Zenon
    <3> QED
      BY <3>1
  <2>2. Issued(n + 1, more[1]) /\ Issued(n + 2, more[2]) /\ Waiting' = n + 2
    BY <1>6, <2>1 DEF QueueStep
  <2> QED
    BY <1>4, <1>6, <2>1, <2>2 DEF Issued
<1>8. \A i \in (1 + 1)..Waiting :
        /\ Kind(i) \notin {"teams", "users"}
        /\ Kind(i) \in {"login", "identify", "game"} => Who(i) # w
  BY <1>5 DEF Fits, Is
<1>9. Order'
  <2>1. EachStays(1)
    BY <1>1, <1>3, <1>5, <1>8 DEF Each, EachStays
  <2>2. ASSUME NEW i \in 1..Waiting'
        PROVE  \/ i = n + 1 \/ i = n + 2
               \/ i \in 1..n /\ i + 1 \in (1 + 1)..Waiting /\ Same(i, i + 1)
    <3>1. \A k \in 1..Len(more) : k = 1 \/ k = 2
      BY <1>7
    <3> QED
      BY <1>6, <3>1, QueueIs
  <2>3. ASSUME NEW i \in 1..Waiting' PROVE Each(i)'
    <3>1. CASE Kind(i)' \in {"identify", "game"}
      BY <3>1 DEF Each
    <3> QED
      BY <1>7, <2>1, <2>2, <3>1, StayingEach
  <2>4. ASSUME NEW i \in 1..n, i + 1 \in (1 + 1)..Waiting, Same(i, i + 1),
               NEW kind \in {"login", "identify", "game"}
        PROVE  ~Is(i, kind, w)'
    BY <1>8, <2>4 DEF Is, Same, UserKinds
  <2>5. ASSUME NEW k \in 1..Len(more), NEW i \in 1..Waiting', i < n + k PROVE Fits(i, n + k)'
    <3>1. CASE k = 1
      <4>1. i \in 1..n /\ i + 1 \in (1 + 1)..Waiting /\ Same(i, i + 1)
        BY <2>2, <2>5, <3>1
      <4>2. ~Is(i, "identify", w)' /\ ~Is(i, "login", w)'
        BY <2>4, <4>1
      <4> QED
        BY <1>7, <3>1, <4>2 DEF Fits
    <3>2. CASE k = 2
      <4>1. ~Is(i, "game", w)' /\ ~Is(i, "login", w)'
        <5>1. CASE i = n + 1
          BY <1>7, <5>1 DEF Is
        <5>2. CASE i # n + 1
          <6>1. i \in 1..n /\ i + 1 \in (1 + 1)..Waiting /\ Same(i, i + 1)
            BY <2>2, <2>5, <3>2, <5>2
          <6> QED
            BY <2>4, <6>1
        <5> QED
          BY <5>1, <5>2
      <4> QED
        BY <1>7, <3>2, <4>1 DEF Fits
    <3> QED
      BY <1>7, <3>1, <3>2
  <2> QED
    BY <1>6, <2>3, <2>5, OrderStep DEF IInv
<1>10. /\ sessions'[w] = [selectRecord |-> 2, identify |-> 0, game |-> 0] /\ shown'[w] = Nil
       /\ \A v \in Users : v # w => sessions'[v] = sessions[v] /\ shown'[v] = shown[v]
  BY <1>1, <1>3 DEF IInv, Types, Session
<1>11. /\ sessions' \in [Users -> {Nil} \cup SessionType] /\ shown' \in [Users -> {Nil} \cup ShownType]
       /\ mems' \in [Users -> {Nil} \cup MemberType] /\ KeepsMembers /\ mems'[w] # Nil
       /\ Nil \notin SessionType /\ sessions'[w] \in SessionType
  <2>1. [selectRecord |-> 2, identify |-> 0, game |-> 0] \in SessionType
    BY AccountsAssumption DEF SessionType, Data
  <2> QED
    BY <1>1, <1>3, <1>10, <2>1, MembersAre DEF IInv, Types, Session, KeepsMembers
<1>12. ASSUME NEW v \in Users, Online(v)'
       PROVE  \/ v = w
              \/ v # w /\ Online(v) /\ sessions'[v] = sessions[v]
  BY <1>10, <1>12 DEF Online
<1>13. Selects'
  <2>1. ASSUME NEW v \in Users, Online(v)' PROVE mems'[v] # Nil /\ Counted(v)'
    <3>1. CASE v = w
      <4>1. Left(sessions[w])' = 2
        BY <1>10 DEF Left
      <4> QED
        BY <1>10, <1>11, <3>1, <4>1 DEF Counted
    <3>2. CASE v # w
      <4>1. mems[v] # Nil /\ Counted(v)
        BY <1>12, <2>1, <3>2 DEF IInv, Selects
      <4>2. ASSUME NEW kind \in {"identify", "game"}, Pending(kind, v)' PROVE Pending(kind, v)
        <5>1. kind \in UserKinds /\ \A k \in 1..Len(more) : ~(more[k].kind = kind /\ more[k].user = v)
          <6>1. \A k \in 1..Len(more) : more[k].user = w
            <7>1. \A k \in 1..Len(more) : k = 1 \/ k = 2
              BY <1>7
            <7> QED
              BY <1>4, <1>6, <7>1
          <6> QED
            BY <3>2, <6>1 DEF UserKinds
        <5> QED
          BY <1>6, <4>2, <5>1, StillPending DEF Pending
      <4> QED
        BY <1>10, <1>11, <3>2, <4>1, <4>2, CountedStands DEF KeepsMembers
    <3> QED
      BY <3>1, <3>2
  <2> QED
    BY <2>1 DEF Selects
<1>14. Known'
  <2>1. \A v \in Users : Online(v)' /\ sessions'[v].identify # 0
                           => Online(v) /\ sessions[v].identify # 0
    BY <1>10, <1>12
  <2> QED
    BY <1>1, <1>6, <2>1, KnownStands DEF IInv
<1>15. Tells'
  <2>1. n + 1 \in 1..Waiting' /\ Concerns(n + 1, w)'
    BY <1>7 DEF Concerns
  <2>2. \A v \in Users : Online(v)' => \/ Online(v) /\ sessions'[v].identify = sessions[v].identify
                                       \/ \E i \in 1..Waiting' : Concerns(i, v)'
    BY <1>12, <2>1
  <2>3. \A v \in Users : 1 = 1 => ~Concerns(1, v)
    BY <1>5 DEF Concerns
  <2> QED
    BY <1>1, <1>6, <2>2, <2>3, TellsStand DEF IInv
<1>16. Types' /\ ListsWhole'
  BY <1>1, <1>6, <1>11 DEF IInv, Types, ListsWhole, QueueStep
<1> QED
  BY <1>9, <1>13, <1>14, <1>15, <1>16 DEF IInv

\* An answer about one user: of a select it was the only one.
LEMMA SelectHandled ==
  ASSUME IInv, NEW kind \in {"identify", "game", "setIdentify"}, Answered(kind), Handled,
         UNCHANGED <<reads, cafe, logging, mems>>
  PROVE  /\ Head(answers).user \in Users /\ Head(answers).val \in Data
         /\ kind = "setIdentify" => Head(answers).val # 0
         /\ 1 \in 1..Len(answers) /\ Head(answers) = answers[1] /\ Head(answers).kind = kind
         /\ Kind(1) = kind /\ Who(1) = Head(answers).user /\ 1 \in 1..Waiting
         /\ QueueTypes' /\ Order' /\ NoneNew /\ KeepsMembers
         /\ kind # "setIdentify" => \A u \in Users : u = Head(answers).user => ~Pending(kind, u)'
         /\ \E n \in Nat : QueueStep(1, n, <<>>) /\ Moved(1)
<1>1. reads' = reads \o <<>>
  BY DEF IInv, Types, QueueTypes
<1>2. /\ Head(answers) \in Answers /\ Head(answers).kind = kind
      /\ 1 \in 1..Len(answers) /\ Head(answers) = answers[1]
      /\ Kind(1) = kind /\ Who(1) = Head(answers).user
      /\ \A i \in (1 + 1)..Waiting : Fits(1, i) /\ Each(i)
  BY <1>1, NoStatement, FirstHandled
<1>3. PICK n \in Nat : QueueStep(1, n, <<>>) /\ Moved(1)
  <2>1. PICK n \in Nat, m \in Seq(Statements) : m = <<>> /\ QueueStep(1, n, m) /\ Moved(1)
    BY <1>1, NoStatement, FirstHandled
  <2>2. QueueStep(1, n, <<>>) /\ Moved(1)
    BY <2>1
  <2> QED
    BY <2>2
<1>4. /\ Head(answers).user \in Users /\ Head(answers).val \in Data
      /\ kind = "setIdentify" => Head(answers).val # 0
  <2>1. Versions \subseteq Data /\ 0 \notin Versions
    BY AccountsAssumption DEF Versions, Data
  <2> QED
    BY <1>2, <2>1 DEF Answers
<1>5. EachStays(1)
  BY <1>2 DEF Each, EachStays
<1>6. Order'
  BY <1>3, <1>5, NoStatement, QuietOrder DEF IInv
<1>7. NoneNew /\ KeepsMembers
  BY <1>3, NoneComesNew DEF NoSelects, KeepsMembers
<1>8. ASSUME kind # "setIdentify", NEW u \in Users, u = Head(answers).user, Pending(kind, u)' PROVE FALSE
  <2>1. PICK i \in (1 + 1)..Waiting : Is(i, kind, u)
    BY <1>3, <1>8, NoStatement, StillPending DEF UserKinds
  <2> QED
    BY <1>2, <1>8, <2>1 DEF Fits, Is
<1> QED
  BY <1>2, <1>3, <1>4, <1>6, <1>7, <1>8 DEF QueueStep

\* An answer about his identity has been entered, unless it found none.
LEMMA TellsHandled ==
  ASSUME IInv, NEW n, QueueStep(1, n, <<>>), Moved(1), UNCHANGED <<identRow, fails>>,
         NEW w \in Users, Concerns(1, w), 1 \in 1..Len(answers), Kind(1) = answers[1].kind, Who(1) = answers[1].user,
         \A v \in Users : Online(v)' => Online(v) /\ (v # w => sessions'[v].identify = sessions[v].identify),
         Online(w) => IF answers[1].val = 0 THEN sessions'[w].identify = sessions[w].identify
                      ELSE sessions'[w].identify = answers[1].val
  PROVE  Known' /\ Tells'
<1>1. \A u \in Users : Online(u) /\ sessions[u].identify # 0 => identRow[u] # 0
  BY DEF IInv, Known
<1>2. answers[1].val # 0 => identRow[w] # 0
  BY DEF IInv, Known, Concerns
<1>3. Known'
  <2>1. ASSUME NEW i \in 1..Len(answers'),
               answers'[i].kind \in {"identify", "setIdentify"}, answers'[i].val # 0
        PROVE  identRow'[answers'[i].user] # 0
    <3>1. i + 1 \in 1..Len(answers) /\ answers'[i] = answers[i + 1]
      BY DEF Moved
    <3> QED
      BY <2>1, <3>1 DEF IInv, Known
  <2>2. ASSUME NEW v \in Users, Online(v)', sessions'[v].identify # 0 PROVE identRow'[v] # 0
    <3>1. CASE v = w
      BY <1>1, <1>2, <2>2, <3>1
    <3>2. CASE v # w
      BY <1>1, <2>2, <3>2
    <3> QED
      BY <3>1, <3>2
  <2> QED
    BY <2>1, <2>2 DEF Known
<1>4. Tells'
  <2> SUFFICES ASSUME fails = 0 PROVE LastTells'
    BY DEF Tells
  <2>1. LastTells
    BY DEF IInv, Tells
  <2>2. ASSUME NEW i \in 1..Len(answers'), NEW u \in Users, Concerns(i, u)',
               \A j \in 1..Waiting' : j > i => ~Concerns(j, u)'
        PROVE  answers'[i].val = identRow'[u]
    BY <2>1, <2>2, AnswersTell
  <2>3. ASSUME NEW v \in Users, Online(v)', \A j \in 1..Waiting' : ~Concerns(j, v)'
        PROVE  sessions'[v].identify = identRow'[v]
    <3>1. \A j \in 1..Waiting : j > 0 + 1 => ~Concerns(j, v)
      BY <2>3, LastBefore
    <3>2. CASE v = w
      <4>1. answers[1].val = identRow[w]
        BY <2>1, <3>1, <3>2 DEF LastTells
      <4> QED
        BY <1>1, <2>3, <3>2, <4>1
    <3>3. CASE v # w
      <4>1. ~Concerns(1, v)
        BY <3>3 DEF Concerns
      <4>2. \A j \in 1..Waiting : ~Concerns(j, v)
        BY <3>1, <4>1 DEF QueueStep
      <4> QED
        BY <2>1, <2>3, <3>3, <4>2 DEF LastTells
    <3> QED
      BY <3>2, <3>3
  <2> QED
    BY <2>2, <2>3 DEF LastTells
<1> QED
  BY <1>3, <1>4

\* One user's session and what he is shown are replaced.
LEMMA OneCounted ==
  ASSUME Selects, NoneNew, KeepsMembers, NEW w \in Users,
         \A v \in Users : v # w => sessions'[v] = sessions[v] /\ shown'[v] = shown[v],
         Online(w), Counted(w)'
  PROVE  Selects'
<1>1. ASSUME NEW v \in Users, Online(v)' PROVE mems'[v] # Nil /\ Counted(v)'
  <2>1. CASE v = w
    BY <2>1 DEF Selects, KeepsMembers
  <2>2. CASE v # w
    <3>1. mems[v] # Nil /\ Counted(v)
      BY <1>1, <2>2 DEF Selects, Online
    <3> QED
      BY <2>2, <3>1, CountedStands DEF NoneNew, KeepsMembers
  <2> QED
    BY <2>1, <2>2
<1> QED
  BY <1>1 DEF Selects

\* What counts for one user, written out.
LEMMA CountedIs ==
  ASSUME NEW u \in Users, sessions[u] \in SessionType, Counted(u)
  PROVE  /\ sessions[u].selectRecord \in 0..2 /\ sessions[u].game \in Data /\ sessions[u].identify \in Data
         /\ sessions[u].game = 0 => sessions[u].selectRecord \in 1..2
         /\ sessions[u].game # 0 => sessions[u].selectRecord \in 0..1
         /\ Pending("identify", u) \/ sessions[u].identify = 0
              => sessions[u].selectRecord = IF sessions[u].game = 0 THEN 2 ELSE 1
         /\ Pending("game", u) => sessions[u].game = 0
         /\ shown[u] # Nil <=> sessions[u].selectRecord = 0
         /\ shown[u] # Nil => shown[u].identify = sessions[u].identify /\ shown[u].game # 0
<1> DEFINE s == sessions[u]
<1>1. s.selectRecord \in 0..2 /\ s.game \in Data /\ s.identify \in Data
  BY DEF SessionType
<1>2. /\ Left(s) \in 1..2
      /\ Pending("identify", u) \/ s.identify = 0 => Left(s) = 2
      /\ Pending("game", u) => s.game = 0
      /\ shown[u] # Nil <=> s.selectRecord = 0
      /\ shown[u] # Nil => shown[u].identify = s.identify /\ shown[u].game # 0
  BY DEF Counted
<1> HIDE DEF s
<1>3. /\ s.game = 0 => s.selectRecord \in 1..2
      /\ s.game # 0 => s.selectRecord \in 0..1
      /\ Pending("identify", u) \/ s.identify = 0
              => s.selectRecord = IF s.game = 0 THEN 2 ELSE 1
  BY <1>1, <1>2 DEF Left
<1> QED
  BY <1>1, <1>2, <1>3 DEF s

LEMMA CountedNow ==
  ASSUME NEW u \in Users, NEW s, sessions'[u] = s, s.selectRecord \in 0..2,
         s.game = 0 => s.selectRecord \in 1..2,
         s.game # 0 => s.selectRecord \in 0..1,
         Pending("identify", u)' \/ s.identify = 0
              => s.selectRecord = IF s.game = 0 THEN 2 ELSE 1,
         Pending("game", u)' => s.game = 0,
         shown'[u] # Nil <=> s.selectRecord = 0,
         shown'[u] # Nil => shown'[u].identify = s.identify /\ shown'[u].game # 0
  PROVE  Counted(u)'
<1>1. /\ Left(s) \in 1..2
      /\ Pending("identify", u)' \/ s.identify = 0 => Left(s) = 2
  BY DEF Left
<1> QED
  BY <1>1 DEF Counted, Left

\* One select less, and the main data when it was the last.
LEMMA SelectedIs ==
  ASSUME IInv, NEW w \in Users, NEW t \in SessionType, t.selectRecord # 0,
         mems[w] \in MemberType, shown[w] = Nil, Selected(w, t)
  PROVE  /\ sessions' \in [Users -> {Nil} \cup SessionType] /\ shown' \in [Users -> {Nil} \cup ShownType]
         /\ sessions'[w] # Nil
         /\ \A v \in Users : v # w => sessions'[v] = sessions[v] /\ shown'[v] = shown[v]
         /\ \E s \in SessionType : /\ sessions'[w] = s /\ s.selectRecord = t.selectRecord - 1
                                   /\ s.identify = t.identify /\ s.game = t.game
         /\ shown'[w] # Nil <=> t.selectRecord = 1
         /\ shown'[w] # Nil => shown'[w].identify = t.identify /\ shown'[w].game = t.game
<1> DEFINE s == [t EXCEPT !.selectRecord = t.selectRecord - 1]
           m == [identify |-> t.identify, game |-> t.game, team |-> mems[w].team]
<1>1. /\ s \in SessionType /\ s.selectRecord = t.selectRecord - 1
      /\ s.identify = t.identify /\ s.game = t.game /\ m \in ShownType
      /\ t.selectRecord \in 1..2
  <2> HIDE DEF Data
  <2>1. t.selectRecord \in 0..2 /\ t.identify \in Data /\ t.game \in Data /\ mems[w].team \in BOOLEAN
    BY DEF SessionType, MemberType
  <2>2. t.selectRecord \in 1..2 /\ t.selectRecord - 1 \in 0..2
    BY <2>1
  <2> QED
    BY <2>1, <2>2 DEF SessionType, ShownType
<1>2. SelectRet(t) = s
  BY <1>1 DEF SelectRet
<1>3. MainData(w, s) = m
  BY <1>1 DEF MainData
<1> HIDE DEF s, m
<1>4. /\ sessions' = [sessions EXCEPT ![w] = s]
      /\ shown' = IF s.selectRecord = 0 THEN [shown EXCEPT ![w] = m] ELSE shown
  BY <1>2, <1>3 DEF Selected, SendUserData
<1>5. /\ sessions' \in [Users -> {Nil} \cup SessionType] /\ sessions'[w] = s
      /\ shown' \in [Users -> {Nil} \cup ShownType]
      /\ \A v \in Users : v # w => sessions'[v] = sessions[v] /\ shown'[v] = shown[v]
      /\ shown'[w] = IF s.selectRecord = 0 THEN m ELSE Nil
  BY <1>1, <1>4 DEF IInv, Types
<1>6. s # Nil /\ m # Nil /\ m.identify = t.identify /\ m.game = t.game
  BY <1>1, MembersAre DEF m
<1>7. s.selectRecord = 0 <=> t.selectRecord = 1
  BY <1>1
<1> QED
  BY <1>1, <1>5, <1>6, <1>7

\* Nothing is entered.
LEMMA NothingSelected ==
  ASSUME IInv, NoneNew, KeepsMembers, QueueTypes',
         UNCHANGED <<sessions, shown, writes, identRow, gameRow, cafe, logging, mems, fails>>, fault' \in BOOLEAN
  PROVE  Types' /\ Selects' /\ \A u \in Users : Online(u)' <=> Online(u)
<1>1. Selects'
  BY SelectsStand DEF IInv
<1> QED
  BY <1>1 DEF IInv, Types, Online

LEMMA SelectIdentifyBackKeeps ==
  ASSUME IInv, SelectIdentifyBack
  PROVE  IInv'
<1>1. /\ Answered("identify") /\ Handled
      /\ UNCHANGED <<reads, writes, identRow, gameRow, cafe, logging, mems, entries, pages, fails, fault>>
  BY DEF SelectIdentifyBack, dbVars, listVars
<1>2. PICK w \in Users, v \in Data : w = Head(answers).user /\ v = Head(answers).val
  BY <1>1, SelectHandled
<1>3. /\ 1 \in 1..Len(answers) /\ Head(answers) = answers[1] /\ Head(answers).kind = "identify"
      /\ Kind(1) = "identify" /\ Who(1) = w /\ 1 \in 1..Waiting
      /\ QueueTypes' /\ Order' /\ NoneNew /\ KeepsMembers /\ ~Pending("identify", w)'
  BY <1>1, <1>2, SelectHandled
<1>4. PICK n \in Nat : QueueStep(1, n, <<>>) /\ Moved(1)
  BY <1>1, SelectHandled
<1>5. Concerns(1, w) /\ Pending("identify", w)
  BY <1>3 DEF Concerns, Pending, Is
<1>6. CASE v # 0 /\ Online(w)
  <2> DEFINE t == [sessions[w] EXCEPT !.identify = v]
  <2>1. sessions[w] \in SessionType /\ mems[w] # Nil /\ mems[w] \in MemberType /\ Counted(w)
    BY <1>6 DEF IInv, Types, Selects, Online
  <2>2. PICK r : r = sessions[w] /\ r \in SessionType
    BY <2>1
  <2>3. /\ r.selectRecord = IF r.game = 0 THEN 2 ELSE 1
        /\ Pending("game", w) => r.game = 0
        /\ shown[w] # Nil <=> r.selectRecord = 0
    BY <1>5, <2>1, <2>2, CountedIs
  <2>4. t \in SessionType /\ t.selectRecord = r.selectRecord /\ t.game = r.game /\ t.identify = v
    BY <2>2 DEF SessionType
  <2>5. Selected(w, t)
    BY <1>2, <1>6 DEF SelectIdentifyBack
  <2> HIDE DEF t
  <2>6. shown[w] = Nil /\ t.selectRecord # 0
    BY <2>3, <2>4
  <2>7. /\ sessions' \in [Users -> {Nil} \cup SessionType] /\ shown' \in [Users -> {Nil} \cup ShownType]
        /\ \A u \in Users : u # w => sessions'[u] = sessions[u] /\ shown'[u] = shown[u]
        /\ shown'[w] # Nil <=> t.selectRecord = 1
        /\ shown'[w] # Nil => shown'[w].identify = v /\ shown'[w].game = r.game
    BY <2>1, <2>4, <2>5, <2>6, SelectedIs
  <2>8. PICK s \in SessionType : /\ sessions'[w] = s /\ s.selectRecord = r.selectRecord - 1
                                 /\ s.identify = v /\ s.game = r.game
    BY <2>1, <2>4, <2>5, <2>6, SelectedIs
  <2>9. Counted(w)'
    <3>1. Pending("game", w)' => s.game = 0
      BY <1>3, <2>3, <2>8 DEF NoneNew
    <3> QED
      BY <1>3, <1>6, <2>3, <2>4, <2>7, <2>8, <3>1, CountedNow
  <2>10. Selects'
    BY <1>3, <1>6, <2>7, <2>9, OneCounted DEF IInv
  <2>11. Known' /\ Tells'
    <3>1. \A u \in Users : Online(u)' => Online(u) /\ (u # w => sessions'[u].identify = sessions[u].identify)
      BY <1>6, <2>7 DEF Online
    <3> QED
      BY <1>1, <1>2, <1>3, <1>4, <1>5, <1>6, <2>8, <3>1, TellsHandled
  <2>12. Types' /\ ListsWhole'
    BY <1>1, <1>3, <2>7 DEF IInv, Types, ListsWhole
  <2> QED
    BY <1>3, <2>10, <2>11, <2>12 DEF IInv
<1>7. CASE ~(v # 0 /\ Online(w))
  <2>1. sessions' = sessions /\ shown' = shown
    BY <1>2, <1>7 DEF SelectIdentifyBack
  <2>2. fault' \in BOOLEAN
    BY <1>1 DEF IInv, Types
  <2>3. Types' /\ Selects' /\ \A u \in Users : Online(u)' <=> Online(u)
    BY <1>1, <1>3, <2>1, <2>2, NothingSelected
  <2>4. Known' /\ Tells'
    BY <1>1, <1>2, <1>3, <1>4, <1>5, <1>7, <2>1, <2>3, TellsHandled
  <2> QED
    BY <1>1, <1>3, <2>3, <2>4 DEF IInv, ListsWhole
<1> QED
  BY <1>6, <1>7

LEMMA SelectUserGameBackKeeps ==
  ASSUME IInv, SelectUserGameBack
  PROVE  IInv'
<1>1. /\ Answered("game") /\ Handled
      /\ UNCHANGED <<reads, writes, identRow, gameRow, cafe, logging, mems, entries, pages, fails>>
  BY DEF SelectUserGameBack, dbVars, listVars
<1>2. PICK w \in Users, v \in Data : w = Head(answers).user /\ v = Head(answers).val
  BY <1>1, SelectHandled
<1>3. /\ Kind(1) = "game" /\ Who(1) = w /\ 1 \in 1..Waiting
      /\ QueueTypes' /\ Order' /\ NoneNew /\ KeepsMembers /\ ~Pending("game", w)'
  BY <1>1, <1>2, SelectHandled
<1>4. PICK n \in Nat : QueueStep(1, n, <<>>) /\ Moved(1)
  BY <1>1, SelectHandled
<1>5. Pending("game", w) /\ (\A u \in Users : ~Concerns(1, u)) /\ fault' \in BOOLEAN
  BY <1>3 DEF Concerns, Pending, Is, SelectUserGameBack
<1>6. ASSUME \A u \in Users : Online(u)' => Online(u) /\ sessions'[u].identify = sessions[u].identify
      PROVE  Known' /\ Tells'
  <2>1. Known'
    BY <1>1, <1>4, <1>6, KnownStands DEF IInv
  <2>2. Tells'
    BY <1>1, <1>4, <1>5, <1>6, TellsStand DEF IInv
  <2> QED
    BY <2>1, <2>2
<1>7. CASE v # 0 /\ Online(w)
  <2> DEFINE t == [sessions[w] EXCEPT !.game = v]
  <2>1. sessions[w] \in SessionType /\ mems[w] # Nil /\ mems[w] \in MemberType /\ Counted(w)
    BY <1>7 DEF IInv, Types, Selects, Online
  <2>2. PICK r : r = sessions[w] /\ r \in SessionType
    BY <2>1
  <2>3. /\ r.game = 0 /\ r.selectRecord \in 1..2
        /\ Pending("identify", w) \/ r.identify = 0 => r.selectRecord = 2
        /\ shown[w] # Nil <=> r.selectRecord = 0
    BY <1>5, <2>1, <2>2, CountedIs
  <2>4. t \in SessionType /\ t.selectRecord = r.selectRecord /\ t.game = v /\ t.identify = r.identify
    BY <2>2 DEF SessionType
  <2>5. Selected(w, t)
    BY <1>2, <1>7 DEF SelectUserGameBack
  <2> HIDE DEF t
  <2>6. shown[w] = Nil /\ t.selectRecord # 0
    BY <2>3, <2>4
  <2>7. /\ sessions' \in [Users -> {Nil} \cup SessionType] /\ shown' \in [Users -> {Nil} \cup ShownType]
        /\ \A u \in Users : u # w => sessions'[u] = sessions[u] /\ shown'[u] = shown[u]
        /\ shown'[w] # Nil <=> t.selectRecord = 1
        /\ shown'[w] # Nil => shown'[w].identify = r.identify /\ shown'[w].game = v
    BY <2>1, <2>4, <2>5, <2>6, SelectedIs
  <2>8. PICK s \in SessionType : /\ sessions'[w] = s /\ s.selectRecord = r.selectRecord - 1
                                 /\ s.identify = r.identify /\ s.game = v
    BY <2>1, <2>4, <2>5, <2>6, SelectedIs
  <2>9. Counted(w)'
    <3>1. Pending("identify", w)' \/ s.identify = 0 => s.selectRecord = 1
      BY <1>3, <2>3, <2>8 DEF NoneNew
    <3>2. s.selectRecord \in 0..1 /\ s.game # 0
      BY <1>7, <2>3, <2>8
    <3> QED
      BY <1>3, <1>7, <2>3, <2>4, <2>7, <2>8, <3>1, <3>2, CountedNow
  <2>10. Selects'
    BY <1>3, <1>7, <2>7, <2>9, OneCounted DEF IInv
  <2>11. Known' /\ Tells'
    <3>1. \A u \in Users : Online(u)' => Online(u) /\ sessions'[u].identify = sessions[u].identify
      BY <1>7, <2>2, <2>7, <2>8 DEF Online
    <3> QED
      BY <1>6, <3>1
  <2>12. Types' /\ ListsWhole'
    BY <1>1, <1>3, <1>5, <2>7 DEF IInv, Types, ListsWhole
  <2> QED
    BY <1>3, <2>10, <2>11, <2>12 DEF IInv
<1>8. CASE ~(v # 0 /\ Online(w))
  <2>1. sessions' = sessions /\ shown' = shown
    BY <1>2, <1>8 DEF SelectUserGameBack
  <2>2. Types' /\ Selects' /\ \A u \in Users : Online(u)' <=> Online(u)
    BY <1>1, <1>3, <1>5, <2>1, NothingSelected
  <2>3. Known' /\ Tells'
    BY <1>6, <2>1, <2>2
  <2> QED
    BY <1>1, <1>3, <2>2, <2>3 DEF IInv, ListsWhole
<1> QED
  BY <1>7, <1>8

LEMMA IdentifyDataCheckKeeps ==
  ASSUME IInv, IdentifyDataCheck
  PROVE  IInv'
<1>1. /\ Answered("setIdentify") /\ Handled
      /\ UNCHANGED <<reads, writes, identRow, gameRow, cafe, logging, mems, entries, pages, fails, fault>>
  BY DEF IdentifyDataCheck, dbVars, listVars
<1>2. PICK w \in Users, v \in Data : w = Head(answers).user /\ v = Head(answers).val /\ v # 0
  BY <1>1, SelectHandled
<1>3. /\ 1 \in 1..Len(answers) /\ Head(answers) = answers[1] /\ Head(answers).kind = "setIdentify"
      /\ Kind(1) = "setIdentify" /\ Who(1) = w /\ 1 \in 1..Waiting
      /\ QueueTypes' /\ Order' /\ NoneNew /\ KeepsMembers
  BY <1>1, <1>2, SelectHandled
<1>4. PICK n \in Nat : QueueStep(1, n, <<>>) /\ Moved(1)
  BY <1>1, SelectHandled
<1>5. Concerns(1, w)
  BY <1>3 DEF Concerns
<1>6. CASE Online(w)
  <2>1. sessions[w] \in SessionType /\ mems[w] # Nil /\ mems[w] \in MemberType /\ Counted(w)
    BY <1>6 DEF IInv, Types, Selects, Online
  <2>2. PICK r : r = sessions[w] /\ r \in SessionType
    BY <2>1
  <2>3. PICK s : s = [r EXCEPT !.identify = v]
    OBVIOUS
  <2>4. s \in SessionType /\ s.selectRecord = r.selectRecord /\ s.game = r.game /\ s.identify = v
    BY <2>2, <2>3 DEF SessionType
  <2>5. /\ r.selectRecord \in 0..2
        /\ r.game = 0 => r.selectRecord \in 1..2
        /\ r.game # 0 => r.selectRecord \in 0..1
        /\ Pending("identify", w) => r.selectRecord = IF r.game = 0 THEN 2 ELSE 1
        /\ Pending("game", w) => r.game = 0
        /\ shown[w] # Nil <=> r.selectRecord = 0
    BY <2>1, <2>2, CountedIs
  <2>6. sessions' = [sessions EXCEPT ![w] = s] /\ shown' = SendUserData(w, s)
    BY <1>2, <1>6, <2>2, <2>3 DEF IdentifyDataCheck
  <2>7. PICK m : m = MainData(w, s)
    OBVIOUS
  <2>8. m \in ShownType /\ m # Nil /\ m.identify = v /\ m.game = r.game
    <3>1. s.identify \in Data /\ s.game \in Data /\ mems[w].team \in BOOLEAN
      BY <2>1, <2>4 DEF SessionType, MemberType
    <3> QED
      BY <2>4, <2>7, <3>1, MembersAre DEF MainData, ShownType
  <2>9. shown' = IF r.selectRecord = 0 THEN [shown EXCEPT ![w] = m] ELSE shown
    BY <2>4, <2>6, <2>7 DEF SendUserData
  <2>10. /\ sessions' \in [Users -> {Nil} \cup SessionType] /\ shown' \in [Users -> {Nil} \cup ShownType]
         /\ sessions'[w] = s
         /\ \A u \in Users : u # w => sessions'[u] = sessions[u] /\ shown'[u] = shown[u]
         /\ shown'[w] = IF r.selectRecord = 0 THEN m ELSE shown[w]
    BY <2>4, <2>6, <2>8, <2>9 DEF IInv, Types
  <2>11. Counted(w)'
    <3>1. /\ Pending("identify", w)' => Pending("identify", w)
          /\ Pending("game", w)' => Pending("game", w)
      BY <1>3 DEF NoneNew
    <3>2. shown'[w] # Nil <=> s.selectRecord = 0
      BY <2>4, <2>5, <2>8, <2>10
    <3>3. shown'[w] # Nil => shown'[w].identify = s.identify /\ shown'[w].game # 0
      BY <2>4, <2>5, <2>8, <2>10, <3>2
    <3> QED
      BY <1>2, <2>4, <2>5, <2>10, <3>1, <3>2, <3>3, CountedNow
  <2>12. Selects'
    BY <1>3, <1>6, <2>10, <2>11, OneCounted DEF IInv
  <2>13. Known' /\ Tells'
    <3>1. \A u \in Users : Online(u)' => Online(u) /\ (u # w => sessions'[u].identify = sessions[u].identify)
      BY <1>6, <2>10 DEF Online
    <3> QED
      BY <1>1, <1>2, <1>3, <1>4, <1>5, <2>4, <2>10, <3>1, TellsHandled
  <2>14. Types' /\ ListsWhole'
    BY <1>1, <1>3, <2>10 DEF IInv, Types, ListsWhole
  <2> QED
    BY <1>3, <2>12, <2>13, <2>14 DEF IInv
<1>7. CASE ~Online(w)
  <2>1. sessions' = sessions /\ shown' = shown
    BY <1>2, <1>7 DEF IdentifyDataCheck
  <2>2. fault' \in BOOLEAN
    BY <1>1 DEF IInv, Types
  <2>3. Types' /\ Selects' /\ \A u \in Users : Online(u)' <=> Online(u)
    BY <1>1, <1>3, <2>1, <2>2, NothingSelected
  <2>4. Known' /\ Tells'
    BY <1>1, <1>2, <1>3, <1>4, <1>5, <1>7, <2>1, <2>3, TellsHandled
  <2> QED
    BY <1>1, <1>3, <2>3, <2>4 DEF IInv, ListsWhole
<1> QED
  BY <1>6, <1>7

-----------------------------------------------------------------------------
(***************************************************************************)
(* Lists.  What is said of all the steps of a loop is shown step by step.  *)
(***************************************************************************)

LEMMA FirstNumber ==
  ASSUME NEW S \in SUBSET Nat, S # {}
  PROVE  \E i \in S : \A j \in S : i <= j
<1> DEFINE R == {ss \in Nat \X Nat : ss[1] < ss[2]}
<1>1. IsWellFoundedOn(R, Nat)
  BY NatLessThanWellFounded DEF OpToRel
<1>2. PICK i \in S : \A j \in S : <<j, i>> \notin R
  <2> HIDE DEF R
  <2> QED
    BY <1>1, WFMin
<1>3. \A j \in S : ~(j < i)
  BY <1>2
<1> QED
  BY <1>3

LEMMA StepByStep ==
  ASSUME NEW n \in Nat, NEW S, 0 \in S, \A k \in 0..(n - 1) : k \in S => k + 1 \in S
  PROVE  n \in S
<1> DEFINE T == {k \in 0..n : k \notin S}
<1> SUFFICES ASSUME T # {} PROVE FALSE
  <2>1. n \in 0..n
    OBVIOUS
  <2> QED
    BY <2>1
<1>1. T \in SUBSET Nat
  OBVIOUS
<1> HIDE DEF T
<1>2. PICK i \in T : \A j \in T : i <= j
  BY <1>1, FirstNumber
<1>3. i \in 0..n /\ i \notin S /\ i # 0
  BY DEF T
<1>4. i - 1 \in 0..(n - 1) /\ (i - 1) + 1 = i /\ ~(i <= i - 1)
  BY <1>3
<1>5. i - 1 \in 0..n
  BY <1>3
<1>6. i - 1 \in S
  BY <1>2, <1>4, <1>5 DEF T
<1> QED
  BY <1>3, <1>4, <1>6

\* fl[j] is the first j sequences of s, one behind the other.
Joins(fl, S, s) ==
  /\ fl \in [0..Len(s) -> Seq(S)] /\ fl[0] = <<>>
  /\ \A j \in 1..Len(s) : fl[j] = fl[j - 1] \o s[j]

LEMMA FlattenIs ==
  ASSUME NEW S, NEW s \in Seq(Seq(S)), NEW fl, Joins(fl, S, s)
  PROVE  FlattenSeq(s) = fl[Len(s)]
<1>1. Len(s) \in Nat /\ (Len(s) = 0 => s = <<>>) /\ \A i \in 1..Len(s) : s[i] \in Seq(S)
  BY LenProperties, EmptySeq
<1>2. CASE Len(s) = 0
  BY <1>1, <1>2 DEF FlattenSeq, Joins
<1>3. CASE Len(s) # 0
  <2>1. \A i \in 1..Len(s) : fl[i] = IF i = 1 THEN s[i] ELSE fl[i - 1] \o s[i]
    <3>1. ASSUME NEW i \in 1..Len(s), i = 1 PROVE fl[i] = s[i]
      <4>1. fl[i] = fl[i - 1] \o s[i] /\ s[i] \in Seq(S) /\ i - 1 = 0
        <5>1. fl[i] = fl[i - 1] \o s[i]
          BY Zenon DEF Joins
        <5>2. s[i] \in Seq(S)
          BY <1>1, Zenon
        <5>3. i - 1 = 0
          BY <3>1
        <5> QED
          BY <5>1, <5>2, <5>3
      <4>2. fl[i - 1] = <<>>
        BY <4>1 DEF Joins
      <4> QED
        BY <4>1, <4>2
    <3> QED
      BY <3>1 DEF Joins
  <2> DEFINE g == CHOOSE g : g = [i \in 1..Len(s) |-> IF i = 1 THEN s[i] ELSE g[i - 1] \o s[i]]
             h == [i \in 1..Len(s) |-> fl[i]]
  <2>2. h = [i \in 1..Len(s) |-> IF i = 1 THEN s[i] ELSE h[i - 1] \o s[i]]
    <3>1. ASSUME NEW i \in 1..Len(s) PROVE h[i] = IF i = 1 THEN s[i] ELSE h[i - 1] \o s[i]
      <4>1. CASE i = 1
        BY <2>1, <4>1
      <4>2. CASE i # 1
        <5>1. i - 1 \in 1..Len(s)
          BY <1>1, <4>2
        <5> QED
          BY <2>1, <4>2, <5>1
      <4> QED
        BY <4>1, <4>2
    <3> HIDE DEF h
    <3>2. h = [i \in 1..Len(s) |-> h[i]]
      BY DEF h
    <3> QED
      BY <3>1, <3>2
  <2> HIDE DEF h
  <2>3. g = [i \in 1..Len(s) |-> IF i = 1 THEN s[i] ELSE g[i - 1] \o s[i]]
    BY <2>2
  <2>4. FlattenSeq(s) = g[Len(s)]
    BY <1>3 DEF FlattenSeq
  <2> HIDE DEF g
  <2>5. \A i \in 1..Len(s) : g[i] = IF i = 1 THEN s[i] ELSE g[i - 1] \o s[i]
    BY <2>3
  <2> DEFINE T == {k \in 0..Len(s) : k = 0 \/ g[k] = fl[k]}
  <2>6. 0 \in T
    BY <1>1
  <2>7. ASSUME NEW k \in 0..(Len(s) - 1), k \in T PROVE k + 1 \in T
    <3>1. k + 1 \in 1..Len(s) /\ (k + 1) - 1 = k /\ (k + 1 = 1 <=> k = 0)
      BY <1>1
    <3>2. g[k + 1] = fl[k + 1]
      BY <2>1, <2>5, <2>7, <3>1
    <3> QED
      BY <3>1, <3>2
  <2> HIDE DEF T
  <2>8. Len(s) \in T
    BY <1>1, <2>6, <2>7, StepByStep
  <2> QED
    BY <1>3, <2>4, <2>8 DEF T
<1> QED
  BY <1>2, <1>3

\* One more sequence.
Longer(S, s, p, fl, t) ==
  /\ t \in Seq(Seq(S)) /\ Len(t) = Len(s) + 1 /\ Len(s) \in Nat
  /\ t[Len(s) + 1] = p /\ \A j \in 1..Len(s) : t[j] = s[j]
  /\ \E gl : Joins(gl, S, t) /\ gl[Len(t)] = fl[Len(s)] \o p

LEMMA JoinMore ==
  ASSUME NEW S, NEW s \in Seq(Seq(S)), NEW p \in Seq(S), NEW fl, Joins(fl, S, s),
         NEW t, t = Append(s, p)
  PROVE  Longer(S, s, p, fl, t)
<1>1. PICK n \in Nat : n = Len(s)
  BY LenProperties
<1>2. /\ t \in Seq(Seq(S)) /\ Len(t) = n + 1
      /\ t[n + 1] = p /\ \A j \in 1..n : t[j] = s[j]
  BY <1>1, AppendProperties
<1> DEFINE gl == [j \in 0..(n + 1) |-> IF j = n + 1 THEN fl[n] \o p ELSE fl[j]]
<1>3. fl \in [0..n -> Seq(S)] /\ fl[0] = <<>> /\ \A j \in 1..n : fl[j] = fl[j - 1] \o s[j]
  BY <1>1 DEF Joins
<1>4. fl[n] \in Seq(S) /\ fl[n] \o p \in Seq(S)
  BY <1>3, ConcatProperties
<1>5. /\ gl \in [0..(n + 1) -> Seq(S)] /\ gl[n + 1] = fl[n] \o p
      /\ \A j \in 0..n : gl[j] = fl[j]
  <2>1. \A j \in 0..(n + 1) : j = n + 1 \/ j \in 0..n
    OBVIOUS
  <2>2. n + 1 \in 0..(n + 1) /\ \A j \in 0..n : j \in 0..(n + 1) /\ j # n + 1
    OBVIOUS
  <2> QED
    BY <1>3, <1>4, <2>1, <2>2
<1> HIDE DEF gl
<1>6. ASSUME NEW j \in 1..(n + 1) PROVE gl[j] = gl[j - 1] \o t[j]
  <2>1. CASE j = n + 1
    <3>1. j - 1 = n /\ n \in 0..n
      BY <2>1
    <3> QED
      BY <1>2, <1>5, <2>1, <3>1
  <2>2. CASE j # n + 1
    <3>1. j \in 1..n /\ j \in 0..n /\ j - 1 \in 0..n
      BY <2>2
    <3> QED
      BY <1>2, <1>3, <1>5, <3>1
  <2> QED
    BY <2>1, <2>2
<1>7. 0 \in 0..n /\ gl[0] = <<>>
  BY <1>3, <1>5
<1>8. Joins(gl, S, t)
  BY <1>2, <1>5, <1>6, <1>7 DEF Joins
<1> QED
  BY <1>1, <1>2, <1>5, <1>8 DEF Longer

NoPage == [sent |-> <<>>, page |-> <<>>]

\* f holds what is sent and what is being filled after each of the first n entries.
Fills(f, list, n) == f = [k \in 0..n |-> IF k = 0 THEN NoPage ELSE Filled(f[k - 1], list[k])]

FillsOn(f, list, n) == f[0] = NoPage /\ \A k \in 1..n : f[k] = Filled(f[k - 1], list[k])

LEMMA FillsAre ==
  ASSUME NEW f, NEW list, NEW n \in Nat, Fills(f, list, n)
  PROVE  FillsOn(f, list, n)
<1> DEFINE e(k) == IF k = 0 THEN NoPage ELSE Filled(f[k - 1], list[k])
<1>1. f = [k \in 0..n |-> e(k)]
  BY DEF Fills
<1> HIDE DEF e
<1>2. \A k \in 0..n : f[k] = e(k)
  BY <1>1
<1>3. 0 \in 0..n /\ \A k \in 1..n : k \in 0..n /\ k # 0
  OBVIOUS
<1> QED
  BY <1>2, <1>3 DEF e, FillsOn

LEMMA FillsExist ==
  ASSUME NEW list, NEW n \in Nat
  PROVE  \E f : Fills(f, list, n)
<1> DEFINE S == {k \in 0..n : \E f : Fills(f, list, k)}
<1>1. 0 \in S
  <2> DEFINE f == [k \in 0..0 |-> NoPage]
  <2>1. f = [k \in 0..0 |-> IF k = 0 THEN NoPage ELSE Filled(f[k - 1], list[k])]
    OBVIOUS
  <2>2. Fills(f, list, 0)
    BY <2>1 DEF Fills
  <2>3. 0 \in 0..n
    OBVIOUS
  <2> HIDE DEF f
  <2> QED
    BY <2>2, <2>3
<1>2. ASSUME NEW m \in 0..(n - 1), m \in S PROVE m + 1 \in S
  <2>1. PICK f : Fills(f, list, m)
    BY <1>2
  <2>2. m \in Nat /\ m + 1 \in 0..n
    OBVIOUS
  <2>3. f[0] = NoPage /\ \A k \in 1..m : f[k] = Filled(f[k - 1], list[k])
    BY <2>1, <2>2, FillsAre DEF FillsOn
  <2> DEFINE g == [k \in 0..(m + 1) |-> IF k = m + 1 THEN Filled(f[m], list[m + 1]) ELSE f[k]]
  <2>4. ASSUME NEW k \in 0..(m + 1)
        PROVE  g[k] = IF k = 0 THEN NoPage ELSE Filled(g[k - 1], list[k])
    <3>1. CASE k = 0
      BY <2>2, <2>3, <3>1
    <3>2. CASE k = m + 1
      <4>1. k # 0 /\ k - 1 = m /\ m \in 0..(m + 1) /\ m # m + 1
        BY <2>2, <3>2
      <4>2. g[k - 1] = f[m]
        BY <4>1
      <4>3. g[k] = Filled(f[m], list[m + 1])
        BY <3>2
      <4> QED
        BY <3>2, <4>1, <4>2, <4>3
    <3>3. CASE k # 0 /\ k # m + 1
      <4>1. k \in 1..m /\ k - 1 \in 0..(m + 1) /\ k - 1 # m + 1
        BY <2>2, <3>3
      <4>2. g[k] = f[k] /\ g[k - 1] = f[k - 1]
        BY <3>3, <4>1
      <4> QED
        BY <2>3, <3>3, <4>1, <4>2
    <3> QED
      BY <3>1, <3>2, <3>3
  <2>5. g = [k \in 0..(m + 1) |-> g[k]]
    OBVIOUS
  <2> HIDE DEF g
  <2>6. Fills(g, list, m + 1)
    BY <2>4, <2>5 DEF Fills
  <2> QED
    BY <2>2, <2>6
<1> HIDE DEF S
<1>3. n \in S
  BY <1>1, <1>2, StepByStep
<1> QED
  BY <1>3 DEF S

\* w is the first k entries of the list.
Begins(w, list, k) == Len(w) = k /\ \A i \in 1..k : w[i] = list[i]

\* Every message sent is full, the one being filled is not, and together they are what
\* has been taken from the list.
Paged(f, S, list, k) ==
  /\ f.sent \in Seq(Seq(S)) /\ f.page \in Seq(S) /\ Len(f.page) < PageSize
  /\ \A j \in 1..Len(f.sent) : Len(f.sent[j]) = PageSize
  /\ \E fl : Joins(fl, S, f.sent) /\ Begins(fl[Len(f.sent)] \o f.page, list, k)

LEMMA PagedFirst ==
  ASSUME NEW S, NEW list
  PROVE  Paged(NoPage, S, list, 0)
<1> DEFINE fl == [j \in 0..0 |-> <<>>]
<1>1. NoPage.sent = <<>> /\ NoPage.page = <<>>
  BY DEF NoPage
<1>2. PICK s, p : s = <<>> /\ p = <<>> /\ s \in Seq(Seq(S)) /\ p \in Seq(S) /\ Len(s) = 0 /\ Len(p) = 0
  <2>1. <<>> \in Seq(Seq(S)) /\ <<>> \in Seq(S) /\ Len(<<>>) = 0
    OBVIOUS
  <2> QED
    BY <2>1, Zenon
<1>3. fl \in [0..0 -> Seq(S)] /\ fl[0] = <<>>
  OBVIOUS
<1> HIDE DEF fl
<1>4. Joins(fl, S, s)
  BY <1>2, <1>3 DEF Joins
<1>5. <<>> \o <<>> = <<>> /\ Len(<<>>) = 0
  OBVIOUS
<1>6. Begins(fl[Len(s)] \o p, list, 0)
  BY <1>2, <1>3, <1>5 DEF Begins
<1>7. Len(p) < PageSize /\ \A j \in 1..Len(s) : Len(s[j]) = PageSize
  BY <1>2, AccountsAssumption
<1> QED
  BY <1>1, <1>2, <1>4, <1>6, <1>7 DEF Paged

LEMMA PagedNext ==
  ASSUME NEW S, NEW list \in Seq(S), NEW k \in 1..Len(list), NEW f, Paged(f, S, list, k - 1)
  PROVE  Paged(Filled(f, list[k]), S, list, k)
<1>1. PICK s, p, e : s = f.sent /\ p = f.page /\ e = list[k]
  OBVIOUS
<1>2. /\ s \in Seq(Seq(S)) /\ p \in Seq(S) /\ Len(p) < PageSize /\ e \in S
      /\ \A j \in 1..Len(s) : Len(s[j]) = PageSize
  BY <1>1 DEF Paged
<1>3. PICK fl : Joins(fl, S, s) /\ Begins(fl[Len(s)] \o p, list, k - 1)
  BY <1>1 DEF Paged
<1>4. PICK x, q : x = fl[Len(s)] /\ q = Append(p, e)
  OBVIOUS
<1>5. x \in Seq(S) /\ Len(s) \in Nat
  BY <1>2, <1>3, <1>4, LenProperties DEF Joins
<1>6. q \in Seq(S) /\ Len(q) = Len(p) + 1 /\ Len(p) \in Nat
  BY <1>2, <1>4
<1>7. Begins(x \o q, list, k)
  <2>1. PICK w : w = x \o p /\ w \in Seq(S)
    <3>1. x \o p \in Seq(S)
      BY <1>2, <1>5, ConcatProperties
    <3> QED
      BY <3>1, Zenon
  <2>2. x \o q = Append(w, e)
    <3>1. q = p \o <<e>> /\ <<e>> \in Seq(S)
      BY <1>2, <1>4, AppendIsConcat
    <3>2. x \o (p \o <<e>>) = (x \o p) \o <<e>>
      BY <1>2, <1>5, <3>1, ConcatAssociative
    <3>3. Append(w, e) = w \o <<e>>
      BY <1>2, <2>1, AppendIsConcat
    <3> QED
      BY <2>1, <3>1, <3>2, <3>3, Zenon
  <2>3. Len(w) = k - 1 /\ \A i \in 1..(k - 1) : w[i] = list[i]
    BY <1>3, <1>4, <2>1 DEF Begins
  <2>4. Len(Append(w, e)) = k /\ \A i \in 1..k : Append(w, e)[i] = list[i]
    <3>1. Len(Append(w, e)) = k /\ Append(w, e)[k] = e /\ \A i \in 1..(k - 1) : Append(w, e)[i] = w[i]
      BY <1>2, <2>1, <2>3, AppendProperties
    <3> QED
      BY <1>1, <2>3, <3>1
  <2> QED
    BY <2>2, <2>4 DEF Begins
<1>8. CASE Len(q) = PageSize
  <2>1. Filled(f, list[k]) = [sent |-> Append(s, q), page |-> <<>>]
    BY <1>1, <1>4, <1>8 DEF Filled
  <2>2. PICK t : t = Append(s, q)
    OBVIOUS
  <2>3. /\ t \in Seq(Seq(S)) /\ Len(t) = Len(s) + 1
        /\ t[Len(s) + 1] = q /\ \A j \in 1..Len(s) : t[j] = s[j]
        /\ \E gl : Joins(gl, S, t) /\ gl[Len(t)] = fl[Len(s)] \o q
    <3>1. s \in Seq(Seq(S)) /\ q \in Seq(S) /\ Joins(fl, S, s) /\ t = Append(s, q)
      BY <1>2, <1>3, <1>6, <2>2, Zenon
    <3>2. Longer(S, s, q, fl, t)
      BY <3>1, JoinMore, Zenon
    <3> QED
      BY <3>2 DEF Longer
  <2>4. PICK gl : Joins(gl, S, t) /\ gl[Len(t)] = x \o q
    BY <1>4, <2>3
  <2>5. gl[Len(t)] \o <<>> = x \o q
    BY <1>5, <1>6, <2>4
  <2>6. Begins(gl[Len(t)] \o <<>>, list, k)
    BY <1>7, <2>5
  <2>7. \A j \in 1..Len(t) : Len(t[j]) = PageSize
    <3>1. \A j \in 1..Len(t) : j \in 1..Len(s) \/ j = Len(s) + 1
      BY <1>5, <2>3
    <3> QED
      BY <1>2, <1>8, <2>3, <3>1, Zenon
  <2>8. <<>> \in Seq(S) /\ Len(<<>>) < PageSize
    BY AccountsAssumption
  <2>9. PICK r : r = [sent |-> t, page |-> <<>>]
    OBVIOUS
  <2>10. r.sent = t /\ r.page = <<>>
    BY <2>9
  <2>11. Paged(r, S, list, k)
    BY <2>3, <2>4, <2>6, <2>7, <2>8, <2>10 DEF Paged
  <2> QED
    BY <2>1, <2>2, <2>9, <2>11
<1>9. CASE Len(q) # PageSize
  <2>1. Filled(f, list[k]) = [sent |-> s, page |-> q]
    BY <1>1, <1>4, <1>9 DEF Filled
  <2>2. Len(q) < PageSize
    BY <1>2, <1>6, <1>9, AccountsAssumption
  <2>3. PICK r : r = [sent |-> s, page |-> q]
    OBVIOUS
  <2>4. r.sent = s /\ r.page = q
    BY <2>3
  <2>5. Paged(r, S, list, k)
    BY <1>2, <1>3, <1>4, <1>6, <1>7, <2>2, <2>4 DEF Paged
  <2> QED
    BY <2>1, <2>3, <2>5
<1> QED
  BY <1>8, <1>9

\* Pages is what a list has become after its last entry.
LEMMA PagesAre ==
  ASSUME NEW S, NEW list \in Seq(S)
  PROVE  \E last : /\ Paged(last, S, list, Len(list))
                   /\ Len(list) = 0 => last = NoPage
                   /\ Pages(list) = IF Len(last.page) # 0 \/ Len(last.page) = Len(list)
                                    THEN Append(last.sent, last.page) ELSE last.sent
<1>1. Len(list) \in Nat
  BY LenProperties
<1>2. PICK h : Fills(h, list, Len(list))
  BY <1>1, FillsExist
<1> DEFINE g == CHOOSE f : f = [k \in 0..Len(list) |->
                                 IF k = 0 THEN [sent |-> <<>>, page |-> <<>>] ELSE Filled(f[k - 1], list[k])]
<1>3. h = [k \in 0..Len(list) |->
             IF k = 0 THEN [sent |-> <<>>, page |-> <<>>] ELSE Filled(h[k - 1], list[k])]
  BY <1>2 DEF Fills, NoPage
<1>4. g = [k \in 0..Len(list) |->
             IF k = 0 THEN [sent |-> <<>>, page |-> <<>>] ELSE Filled(g[k - 1], list[k])]
  BY <1>3
<1>5. Pages(list) = IF Len(g[Len(list)].page) # 0 \/ Len(g[Len(list)].page) = Len(list)
                    THEN Append(g[Len(list)].sent, g[Len(list)].page) ELSE g[Len(list)].sent
  BY DEF Pages
<1> HIDE DEF g
<1>6. Fills(g, list, Len(list))
  BY <1>4 DEF Fills, NoPage
<1>7. g[0] = NoPage /\ \A k \in 1..Len(list) : g[k] = Filled(g[k - 1], list[k])
  BY <1>1, <1>6, FillsAre DEF FillsOn
<1> DEFINE T == {k \in 0..Len(list) : Paged(g[k], S, list, k)}
<1>8. 0 \in T
  BY <1>1, <1>7, PagedFirst
<1>9. ASSUME NEW k \in 0..(Len(list) - 1), k \in T PROVE k + 1 \in T
  <2>1. k + 1 \in 1..Len(list) /\ (k + 1) - 1 = k /\ k + 1 \in 0..Len(list)
    BY <1>1
  <2>2. g[k + 1] = Filled(g[k], list[k + 1])
    BY <1>7, <2>1
  <2>3. PICK m \in 1..Len(list) : m = k + 1
    BY <2>1
  <2>4. Paged(g[k], S, list, m - 1)
    BY <1>9, <2>1, <2>3
  <2>5. Paged(Filled(g[k], list[m]), S, list, m)
    BY <2>4, PagedNext
  <2> QED
    BY <2>1, <2>2, <2>3, <2>5
<1> HIDE DEF T
<1>10. Len(list) \in T
  BY <1>1, <1>8, <1>9, StepByStep
<1>11. Paged(g[Len(list)], S, list, Len(list))
  BY <1>10 DEF T
<1>12. Len(list) = 0 => g[Len(list)] = NoPage
  BY <1>7
<1> QED
  BY <1>5, <1>11, <1>12

\* What ListsWhole says of the messages p of a list.
Whole(list, p) ==
  /\ FlattenSeq(p) = list
  /\ Len(p) > 0
  /\ \A i \in 1..Len(p) - 1 : Len(p[i]) = PageSize
  /\ Len(p) > 1 => p[Len(p)] # <<>>

LEMMA PagesWhole ==
  ASSUME NEW S, NEW list \in Seq(S)
  PROVE  Whole(list, Pages(list))
<1>1. PICK last : /\ Paged(last, S, list, Len(list))
                  /\ Len(list) = 0 => last = NoPage
                  /\ Pages(list) = IF Len(last.page) # 0 \/ Len(last.page) = Len(list)
                                   THEN Append(last.sent, last.page) ELSE last.sent
  BY PagesAre
<1>2. PICK s, p, n : s = last.sent /\ p = last.page /\ n = Len(s)
  OBVIOUS
<1>3. /\ s \in Seq(Seq(S)) /\ p \in Seq(S)
      /\ \A j \in 1..Len(s) : Len(s[j]) = PageSize
  BY <1>1, <1>2 DEF Paged
<1>4. PICK fl : Joins(fl, S, s) /\ Begins(fl[Len(s)] \o p, list, Len(list))
  BY <1>1, <1>2 DEF Paged
<1>5. n \in Nat /\ fl[n] \in Seq(S) /\ Len(p) \in Nat /\ Len(list) \in Nat
  <2>1. n \in Nat /\ Len(p) \in Nat /\ Len(list) \in Nat
    BY <1>2, <1>3, LenProperties
  <2> QED
    BY <1>2, <1>4, <2>1 DEF Joins
<1>6. fl[n] \o p = list
  <2>1. PICK w : w = fl[n] \o p
    OBVIOUS
  <2>2. w \in Seq(S)
    BY <1>3, <1>5, <2>1, ConcatProperties
  <2>3. Len(w) = Len(list) /\ \A i \in 1..Len(list) : w[i] = list[i]
    BY <1>2, <1>4, <2>1 DEF Begins
  <2> QED
    BY <2>1, <2>2, <2>3, SeqEqual
<1>7. CASE Len(p) # 0 \/ Len(p) = Len(list)
  <2>1. PICK t : t = Append(s, p)
    OBVIOUS
  <2>2. Pages(list) = t
    BY <1>1, <1>2, <1>7, <2>1
  <2>3. Longer(S, s, p, fl, t)
    BY <1>3, <1>4, <2>1, JoinMore, Zenon
  <2>4. /\ t \in Seq(Seq(S)) /\ Len(t) = n + 1 /\ t[n + 1] = p /\ \A j \in 1..n : t[j] = s[j]
        /\ \E gl : Joins(gl, S, t) /\ gl[Len(t)] = fl[n] \o p
    BY <1>2, <2>3 DEF Longer
  <2>5. FlattenSeq(t) = list
    BY <1>6, <2>4, FlattenIs
  <2>6. ASSUME NEW i \in 1..Len(t) - 1 PROVE Len(t[i]) = PageSize
    <3>1. i \in 1..n
      BY <1>5, <2>4
    <3> QED
      BY <1>2, <1>3, <2>4, <3>1
  <2>7. Len(t) > 1 => t[Len(t)] # <<>>
    <3>1. CASE Len(p) # 0
      <4>1. t[Len(t)] = p /\ p # <<>>
        BY <1>3, <2>4, <3>1, EmptySeq
      <4> QED
        BY <4>1
    <3>2. CASE Len(p) = 0
      <4>1. Len(list) = 0
        BY <1>7, <3>2
      <4>2. s = <<>>
        BY <1>1, <1>2, <4>1 DEF NoPage
      <4>3. n = 0
        BY <1>2, <4>2
      <4> QED
        BY <2>4, <4>3
    <3> QED
      BY <3>1, <3>2
  <2>8. Len(t) > 0
    BY <1>5, <2>4
  <2> QED
    BY <2>2, <2>5, <2>6, <2>7, <2>8 DEF Whole
<1>8. CASE ~(Len(p) # 0 \/ Len(p) = Len(list))
  <2>1. Pages(list) = s
    BY <1>1, <1>2, <1>8
  <2>2. p = <<>> /\ fl[n] = list
    <3>1. p = <<>>
      BY <1>3, <1>8, EmptySeq
    <3> QED
      BY <1>5, <1>6, <3>1, ConcatEmptySeq
  <2>3. FlattenSeq(s) = list
    BY <1>2, <1>3, <1>4, <2>2, FlattenIs
  <2>4. n # 0
    <3>1. n = 0 => fl[n] = <<>>
      BY <1>2, <1>4 DEF Joins
    <3>2. list # <<>>
      BY <1>5, <1>8, EmptySeq
    <3> QED
      BY <2>2, <3>1, <3>2
  <2>5. \A i \in 1..Len(s) - 1 : Len(s[i]) = PageSize
    <3>1. \A i \in 1..Len(s) - 1 : i \in 1..Len(s)
      BY <1>2, <1>5
    <3> QED
      BY <1>3, <3>1
  <2>6. s[Len(s)] # <<>>
    <3>1. Len(s) \in 1..Len(s)
      BY <1>2, <1>5, <2>4
    <3>2. Len(s[Len(s)]) = PageSize /\ PageSize # 0
      BY <1>3, <3>1, AccountsAssumption
    <3>3. Len(<<>>) = 0
      OBVIOUS
    <3> QED
      BY <3>2, <3>3
  <2>7. Len(s) > 0
    BY <1>2, <1>5, <2>4
  <2> QED
    BY <2>1, <2>3, <2>5, <2>6, <2>7 DEF Whole
<1> QED
  BY <1>7, <1>8

LEMMA SentWhole ==
  ASSUME NEW list \in Lists, Send(list)
  PROVE  ListsWhole'
<1>1. list \in Seq(Nat)
  <2>1. PICK n \in Nat : list = [i \in 1..n |-> i]
    BY AccountsAssumption DEF Lists
  <2>2. [i \in 1..n |-> i] \in [1..n -> Nat]
    OBVIOUS
  <2> QED
    BY <2>1, <2>2, SeqDef
<1>2. Whole(list, Pages(list))
  BY <1>1, PagesWhole
<1>3. entries' = list /\ pages' = Pages(list)
  BY DEF Send
<1> QED
  BY <1>2, <1>3 DEF Whole, ListsWhole

LEMMA ShowListKeeps ==
  ASSUME IInv, NEW u \in Users, ShowList(u)
  PROVE  IInv'
<1>1. /\ UNCHANGED <<reads, answers, writes, identRow, gameRow, cafe, logging, sessions, shown, mems, fails, fault>>
      /\ \E list \in Lists : Send(list)
  BY DEF ShowList, dbVars, userVars
<1>2. ListsWhole'
  BY <1>1, SentWhole
<1>3. PICK n \in Nat : n = Waiting
  BY QueueLengths DEF IInv, Types
<1>4. QueueStep(0, n, <<>>) /\ Moved(0)
  BY <1>1, <1>3, IdleStep DEF IInv, Types
<1>5. Order'
  <2>1. EachStays(0)
    BY <1>1, <1>3, EachOf DEF IInv
  <2> QED
    BY <1>4, <2>1, NoStatement, QuietOrder DEF IInv
<1>6. Selects' /\ Known' /\ Tells'
  <2>1. NoSelects(<<>>) /\ KeepsMembers
    BY <1>1 DEF NoSelects, KeepsMembers
  <2> QED
    BY <1>1, <1>4, <2>1, Stands
<1>7. Types'
  BY <1>1, <1>4 DEF IInv, Types, QueueStep
<1> QED
  BY <1>2, <1>5, <1>6, <1>7 DEF IInv

LEMMA ListBackKeeps ==
  ASSUME IInv, ListBack
  PROVE  IInv'
<1>1. /\ Answered("list") /\ Handled
      /\ UNCHANGED <<reads, writes, identRow, gameRow, cafe, logging, sessions, shown, mems, fails, fault>>
      /\ \E list \in Lists : Send(list) \/ UNCHANGED <<entries, pages>>
  BY DEF ListBack, dbVars, userVars
<1>2. ListsWhole'
  <2>1. PICK list \in Lists : Send(list) \/ UNCHANGED <<entries, pages>>
    BY <1>1
  <2>2. CASE UNCHANGED <<entries, pages>>
    BY <2>2 DEF IInv, ListsWhole
  <2> QED
    BY <2>1, <2>2, SentWhole
<1>3. reads' = reads \o <<>> /\ AllQuiet(<<>>)
  BY <1>1, QuietAre DEF IInv, Types, QueueTypes
<1>4. EachStays(1)
  <2>1. \A i \in (1 + 1)..Waiting : Each(i)
    BY <1>1, <1>3, NoStatement, FirstHandled
  <2> QED
    BY <1>1, <2>1 DEF Each, EachStays
<1>5. QueueTypes' /\ Order' /\ Selects' /\ Known' /\ Tells'
  BY <1>1, <1>3, <1>4, NoStatement, QuietCallback DEF KeepsMembers
<1>6. Types'
  BY <1>1, <1>5 DEF IInv, Types
<1> QED
  BY <1>2, <1>5, <1>6 DEF IInv

-----------------------------------------------------------------------------
(***************************************************************************)
(* The theorems.                                                           *)
(***************************************************************************)

LEMMA InitHolds ==
  ASSUME Init
  PROVE  IInv
<1>1. /\ reads = <<Load("teams")>> /\ answers = <<>> /\ writes = <<>>
      /\ identRow \in [Users -> {0, 1}] /\ gameRow \in [Users -> {0, 1}]
      /\ cafe = "out" /\ logging = {} /\ pages = Nil /\ fails = 0 /\ fault = FALSE
      /\ sessions = [u \in Users |-> Nil] /\ mems = [u \in Users |-> Nil]
      /\ shown = [u \in Users |-> Nil]
  BY DEF Init
<1>2. /\ Load("teams").kind = "teams" /\ reads \in Seq(Statements)
      /\ Len(reads) = 1 /\ reads[1] = Load("teams")
  BY <1>1, StatementsAre, OneStatement
<1>3. answers \in Seq(Answers) /\ writes \in Seq(Users \X Versions) /\ Len(answers) = 0
  BY <1>1
<1>4. Types
  <2>1. identRow \in [Users -> Data] /\ gameRow \in [Users -> Data]
    BY <1>1, AccountsAssumption DEF Data
  <2> QED
    BY <1>1, <1>2, <1>3, <2>1 DEF Types, QueueTypes
<1>5. Waiting = 1 /\ Kind(1) = "teams"
  BY <1>2, <1>3 DEF Waiting, Kind
<1>6. Order
  <2>1. \A i \in 1..Waiting : i = 1
    BY <1>5
  <2>2. Each(1)
    BY <1>1, <1>5 DEF Each
  <2> QED
    BY <2>1, <2>2 DEF Order
<1>7. \A u \in Users : ~Online(u)
  BY <1>1 DEF Online
<1>8. Selects /\ Known /\ ListsWhole
  BY <1>1, <1>3, <1>7 DEF Selects, Known, ListsWhole
<1>9. Tells
  BY <1>3, <1>7 DEF Tells, LastTells
<1> QED
  BY <1>4, <1>6, <1>8, <1>9 DEF IInv

LEMMA StutterHolds ==
  ASSUME IInv, UNCHANGED vars
  PROVE  IInv'
<1>1. UNCHANGED <<reads, answers, writes, identRow, gameRow, cafe, logging, sessions, shown, mems,
                  entries, pages, fails, fault>>
  BY DEF vars, dbVars, userVars, listVars
<1>2. PICK n \in Nat : n = Waiting
  BY QueueLengths DEF IInv, Types
<1>3. QueueStep(0, n, <<>>) /\ Moved(0)
  BY <1>1, <1>2, IdleStep DEF IInv, Types
<1>4. Order'
  <2>1. EachStays(0)
    BY <1>1, <1>2, EachOf DEF IInv
  <2> QED
    BY <1>3, <2>1, NoStatement, QuietOrder DEF IInv
<1>5. Selects' /\ Known' /\ Tells'
  <2>1. NoSelects(<<>>) /\ KeepsMembers
    BY <1>1 DEF NoSelects, KeepsMembers
  <2> QED
    BY <1>1, <1>3, <2>1, Stands
<1>6. Types' /\ ListsWhole'
  BY <1>1, <1>3 DEF IInv, Types, ListsWhole, QueueStep
<1> QED
  BY <1>4, <1>5, <1>6 DEF IInv

LEMMA NextHolds ==
  ASSUME IInv, [Next]_vars
  PROVE  IInv'
<1>1. CASE CafeLogin
  BY <1>1, CafeLoginKeeps
<1>2. ASSUME NEW u \in Users, LoginTel(u) PROVE IInv'
  BY <1>2, LoginTelKeeps
<1>3. ASSUME NEW u \in Users, NEW v \in Versions, IdentifyData(u, v) PROVE IInv'
  BY <1>3, IdentifyDataKeeps
<1>4. ASSUME NEW u \in Users, NEW v \in Versions, GameInfo(u, v) PROVE IInv'
  BY <1>4, GameInfoKeeps
<1>5. ASSUME NEW u \in Users, DelUser(u) PROVE IInv'
  BY <1>5, DelUserKeeps
<1>6. ASSUME NEW u \in Users, AskList(u) PROVE IInv'
  BY <1>6, AskListKeeps
<1>7. ASSUME NEW u \in Users, ShowList(u) PROVE IInv'
  BY <1>7, ShowListKeeps
<1>8. CASE Execute
  BY <1>8, ExecuteKeeps
<1>9. CASE ExecuteFails
  BY <1>9, ExecuteFailsKeeps
<1>10. CASE ExecuteWrite
  BY <1>10, ExecuteWriteKeeps
<1>11. CASE Callbacks
  BY <1>11, InitAllTeamBackKeeps, InitAllUserBackKeeps, InitAllUserGameBackKeeps,
     InitAllUserTeamBackKeeps, LoginCheckKeeps, LoginTelCheckKeeps, SelectIdentifyBackKeeps,
     SelectUserGameBackKeeps, IdentifyDataCheckKeeps, ListBackKeeps DEF Callbacks
<1>12. CASE UNCHANGED vars
  BY <1>12, StutterHolds
<1> QED
  BY <1>1, <1>2, <1>3, <1>4, <1>5, <1>6, <1>7, <1>8, <1>9, <1>10, <1>11, <1>12 DEF Next

LEMMA TypesOK == ASSUME Types PROVE TypeOK
<1>1. ToSet(reads) \subseteq Statements /\ ToSet(writes) \subseteq Users \X Versions
  BY DEF Types, QueueTypes, ToSet
<1>2. ASSUME NEW i \in DOMAIN answers
      PROVE  \E q \in Statements : q.kind = answers[i].kind
  <2>1. answers[i] \in Answers
    BY DEF Types, QueueTypes
  <2>2. PICK a \in Answers : a = answers[i]
    BY <2>1
  <2>3. CASE a.kind \in {"teams", "users", "games", "members", "cafe"}
    BY <2>2, <2>3, StatementsAre
  <2>4. CASE a.kind \in {"login", "identify", "game", "list"}
    <3>1. a.user \in Users
      BY <2>4 DEF Answers
    <3> QED
      BY <2>2, <2>4, <3>1, StatementsAre
  <2>5. CASE a.kind = "setIdentify"
    <3>1. a.user \in Users /\ a.val \in Versions
      BY <2>5 DEF Answers
    <3> QED
      BY <2>2, <2>5, <3>1, StatementsAre
  <2> QED
    BY <2>3, <2>4, <2>5 DEF Answers
<1> QED
  BY <1>1, <1>2 DEF TypeOK, Types, SessionType, MemberType, ShownType

\* What the run checks follows.
LEMMA Follows == ASSUME IInv PROVE AccountsInv
<1>1. TypeOK
  BY TypesOK DEF IInv
<1>2. ASSUME NEW u \in Users, Online(u), fails = 0, ~PendingIdentity(u)
      PROVE  sessions[u].identify = identRow[u]
  <2>1. ASSUME NEW i \in 1..Waiting, Concerns(i, u) PROVE FALSE
    <3>1. Len(answers) \in Nat /\ Len(reads) \in Nat
      BY QueueLengths DEF IInv, Types
    <3>2. CASE i <= Len(answers)
      <4>1. answers[i] \in ToSet(answers)
        BY <3>1, <3>2 DEF ToSet, IInv, Types, QueueTypes
      <4> QED
        BY <1>2, <2>1, <3>2, <4>1 DEF PendingIdentity, Concerns, Kind, Who
    <3>3. CASE ~(i <= Len(answers))
      <4>1. PICK k \in 1..Len(reads) : k = i - Len(answers)
        BY <3>1, <3>3 DEF Waiting
      <4>2. reads[k] \in ToSet(reads)
        BY <3>1, <4>1 DEF ToSet, IInv, Types, QueueTypes
      <4> QED
        BY <1>2, <2>1, <3>3, <4>1, <4>2 DEF PendingIdentity, Concerns, Kind, Who
    <3> QED
      BY <3>2, <3>3
  <2> QED
    BY <1>2, <2>1 DEF IInv, Tells, LastTells
<1>3. ASSUME NEW u \in Users, Online(u)
      PROVE  /\ shown[u] # Nil <=> sessions[u].selectRecord = 0
             /\ shown[u] # Nil => /\ shown[u].identify = sessions[u].identify
                                  /\ shown[u].identify # 0 /\ shown[u].game # 0
  <2>1. sessions[u] \in SessionType /\ Counted(u)
    BY <1>3 DEF IInv, Types, Selects, Online
  <2> QED
    BY <2>1, CountedIs
<1>4. IdentityShown /\ ShownWhole
  BY <1>2, <1>3 DEF IdentityShown, ShownWhole
<1> QED
  BY <1>1, <1>4 DEF AccountsInv, IInv

\* For any users, log-ins and failures: while no execution has failed, an identity in
\* memory that no statement is about is the table's, and main data that were sent have
\* it; they are sent exactly when no select counts as out, and are whole; and the
\* messages of a list of any length are the list.
THEOREM AccountsAreSound == Safety => []AccountsInv
<1>1. Init => IInv
  BY InitHolds
<1>2. IInv /\ [Next]_vars => IInv'
  BY NextHolds
<1>3. IInv => AccountsInv
  BY Follows
<1> QED
  BY <1>1, <1>2, <1>3, PTL DEF Safety

\* Nobody who has an entry loses it, or what it says of him.
Replaces ==
  \A u \in Users : mems[u] # Nil => /\ mems'[u] # Nil
                                    /\ mems[u].team => mems'[u].team
                                    /\ mems[u].game # 0 => mems'[u].game # 0

LEMMA NobodyReplaced ==
  ASSUME IInv, [Next]_vars
  PROVE  [Replaces]_vars
<1>0. /\ mems \in [Users -> {Nil} \cup MemberType] /\ 0 \notin Versions
      /\ \A u \in Users : mems[u] # Nil => mems[u] \in MemberType
  BY DEF IInv, Types, Versions
<1>1. CASE mems' = mems
  BY <1>1 DEF Replaces
<1>2. ASSUME NEW w \in Users, NEW v \in Versions, GameInfo(w, v) PROVE Replaces
  <2>1. mems[w] # Nil /\ ~mems[w].team /\ mems' = [mems EXCEPT ![w].game = v]
    BY <1>2 DEF GameInfo
  <2>2. [mems[w] EXCEPT !.game = v] \in [game : Nat, team : BOOLEAN] /\ [mems[w] EXCEPT !.game = v].game = v
    <3>1. mems[w] \in MemberType /\ v \in Nat
      BY <1>0, <2>1 DEF Versions
    <3> QED
      BY <3>1 DEF MemberType
  <2>3. mems'[w] # Nil /\ mems'[w].game # 0
    BY <1>0, <2>1, <2>2, NilAssumption
  <2> QED
    BY <1>0, <2>1, <2>3 DEF Replaces
<1>3. CASE InitAllUserBack
  <2>1. Answered("users") /\ Handled /\ Query(<<Load("games")>>)
    BY <1>3 DEF InitAllUserBack
  <2>2. <<Load("games")>> \in Seq(Statements)
    BY StatementsAre
  <2>3. Kind(1) = "users" /\ Each(1)
    BY <2>1, <2>2, FirstHandled DEF Query
  <2> QED
    BY <2>3 DEF Each, Replaces
<1>4. CASE InitAllUserGameBack
  <2>1. PICK rows : mems' = [u \in Users |-> IF rows[u] = 0 \/ mems[u] = Nil THEN mems[u]
                                             ELSE [mems[u] EXCEPT !.game = rows[u]]]
                    /\ rows \in [Users -> Data]
    <3>1. Answered("games") /\ Handled /\ Query(<<Load("members")>>)
      BY <1>4 DEF InitAllUserGameBack
    <3>2. <<Load("members")>> \in Seq(Statements)
      BY StatementsAre
    <3>3. Head(answers) \in Answers /\ Head(answers).kind = "games"
      BY <3>1, <3>2, FirstHandled DEF Query
    <3>4. Head(answers).rows \in [Users -> Data]
      BY <3>3 DEF Answers
    <3> QED
      BY <1>4, <3>4 DEF InitAllUserGameBack
  <2>2. ASSUME NEW u \in Users, mems[u] # Nil, rows[u] # 0
        PROVE  /\ [mems[u] EXCEPT !.game = rows[u]] \in MemberType
               /\ [mems[u] EXCEPT !.game = rows[u]].game = rows[u]
               /\ [mems[u] EXCEPT !.game = rows[u]].team = mems[u].team
    BY <1>0, <2>1, <2>2 DEF MemberType
  <2> QED
    BY <2>1, <2>2, MembersAre DEF Replaces
<1>5. CASE InitAllUserTeamBack
  <2>1. mems' = [u \in Users |-> IF u \notin Members \/ mems[u] = Nil THEN mems[u]
                                  ELSE [mems[u] EXCEPT !.team = TRUE]]
    BY <1>5 DEF InitAllUserTeamBack
  <2>2. ASSUME NEW u \in Users, mems[u] # Nil
        PROVE  /\ [mems[u] EXCEPT !.team = TRUE] \in MemberType
               /\ [mems[u] EXCEPT !.team = TRUE].team
               /\ [mems[u] EXCEPT !.team = TRUE].game = mems[u].game
    BY <1>0, <2>2 DEF MemberType
  <2> QED
    BY <2>1, <2>2, MembersAre DEF Replaces
<1>6. CASE LoginTelCheck
  <2>1. mems' = [mems EXCEPT ![Head(answers).user] = IF @ = Nil THEN Member ELSE @]
    BY <1>6 DEF LoginTelCheck
  <2> QED
    BY <1>0, <2>1 DEF Replaces
<1> QED
  BY <1>1, <1>2, <1>3, <1>4, <1>5, <1>6 DEF Next, Callbacks, vars, CafeLogin, LoginTel, IdentifyData,
     DelUser, AskList, ShowList, Execute, ExecuteFails, ExecuteWrite, InitAllTeamBack, LoginCheck,
     SelectIdentifyBack, SelectUserGameBack, IdentifyDataCheck, ListBack

\* For any users and any order of log-ins and failures: the load never replaces what a
\* log-in has entered.
THEOREM NobodyIsReplaced == Safety => LoadReplacesNobody
<1>1. Init => IInv
  BY InitHolds
<1>2. IInv /\ [Next]_vars => IInv'
  BY NextHolds
<1>3. IInv /\ [Next]_vars => [Replaces]_vars
  BY NobodyReplaced
<1> QED
  BY <1>1, <1>2, <1>3, PTL DEF Safety, LoadReplacesNobody, Replaces

=============================================================================
