----------------------------- MODULE PacketConn -----------------------------
(***************************************************************************)
(* One public connection of TcpConnectionManager, from its registration to *)
(* its end: the main timer sends to it, takes its packets off the receive  *)
(* queue and may kick it, the "tcp conns" thread waits for epoll events    *)
(* and handles them, the client at the other end reads, writes and goes.   *)
(*                                                                         *)
(* A spinlock is held by the thread whose control state says so: m_lock    *)
(* by the timer during a call of sendPacketToPublic (the network thread    *)
(* takes it for one step at a time), sendLock by one of the two while it   *)
(* sends.  Between two steps under sendLock the other thread may do        *)
(* whatever does not need a lock that is held.                             *)
(*                                                                         *)
(* A packet is Units units long, the first of which is the length.         *)
(* Received units carry their number in the client's stream, so that a     *)
(* packet in the wrong place or made of the wrong units shows.             *)
(*                                                                         *)
(* Operators named _Slip<What> are mutated forms, as in SingleFail.        *)
(***************************************************************************)
EXTENDS Integers, Sequences

CONSTANTS
  Sends,      \* how many packets the main timer sends
  Units,      \* length of a packet
  SockRoom,   \* units the kernel keeps for the client
  QueueMax,   \* 512: a longer sendQueue refuses
  RecvRoom,   \* m_recvQueue.maxSize()
  Incoming    \* how many units the client writes at most

ASSUME SizesAssumption ==
  /\ Units \in Nat \ {0} /\ SockRoom \in Nat \ {0} /\ RecvRoom \in Nat \ {0}
  /\ QueueMax \in Nat /\ Sends \in Nat /\ Incoming \in Nat

VARIABLES
  timer, next,        \* the main timer: where it is in sendPacket; the packet
  net, events,        \* the network thread: where it is; events of the batch left
  sendBuf, cursor,    \* PacketConnection::m_sendBuf and its m_cursor
  sendQueue,          \* ConnectionHolder::sendQueue
  sockOut,            \* units in the socket that the client has not read
  known,              \* the holder is in m_allConns and m_pubConns
  registered, armed,  \* the socket is in the epoll set; for write events as well
  peer,               \* "open", "shut" (it closed its end) or "reset"
  clientNo, sockIn,   \* units the client wrote; those of them still in the socket
  recvBuf, recvQueue, handled,  \* the packet being read; queued; dealt with
  sent, refused       \* what became of the timer's packets

sendVars == <<sendBuf, cursor, sendQueue, sockOut, sent, refused>>
recvVars == <<clientNo, sockIn, recvBuf, recvQueue, handled>>
connVars == <<known, registered>>
vars == <<timer, next, net, events, sendVars, connVars, armed, peer, recvVars>>

Calls    == 1..Sends    \* the packets of sendPacketToPublic, in the order of the calls
Answer   == 0             \* the answer ClientChecker::sendtoConn gave before
NoPacket == -1           \* m_sendBuf == nullptr
Packets  == Calls \union {Answer}

EventKinds == {"read", "write", "error"}

MLockFree    == timer = "idle"
SendLockFree == timer \notin {"in", "try", "arm"} /\ net \notin {"try", "drain"}

\* addPublicConnection has returned true.  The client may have been refused before
\* it logged in, and not have read all of the answers: what the socket had no room
\* for is still in the buffer, and nobody waits for write events.
Init ==
  /\ timer = "idle" /\ next = 1
  /\ net = "wait" /\ events = {}
  /\ sendBuf \in {NoPacket, Answer} /\ cursor \in 0..(Units - 1)
  /\ sendBuf = NoPacket => cursor = 0
  /\ sendQueue = <<>> /\ sockOut \in 0..SockRoom
  /\ known = TRUE /\ registered = TRUE /\ armed = FALSE
  /\ peer = "open"
  /\ clientNo = 0 /\ sockIn = <<>> /\ recvBuf = <<>> /\ recvQueue = <<>> /\ handled = <<>>
  /\ sent = <<>> /\ refused = {}

-----------------------------------------------------------------------------
(***************************************************************************)
(* The main timer.                                                         *)
(***************************************************************************)

\* sendPacketToPublic finds the connection; unknown ones change nothing.
CallSend ==
  /\ timer = "idle" /\ known /\ next \in Calls
  /\ timer' = "lock"
  /\ UNCHANGED <<next, net, events, sendVars, connVars, armed, peer, recvVars>>

EnterSend_SlipNoLock ==
  /\ timer = "lock"
  /\ timer' = "in"
  /\ UNCHANGED <<next, net, events, sendVars, connVars, armed, peer, recvVars>>

EnterSend ==
  /\ timer = "lock" /\ SendLockFree
  /\ timer' = "in"
  /\ UNCHANGED <<next, net, events, sendVars, connVars, armed, peer, recvVars>>

SendReturns == timer' = "idle" /\ next' = next + 1

RefuseSend ==
  /\ timer = "in" /\ sendQueue # <<>> /\ Len(sendQueue) > QueueMax
  /\ refused' = refused \union {next}
  /\ SendReturns
  /\ UNCHANGED <<net, events, sendBuf, cursor, sendQueue, sockOut, sent,
                 connVars, armed, peer, recvVars>>

QueueBehind ==
  /\ timer = "in" /\ sendQueue # <<>> /\ Len(sendQueue) <= QueueMax
  /\ sendQueue' = Append(sendQueue, next)
  /\ SendReturns
  /\ UNCHANGED <<net, events, sendBuf, cursor, sockOut, sent, refused,
                 connVars, armed, peer, recvVars>>

\* setSendPacket finds the send buffer taken.
QueueFirst ==
  /\ timer = "in" /\ sendQueue = <<>> /\ sendBuf # NoPacket
  /\ sendQueue' = Append(sendQueue, next)
  /\ timer' = "arm"
  /\ UNCHANGED <<next, net, events, sendBuf, cursor, sockOut, sent, refused,
                 connVars, armed, peer, recvVars>>

\* setSendPacket takes the packet.
SetSendPacket ==
  /\ timer = "in" /\ sendQueue = <<>> /\ sendBuf = NoPacket
  /\ sendBuf' = next /\ cursor' = 0
  /\ timer' = "try"
  /\ UNCHANGED <<next, net, events, sendQueue, sockOut, sent, refused,
                 connVars, armed, peer, recvVars>>

\* PacketConnection::trySend with a packet in the buffer: the kernel takes the
\* rest of it, a part (n = 0: EAGAIN), or send() throws.
SendsRest(n) ==
  /\ sendBuf # NoPacket /\ peer # "reset"
  /\ cursor + n = Units /\ sockOut + n <= SockRoom
  /\ sendBuf' = NoPacket /\ cursor' = 0
  /\ sockOut' = sockOut + n
  /\ sent' = Append(sent, sendBuf)
  /\ UNCHANGED <<sendQueue, refused>>

SendsPart(n) ==
  /\ sendBuf # NoPacket /\ peer # "reset"
  /\ cursor + n < Units /\ sockOut + n <= SockRoom
  /\ n = 0 => sockOut = SockRoom
  /\ cursor' = cursor + n
  /\ sockOut' = sockOut + n
  /\ UNCHANGED <<sendBuf, sendQueue, sent, refused>>

SendThrows == sendBuf # NoPacket /\ peer = "reset"

TimerSendsAll ==
  /\ timer = "try" /\ \E n \in 1..Units : SendsRest(n)
  /\ SendReturns
  /\ UNCHANGED <<net, events, connVars, armed, peer, recvVars>>

TimerSendsPart_SlipNoArm ==
  /\ timer = "try" /\ \E n \in 0..Units : SendsPart(n)
  /\ SendReturns
  /\ UNCHANGED <<net, events, connVars, armed, peer, recvVars>>

TimerSendsPart ==
  /\ timer = "try" /\ \E n \in 0..Units : SendsPart(n)
  /\ timer' = "arm"
  /\ UNCHANGED <<next, net, events, connVars, armed, peer, recvVars>>

\* Caught in sendPacketToPublic; the packet stays in the buffer.
TimerSendThrows ==
  /\ timer = "try" /\ SendThrows
  /\ SendReturns
  /\ UNCHANGED <<net, events, sendVars, connVars, armed, peer, recvVars>>

\* modifySocket(read_write); epoll_ctl fails if the socket has left the set.
Arm ==
  /\ timer = "arm"
  /\ armed' = (armed \/ registered)
  /\ SendReturns
  /\ UNCHANGED <<net, events, sendVars, connVars, peer, recvVars>>

\* dealTcpPackets takes one packet; its handlers are not part of this module.
DealTcpPacket ==
  /\ timer = "idle" /\ recvQueue # <<>>
  /\ handled' = Append(handled, Head(recvQueue))
  /\ recvQueue' = Tail(recvQueue)
  /\ UNCHANGED <<timer, next, net, events, sendVars, connVars, armed, peer,
                 clientNo, sockIn, recvBuf>>

\* erasePublicConnection forgets the connection and leaves the socket registered.
Kick ==
  /\ timer = "idle" /\ known
  /\ known' = FALSE
  /\ UNCHANGED <<timer, next, net, events, sendVars, registered, armed, peer, recvVars>>

-----------------------------------------------------------------------------
(***************************************************************************)
(* The network thread.                                                     *)
(***************************************************************************)

Reported(e) ==
  \/ e = "read"  /\ (sockIn # <<>> \/ peer # "open")
  \/ e = "write" /\ armed /\ (sockOut < SockRoom \/ peer = "reset")
  \/ e = "error" /\ peer = "reset"

\* epoll_wait returns; events are level-triggered.
Wait ==
  /\ net = "wait" /\ registered
  /\ events' = {e \in EventKinds : Reported(e)}
  /\ events' # {}
  /\ net' = "look"
  /\ UNCHANGED <<timer, next, sendVars, connVars, armed, peer, recvVars>>

\* waitImpl handles a socket's events in this order.
Current ==
  IF "read" \in events THEN "read" ELSE IF "write" \in events THEN "write" ELSE "error"

HandlerReturns ==
  /\ events' = events \ {Current}
  /\ net' = IF events' = {} THEN "wait" ELSE "look"

\* epollerEventHandler looks the socket up under m_lock and copies the holder.
Look ==
  /\ net = "look" /\ MLockFree /\ known
  /\ net' = [read |-> "read", write |-> "lock", error |-> "lose"][Current]
  /\ UNCHANGED <<timer, next, events, sendVars, connVars, armed, peer, recvVars>>

\* It does not find it: delSocket.
LookUnknown ==
  /\ net = "look" /\ MLockFree /\ ~known
  /\ registered' = FALSE
  /\ HandlerReturns
  /\ UNCHANGED <<timer, next, sendVars, known, armed, peer, recvVars>>

\* How much the packet in the receive buffer still lacks: first its length
\* alone, then, once addCursor has seen it, all of it.
Missing == IF recvBuf = <<>> THEN 1 ELSE Units - Len(recvBuf)

\* recv() returns what there is, at most what is missing.
Recv ==
  /\ net = "read" /\ Missing > 0 /\ sockIn # <<>>
  /\ LET n == IF Len(sockIn) < Missing THEN Len(sockIn) ELSE Missing
     IN  /\ recvBuf' = recvBuf \o SubSeq(sockIn, 1, n)
         /\ sockIn' = SubSeq(sockIn, n + 1, Len(sockIn))
  /\ UNCHANGED <<timer, next, net, events, sendVars, connVars, armed, peer,
                 clientNo, recvQueue, handled>>

RecvNothing ==
  /\ net = "read" /\ Missing > 0 /\ sockIn = <<>> /\ peer = "open"
  /\ HandlerReturns
  /\ UNCHANGED <<timer, next, sendVars, connVars, armed, peer, recvVars>>

\* recv() returns 0 or fails: ReadClosedConnection, NetException.
RecvThrows ==
  /\ net = "read" /\ Missing > 0 /\ sockIn = <<>> /\ peer # "open"
  /\ net' = "lose"
  /\ UNCHANGED <<timer, next, events, sendVars, connVars, armed, peer, recvVars>>

PushRecv_SlipSameBuf ==
  /\ net = "read" /\ Missing = 0 /\ Len(recvQueue) < RecvRoom
  /\ recvQueue' = Append(recvQueue, recvBuf)
  /\ UNCHANGED <<timer, next, net, events, sendVars, connVars, armed, peer,
                 clientNo, sockIn, recvBuf, handled>>

PushRecv ==
  /\ net = "read" /\ Missing = 0 /\ Len(recvQueue) < RecvRoom
  /\ recvQueue' = Append(recvQueue, recvBuf)
  /\ recvBuf' = <<>>
  /\ UNCHANGED <<timer, next, net, events, sendVars, connVars, armed, peer,
                 clientNo, sockIn, handled>>

\* The receive queue is full: the packet stays in the buffer, the event is over.
RecvQueueFull ==
  /\ net = "read" /\ Missing = 0 /\ Len(recvQueue) = RecvRoom
  /\ HandlerReturns
  /\ UNCHANGED <<timer, next, sendVars, connVars, armed, peer, recvVars>>

\* There is a packet to send (ArmedInside): trySend never finds the buffer empty.
EnterWrite ==
  /\ net = "lock" /\ SendLockFree
  /\ net' = "try"
  /\ UNCHANGED <<timer, next, events, sendVars, connVars, armed, peer, recvVars>>

NetSendsAll ==
  /\ net = "try" /\ \E n \in 1..Units : SendsRest(n)
  /\ net' = "drain"
  /\ UNCHANGED <<timer, next, events, connVars, armed, peer, recvVars>>

NetSendsPart ==
  /\ net = "try" /\ \E n \in 0..Units : SendsPart(n)
  /\ HandlerReturns
  /\ UNCHANGED <<timer, next, connVars, armed, peer, recvVars>>

NetSendThrows ==
  /\ net = "try" /\ SendThrows
  /\ net' = "lose"
  /\ UNCHANGED <<timer, next, events, sendVars, connVars, armed, peer, recvVars>>

\* pop_front, setSendPacket.
NextFromQueue ==
  /\ net = "drain" /\ sendQueue # <<>>
  /\ sendBuf' = Head(sendQueue) /\ cursor' = 0
  /\ sendQueue' = Tail(sendQueue)
  /\ net' = "try"
  /\ UNCHANGED <<timer, next, events, sockOut, sent, refused, connVars, armed, peer, recvVars>>

Disarm_SlipKeep ==
  /\ net = "drain" /\ sendQueue = <<>>
  /\ HandlerReturns
  /\ UNCHANGED <<timer, next, sendVars, connVars, armed, peer, recvVars>>

\* Nothing left: modifySocket(read).
Disarm ==
  /\ net = "drain" /\ sendQueue = <<>>
  /\ armed' = FALSE
  /\ HandlerReturns
  /\ UNCHANGED <<timer, next, sendVars, connVars, peer, recvVars>>

\* eraseConnection under m_lock, if the connection is still known, then close();
\* closing takes the socket out of the epoll set in any case.
Lose ==
  /\ net = "lose" /\ MLockFree
  /\ known' = FALSE /\ registered' = FALSE
  /\ HandlerReturns
  /\ UNCHANGED <<timer, next, sendVars, armed, peer, recvVars>>

\* The last pointer to a kicked connection goes, in either thread: it is closed.
LastPointerGone ==
  /\ ~known /\ registered
  /\ net \in {"wait", "look"} /\ recvQueue = <<>>
  /\ registered' = FALSE
  /\ UNCHANGED <<timer, next, net, events, sendVars, known, armed, peer, recvVars>>

-----------------------------------------------------------------------------
(***************************************************************************)
(* The client and the network.                                             *)
(***************************************************************************)

\* A client that closed its end may still read.
ClientReads ==
  /\ sockOut > 0 /\ peer # "reset"
  /\ sockOut' = sockOut - 1
  /\ UNCHANGED <<timer, next, net, events, sendBuf, cursor, sendQueue, sent, refused,
                 connVars, armed, peer, recvVars>>

\* What it writes to a socket that is closed here counts for nothing.
ClientWrites ==
  /\ peer = "open" /\ clientNo < Incoming /\ registered
  /\ clientNo' = clientNo + 1
  /\ sockIn' = Append(sockIn, clientNo')
  /\ UNCHANGED <<timer, next, net, events, sendVars, connVars, armed, peer,
                 recvBuf, recvQueue, handled>>

ClientGoes ==
  /\ \/ peer = "open" /\ peer' \in {"shut", "reset"}
     \/ peer = "shut" /\ peer' = "reset"
  /\ UNCHANGED <<timer, next, net, events, sendVars, connVars, armed, recvVars>>

-----------------------------------------------------------------------------

Send ==
  \/ EnterSend \/ RefuseSend \/ QueueBehind \/ QueueFirst \/ SetSendPacket
  \/ TimerSendsAll \/ TimerSendsPart \/ TimerSendThrows \/ Arm

Receive == Recv \/ RecvNothing \/ RecvThrows \/ PushRecv \/ RecvQueueFull

Write ==
  \/ EnterWrite \/ NetSendsAll \/ NetSendsPart \/ NetSendThrows
  \/ NextFromQueue \/ Disarm

Timer   == CallSend \/ Send \/ DealTcpPacket \/ Kick
Network == Wait \/ Look \/ LookUnknown \/ Receive \/ Write \/ Lose
Client  == ClientReads \/ ClientWrites \/ ClientGoes

Next == Timer \/ Network \/ LastPointerGone \/ Client

Safety == Init /\ [][Next]_vars

\* Both threads go on; the timer's tick comes again and again, and a client
\* that stays reads what it is sent.
Spec ==
  /\ Safety
  /\ WF_vars(Send) /\ SF_vars(DealTcpPacket)
  /\ SF_vars(Network)
  /\ WF_vars(ClientReads)

-----------------------------------------------------------------------------
(***************************************************************************)
(* Properties.                                                             *)
(***************************************************************************)

Waiting == IF sendBuf = NoPacket THEN sendQueue ELSE <<sendBuf>> \o sendQueue

Line == INSTANCE PacketLine WITH Limit <- QueueMax + 2, waiting <- Waiting, written <- cursor

\* However sendPacket and the write events interleave, the packets leave in the
\* order of the calls, each whole and once, and one is refused only if all places
\* of the queue and the send buffer are taken.
ImplementsLine == Line!Spec

TypeOK ==
  /\ timer \in {"idle", "lock", "in", "try", "arm"} /\ next \in Nat \ {0}
  /\ net \in {"wait", "look", "read", "lock", "try", "drain", "lose"}
  /\ events \in SUBSET EventKinds
  /\ sendBuf \in Packets \union {NoPacket} /\ cursor \in 0..(Units - 1)
  /\ sendQueue \in Seq(Calls) /\ sockOut \in 0..SockRoom
  /\ known \in BOOLEAN /\ registered \in BOOLEAN /\ armed \in BOOLEAN
  /\ peer \in {"open", "shut", "reset"}
  /\ clientNo \in 0..Incoming
  /\ sockIn \in Seq(Nat) /\ recvBuf \in Seq(Nat)
  /\ recvQueue \in Seq(Seq(Nat)) /\ handled \in Seq(Seq(Nat))
  /\ sent \in Seq(Packets) /\ refused \in SUBSET Calls

\* sendLock: the buffer and the queue are used by one thread at a time, and a
\* thread in a call still has the packet it called for.
OneSender ==
  /\ ~(timer \in {"in", "try", "arm"} /\ net \in {"try", "drain"})
  /\ timer # "idle" => next \in Calls

\* Packets queue only behind one in the buffer, except while the network thread
\* moves the next one up.
BufferBeforeQueue ==
  /\ sendBuf = NoPacket => cursor = 0 /\ (sendQueue # <<>> => net = "drain")
  /\ Len(sendQueue) <= QueueMax + 1
  /\ timer = "try" => sendBuf # NoPacket /\ sendQueue = <<>>
  /\ timer = "arm" => sendBuf # NoPacket
  /\ net = "drain" => sendBuf = NoPacket

\* The answer in the buffer waits for the first packet to be sent behind it.
AnswerLeft == sendBuf = Answer /\ next = 1 /\ sendQueue = <<>>

\* Outside of sendLock a live connection waits for write events exactly when a
\* packet waits in its buffer, other than an answer that nothing was sent after:
\* no packet is left behind, and epoll does not report for ever that an idle
\* socket can be written.
ArmedIffWaiting ==
  registered /\ peer # "reset" /\ SendLockFree =>
    (armed <=> sendBuf # NoPacket /\ ~AnswerLeft)

\* The same inside of sendLock: a write event is only handled while armed, for a
\* packet that is there, and the timer that has filled an empty buffer has yet to arm.
ArmedInside ==
  /\ net \in {"look", "read", "lock", "try", "drain", "lose"} <=> events # {}
  /\ net \in {"lock", "try", "drain"} => Current = "write"
  /\ "write" \in events => armed
  /\ armed /\ net # "drain" => sendBuf # NoPacket
  /\ net = "try" => sendBuf # NoPacket
  /\ timer = "try" => ~armed
  /\ armed => ~AnswerLeft
  /\ registered /\ peer # "reset" /\ timer = "in" =>
       (armed <=> sendBuf # NoPacket /\ ~AnswerLeft)

ConnInv == TypeOK /\ OneSender /\ BufferBeforeQueue /\ ArmedIffWaiting /\ ArmedInside

\* The units from the n-th on of the client's stream.
UnitsFrom(n, len) == [j \in 1..len |-> n + j]

\* The packets received so far.
Taken == handled \o recvQueue

\* Every packet the handlers get is one the client sent, whole, in order, none
\* twice and none left out, even when the receive queue was full on the way; what
\* is not yet a packet is in the buffer and the socket.
ReceivedInOrder ==
  LET done == Units * Len(Taken)
  IN  /\ \A k \in 1..Len(Taken) : Taken[k] = UnitsFrom(Units * (k - 1), Units)
      /\ done <= clientNo
      /\ recvBuf \o sockIn = UnitsFrom(done, clientNo - done)
      /\ Len(recvBuf) <= Units

\* A packet that was taken leaves, and so does an answer before it, unless the
\* connection is given up or breaks.
EveryPacketSent ==
  \A p \in Calls :
    (\E k \in 1..Len(Waiting) : Waiting[k] = p) ~>
      (p \in {sent[k] : k \in 1..Len(sent)} \/ ~known \/ peer = "reset")

=============================================================================
