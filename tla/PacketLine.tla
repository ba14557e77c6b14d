----------------------------- MODULE PacketLine -----------------------------
(***************************************************************************)
(* What the handlers may rely on when they send to one connection: the     *)
(* packets they hand over leave in order, each as a whole and once; a      *)
(* packet is refused only while as many as the line takes are waiting.     *)
(* The call's result goes unused, so a refused packet is lost.             *)
(***************************************************************************)
EXTENDS Integers, Sequences

CONSTANTS
  Packets,   \* what may be sent
  Units,     \* the length of a packet
  Limit      \* how many packets may wait

VARIABLES
  waiting,   \* packets taken and not completely sent, the oldest first
  written,   \* how much of the oldest is already sent
  sent,      \* packets completely sent
  refused    \* packets that were turned down

lineVars == <<waiting, written, sent, refused>>

\* A packet may have been left from before, a part of it sent.
Init ==
  /\ \/ waiting = <<>> /\ written = 0
     \/ /\ \E p \in Packets : waiting = <<p>>
        /\ written \in 0..(Units - 1)
  /\ sent = <<>> /\ refused = {}

Take(p) ==
  /\ Len(waiting) < Limit
  /\ waiting' = Append(waiting, p)
  /\ UNCHANGED <<written, sent, refused>>

Refuse(p) ==
  /\ Len(waiting) = Limit
  /\ refused' = refused \union {p}
  /\ UNCHANGED <<waiting, written, sent>>

Write(n) ==
  /\ waiting # <<>> /\ written + n < Units
  /\ written' = written + n
  /\ UNCHANGED <<waiting, sent, refused>>

WriteLast(n) ==
  /\ waiting # <<>> /\ written + n = Units
  /\ sent' = Append(sent, Head(waiting))
  /\ waiting' = Tail(waiting) /\ written' = 0
  /\ UNCHANGED refused

Next ==
  \/ \E p \in Packets : Take(p) \/ Refuse(p)
  \/ \E n \in 1..Units : Write(n) \/ WriteLast(n)

Spec == Init /\ [][Next]_lineVars

=============================================================================
