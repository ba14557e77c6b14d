--------------------------- MODULE SessionProofs ---------------------------
(***************************************************************************)
(* Proofs about Session for every number of connections, cafés and users.  *)
(***************************************************************************)
EXTENDS Session, TLAPS

USE NilAssumption

\* The server starts with no connection and no café.
LEMMA InitSessionInv == Init => SessionInv
<1> SUFFICES ASSUME Init PROVE SessionInv
  OBVIOUS
<1> QED
  BY DEF Init, SessionInv, TypeOK, OneHand, Holds, ConnMapsAgree, PartedOnPurpose, LockKept

\* Every step of both threads keeps the invariant: the steps that leave m_lock to the
\* network thread (Kick, AddConn, Greet) need it free, and it is from Lose to Drop
\* that a registered connection has no id.
LEMMA NextSessionInv == SessionInv /\ [Next]_vars => SessionInv'
<1> SUFFICES ASSUME SessionInv, [Next]_vars PROVE SessionInv'
  OBVIOUS
<1> USE DEF SessionInv, TypeOK, OneHand, Holds, ConnMapsAgree, PartedOnPurpose, LockKept,
            LostCafe, connVars, userVars, timerVars, netVars
<1>1. ASSUME NEW k \in Conns, Accept(k) PROVE SessionInv'
  BY <1>1 DEF Accept, Held
<1>2. ASSUME NEW k \in Conns, Leave(k) PROVE SessionInv'
  BY <1>2 DEF Leave, Held
<1>3. ASSUME NEW k \in Conns, DropClient(k) PROVE SessionInv'
  BY <1>3 DEF DropClient, TimerAt
<1>4. ASSUME NEW k \in Conns, TimeOutClient(k) PROVE SessionInv'
  BY <1>4 DEF TimeOutClient, TimerAt
<1>5. ASSUME NEW k \in Conns, Lose(k) PROVE SessionInv'
  BY <1>5 DEF Lose, NetAt
<1>6. ASSUME NEW k \in Conns, NEW c \in Cafes, CheckLogin(k, c) PROVE SessionInv'
  BY <1>6 DEF CheckLogin, EnterLogin, TimerAt
<1>7. ASSUME NEW c \in Cafes, WrongPassword(c) PROVE SessionInv'
  BY <1>7 DEF WrongPassword, TimerAt
<1>8. ASSUME NEW c \in Cafes, RightPassword(c) PROVE SessionInv'
  BY <1>8 DEF RightPassword, TimerAt
<1>9. ASSUME NEW c \in Cafes, NoSuchAccount(c) PROVE SessionInv'
  BY <1>9 DEF NoSuchAccount, TimerAt
<1>10. CASE OfflineUsers
  BY <1>10 DEF OfflineUsers, DelUsers, TimerAt
<1>11. CASE Kick
  BY <1>11 DEF Kick, TimerAt, MLockFree
<1>12. CASE EraseCafe
  BY <1>12 DEF EraseCafe, TimerAt
<1>13. CASE AddConn
  BY <1>13 DEF AddConn, TimerAt, MLockFree
<1>14. CASE InsertCafe
  BY <1>14 DEF InsertCafe, TimerAt
<1>15. CASE Greet
  BY <1>15 DEF Greet, TimerAt, MLockFree
<1>16. ASSUME NEW u \in Users, UserStep(u) PROVE SessionInv'
  <2>1. ASSUME NEW c \in Cafes, Receive(u, c) PROVE SessionInv'
    BY <2>1 DEF Receive, NetAt
  <2>2. ASSUME NEW c \in Cafes, LoginTel(u, c) PROVE SessionInv'
    BY <2>2 DEF LoginTel, TimerAt
  <2>3. CASE LoginTelRefused(u)
    BY <2>3 DEF LoginTelRefused, TimerAt
  <2>4. CASE LoginTelAccepted(u)
    BY <2>4 DEF LoginTelAccepted, TimerAt
  <2>5. CASE GameRowsBack(u)
    BY <2>5 DEF GameRowsBack, TimerAt
  <2>6. QED
    BY <1>16, <2>1, <2>2, <2>3, <2>4, <2>5 DEF UserStep
<1>17. CASE DelCafe
  BY <1>17 DEF DelCafe, NetAt
<1>18. CASE DelCafeMissing
  BY <1>18 DEF DelCafeMissing, NetAt
<1>19. CASE OfflineVictims
  BY <1>19 DEF OfflineVictims, DelUsers, NetAt
<1>20. CASE Drop
  BY <1>20 DEF Drop, NetAt
<1>21. CASE UNCHANGED vars
  BY <1>21 DEF vars
<1>22. QED
  BY <1>1, <1>2, <1>3, <1>4, <1>5, <1>6, <1>7, <1>8, <1>9, <1>10, <1>11,
     <1>12, <1>13, <1>14, <1>15, <1>16, <1>17, <1>18, <1>19, <1>20, <1>21
   DEF Next, ConnStep, LoginBack, LoginSteps, NetSteps

\* However connections come, are checked, kicked and lost: no connection is in two
\* hands, the two maps of m_conns agree, and a café parts from its connection only
\* in the midst of its own log-in or loss (ClientChecker, TcpConnectionManager,
\* CoffeenetManager).
THEOREM SessionInvariant == Safety => []SessionInv
<1>1. QED
  BY InitSessionInv, NextSessionInv, PTL DEF Safety

\* When ClientChecker::loginCheck registers a connection (e_clientConfirmed, whose
\* result nobody looks at), its id is free and its café is not online.
THEOREM IdsAreFree == Safety => []NoDuplicateId
<1>1. SessionInv => NoDuplicateId
  BY DEF SessionInv, TypeOK, OneHand, Holds, ConnMapsAgree, PartedOnPurpose, NoDuplicateId
<1>2. QED
  BY <1>1, SessionInvariant, PTL

\* With both threads between two pieces of work, the cafés online are those whose
\* connection is registered: delCoffeenet and loginCheck leave no half behind.
THEOREM CafesHaveConns == Safety => []CafesMatchConns
<1>1. SessionInv => CafesMatchConns
  BY DEF SessionInv, PartedOnPurpose, CafesMatchConns
<1>2. QED
  BY <1>1, SessionInvariant, PTL

\* The lock of the café map stays locked (CoffeenetManager::delCoffeenet returns
\* without unlocking) only if a client went away in the midst of its own log-in.
THEOREM LeftLockedOnlyByOwnLogin ==
  Safety => [](fault = "none" /\ cafeLocked => timer = "insert" /\ login[cafe] \in left)
<1>1. SessionInv => (fault = "none" /\ cafeLocked => timer = "insert" /\ login[cafe] \in left)
  BY DEF SessionInv, LockKept
<1>2. QED
  BY <1>1, SessionInvariant, PTL

=============================================================================
