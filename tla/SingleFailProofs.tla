--------------------------- MODULE SingleFailProofs ---------------------------
(***************************************************************************)
(* Proofs about SingleFail, and about the rows it is reloaded from         *)
(* (FightRecovery), for a field of any size, any ids, any number of games  *)
(* a match, of crashes and of queued statements.                           *)
(***************************************************************************)
EXTENDS FightRecovery, SequenceTheorems, FiniteSetTheorems, WellFoundedInduction, TLAPS

-----------------------------------------------------------------------------
(***************************************************************************)
(* Numbers and finite sets.                                                *)
(***************************************************************************)

\* A set of numbers has a least one.
LEMMA LeastNumber ==
  ASSUME NEW S \in SUBSET Nat, S # {}
  PROVE  \E i \in S : \A j \in S : i <= j
<1> DEFINE R == {ss \in Nat \X Nat : ss[1] < ss[2]}
<1>1. IsWellFoundedOn(R, Nat)
  BY NatLessThanWellFounded DEF OpToRel
<1>2. PICK i \in S : \A j \in S : <<j, i>> \notin R
  <2> HIDE DEF R
  <2> QED
    BY <1>1, WFMin
<1>3. \A j \in S : ~(j < i)
  BY <1>2
<1> QED
  BY <1>3

\* Counting those below: the places of distinct numbers are 0, 1, 2 and so on.
LEMMA Places ==
  ASSUME NEW V, IsFiniteSet(V), NEW f \in [V -> Nat],
         \A t, u \in V : f[t] = f[u] => t = u,
         NEW place, place = [t \in V |-> Cardinality({u \in V : f[u] < f[t]})]
  PROVE  place \in Bijection(V, 0..(Cardinality(V) - 1))
<1> DEFINE Below(t) == {u \in V : f[u] < f[t]}
           n == Cardinality(V)
<1>1. n \in Nat
  BY FS_CardinalityType
<1>2. \A t \in V : IsFiniteSet(Below(t)) /\ Cardinality(Below(t)) \in Nat
  <2> SUFFICES ASSUME NEW t \in V
               PROVE  IsFiniteSet(Below(t)) /\ Cardinality(Below(t)) \in Nat
    OBVIOUS
  <2>1. Below(t) \in SUBSET V
    OBVIOUS
  <2> HIDE DEF Below
  <2>2. IsFiniteSet(Below(t))
    BY <2>1, FS_Subset
  <2> QED
    BY <2>2, FS_CardinalityType
<1>3. ASSUME NEW t \in V PROVE Cardinality(Below(t)) \in 0..(n - 1)
  <2>1. Below(t) \in SUBSET (V \ {t})
    OBVIOUS
  <2>2. IsFiniteSet(V \ {t}) /\ Cardinality(V \ {t}) = n - 1
    BY FS_RemoveElement
  <2> HIDE DEF Below
  <2>3. Cardinality(Below(t)) <= Cardinality(V \ {t})
    BY <2>1, <2>2, FS_Subset
  <2> QED
    BY <2>2, <2>3, <1>1, <1>2
<1>4. ASSUME NEW t \in V, NEW u \in V, f[t] < f[u]
      PROVE  Cardinality(Below(t)) < Cardinality(Below(u))
  <2>1. Below(t) \cup {t} \in SUBSET Below(u) /\ t \notin Below(t)
    BY <1>4
  <2> HIDE DEF Below
  <2>2. Cardinality(Below(t) \cup {t}) = Cardinality(Below(t)) + 1
    BY <2>1, <1>2, FS_AddElement
  <2>3. Cardinality(Below(t) \cup {t}) <= Cardinality(Below(u))
    BY <2>1, <1>2, FS_Subset
  <2> QED
    BY <2>2, <2>3, <1>2
<1>5. \A t \in V : place[t] = Cardinality(Below(t))
  OBVIOUS
<1> HIDE DEF Below
<1>6. place \in [V -> 0..(n - 1)]
  BY <1>3, <1>5
<1>7. ASSUME NEW t \in V, NEW u \in V, place[t] = place[u] PROVE t = u
  <2>1. f[t] \in Nat /\ f[u] \in Nat
    OBVIOUS
  <2>2. ~(f[t] < f[u]) /\ ~(f[u] < f[t])
    BY <1>4, <1>5, <1>7, <1>2
  <2>3. f[t] = f[u]
    BY <2>1, <2>2
  <2> QED
    BY <2>3
<1>8. place \in Injection(V, 0..(n - 1))
  BY <1>6, <1>7 DEF Injection, IsInjective
<1>9. IsFiniteSet(0..(n - 1)) /\ Cardinality(0..(n - 1)) = n
  <2> HIDE DEF n
  <2>1. 0 \in Int /\ n - 1 \in Int
    BY <1>1
  <2>2. /\ IsFiniteSet(0..(n - 1))
        /\ Cardinality(0..(n - 1)) = IF 0 > n - 1 THEN 0 ELSE (n - 1) - 0 + 1
    BY <2>1, FS_Interval
  <2> QED
    BY <1>1, <2>2
<1>10. place \in Surjection(V, 0..(n - 1))
  <2> HIDE DEF n
  <2>1. Cardinality(V) = Cardinality(0..(n - 1))
    BY <1>9 DEF n
  <2> QED
    BY <2>1, <1>8, <1>9, FS_Injection
<1> QED
  BY <1>8, <1>10 DEF Bijection

\* A bijection carries the count from one set to the other.
LEMMA SameCount ==
  ASSUME NEW S, NEW T, IsFiniteSet(S), NEW f \in Bijection(S, T)
  PROVE  IsFiniteSet(T) /\ Cardinality(T) = Cardinality(S)
<1>1. ExistsBijection(S, T)
  BY DEF ExistsBijection
<1> QED
  BY <1>1, FS_Bijection


-----------------------------------------------------------------------------
(***************************************************************************)
(* getPositionVal.                                                         *)
(***************************************************************************)

\* g is what Doubled is up to n.
UpTo(g, n) == g = [k \in 0..n |-> IF k = 0 THEN 2 ELSE 2 * g[k - 1]]

LEMMA UpToAgree ==
  ASSUME NEW n \in Nat, NEW m \in Nat, NEW g, NEW h, UpTo(g, n), UpTo(h, m)
  PROVE  \A k \in Nat : k <= n /\ k <= m => g[k] = h[k]
<1> DEFINE S == {k \in Nat : k <= n /\ k <= m /\ g[k] # h[k]}
<1>1. SUFFICES ASSUME S # {} PROVE FALSE
  OBVIOUS
<1>2. PICK k \in S : \A j \in S : k <= j
  BY <1>1, LeastNumber
<1>3. k \in 0..n /\ k \in 0..m
  OBVIOUS
<1>4. g[k] = (IF k = 0 THEN 2 ELSE 2 * g[k - 1]) /\ h[k] = (IF k = 0 THEN 2 ELSE 2 * h[k - 1])
  BY <1>3 DEF UpTo
<1>5. k # 0 /\ k - 1 \in Nat
  BY <1>4
<1>6. k - 1 \notin S
  BY <1>2, <1>5
<1>7. g[k - 1] = h[k - 1]
  BY <1>3, <1>5, <1>6
<1> QED
  BY <1>4, <1>5, <1>7

LEMMA UpToExists == \A n \in Nat : \E g : UpTo(g, n)
<1> DEFINE S == {n \in Nat : ~ \E g : UpTo(g, n)}
<1>1. SUFFICES ASSUME S # {} PROVE FALSE
  OBVIOUS
<1>2. PICK n \in S : \A j \in S : n <= j
  BY <1>1, LeastNumber
<1>3. CASE n = 0
  <2> DEFINE g == [k \in 0..0 |-> 2]
  <2>1. g = [k \in 0..0 |-> IF k = 0 THEN 2 ELSE 2 * g[k - 1]]
    OBVIOUS
  <2>2. UpTo(g, 0)
    BY <2>1 DEF UpTo
  <2> QED
    BY <1>3, <2>2
<1>4. CASE n # 0
  <2>1. n - 1 \in Nat /\ n - 1 \notin S
    BY <1>2, <1>4
  <2>2. PICK h : UpTo(h, n - 1)
    BY <2>1
  <2> DEFINE g == [k \in 0..n |-> IF k = 0 THEN 2 ELSE 2 * h[k - 1]]
  <2>3. \A k \in 0..(n - 1) : g[k] = h[k]
    <3>1. \A k \in 0..(n - 1) : h[k] = IF k = 0 THEN 2 ELSE 2 * h[k - 1]
      BY <2>2 DEF UpTo
    <3>2. \A k \in 0..(n - 1) : k \in 0..n
      BY <2>1
    <3> QED
      BY <3>1, <3>2
  <2>4. \A k \in 0..n : k # 0 => k - 1 \in 0..(n - 1)
    BY <2>1
  <2>5. g = [k \in 0..n |-> IF k = 0 THEN 2 ELSE 2 * g[k - 1]]
    BY <2>3, <2>4
  <2>6. UpTo(g, n)
    BY <2>5 DEF UpTo
  <2> QED
    BY <2>6
<1> QED
  BY <1>3, <1>4

\* The loop of getPositionVal defines a function.
LEMMA DoubledIs ==
  /\ Doubled[0] = 2
  /\ \A k \in Nat : Doubled[k + 1] = 2 * Doubled[k]
<1> DEFINE G(k) == CHOOSE g : UpTo(g, k)
           f == [k \in Nat |-> G(k)[k]]
<1>1. \A k \in Nat : UpTo(G(k), k)
  BY UpToExists
<1>2. ASSUME NEW k \in Nat PROVE f[k] = IF k = 0 THEN 2 ELSE 2 * f[k - 1]
  <2>1. f[k] = G(k)[k]
    OBVIOUS
  <2>2. k \in 0..k /\ UpTo(G(k), k)
    BY <1>1
  <2> HIDE DEF G
  <2>3. G(k)[k] = IF k = 0 THEN 2 ELSE 2 * G(k)[k - 1]
    BY <2>2 DEF UpTo
  <2>4. CASE k = 0
    BY <2>1, <2>3, <2>4
  <2>5. CASE k # 0
    <3>1. k - 1 \in Nat
      BY <2>5
    <3>2. UpTo(G(k - 1), k - 1)
      BY <1>1, <3>1
    <3>3. k - 1 <= k /\ k - 1 <= k - 1
      BY <3>1
    <3>4. G(k)[k - 1] = G(k - 1)[k - 1]
      BY <2>2, <3>1, <3>2, <3>3, UpToAgree
    <3>5. f[k - 1] = G(k - 1)[k - 1]
      BY <3>1
    <3> QED
      BY <2>1, <2>3, <2>5, <3>4, <3>5
  <2> QED
    BY <2>4, <2>5
<1>3. f = [k \in Nat |-> IF k = 0 THEN 2 ELSE 2 * f[k - 1]]
  <2> HIDE DEF G
  <2>1. f = [k \in Nat |-> f[k]]
    OBVIOUS
  <2> HIDE DEF f
  <2> QED
    BY <1>2, <2>1
<1>4. \E d : d = [k \in Nat |-> IF k = 0 THEN 2 ELSE 2 * d[k - 1]]
  <2> HIDE DEF f
  <2> QED
    BY <1>3
<1>5. Doubled = [k \in Nat |-> IF k = 0 THEN 2 ELSE 2 * Doubled[k - 1]]
  BY <1>4 DEF Doubled
<1>6. \A k \in Nat : Doubled[k] = IF k = 0 THEN 2 ELSE 2 * Doubled[k - 1]
  <2> DEFINE D == Doubled
  <2>1. D = [k \in Nat |-> IF k = 0 THEN 2 ELSE 2 * D[k - 1]]
    BY <1>5
  <2> HIDE DEF D
  <2>2. \A k \in Nat : D[k] = IF k = 0 THEN 2 ELSE 2 * D[k - 1]
    BY <2>1
  <2> QED
    BY <2>2 DEF D
<1>7. Doubled[0] = 2
  BY <1>6
<1>8. ASSUME NEW k \in Nat PROVE Doubled[k + 1] = 2 * Doubled[k]
  <2>1. k + 1 \in Nat /\ k + 1 # 0 /\ (k + 1) - 1 = k
    OBVIOUS
  <2>2. Doubled[k + 1] = 2 * Doubled[(k + 1) - 1]
    BY <1>6, <2>1
  <2> QED
    BY <2>1, <2>2
<1> QED
  BY <1>7, <1>8

\* It grows beyond every number, and each value halves to the one before or to one.
LEMMA DoubledFacts ==
  /\ \A k \in Nat : Doubled[k] \in Nat /\ k + 2 <= Doubled[k]
  /\ \A k \in Nat : Doubled[k] % 2 = 0
  /\ Doubled[0] \div 2 = 1
  /\ \A k \in Nat : Doubled[k + 1] \div 2 = Doubled[k]
<1> DEFINE D == Doubled
<1>0. D[0] = 2 /\ \A k \in Nat : D[k + 1] = 2 * D[k]
  BY DoubledIs
<1> HIDE DEF D
<1>1. \A k \in Nat : D[k] \in Nat /\ k + 2 <= D[k]
  <2> DEFINE S == {k \in Nat : ~(D[k] \in Nat /\ k + 2 <= D[k])}
  <2>1. SUFFICES ASSUME S # {} PROVE FALSE
    OBVIOUS
  <2>2. PICK k \in S : \A j \in S : k <= j
    BY <2>1, LeastNumber
  <2>3. k # 0
    BY <1>0
  <2>4. k - 1 \in Nat /\ k - 1 \notin S
    BY <2>2, <2>3
  <2>5. D[k - 1] \in Nat /\ (k - 1) + 2 <= D[k - 1]
    BY <2>4
  <2>6. D[(k - 1) + 1] = 2 * D[k - 1] /\ (k - 1) + 1 = k
    BY <1>0, <2>4
  <2> QED
    BY <2>4, <2>5, <2>6
<1>2. \A k \in Nat : D[k + 1] \div 2 = D[k]
  BY <1>0, <1>1
<1>3. \A k \in Nat : D[k] % 2 = 0
  <2> SUFFICES ASSUME NEW k \in Nat PROVE D[k] % 2 = 0
    OBVIOUS
  <2>1. CASE k = 0
    BY <1>0, <2>1
  <2>2. CASE k # 0
    <3>1. k - 1 \in Nat /\ (k - 1) + 1 = k
      BY <2>2
    <3>2. D[k] = 2 * D[k - 1] /\ D[k - 1] \in Nat
      BY <1>0, <1>1, <3>1
    <3> QED
      BY <3>2
  <2> QED
    BY <2>1, <2>2
<1>4. D[0] \div 2 = 1
  BY <1>0
<1> QED
  BY <1>1, <1>2, <1>3, <1>4 DEF D

\* The sizes of a bracket, and of what a round leaves of it.
Sizes == {1} \cup {Doubled[k] : k \in Nat}

LEMMA SizeHalves ==
  ASSUME NEW n \in Sizes
  PROVE  /\ n \in Nat /\ n # 0
         /\ n # 1 => n % 2 = 0 /\ n \div 2 \in Sizes /\ n = 2 * (n \div 2)
<1>1. CASE n = 1
  BY <1>1
<1>2. ASSUME NEW k \in Nat, n = Doubled[k]
      PROVE  n \in Nat /\ n # 0 /\ n % 2 = 0 /\ n \div 2 \in Sizes /\ n = 2 * (n \div 2)
  <2>1. n \in Nat /\ k + 2 <= n /\ n % 2 = 0
    BY <1>2, DoubledFacts
  <2>2. n # 0 /\ n = 2 * (n \div 2)
    BY <2>1
  <2>3. CASE k = 0
    BY <1>2, <2>1, <2>2, <2>3, DoubledFacts DEF Sizes
  <2>4. CASE k # 0
    <3>1. k - 1 \in Nat /\ (k - 1) + 1 = k
      BY <2>4
    <3>2. n \div 2 = Doubled[k - 1]
      BY <1>2, <3>1, DoubledFacts
    <3> QED
      BY <2>1, <2>2, <3>1, <3>2 DEF Sizes
  <2> QED
    BY <2>3, <2>4
<1> QED
  BY <1>1, <1>2 DEF Sizes

\* The size of the bracket for n entrants: the better half of its seats is taken.
LEMMA PositionValIs ==
  ASSUME NEW n \in Nat, n # 0
  PROVE  LET p == PositionVal(n)
         IN p \in Nat /\ p \in Sizes /\ n <= p /\ p = 2 * (p \div 2)
            /\ p \div 2 \in Sizes /\ p \div 2 \in Nat /\ p \div 2 <= n
<1> DEFINE OK(k) == Doubled[k] >= n /\ \A j \in 0..(k - 1) : Doubled[j] < n
           S == {k \in 0..n : Doubled[k] >= n}
           p == PositionVal(n)
<1>1. \E k \in 0..n : OK(k)
  <2>1. n \in S
    <3>1. Doubled[n] \in Nat /\ n + 2 <= Doubled[n]
      BY DoubledFacts
    <3> QED
      BY <3>1
  <2>2. S \in SUBSET Nat /\ S # {}
    BY <2>1
  <2> HIDE DEF S
  <2>3. PICK k \in S : \A j \in S : k <= j
    BY <2>2, LeastNumber
  <2> USE DEF S
  <2>4. ASSUME NEW j \in 0..(k - 1) PROVE Doubled[j] < n
    <3>1. j \in 0..n /\ j \in Nat /\ ~(k <= j)
      OBVIOUS
    <3>2. j \notin S
      BY <2>3, <3>1
    <3>3. Doubled[j] \in Nat
      BY <3>1, DoubledFacts
    <3> QED
      BY <3>1, <3>2, <3>3
  <2> QED
    BY <2>4
<1>2. PICK k \in 0..n : OK(k) /\ p = Doubled[k]
  <2> DEFINE c == CHOOSE k \in 0..n : OK(k)
  <2>1. c \in 0..n /\ OK(c)
    BY <1>1
  <2>2. p = Doubled[c]
    BY DEF PositionVal
  <2> QED
    BY <2>1, <2>2
<1>3. p \in Nat /\ p \in Sizes /\ n <= p /\ p # 1
  <2>1. k \in Nat /\ Doubled[k] \in Nat /\ k + 2 <= Doubled[k]
    BY DoubledFacts
  <2> HIDE DEF p
  <2> QED
    BY <1>2, <2>1 DEF Sizes
<1>4. p = 2 * (p \div 2) /\ p \div 2 \in Sizes
  BY <1>3, SizeHalves
<1>5. p \div 2 \in Nat
  BY <1>4, SizeHalves
<1>6. p \div 2 <= n
  <2>1. CASE k = 0
    <3>1. p \div 2 = 1
      BY <1>2, <2>1, DoubledFacts
    <3> QED
      BY <3>1
  <2>2. CASE k # 0
    <3>1. k - 1 \in Nat /\ (k - 1) + 1 = k /\ k - 1 \in 0..(k - 1)
      BY <2>2
    <3>2. p \div 2 = Doubled[k - 1]
      BY <1>2, <3>1, DoubledFacts
    <3>3. Doubled[k - 1] < n
      BY <1>2, <3>1
    <3> HIDE DEF p
    <3> QED
      BY <1>5, <3>2, <3>3
  <2> QED
    BY <2>1, <2>2
<1> QED
  BY <1>3, <1>4, <1>5, <1>6

-----------------------------------------------------------------------------
(***************************************************************************)
(* The invariant: what entrants o and matches c of a running round are.    *)
(***************************************************************************)

ObjsType(o)   == DOMAIN o \subseteq Teams /\ o \in [DOMAIN o -> Obj]
ChallsType(c) == DOMAIN c \subseteq Teams /\ c \in [DOMAIN c -> Challenge]

\* Team t plays in a match of c.
InMatch(c, t) == \E k \in DOMAIN c : t \in {k, c[k].objId2}

\* The teams that are through to the next round, and the places in it.
Idle(o, c)  == {t \in Valid(o) : ~InMatch(c, t)}
Seats(o, c) == DOMAIN c \cup Idle(o, c)

\* Each match is between two teams of its own that name each other, or a bye.
Matches(o, c) ==
  \A k \in DOMAIN c :
    LET m == c[k].objId2
    IN /\ c[k].objId1 = k /\ k \in Valid(o) /\ o[k].competitor = m
       /\ m # 0 => m \in Valid(o) \ DOMAIN c /\ o[m].competitor = k

\* Whoever has an opponent is in a match, whoever has a house has an opponent.
Facing(o, c) == \A t \in DOMAIN o : o[t].competitor # 0 => InMatch(c, t)
Housed(o)    == \A t \in DOMAIN o : o[t].house => o[t].competitor # 0

\* Reports are on matches both houses were created for.
Reports(o, c) ==
  \A k \in DOMAIN c :
    (c[k].result1 # 0 \/ c[k].result2 # 0) =>
       c[k].objId2 # 0 /\ o[k].house /\ o[c[k].objId2].house

Undecided(c) ==
  \A k \in DOMAIN c : <<c[k].result1, c[k].result2>> \notin {<<1, 2>>, <<2, 1>>}

\* The teams in a match have won equally often, the others once more.
Level(o, c) ==
  \E v \in Nat : \A t \in Valid(o) : o[t].value = IF InMatch(c, t) THEN v ELSE v + 1

Spread(o) == \A t, u \in Valid(o) : o[t].position = o[u].position => t = u

\* As many places in the next round as halving the bracket leaves.
Halving(o, c) == Cardinality(Seats(o, c)) \in Sizes

\* A round; one whose houses and reports are as the leaders' messages leave them, a
\* result perhaps just agreed; and one in which none is.
Going(o, c) ==
  /\ Matches(o, c) /\ Facing(o, c)
  /\ DOMAIN c # {} => Level(o, c) /\ Spread(o) /\ Halving(o, c)
Running(o, c) == Going(o, c) /\ Housed(o) /\ Reports(o, c)
Round(o, c) == Running(o, c) /\ Undecided(c)

Played(o) == Cardinality(Valid(o)) = IF DOMAIN o = {} THEN 0 ELSE 1
Unseeded(o, c) == DOMAIN c = {} /\ \A t \in DOMAIN o : o[t] = FreshObj
Entered(o, c)  == DOMAIN c = {} /\ \A t \in DOMAIN o : o[t].status = 1 /\ o[t].value = 0
Quiet(o, c) == DOMAIN c = {} /\ \A t \in DOMAIN o : o[t].competitor = 0 /\ ~o[t].house

IInv ==
  /\ TypeOK /\ ~fault
  /\ status \in {"set", "apply"} => Unseeded(objs, challs)
  /\ status = "fight" => Round(objs, challs) /\ (DOMAIN challs = {} => Played(objs))
  /\ status = "stop" => Quiet(objs, challs)

LEMMA NoTeamZero == 0 \notin Teams
  BY TeamsAssumption

LEMMA ObjIs ==
  ASSUME NEW o, ObjsType(o), NEW t \in DOMAIN o
  PROVE  /\ t \in Teams /\ o[t] \in Obj
         /\ o[t].status \in {1, 2} /\ o[t].value \in Nat /\ o[t].valueScore \in Nat
         /\ o[t].position \in Nat /\ o[t].competitor \in Teams \cup {0}
         /\ o[t].house \in BOOLEAN
<1>1. t \in Teams /\ o[t] \in Obj
  BY DEF ObjsType
<1> QED
  BY <1>1 DEF Obj, Result

LEMMA ChallIs ==
  ASSUME NEW c, ChallsType(c), NEW k \in DOMAIN c
  PROVE  /\ k \in Teams /\ c[k] \in Challenge
         /\ c[k].objId1 \in Teams /\ c[k].objId2 \in Teams \cup {0}
         /\ c[k].result1 \in {0, 1, 2} /\ c[k].result2 \in {0, 1, 2}
<1>1. k \in Teams /\ c[k] \in Challenge
  BY DEF ChallsType
<1> QED
  BY <1>1 DEF Challenge, Result

LEMMA ValidFinite ==
  ASSUME NEW o, ObjsType(o)
  PROVE  /\ IsFiniteSet(DOMAIN o) /\ IsFiniteSet(Valid(o))
         /\ Cardinality(DOMAIN o) \in Nat /\ Cardinality(Valid(o)) \in Nat
<1>1. IsFiniteSet(Teams)
  BY TeamsAssumption
<1>2. DOMAIN o \in SUBSET Teams
  BY DEF ObjsType
<1>3. IsFiniteSet(DOMAIN o)
  BY <1>1, <1>2, FS_Subset
<1>4. Valid(o) \in SUBSET DOMAIN o
  BY DEF Valid
<1>5. IsFiniteSet(Valid(o))
  BY <1>3, <1>4, FS_Subset
<1> QED
  BY <1>3, <1>5, FS_CardinalityType

\* No team plays in two matches of a round.
LEMMA OneMatch ==
  ASSUME NEW o, NEW c, ObjsType(o), Matches(o, c),
         NEW k \in DOMAIN c, NEW j \in DOMAIN c, NEW t \in DOMAIN o,
         t \in {k, c[k].objId2}, t \in {j, c[j].objId2}
  PROVE  k = j
<1>1. t # 0
  BY NoTeamZero, ObjIs
<1>2. /\ c[k].objId2 # 0 => c[k].objId2 \notin DOMAIN c /\ o[c[k].objId2].competitor = k
      /\ c[j].objId2 # 0 => c[j].objId2 \notin DOMAIN c /\ o[c[j].objId2].competitor = j
  BY DEF Matches
<1> QED
  BY <1>1, <1>2

-----------------------------------------------------------------------------
(***************************************************************************)
(* The settling loop of contrl.                                            *)
(***************************************************************************)

\* Every match is visited, none of them spins.
LEMMA LoopRuns ==
  ASSUME NEW o, NEW c, ObjsType(o), ChallsType(c), Matches(o, c)
  PROVE  /\ Visited(o, c) = DOMAIN c
         /\ ~Spins(o, c)
         /\ Byes(o, c) = {k \in DOMAIN c : c[k].objId2 = 0}
         /\ Decided(o, c) = {k \in DOMAIN c :
                               /\ c[k].objId2 # 0
                               /\ <<c[k].result1, c[k].result2>> \in {<<1, 2>>, <<2, 1>>}}
         /\ Ended(o, c) \subseteq Decided(o, c)
<1>1. \A k \in DOMAIN c : c[k].objId1 \in DOMAIN o
  BY DEF Matches, Valid
<1>2. Visited(o, c) = DOMAIN c
  BY <1>1 DEF Visited
<1>3. ~Spins(o, c)
  BY <1>2 DEF Spins, Decided, Matches, Valid
<1> QED
  BY <1>2, <1>3 DEF Byes, Decided, Ended

\* The two teams of a decided match, and which of them won.
LEMMA WinnerIs ==
  ASSUME NEW o, NEW c, ObjsType(o), ChallsType(c), Matches(o, c), NEW k \in Decided(o, c)
  PROVE  /\ k \in DOMAIN c /\ c[k].objId1 = k
         /\ c[k].objId2 \in Valid(o) \ DOMAIN c /\ k \in Valid(o)
         /\ c[k].objId2 # k /\ c[k].objId2 # 0 /\ k # 0
         /\ {Winner(c, k), Loser(c, k)} = {k, c[k].objId2}
         /\ Winner(c, k) # Loser(c, k)
<1>1. k \in DOMAIN c /\ c[k].objId2 # 0
  BY LoopRuns
<1>2. c[k].objId1 = k /\ k \in Valid(o) /\ c[k].objId2 \in Valid(o) \ DOMAIN c
  BY <1>1 DEF Matches
<1>3. k # 0
  BY <1>1, ChallIs, NoTeamZero
<1> QED
  BY <1>1, <1>2, <1>3 DEF Winner, Loser

\* The loop, stopped anywhere: of the matches in D it has settled those that are to
\* be settled, the others it has yet to come to.
ByesIn(o, c, D)    == Byes(o, c) \cap D
DecidedIn(o, c, D) == Decided(o, c) \cap D
EndedIn(o, c, D)   == Ended(o, c) \cap D

SettledIn(o, c, D) ==
  [t \in DOMAIN o |->
     CASE \E k \in ByesIn(o, c, D) : c[k].objId1 = t
            -> Advance(o[t])
       [] \E k \in EndedIn(o, c, D) : Winner(c, k) = t
            -> Advance(o[t])
       [] \E k \in EndedIn(o, c, D) : Loser(c, k) = t
            -> Eliminate(o[t])
       [] \E k \in DecidedIn(o, c, D) \ EndedIn(o, c, D) : Winner(c, k) = t
            -> [o[t] EXCEPT !.valueScore = @ + 1]
       [] OTHER -> o[t]]

RemainingIn(o, c, D) ==
  [k \in DOMAIN c \ (ByesIn(o, c, D) \cup EndedIn(o, c, D)) |->
     IF k \in DecidedIn(o, c, D) THEN Match(c[k].objId1, c[k].objId2) ELSE c[k]]

LEMMA LoopIn ==
  ASSUME NEW o, NEW c, NEW D, ObjsType(o), ChallsType(c), Matches(o, c)
  PROVE  /\ ByesIn(o, c, D) = {k \in DOMAIN c : k \in D /\ c[k].objId2 = 0}
         /\ DecidedIn(o, c, D) =
              {k \in DOMAIN c :
                 /\ k \in D /\ c[k].objId2 # 0
                 /\ <<c[k].result1, c[k].result2>> \in {<<1, 2>>, <<2, 1>>}}
         /\ EndedIn(o, c, D) \subseteq DecidedIn(o, c, D)
  BY LoopRuns DEF ByesIn, DecidedIn, EndedIn

LEMMA WinnerIn ==
  ASSUME NEW o, NEW c, NEW D, ObjsType(o), ChallsType(c), Matches(o, c),
         NEW k \in DecidedIn(o, c, D)
  PROVE  /\ k \in DOMAIN c /\ c[k].objId1 = k
         /\ c[k].objId2 \in Valid(o) \ DOMAIN c /\ k \in Valid(o)
         /\ c[k].objId2 # k /\ c[k].objId2 # 0 /\ k # 0
         /\ {Winner(c, k), Loser(c, k)} = {k, c[k].objId2}
         /\ Winner(c, k) # Loser(c, k)
<1>1. k \in Decided(o, c)
  BY DEF DecidedIn
<1> QED
  BY <1>1, WinnerIs

\* The whole loop.
LEMMA WholeLoop ==
  ASSUME NEW o, NEW c, ObjsType(o), ChallsType(c), Matches(o, c)
  PROVE  /\ SettledIn(o, c, DOMAIN c) = Settled(o, c)
         /\ RemainingIn(o, c, DOMAIN c) = Remaining(o, c)
<1>1. /\ Byes(o, c) \subseteq DOMAIN c /\ Ended(o, c) \subseteq DOMAIN c
      /\ Decided(o, c) \subseteq DOMAIN c
  BY LoopRuns
<1>2. /\ ByesIn(o, c, DOMAIN c) = Byes(o, c) /\ EndedIn(o, c, DOMAIN c) = Ended(o, c)
      /\ DecidedIn(o, c, DOMAIN c) = Decided(o, c)
  BY <1>1 DEF ByesIn, EndedIn, DecidedIn
<1> QED
  BY <1>2 DEF SettledIn, Settled, RemainingIn, Remaining, Erased

\* What becomes of team t: nothing but a game won, a place in the next round, or
\* the end.
Same(a, b) ==
  /\ b.status = a.status /\ b.value = a.value /\ b.position = a.position
  /\ b.competitor = a.competitor /\ b.house = a.house
Cleared(b) == b.competitor = 0 /\ b.house = FALSE

Through(o, c, D, t) ==
  (\E k \in ByesIn(o, c, D) : k = t) \/ (\E k \in EndedIn(o, c, D) : Winner(c, k) = t)
Beaten(o, c, D, t) == \E k \in EndedIn(o, c, D) : Loser(c, k) = t

Outcome(o, c, D, t, a, b) ==
  /\ b \in Obj
  /\ b.position = a.position
  /\ Through(o, c, D, t) => b.status = a.status /\ b.value = a.value + 1 /\ Cleared(b)
  /\ Beaten(o, c, D, t) /\ ~Through(o, c, D, t) => b.status = 2 /\ b.value = a.value /\ Cleared(b)
  /\ ~Beaten(o, c, D, t) /\ ~Through(o, c, D, t) => Same(a, b)

LEMMA SettledIs ==
  ASSUME NEW o, NEW c, NEW D, ObjsType(o), ChallsType(c), Matches(o, c), NEW t \in DOMAIN o
  PROVE  Outcome(o, c, D, t, o[t], SettledIn(o, c, D)[t])
<1> DEFINE a == o[t]
           b == SettledIn(o, c, D)[t]
<1>1. a \in Obj
  BY ObjIs
<1>2. \A k \in ByesIn(o, c, D) : c[k].objId1 = k
  BY LoopIn DEF Matches
<1> DEFINE bye  == \E k \in ByesIn(o, c, D) : c[k].objId1 = t
           won  == \E k \in EndedIn(o, c, D) : Winner(c, k) = t
           lost == \E k \in EndedIn(o, c, D) : Loser(c, k) = t
           game == \E k \in DecidedIn(o, c, D) \ EndedIn(o, c, D) : Winner(c, k) = t
<1>3. b = CASE bye -> Advance(a)
            [] won -> Advance(a)
            [] lost -> Eliminate(a)
            [] game -> [a EXCEPT !.valueScore = @ + 1]
            [] OTHER -> a
  BY DEF SettledIn
<1>31. (bye \/ won) <=> Through(o, c, D, t)
  BY <1>2 DEF Through
<1>32. lost <=> Beaten(o, c, D, t)
  BY DEF Beaten
<1>34. \A k, j \in DOMAIN c : t \in {k, c[k].objId2} /\ t \in {j, c[j].objId2} => k = j
  BY OneMatch
<1>35. \A k \in ByesIn(o, c, D) : k \in DOMAIN c /\ c[k].objId2 = 0 /\ c[k].objId1 = k
  BY <1>2, LoopIn
<1>36. \A k \in DecidedIn(o, c, D) :
         /\ k \in DOMAIN c /\ c[k].objId2 # 0
         /\ Winner(c, k) \in {k, c[k].objId2} /\ Loser(c, k) \in {k, c[k].objId2}
         /\ Winner(c, k) # Loser(c, k)
  BY WinnerIn
<1>37. EndedIn(o, c, D) \subseteq DecidedIn(o, c, D)
  BY LoopIn
<1>38. (bye \/ won => ~lost /\ ~game) /\ (lost => ~game)
  BY <1>34, <1>35, <1>36, <1>37
<1> HIDE DEF a, b, bye, won, lost, game
<1>33. /\ Leave(a) \in Obj /\ Leave(a).position = a.position /\ Leave(a).status = a.status
       /\ Leave(a).value = a.value /\ Cleared(Leave(a))
  BY <1>1 DEF Leave, Obj, Cleared
<1>4. /\ Advance(a) \in Obj /\ Advance(a).position = a.position
      /\ Advance(a).status = a.status /\ Advance(a).value = a.value + 1 /\ Cleared(Advance(a))
  <2> DEFINE l == Leave(a)
  <2>1. Advance(a) = [l EXCEPT !.value = l.value + 1]
    BY DEF Advance
  <2> HIDE DEF l
  <2> QED
    BY <1>33, <2>1 DEF Obj, Cleared, l
<1>5. /\ Eliminate(a) \in Obj /\ Eliminate(a).position = a.position
      /\ Eliminate(a).status = 2 /\ Eliminate(a).value = a.value /\ Cleared(Eliminate(a))
  <2> DEFINE l == Leave(a)
  <2>1. Eliminate(a) = [l EXCEPT !.status = 2]
    BY DEF Eliminate
  <2> HIDE DEF l
  <2> QED
    BY <1>33, <2>1 DEF Obj, Cleared, Result, l
<1>6. LET d == [a EXCEPT !.valueScore = @ + 1]
      IN d \in Obj /\ d.position = a.position /\ Same(a, d)
  BY <1>1 DEF Obj, Same
<1>7. CASE Through(o, c, D, t)
  <2>1. b = Advance(a)
    BY <1>3, <1>31, <1>38, <1>7
  <2> QED
    BY <1>4, <1>7, <2>1 DEF Outcome, a, b
<1>8. CASE ~Through(o, c, D, t) /\ Beaten(o, c, D, t)
  <2>1. b = Eliminate(a)
    BY <1>3, <1>31, <1>32, <1>38, <1>8
  <2> QED
    BY <1>5, <1>8, <2>1 DEF Outcome, a, b
<1>9. CASE ~Through(o, c, D, t) /\ ~Beaten(o, c, D, t)
  <2>1. b = a \/ b = [a EXCEPT !.valueScore = @ + 1]
    BY <1>3, <1>31, <1>32, <1>9
  <2>2. Same(a, a)
    BY DEF Same
  <2> QED
    BY <1>1, <1>6, <1>9, <2>1, <2>2 DEF Outcome, a, b
<1> QED
  BY <1>7, <1>8, <1>9

\* What is left of the round.
Left(o, c, D, c1) ==
  /\ ChallsType(c1)
  /\ DOMAIN c1 = DOMAIN c \ (ByesIn(o, c, D) \cup EndedIn(o, c, D))
  /\ \A k \in DOMAIN c1 :
       /\ c1[k].objId1 = c[k].objId1 /\ c1[k].objId2 = c[k].objId2
       /\ k \in D => c1[k].objId2 # 0
       /\ k \in DecidedIn(o, c, D) => c1[k].result1 = 0 /\ c1[k].result2 = 0
       /\ k \notin DecidedIn(o, c, D) => c1[k] = c[k]
  /\ DOMAIN c \subseteq D => Undecided(c1)

LEMMA RemainingIs ==
  ASSUME NEW o, NEW c, NEW D, ObjsType(o), ChallsType(c), Matches(o, c)
  PROVE  Left(o, c, D, RemainingIn(o, c, D))
<1> DEFINE c1 == RemainingIn(o, c, D)
<1>1. DOMAIN c1 = DOMAIN c \ (ByesIn(o, c, D) \cup EndedIn(o, c, D))
  BY DEF RemainingIn
<1>2. \A k \in DOMAIN c1 :
        c1[k] = IF k \in DecidedIn(o, c, D) THEN Match(c[k].objId1, c[k].objId2) ELSE c[k]
  BY DEF RemainingIn
<1>3. \A k \in DOMAIN c1 : k \in DOMAIN c /\ (k \in D => c[k].objId2 # 0) /\ c[k] \in Challenge
  BY <1>1, LoopIn, ChallIs
<1>4. \A k \in DOMAIN c1 : Match(c[k].objId1, c[k].objId2) \in Challenge
  BY <1>3 DEF Match, Challenge, Result
<1>5. DOMAIN c1 \subseteq Teams /\ \A k \in DOMAIN c1 : c1[k] \in Challenge
  BY <1>1, <1>2, <1>3, <1>4 DEF ChallsType
<1>6. c1 = [k \in DOMAIN c1 |-> c1[k]]
  BY DEF RemainingIn
<1> HIDE DEF c1
<1>7. ChallsType(c1)
  BY <1>5, <1>6 DEF ChallsType
<1>8. \A k \in DOMAIN c1 :
        /\ c1[k].objId1 = c[k].objId1 /\ c1[k].objId2 = c[k].objId2
        /\ k \in D => c1[k].objId2 # 0
        /\ k \in DecidedIn(o, c, D) => c1[k].result1 = 0 /\ c1[k].result2 = 0
        /\ k \notin DecidedIn(o, c, D) => c1[k] = c[k]
  BY <1>2, <1>3 DEF Match
<1>9. DOMAIN c \subseteq D => Undecided(c1)
  <2> SUFFICES ASSUME DOMAIN c \subseteq D, NEW k \in DOMAIN c1
               PROVE  <<c1[k].result1, c1[k].result2>> \notin {<<1, 2>>, <<2, 1>>}
    BY DEF Undecided
  <2>1. CASE k \in DecidedIn(o, c, D)
    BY <1>8, <2>1
  <2>2. CASE k \notin DecidedIn(o, c, D)
    BY <1>3, <1>8, <2>2, LoopIn
  <2> QED
    BY <2>1, <2>2
<1> QED
  BY <1>1, <1>7, <1>8, <1>9 DEF c1, Left

\* Where team t of the round is after the loop.
Fate(o, c, D, o1, c1, t) ==
  /\ Through(o, c, D, t) =>
       InMatch(c, t) /\ t \in Valid(o) /\ ~InMatch(c1, t) /\ ~Beaten(o, c, D, t)
  /\ Beaten(o, c, D, t) => InMatch(c, t) /\ t \in Valid(o) /\ ~InMatch(c1, t)
  /\ InMatch(c, t) /\ ~Through(o, c, D, t) /\ ~Beaten(o, c, D, t) => InMatch(c1, t)
  /\ InMatch(c1, t) => InMatch(c, t)
  /\ t \in Valid(o1) <=> t \in Valid(o) /\ ~Beaten(o, c, D, t)

LEMMA Fates ==
  ASSUME NEW o, NEW c, NEW D, ObjsType(o), ChallsType(c), Matches(o, c), NEW t \in DOMAIN o
  PROVE  Fate(o, c, D, SettledIn(o, c, D), RemainingIn(o, c, D), t)
<1> DEFINE o1 == SettledIn(o, c, D)
           c1 == RemainingIn(o, c, D)
<1>1. \A k, j \in DOMAIN c : t \in {k, c[k].objId2} /\ t \in {j, c[j].objId2} => k = j
  BY OneMatch
<1>2. \A k \in ByesIn(o, c, D) : k \in DOMAIN c /\ c[k].objId2 = 0 /\ k \in Valid(o)
  BY LoopIn DEF Matches
<1>3. /\ EndedIn(o, c, D) \subseteq DecidedIn(o, c, D)
      /\ \A k \in EndedIn(o, c, D) :
           /\ k \in DOMAIN c /\ c[k].objId2 # 0 /\ k \in Valid(o) /\ c[k].objId2 \in Valid(o)
           /\ {Winner(c, k), Loser(c, k)} = {k, c[k].objId2}
           /\ Winner(c, k) # Loser(c, k)
  <2>1. EndedIn(o, c, D) \subseteq DecidedIn(o, c, D)
    BY LoopIn
  <2>2. \A k \in DecidedIn(o, c, D) :
          /\ k \in DOMAIN c /\ c[k].objId2 # 0 /\ k \in Valid(o) /\ c[k].objId2 \in Valid(o)
          /\ {Winner(c, k), Loser(c, k)} = {k, c[k].objId2}
          /\ Winner(c, k) # Loser(c, k)
    BY WinnerIn
  <2> QED
    BY <2>1, <2>2
<1>4. /\ DOMAIN c1 = DOMAIN c \ (ByesIn(o, c, D) \cup EndedIn(o, c, D))
      /\ \A k \in DOMAIN c1 : c1[k].objId2 = c[k].objId2
  <2>1. Left(o, c, D, c1)
    BY RemainingIs
  <2> QED
    BY <2>1 DEF Left
<1>5. t # 0
  BY ObjIs, NoTeamZero
<1>6. ASSUME Through(o, c, D, t)
      PROVE  InMatch(c, t) /\ t \in Valid(o) /\ ~InMatch(c1, t) /\ ~Beaten(o, c, D, t)
  <2>1. PICK k \in ByesIn(o, c, D) \cup EndedIn(o, c, D) :
          t \in {k, c[k].objId2} /\ (k \in ByesIn(o, c, D) \/ Winner(c, k) = t)
    BY <1>3, <1>6 DEF Through
  <2>2. k \in DOMAIN c /\ k \notin DOMAIN c1
    BY <1>2, <1>3, <1>4, <2>1
  <2>3. InMatch(c, t) /\ ~InMatch(c1, t)
    BY <1>1, <1>4, <2>1, <2>2 DEF InMatch
  <2>4. t \in Valid(o)
    BY <1>2, <1>3, <1>5, <2>1
  <2>5. ~Beaten(o, c, D, t)
    <3>1. SUFFICES ASSUME NEW j \in EndedIn(o, c, D), Loser(c, j) = t PROVE FALSE
      BY DEF Beaten
    <3>2. j = k
      BY <1>1, <1>3, <2>1, <2>2, <3>1
    <3>3. k \notin ByesIn(o, c, D)
      BY <1>2, <1>3, <3>2
    <3> QED
      BY <1>3, <2>1, <3>1, <3>2, <3>3
  <2> QED
    BY <2>3, <2>4, <2>5
<1>7. ASSUME Beaten(o, c, D, t)
      PROVE  InMatch(c, t) /\ t \in Valid(o) /\ ~InMatch(c1, t)
  <2>1. PICK k \in EndedIn(o, c, D) : Loser(c, k) = t
    BY <1>7 DEF Beaten
  <2>2. k \in DOMAIN c /\ k \notin DOMAIN c1 /\ t \in {k, c[k].objId2} /\ t \in Valid(o)
    BY <1>3, <1>4, <2>1
  <2>3. InMatch(c, t) /\ ~InMatch(c1, t)
    BY <1>1, <1>4, <2>2 DEF InMatch
  <2> QED
    BY <2>2, <2>3
<1>8. ASSUME InMatch(c, t), ~Through(o, c, D, t), ~Beaten(o, c, D, t) PROVE InMatch(c1, t)
  <2>1. PICK k \in DOMAIN c : t \in {k, c[k].objId2}
    BY <1>8 DEF InMatch
  <2>2. k \notin ByesIn(o, c, D)
    BY <1>2, <1>5, <1>8, <2>1 DEF Through
  <2>3. k \notin EndedIn(o, c, D)
    BY <1>3, <1>8, <2>1 DEF Through, Beaten
  <2> QED
    BY <1>4, <2>1, <2>2, <2>3 DEF InMatch
<1>9. ASSUME InMatch(c1, t) PROVE InMatch(c, t)
  BY <1>4, <1>9 DEF InMatch
<1>10. t \in Valid(o1) <=> t \in Valid(o) /\ ~Beaten(o, c, D, t)
  <2>1. DOMAIN o1 = DOMAIN o
    BY DEF SettledIn
  <2>2. t \in Valid(o1) <=> o1[t].status = 1
    BY <2>1 DEF Valid
  <2>3. t \in Valid(o) <=> o[t].status = 1
    BY DEF Valid
  <2>4. CASE Beaten(o, c, D, t)
    <3>1. ~Through(o, c, D, t)
      BY <1>6, <2>4
    <3> QED
      BY <2>2, <2>4, <3>1, SettledIs DEF Outcome
  <2>5. CASE ~Beaten(o, c, D, t)
    <3>0. Outcome(o, c, D, t, o[t], o1[t])
      BY SettledIs
    <3>1. o1[t].status = o[t].status
      BY <2>5, <3>0 DEF Same, Outcome
    <3> QED
      BY <2>2, <2>3, <2>5, <3>1
  <2> QED
    BY <2>4, <2>5
<1> QED
  BY <1>6, <1>7, <1>8, <1>9, <1>10 DEF Fate

\* The loop keeps the types.
LEMMA SettledTypes ==
  ASSUME NEW o, NEW c, NEW D, ObjsType(o), ChallsType(c), Matches(o, c)
  PROVE  /\ ObjsType(SettledIn(o, c, D)) /\ DOMAIN SettledIn(o, c, D) = DOMAIN o
         /\ ChallsType(RemainingIn(o, c, D))
<1> DEFINE o1 == SettledIn(o, c, D)
<1>1. DOMAIN o1 = DOMAIN o /\ o1 = [t \in DOMAIN o1 |-> o1[t]]
  BY DEF SettledIn
<1>2. \A t \in DOMAIN o : o1[t] \in Obj
  BY SettledIs DEF Outcome
<1> HIDE DEF o1
<1>3. ObjsType(o1)
  BY <1>1, <1>2 DEF ObjsType
<1>4. ChallsType(RemainingIn(o, c, D))
  BY RemainingIs DEF Left
<1> QED
  BY <1>1, <1>3, <1>4 DEF o1

\* Who is still in a match after the loop is as he was.
LEMMA SettledPlayers ==
  ASSUME NEW o, NEW c, NEW D, ObjsType(o), ChallsType(c), Matches(o, c)
  PROVE  LET o1 == SettledIn(o, c, D)
             c1 == RemainingIn(o, c, D)
         IN /\ Left(o, c, D, c1) /\ DOMAIN o1 = DOMAIN o
            /\ \A t \in DOMAIN o :
                 /\ Fate(o, c, D, o1, c1, t) /\ Outcome(o, c, D, t, o[t], o1[t])
                 /\ InMatch(c1, t) => Same(o[t], o1[t]) /\ (t \in Valid(o) <=> t \in Valid(o1))
            /\ \A k \in DOMAIN c1 :
                 /\ k \in DOMAIN c /\ c1[k].objId1 = c[k].objId1 /\ c1[k].objId2 = c[k].objId2
                 /\ k \in Valid(o) /\ k \in DOMAIN o /\ InMatch(c1, k)
                 /\ c[k].objId2 # 0 => /\ c[k].objId2 \in Valid(o) /\ c[k].objId2 \in DOMAIN o
                                       /\ InMatch(c1, c[k].objId2)
<1> DEFINE o1 == SettledIn(o, c, D)
           c1 == RemainingIn(o, c, D)
<1>1. /\ Left(o, c, D, c1)
      /\ \A t \in DOMAIN o : Fate(o, c, D, o1, c1, t) /\ Outcome(o, c, D, t, o[t], o1[t])
  BY RemainingIs, Fates, SettledIs
<1>2. DOMAIN o1 = DOMAIN o
  BY DEF SettledIn
<1> HIDE DEF o1, c1
<1>3. \A t \in DOMAIN o :
        InMatch(c1, t) => Same(o[t], o1[t]) /\ (t \in Valid(o) <=> t \in Valid(o1))
  BY <1>1 DEF Fate, Outcome
<1>4. \A t \in Valid(o) : t \in DOMAIN o
  BY DEF Valid
<1>5. \A k \in DOMAIN c1 :
        /\ k \in DOMAIN c /\ c1[k].objId1 = c[k].objId1 /\ c1[k].objId2 = c[k].objId2
        /\ k \in Valid(o) /\ InMatch(c1, k)
        /\ c[k].objId2 # 0 => c[k].objId2 \in Valid(o) /\ InMatch(c1, c[k].objId2)
  BY <1>1 DEF Left, Matches, InMatch
<1> QED
  BY <1>1, <1>2, <1>3, <1>4, <1>5 DEF o1, c1

\* The matches that are left are as they were.
LEMMA SettledMatches ==
  ASSUME NEW o, NEW c, NEW D, ObjsType(o), ChallsType(c), Matches(o, c), Facing(o, c)
  PROVE  LET o1 == SettledIn(o, c, D)
             c1 == RemainingIn(o, c, D)
         IN Matches(o1, c1) /\ Facing(o1, c1)
<1> DEFINE o1 == SettledIn(o, c, D)
           c1 == RemainingIn(o, c, D)
<1>1. /\ Left(o, c, D, c1) /\ DOMAIN o1 = DOMAIN o
      /\ \A t \in DOMAIN o :
           /\ Fate(o, c, D, o1, c1, t) /\ Outcome(o, c, D, t, o[t], o1[t])
           /\ InMatch(c1, t) => Same(o[t], o1[t]) /\ (t \in Valid(o) <=> t \in Valid(o1))
      /\ \A k \in DOMAIN c1 :
           /\ k \in DOMAIN c /\ c1[k].objId1 = c[k].objId1 /\ c1[k].objId2 = c[k].objId2
           /\ k \in Valid(o) /\ k \in DOMAIN o /\ InMatch(c1, k)
           /\ c[k].objId2 # 0 => /\ c[k].objId2 \in Valid(o) /\ c[k].objId2 \in DOMAIN o
                                 /\ InMatch(c1, c[k].objId2)
  BY SettledPlayers
<1> HIDE DEF o1, c1
<1>2. Matches(o1, c1)
  <2> SUFFICES ASSUME NEW k \in DOMAIN c1
               PROVE  /\ c1[k].objId1 = k /\ k \in Valid(o1) /\ o1[k].competitor = c1[k].objId2
                      /\ c1[k].objId2 # 0 => /\ c1[k].objId2 \in Valid(o1) \ DOMAIN c1
                                             /\ o1[c1[k].objId2].competitor = k
    BY DEF Matches
  <2>1. /\ c[k].objId1 = k /\ o[k].competitor = c[k].objId2
        /\ c[k].objId2 # 0 => c[k].objId2 \notin DOMAIN c /\ o[c[k].objId2].competitor = k
    BY <1>1 DEF Matches
  <2>2. Same(o[k], o1[k]) /\ k \in Valid(o1)
    BY <1>1
  <2>3. c[k].objId2 # 0 =>
          Same(o[c[k].objId2], o1[c[k].objId2]) /\ c[k].objId2 \in Valid(o1)
    BY <1>1
  <2>4. c[k].objId2 \notin DOMAIN c => c[k].objId2 \notin DOMAIN c1
    BY <1>1
  <2>5. c1[k].objId1 = c[k].objId1 /\ c1[k].objId2 = c[k].objId2
    BY <1>1
  <2> QED
    BY <2>1, <2>2, <2>3, <2>4, <2>5 DEF Same
<1>3. Facing(o1, c1)
  <2> SUFFICES ASSUME NEW t \in DOMAIN o, o1[t].competitor # 0 PROVE InMatch(c1, t)
    BY <1>1 DEF Facing
  <2>1. ~Through(o, c, D, t) /\ ~Beaten(o, c, D, t)
    BY <1>1 DEF Outcome, Cleared
  <2>2. Same(o[t], o1[t])
    BY <1>1, <2>1 DEF Outcome
  <2> QED
    BY <1>1, <2>1, <2>2 DEF Same, Facing, Fate
<1> QED
  BY <1>2, <1>3 DEF o1, c1

\* So are their houses and their reports.
LEMMA SettledHouses ==
  ASSUME NEW o, NEW c, NEW D, ObjsType(o), ChallsType(c), Matches(o, c), Housed(o), Reports(o, c)
  PROVE  LET o1 == SettledIn(o, c, D)
             c1 == RemainingIn(o, c, D)
         IN /\ Housed(o1) /\ Reports(o1, c1)
            /\ DOMAIN c \subseteq D => Undecided(c1)
<1> DEFINE o1 == SettledIn(o, c, D)
           c1 == RemainingIn(o, c, D)
<1>1. /\ Left(o, c, D, c1) /\ DOMAIN o1 = DOMAIN o
      /\ \A t \in DOMAIN o :
           /\ Fate(o, c, D, o1, c1, t) /\ Outcome(o, c, D, t, o[t], o1[t])
           /\ InMatch(c1, t) => Same(o[t], o1[t]) /\ (t \in Valid(o) <=> t \in Valid(o1))
      /\ \A k \in DOMAIN c1 :
           /\ k \in DOMAIN c /\ c1[k].objId1 = c[k].objId1 /\ c1[k].objId2 = c[k].objId2
           /\ k \in Valid(o) /\ k \in DOMAIN o /\ InMatch(c1, k)
           /\ c[k].objId2 # 0 => /\ c[k].objId2 \in Valid(o) /\ c[k].objId2 \in DOMAIN o
                                 /\ InMatch(c1, c[k].objId2)
  BY SettledPlayers
<1> HIDE DEF o1, c1
<1>2. Housed(o1)
  <2> SUFFICES ASSUME NEW t \in DOMAIN o, o1[t].house PROVE o1[t].competitor # 0
    BY <1>1 DEF Housed
  <2>1. Outcome(o, c, D, t, o[t], o1[t])
    BY <1>1
  <2>2. Same(o[t], o1[t])
    BY <2>1 DEF Outcome, Cleared
  <2> QED
    BY <2>2 DEF Same, Housed
<1>3. Reports(o1, c1)
  <2> SUFFICES ASSUME NEW k \in DOMAIN c1, c1[k].result1 # 0 \/ c1[k].result2 # 0
               PROVE  c1[k].objId2 # 0 /\ o1[k].house /\ o1[c1[k].objId2].house
    BY DEF Reports
  <2>1. c1[k] = c[k] /\ k \in DOMAIN c
    BY <1>1 DEF Left
  <2>2. c[k].objId2 # 0 /\ o[k].house /\ o[c[k].objId2].house
    BY <2>1 DEF Reports
  <2>3. Same(o[k], o1[k]) /\ Same(o[c[k].objId2], o1[c[k].objId2])
    BY <1>1, <2>2
  <2> QED
    BY <2>1, <2>2, <2>3 DEF Same
<1>4. DOMAIN c \subseteq D => Undecided(c1)
  BY <1>1 DEF Left
<1> QED
  BY <1>2, <1>3, <1>4 DEF o1, c1

\* The winners have won once more than those who still play, and nobody moves.
LEMMA SettledLevel ==
  ASSUME NEW o, NEW c, NEW D, ObjsType(o), ChallsType(c), Matches(o, c), Level(o, c), Spread(o)
  PROVE  LET o1 == SettledIn(o, c, D)
             c1 == RemainingIn(o, c, D)
         IN Level(o1, c1) /\ Spread(o1)
<1> DEFINE o1 == SettledIn(o, c, D)
           c1 == RemainingIn(o, c, D)
<1>1. \A t \in DOMAIN o : Fate(o, c, D, o1, c1, t) /\ Outcome(o, c, D, t, o[t], o1[t])
  BY Fates, SettledIs
<1>2. DOMAIN o1 = DOMAIN o
  BY DEF SettledIn
<1> HIDE DEF o1, c1
<1>3. \A t \in Valid(o1) : t \in DOMAIN o /\ t \in Valid(o) /\ ~Beaten(o, c, D, t)
  BY <1>1, <1>2 DEF Fate, Valid
<1>4. PICK v \in Nat : \A t \in Valid(o) : o[t].value = IF InMatch(c, t) THEN v ELSE v + 1
  BY DEF Level
<1>5. ASSUME NEW t \in Valid(o1)
      PROVE  o1[t].value = IF InMatch(c1, t) THEN v ELSE v + 1
  <2>1. CASE Through(o, c, D, t)
    <3>1. InMatch(c, t) /\ ~InMatch(c1, t) /\ o1[t].value = o[t].value + 1
      BY <1>1, <1>3, <2>1 DEF Fate, Outcome
    <3> QED
      BY <1>3, <1>4, <3>1
  <2>2. CASE ~Through(o, c, D, t)
    <3>1. o1[t].value = o[t].value /\ (InMatch(c, t) <=> InMatch(c1, t))
      BY <1>1, <1>3, <2>2 DEF Fate, Outcome, Same
    <3> QED
      BY <1>3, <1>4, <3>1
  <2> QED
    BY <2>1, <2>2
<1>6. Level(o1, c1)
  BY <1>5 DEF Level
<1>7. Spread(o1)
  BY <1>1, <1>3 DEF Spread, Outcome
<1> QED
  BY <1>6, <1>7 DEF o1, c1

\* Each match that ends leaves one place in the next round: its winner's.
LEMMA SettledSeats ==
  ASSUME NEW o, NEW c, NEW D, ObjsType(o), ChallsType(c), Matches(o, c)
  PROVE  /\ IsFiniteSet(Seats(SettledIn(o, c, D), RemainingIn(o, c, D)))
         /\ Cardinality(Seats(SettledIn(o, c, D), RemainingIn(o, c, D))) = Cardinality(Seats(o, c))
<1> DEFINE o1 == SettledIn(o, c, D)
           c1 == RemainingIn(o, c, D)
           seats == Seats(o, c)
           seats1 == Seats(o1, c1)
           f == [k \in seats |-> IF k \in EndedIn(o, c, D) THEN Winner(c, k) ELSE k]
<1>1. /\ Left(o, c, D, c1)
      /\ \A t \in DOMAIN o : Fate(o, c, D, o1, c1, t)
  BY RemainingIs, Fates
<1>2. DOMAIN o1 = DOMAIN o
  BY DEF SettledIn
<1> HIDE DEF o1, c1
<1>3. \A k \in DOMAIN c : k \in DOMAIN o /\ k \in Valid(o) /\ InMatch(c, k)
  BY DEF Matches, Valid, InMatch
<1>4. \A k \in EndedIn(o, c, D) :
        /\ k \in DOMAIN c /\ c[k].objId2 # 0 /\ c[k].objId2 \notin DOMAIN c
        /\ Winner(c, k) \in {k, c[k].objId2} /\ Winner(c, k) \in Valid(o)
        /\ {Winner(c, k), Loser(c, k)} = {k, c[k].objId2}
        /\ Winner(c, k) \in DOMAIN o
  <2> SUFFICES ASSUME NEW k \in EndedIn(o, c, D)
               PROVE  /\ k \in DOMAIN c /\ c[k].objId2 # 0 /\ c[k].objId2 \notin DOMAIN c
                      /\ Winner(c, k) \in {k, c[k].objId2} /\ Winner(c, k) \in Valid(o)
                      /\ {Winner(c, k), Loser(c, k)} = {k, c[k].objId2}
                      /\ Winner(c, k) \in DOMAIN o
    OBVIOUS
  <2>1. k \in DecidedIn(o, c, D)
    BY LoopIn
  <2> QED
    BY <2>1, WinnerIn DEF Valid
<1>5. \A k, j \in DOMAIN c : \A t \in DOMAIN o :
        t \in {k, c[k].objId2} /\ t \in {j, c[j].objId2} => k = j
  BY OneMatch
<1>6. DOMAIN c1 = DOMAIN c \ (ByesIn(o, c, D) \cup EndedIn(o, c, D))
  BY <1>1 DEF Left
<1>7. \A k \in ByesIn(o, c, D) : k \in DOMAIN c /\ c[k].objId2 = 0
  BY LoopIn
<1>8. \A t \in Valid(o) \cup Valid(o1) : t \in DOMAIN o
  BY <1>2 DEF Valid
<1>9. \A t \in Idle(o1, c1) : t \in Valid(o1) /\ ~InMatch(c1, t) /\ t \in DOMAIN o
  BY <1>8 DEF Idle
<1>10. \A k \in seats : k \in DOMAIN c \/ (k \in Valid(o) /\ ~InMatch(c, k))
  BY DEF Seats, Idle
<1>11. ASSUME NEW k \in seats PROVE f[k] \in seats1
  <2>1. CASE k \in EndedIn(o, c, D)
    <3>1. Through(o, c, D, Winner(c, k))
      BY <2>1 DEF Through
    <3>2. Winner(c, k) \in Idle(o1, c1)
      BY <1>1, <1>4, <2>1, <3>1 DEF Fate, Idle
    <3> QED
      BY <2>1, <3>2 DEF Seats
  <2>2. CASE k \in ByesIn(o, c, D) /\ k \notin EndedIn(o, c, D)
    <3>1. Through(o, c, D, k)
      BY <2>2 DEF Through
    <3>2. k \in Idle(o1, c1)
      BY <1>1, <1>3, <1>7, <2>2, <3>1 DEF Fate, Idle
    <3> QED
      BY <2>2, <3>2 DEF Seats
  <2>3. CASE k \in DOMAIN c /\ k \notin EndedIn(o, c, D) /\ k \notin ByesIn(o, c, D)
    BY <1>6, <2>3 DEF Seats
  <2>4. CASE k \notin DOMAIN c
    <3>1. k \in Valid(o) /\ ~InMatch(c, k) /\ k \in DOMAIN o
      BY <1>8, <1>10, <2>4
    <3>2. k \in Idle(o1, c1)
      BY <1>1, <3>1 DEF Fate, Idle
    <3>3. k \notin EndedIn(o, c, D)
      BY <1>4, <2>4
    <3> QED
      BY <3>2, <3>3 DEF Seats
  <2> QED
    BY <2>1, <2>2, <2>3, <2>4
<1>12. ASSUME NEW k \in seats, NEW j \in seats, f[k] = f[j] PROVE k = j
  <2>1. CASE k \in EndedIn(o, c, D) /\ j \in EndedIn(o, c, D)
    BY <1>4, <1>5, <1>12, <2>1
  <2>2. ASSUME NEW x \in EndedIn(o, c, D), NEW y \in seats, y \notin EndedIn(o, c, D)
        PROVE  Winner(c, x) # y
    <3>1. CASE y \in DOMAIN c
      BY <1>4, <2>2, <3>1
    <3>2. CASE y \notin DOMAIN c
      <4>1. ~InMatch(c, y)
        BY <1>10, <3>2
      <4>2. InMatch(c, Winner(c, x))
        BY <1>4 DEF InMatch
      <4> QED
        BY <4>1, <4>2
    <3> QED
      BY <3>1, <3>2
  <2> QED
    BY <1>12, <2>1, <2>2
<1>13. ASSUME NEW x \in seats1 PROVE \E k \in seats : f[k] = x
  <2>1. CASE x \in DOMAIN c1
    <3>1. x \in seats /\ x \notin EndedIn(o, c, D)
      BY <1>6, <2>1 DEF Seats
    <3> QED
      BY <3>1
  <2>2. CASE x \in Idle(o1, c1) /\ ~InMatch(c, x)
    <3>1. x \in Valid(o)
      BY <1>1, <1>9, <2>2 DEF Fate
    <3>2. x \in seats
      BY <2>2, <3>1 DEF Seats, Idle
    <3>3. x \notin EndedIn(o, c, D)
      BY <1>3, <1>4, <2>2
    <3> QED
      BY <3>2, <3>3
  <2>3. CASE x \in Idle(o1, c1) /\ InMatch(c, x)
    <3>1. Through(o, c, D, x)
      BY <1>1, <1>9, <2>3 DEF Fate
    <3>2. CASE x \in ByesIn(o, c, D)
      <4>1. x \in DOMAIN c /\ x \notin EndedIn(o, c, D)
        BY <1>4, <1>7, <3>2
      <4> QED
        BY <4>1 DEF Seats
    <3>3. CASE \E k \in EndedIn(o, c, D) : Winner(c, k) = x
      <4>1. PICK k \in EndedIn(o, c, D) : Winner(c, k) = x
        BY <3>3
      <4>2. k \in seats
        BY <1>4 DEF Seats
      <4> QED
        BY <4>1, <4>2
    <3> QED
      BY <3>1, <3>2, <3>3 DEF Through
  <2> QED
    BY <2>1, <2>2, <2>3 DEF Seats
<1>14. f \in Bijection(seats, seats1)
  <2>1. f \in [seats -> seats1]
    BY <1>11
  <2> HIDE DEF f, seats, seats1
  <2>2. f \in Injection(seats, seats1)
    BY <1>12, <2>1 DEF Injection, IsInjective
  <2>3. f \in Surjection(seats, seats1)
    BY <1>13, <2>1 DEF Surjection
  <2> QED
    BY <2>2, <2>3 DEF Bijection
<1>15. IsFiniteSet(seats)
  <2>1. seats \in SUBSET Valid(o)
    BY <1>3 DEF Seats, Idle
  <2> QED
    BY <2>1, ValidFinite, FS_Subset
<1> HIDE DEF seats, seats1, f
<1>16. IsFiniteSet(seats1) /\ Cardinality(seats1) = Cardinality(seats)
  BY <1>14, <1>15, SameCount
<1> QED
  BY <1>16 DEF seats, seats1, o1, c1

-----------------------------------------------------------------------------
(***************************************************************************)
(* createChallData.                                                        *)
(***************************************************************************)

\* The places by position are 0, 1, 2 and so on, each taken once.
LEMMA PosRankIs ==
  ASSUME NEW o, ObjsType(o), Spread(o)
  PROVE  [t \in Valid(o) |-> PosRank(o, t)] \in
           Bijection(Valid(o), 0..(Cardinality(Valid(o)) - 1))
<1> DEFINE f == [t \in Valid(o) |-> o[t].position]
           place == [t \in Valid(o) |-> Cardinality({u \in Valid(o) : f[u] < f[t]})]
<1>1. \A t \in Valid(o) : t \in DOMAIN o /\ o[t].position \in Nat
  BY ObjIs DEF Valid
<1>2. f \in [Valid(o) -> Nat]
  BY <1>1
<1>3. \A t, u \in Valid(o) : f[t] = f[u] => t = u
  BY DEF Spread
<1>4. \A t \in Valid(o) : {u \in Valid(o) : f[u] < f[t]}
                            = {u \in Valid(o) : o[u].position < o[t].position}
  OBVIOUS
<1>5. \A t \in Valid(o) : place[t] = PosRank(o, t)
  BY <1>4 DEF PosRank
<1>6. place \in Bijection(Valid(o), 0..(Cardinality(Valid(o)) - 1))
  <2> HIDE DEF f
  <2>1. place = [t \in Valid(o) |-> Cardinality({u \in Valid(o) : f[u] < f[t]})]
    OBVIOUS
  <2> HIDE DEF place
  <2> QED
    BY <1>2, <1>3, <2>1, Places, ValidFinite
<1>7. place = [t \in Valid(o) |-> PosRank(o, t)]
  BY <1>5
<1> QED
  BY <1>6, <1>7

LEMMA PosRankFacts ==
  ASSUME NEW o, ObjsType(o), Spread(o)
  PROVE  /\ \A t \in Valid(o) : PosRank(o, t) \in 0..(Cardinality(Valid(o)) - 1)
         /\ \A t, u \in Valid(o) : PosRank(o, t) = PosRank(o, u) => t = u
         /\ \A r \in 0..(Cardinality(Valid(o)) - 1) : \E t \in Valid(o) : PosRank(o, t) = r
<1> DEFINE place == [t \in Valid(o) |-> PosRank(o, t)]
           ranks == 0..(Cardinality(Valid(o)) - 1)
<1>1. place \in Bijection(Valid(o), ranks)
  BY PosRankIs
<1>2. \A t \in Valid(o) : place[t] = PosRank(o, t)
  OBVIOUS
<1> HIDE DEF place, ranks
<1>3. place \in [Valid(o) -> ranks]
  BY <1>1 DEF Bijection, Injection
<1>4. \A t, u \in Valid(o) : place[t] = place[u] => t = u
  BY <1>1 DEF Bijection, Injection, IsInjective
<1>5. \A r \in ranks : \E t \in Valid(o) : place[t] = r
  BY <1>1 DEF Bijection, Surjection
<1> QED
  BY <1>2, <1>3, <1>4, <1>5 DEF ranks

\* Of an even number of teams each has a neighbour, who has him.
LEMMA NeighbourIs ==
  ASSUME NEW o, ObjsType(o), Spread(o), Cardinality(Valid(o)) % 2 = 0, NEW t \in Valid(o)
  PROVE  /\ Neighbour(o, t) \in Valid(o) /\ Neighbour(o, t) # t
         /\ PosRank(o, t) % 2 = 0 => PosRank(o, Neighbour(o, t)) % 2 = 1
         /\ PosRank(o, t) % 2 # 0 => PosRank(o, Neighbour(o, t)) % 2 = 0
         /\ PosRank(o, Neighbour(o, t)) =
              IF PosRank(o, t) % 2 = 0 THEN PosRank(o, t) + 1 ELSE PosRank(o, t) - 1
         /\ Neighbour(o, Neighbour(o, t)) = t
<1> DEFINE n == Cardinality(Valid(o))
           r(x) == PosRank(o, x)
           q(x) == IF r(x) % 2 = 0 THEN r(x) + 1 ELSE r(x) - 1
<1>1. n \in Nat /\ n % 2 = 0
  BY ValidFinite
<1>2. \A x \in Valid(o) : r(x) \in 0..(n - 1)
  BY PosRankFacts
<1>3. \A x \in Valid(o) : q(x) \in 0..(n - 1)
  <2> HIDE DEF r, n
  <2> QED
    BY <1>1, <1>2
<1>4. \A x \in Valid(o) : \E u \in Valid(o) : PosRank(o, u) = q(x)
  <2> HIDE DEF q
  <2> QED
    BY <1>3, PosRankFacts
<1>5. \A x \in Valid(o) : Neighbour(o, x) = CHOOSE u \in Valid(o) : PosRank(o, u) = q(x)
  BY DEF Neighbour
<1>6. \A x \in Valid(o) : Neighbour(o, x) \in Valid(o) /\ r(Neighbour(o, x)) = q(x)
  <2> HIDE DEF q
  <2> QED
    BY <1>4, <1>5
<1> DEFINE u == Neighbour(o, t)
           w == Neighbour(o, u)
<1>7. u \in Valid(o) /\ w \in Valid(o) /\ r(u) = q(t) /\ r(w) = q(u)
  BY <1>6
<1>8. r(t) \in Nat
  BY <1>1, <1>2
<1> HIDE DEF u, w, r
<1>9. r(u) # r(t) /\ (r(t) % 2 = 0 => r(u) % 2 = 1) /\ (r(t) % 2 # 0 => r(u) % 2 = 0)
      /\ r(w) = r(t) /\ r(u) = IF r(t) % 2 = 0 THEN r(t) + 1 ELSE r(t) - 1
  BY <1>7, <1>8
<1>10. w = t
  BY <1>7, <1>9, PosRankFacts DEF r
<1> QED
  BY <1>7, <1>9, <1>10 DEF u, w, r

\* Every other team opens a match.
LEMMA HalfOpen ==
  ASSUME NEW o, ObjsType(o), Spread(o), Cardinality(Valid(o)) % 2 = 0,
         NEW E, E = {t \in Valid(o) : PosRank(o, t) % 2 = 0}
  PROVE  Cardinality(E) = Cardinality(Valid(o)) \div 2
<1> DEFINE n == Cardinality(Valid(o))
           h == n \div 2
           f == [t \in E |-> PosRank(o, t) \div 2]
<1>1. n \in Nat /\ n % 2 = 0 /\ IsFiniteSet(Valid(o))
  BY ValidFinite
<1>2. h \in Nat /\ n = 2 * h
  <2> HIDE DEF n
  <2> QED
    BY <1>1
<1>3. \A t \in E : t \in Valid(o) /\ PosRank(o, t) \in 0..(n - 1) /\ PosRank(o, t) % 2 = 0
  BY PosRankFacts
<1> HIDE DEF n, h
<1>4. \A t \in E : f[t] \in 0..(h - 1) /\ PosRank(o, t) = 2 * f[t]
  <2> SUFFICES ASSUME NEW t \in E PROVE f[t] \in 0..(h - 1) /\ PosRank(o, t) = 2 * f[t]
    OBVIOUS
  <2> DEFINE r == PosRank(o, t)
  <2>1. r \in 0..(n - 1) /\ r % 2 = 0 /\ f[t] = r \div 2
    BY <1>3
  <2> HIDE DEF r, f
  <2>2. f[t] \in 0..(h - 1) /\ r = 2 * f[t]
    BY <1>1, <1>2, <2>1
  <2> QED
    BY <2>2 DEF r
<1>5. f \in [E -> 0..(h - 1)]
  BY <1>4
<1>6. \A t, u \in E : f[t] = f[u] => t = u
  BY <1>3, <1>4, PosRankFacts
<1>7. \A k \in 0..(h - 1) : \E t \in E : f[t] = k
  <2> SUFFICES ASSUME NEW k \in 0..(h - 1) PROVE \E t \in E : f[t] = k
    OBVIOUS
  <2>1. 2 * k \in 0..(n - 1) /\ (2 * k) % 2 = 0 /\ (2 * k) \div 2 = k
    BY <1>1, <1>2
  <2>2. PICK t \in Valid(o) : PosRank(o, t) = 2 * k
    BY <2>1, PosRankFacts DEF n
  <2>3. t \in E /\ f[t] = k
    BY <2>1, <2>2
  <2> QED
    BY <2>3
<1>8. f \in Bijection(E, 0..(h - 1))
  <2> HIDE DEF f
  <2> QED
    BY <1>5, <1>6, <1>7 DEF Bijection, Injection, Surjection, IsInjective
<1>9. IsFiniteSet(E)
  BY <1>1, FS_Subset
<1>10. Cardinality(0..(h - 1)) = Cardinality(E)
  <2> HIDE DEF f
  <2> QED
    BY <1>8, <1>9, SameCount
<1>11. Cardinality(0..(h - 1)) = h
  <2>1. 0 \in Int /\ h - 1 \in Int
    BY <1>2
  <2>2. Cardinality(0..(h - 1)) = IF 0 > h - 1 THEN 0 ELSE (h - 1) - 0 + 1
    BY <2>1, FS_Interval
  <2> QED
    BY <1>2, <2>2
<1> QED
  BY <1>10, <1>11 DEF h, n

\* The next round, from a field in which nobody is in a match.
LEMMA PairedRound ==
  ASSUME NEW o, ObjsType(o), Spread(o), Level(o, NoMatch), Facing(o, NoMatch),
         NEW n, n = Cardinality(Valid(o)), n \in Sizes, n # 1
  PROVE  /\ ObjsType(Paired(o)) /\ ChallsType(NextRound(o))
         /\ DOMAIN NextRound(o) # {} /\ DOMAIN Paired(o) = DOMAIN o
         /\ Going(Paired(o), NextRound(o))
         /\ Housed(o) => Round(Paired(o), NextRound(o))
<1> DEFINE o2 == Paired(o)
           c2 == NextRound(o)
           N(t) == Neighbour(o, t)
           even(t) == PosRank(o, t) % 2 = 0
<1>1. n \in Nat /\ n # 0 /\ n % 2 = 0 /\ n \div 2 \in Sizes
  BY SizeHalves
<1>2. \A t \in Valid(o) : t \in DOMAIN o /\ t \in Teams /\ t # 0
  BY ObjIs, NoTeamZero DEF Valid
<1>3. \A t \in Valid(o) : /\ N(t) \in Valid(o) /\ N(t) # t /\ N(N(t)) = t
                          /\ even(t) <=> ~even(N(t))
  BY <1>1, NeighbourIs
<1>4. DOMAIN o2 = DOMAIN o /\ o2 = [t \in DOMAIN o2 |-> o2[t]]
  BY DEF Paired
<1>5. \A t \in DOMAIN o : o2[t] = IF t \in Valid(o) THEN [o[t] EXCEPT !.competitor = N(t)]
                                                    ELSE o[t]
  BY DEF Paired
<1>6. \A t \in DOMAIN o :
        /\ o2[t] \in Obj /\ o2[t].status = o[t].status /\ o2[t].value = o[t].value
        /\ o2[t].position = o[t].position /\ o2[t].house = o[t].house
        /\ o2[t].competitor = IF t \in Valid(o) THEN N(t) ELSE o[t].competitor
  <2> SUFFICES ASSUME NEW t \in DOMAIN o
               PROVE  /\ o2[t] \in Obj /\ o2[t].status = o[t].status
                      /\ o2[t].value = o[t].value
                      /\ o2[t].position = o[t].position /\ o2[t].house = o[t].house
                      /\ o2[t].competitor = IF t \in Valid(o) THEN N(t) ELSE o[t].competitor
    OBVIOUS
  <2>1. o[t] \in Obj
    BY ObjIs
  <2>2. t \in Valid(o) => N(t) \in Teams
    BY <1>2, <1>3
  <2> HIDE DEF o2, N
  <2> QED
    BY <1>5, <2>1, <2>2 DEF Obj
<1>7. DOMAIN c2 = {t \in Valid(o) : even(t)} /\ \A k \in DOMAIN c2 : c2[k] = Match(k, N(k))
  BY DEF NextRound
<1>8. c2 = [k \in DOMAIN c2 |-> c2[k]]
  BY DEF NextRound
<1> HIDE DEF o2, c2, N, even
<1>9. Valid(o2) = Valid(o)
  BY <1>4, <1>6 DEF Valid
<1>10. ObjsType(o2)
  BY <1>4, <1>6 DEF ObjsType
<1>11. \A k \in DOMAIN c2 : /\ c2[k].objId1 = k /\ c2[k].objId2 = N(k)
                            /\ c2[k].result1 = 0 /\ c2[k].result2 = 0
                            /\ c2[k] \in Challenge
  <2> SUFFICES ASSUME NEW k \in DOMAIN c2
               PROVE  /\ c2[k].objId1 = k /\ c2[k].objId2 = N(k)
                      /\ c2[k].result1 = 0 /\ c2[k].result2 = 0
                      /\ c2[k] \in Challenge
    OBVIOUS
  <2>1. k \in Teams /\ N(k) \in Teams
    BY <1>2, <1>3, <1>7
  <2> QED
    BY <1>7, <2>1 DEF Match, Challenge, Result
<1>12. ChallsType(c2)
  BY <1>2, <1>7, <1>8, <1>11 DEF ChallsType
<1>13. \A t \in Valid(o) : InMatch(c2, t)
  <2> SUFFICES ASSUME NEW t \in Valid(o) PROVE InMatch(c2, t)
    OBVIOUS
  <2>1. CASE even(t)
    BY <1>7, <2>1 DEF InMatch
  <2>2. CASE ~even(t)
    BY <1>3, <1>7, <1>11, <2>2 DEF InMatch
  <2> QED
    BY <2>1, <2>2
<1>14. Matches(o2, c2)
  <2> SUFFICES ASSUME NEW k \in DOMAIN c2
               PROVE  /\ c2[k].objId1 = k /\ k \in Valid(o2) /\ o2[k].competitor = c2[k].objId2
                      /\ c2[k].objId2 \in Valid(o2) \ DOMAIN c2
                      /\ o2[c2[k].objId2].competitor = k
    BY DEF Matches
  <2>1. k \in Valid(o) /\ even(k) /\ N(k) \in Valid(o) /\ ~even(N(k)) /\ N(N(k)) = k
    BY <1>3, <1>7
  <2> QED
    BY <1>2, <1>6, <1>7, <1>9, <1>11, <2>1
<1>15. \A t \in DOMAIN o : o[t].competitor = 0
  BY DEF Facing, InMatch, NoMatch
<1>16. Facing(o2, c2)
  BY <1>4, <1>6, <1>13, <1>15 DEF Facing
<1>161. Housed(o) => Housed(o2)
  BY <1>4, <1>6, <1>15 DEF Housed
<1>17. Reports(o2, c2) /\ Undecided(c2)
  BY <1>11 DEF Reports, Undecided
<1>18. Level(o2, c2)
  <2>1. PICK v \in Nat : \A t \in Valid(o) : o[t].value = IF InMatch(NoMatch, t) THEN v ELSE v + 1
    BY DEF Level
  <2>2. \A t \in Valid(o) : o[t].value = v + 1
    BY <2>1 DEF InMatch, NoMatch
  <2>3. \A t \in Valid(o2) : o2[t].value = IF InMatch(c2, t) THEN v + 1 ELSE (v + 1) + 1
    BY <1>2, <1>6, <1>9, <1>13, <2>2
  <2>4. v + 1 \in Nat
    OBVIOUS
  <2> HIDE DEF Valid
  <2> QED
    BY <2>3, <2>4 DEF Level
<1>19. Spread(o2)
  BY <1>2, <1>6, <1>9 DEF Spread
<1>20. Cardinality(DOMAIN c2) = n \div 2
  BY <1>1, <1>7, HalfOpen DEF even
<1>21. Seats(o2, c2) = DOMAIN c2
  BY <1>9, <1>13 DEF Seats, Idle
<1>22. Halving(o2, c2)
  BY <1>1, <1>20, <1>21 DEF Halving
<1>23. DOMAIN c2 # {}
  <2>1. n \div 2 # 0
    BY <1>1, SizeHalves
  <2> QED
    BY <1>20, <2>1, FS_EmptySet
<1> QED
  BY <1>4, <1>10, <1>12, <1>14, <1>16, <1>161, <1>17, <1>18, <1>19, <1>22, <1>23
  DEF Round, Running, Going, o2, c2

-----------------------------------------------------------------------------
(***************************************************************************)
(* FightRuleSingleFail::contrl as a whole.                                 *)
(***************************************************************************)

\* With no match left, whoever is valid has a seat.
LEMMA SeatsAtEnd ==
  ASSUME NEW o, NEW c, DOMAIN c = {}
  PROVE  /\ Seats(o, c) = Valid(o)
         /\ Level(o, c) => Level(o, NoMatch)
         /\ Facing(o, c) => Facing(o, NoMatch)
<1>1. \A t : ~InMatch(c, t) /\ ~InMatch(NoMatch, t)
  BY DEF InMatch, NoMatch
<1> QED
  BY <1>1 DEF Seats, Idle, Level, Facing

\* The loop stopped anywhere leaves a round.
LEMMA SettledGoing ==
  ASSUME NEW o, NEW c, NEW D, ObjsType(o), ChallsType(c), Going(o, c)
  PROVE  LET o1 == SettledIn(o, c, D)
             c1 == RemainingIn(o, c, D)
         IN /\ ObjsType(o1) /\ DOMAIN o1 = DOMAIN o /\ ChallsType(c1) /\ Going(o1, c1)
            /\ DOMAIN c # {} => Level(o1, c1) /\ Spread(o1) /\ Halving(o1, c1)
<1> DEFINE o1 == SettledIn(o, c, D)
           c1 == RemainingIn(o, c, D)
<1>1. Matches(o, c) /\ Facing(o, c)
  BY DEF Going
<1>2. ObjsType(o1) /\ DOMAIN o1 = DOMAIN o /\ ChallsType(c1)
  BY <1>1, SettledTypes
<1>3. Matches(o1, c1) /\ Facing(o1, c1)
  BY <1>1, SettledMatches
<1>4. ASSUME DOMAIN c # {}
      PROVE  Level(o1, c1) /\ Spread(o1) /\ Halving(o1, c1)
  <2>1. Level(o, c) /\ Spread(o) /\ Halving(o, c)
    BY <1>4 DEF Going
  <2>2. Level(o1, c1) /\ Spread(o1)
    BY <1>1, <2>1, SettledLevel
  <2>3. Cardinality(Seats(o1, c1)) = Cardinality(Seats(o, c))
    BY <1>1, SettledSeats
  <2> QED
    BY <2>1, <2>2, <2>3 DEF Halving
<1>5. DOMAIN c1 # {} => DOMAIN c # {}
  <2>1. Left(o, c, D, c1)
    BY <1>1, RemainingIs
  <2> QED
    BY <2>1 DEF Left
<1> HIDE DEF o1, c1
<1>6. Going(o1, c1)
  BY <1>3, <1>4, <1>5 DEF Going
<1> QED
  BY <1>2, <1>4, <1>6 DEF o1, c1

\* What one call of contrl leaves behind.
Ruled(o, o1, c1, top) ==
  /\ ObjsType(o1) /\ ChallsType(c1) /\ DOMAIN o1 = DOMAIN o
  /\ Going(o1, c1) /\ (DOMAIN c1 = {} => Played(o1))
  /\ top \in Seq(SUBSET Teams)

LEMMA RuleKeeps ==
  ASSUME NEW o, NEW c, ObjsType(o), ChallsType(c), Going(o, c),
         DOMAIN c = {} => Played(o),
         promoted \in Seq(SUBSET Teams), RuleContrl(o, c)
  PROVE  /\ Ruled(o, objs', challs', promoted') /\ fault' = fault
         /\ Housed(o) /\ Reports(o, c) => Round(objs', challs')
<1> DEFINE o1 == Settled(o, c)
           c1 == Remaining(o, c)
<1>1. Matches(o, c) /\ Facing(o, c)
  BY DEF Going
<1>2. ~Spins(o, c)
  BY <1>1, LoopRuns
<1>3. /\ ObjsType(o1) /\ DOMAIN o1 = DOMAIN o /\ ChallsType(c1) /\ Going(o1, c1)
      /\ DOMAIN c # {} => Level(o1, c1) /\ Spread(o1) /\ Halving(o1, c1)
  BY <1>1, SettledGoing, WholeLoop
<1>4. Housed(o) /\ Reports(o, c) => Housed(o1) /\ Reports(o1, c1) /\ Undecided(c1)
  BY <1>1, SettledHouses, WholeLoop
<1>6. ASSUME DOMAIN c # {} PROVE DOMAIN o # {}
  BY <1>1, <1>6 DEF Matches, Valid
<1>7. ASSUME DOMAIN c # {}, DOMAIN c1 = {} PROVE Cardinality(Valid(o1)) \in Sizes
  BY <1>3, <1>7, SeatsAtEnd DEF Halving
<1>8. CASE DOMAIN c = {} /\ objs' = o /\ challs' = c /\ UNCHANGED <<promoted, fault>>
  BY <1>8 DEF Ruled, Round, Running, Undecided
<1>9. CASE /\ DOMAIN c # {} /\ DOMAIN c1 # {}
           /\ objs' = o1 /\ challs' = c1 /\ UNCHANGED <<promoted, fault>>
  <2> HIDE DEF o1, c1
  <2> QED
    BY <1>3, <1>4, <1>9 DEF Ruled, Round, Running
<1>10. CASE /\ DOMAIN c # {} /\ DOMAIN c1 = {} /\ Cardinality(Valid(o1)) < 2
            /\ objs' = o1 /\ challs' = c1
            /\ promoted' = Append(promoted, GetTop(o1, NextLvNum)) /\ UNCHANGED fault
  <2> HIDE DEF o1, c1
  <2> DEFINE n == Cardinality(Valid(o1))
  <2>11. n \in Sizes /\ n < 2
    BY <1>7, <1>10
  <2> HIDE DEF n
  <2>12. n \in Nat /\ n # 0
    BY <2>11, SizeHalves
  <2>2. n = 1
    BY <2>11, <2>12
  <2>3. Played(o1)
    BY <1>3, <1>6, <1>10, <2>2 DEF Played, n
  <2>4. GetTop(o1, NextLvNum) \in SUBSET Teams
    BY <1>3 DEF GetTop, ObjsType
  <2>5. promoted' \in Seq(SUBSET Teams)
    BY <1>10, <2>4
  <2> QED
    BY <1>3, <1>4, <1>10, <2>3, <2>5 DEF Ruled, Round, Running
<1>11. CASE /\ DOMAIN c # {} /\ DOMAIN c1 = {} /\ Cardinality(Valid(o1)) >= 2
            /\ objs' = Paired(o1) /\ challs' = NextRound(o1) /\ UNCHANGED <<promoted, fault>>
  <2> HIDE DEF o1, c1
  <2> DEFINE n == Cardinality(Valid(o1))
  <2>1. n \in Sizes /\ n # 1
    BY <1>7, <1>11, SizeHalves
  <2>2. Level(o1, NoMatch) /\ Facing(o1, NoMatch) /\ Spread(o1)
    BY <1>3, <1>11, SeatsAtEnd DEF Going
  <2>4. /\ ObjsType(Paired(o1)) /\ ChallsType(NextRound(o1))
        /\ DOMAIN NextRound(o1) # {} /\ DOMAIN Paired(o1) = DOMAIN o1
        /\ Going(Paired(o1), NextRound(o1))
        /\ Housed(o1) => Round(Paired(o1), NextRound(o1))
    BY <1>3, <2>1, <2>2, PairedRound
  <2> QED
    BY <1>3, <1>4, <1>11, <2>4 DEF Ruled
<1>12. ~(DOMAIN c # {} /\ DOMAIN c1 = {} /\ Cardinality(Valid(o1)) >= 2
         /\ Cardinality(Valid(o1)) % 2 = 1)
  <2> HIDE DEF o1, c1
  <2> SUFFICES ASSUME DOMAIN c # {}, DOMAIN c1 = {}, Cardinality(Valid(o1)) >= 2,
                      Cardinality(Valid(o1)) % 2 = 1
               PROVE  FALSE
    OBVIOUS
  <2>1. Cardinality(Valid(o1)) \in Sizes
    BY <1>7
  <2>2. Cardinality(Valid(o1)) # 1
    OBVIOUS
  <2> QED
    BY <2>1, <2>2, SizeHalves
<1> QED
  BY <1>2, <1>8, <1>9, <1>10, <1>11, <1>12 DEF RuleContrl

-----------------------------------------------------------------------------
(***************************************************************************)
(* initPosition.                                                           *)
(***************************************************************************)

\* The ranks by id are 0, 1, 2 and so on, each taken once.
LEMMA RankFacts ==
  ASSUME NEW S \in SUBSET Teams
  PROVE  /\ IsFiniteSet(S) /\ Cardinality(S) \in Nat
         /\ \A t \in S : Rank(S, t) \in 0..(Cardinality(S) - 1)
         /\ \A t, u \in S : Rank(S, t) = Rank(S, u) => t = u
         /\ \A r \in 0..(Cardinality(S) - 1) : \E t \in S : Rank(S, t) = r
<1> DEFINE f == [t \in S |-> t]
           place == [t \in S |-> Cardinality({u \in S : f[u] < f[t]})]
           ranks == 0..(Cardinality(S) - 1)
<1>1. IsFiniteSet(S)
  BY TeamsAssumption, FS_Subset
<1>2. f \in [S -> Nat] /\ \A t, u \in S : f[t] = f[u] => t = u
  BY TeamsAssumption
<1>3. \A t \in S : {u \in S : f[u] < f[t]} = {u \in S : u < t}
  OBVIOUS
<1>4. \A t \in S : place[t] = Rank(S, t)
  BY <1>3 DEF Rank
<1>5. place \in Bijection(S, ranks)
  <2> HIDE DEF f
  <2>1. place = [t \in S |-> Cardinality({u \in S : f[u] < f[t]})]
    OBVIOUS
  <2> HIDE DEF place
  <2> QED
    BY <1>1, <1>2, <2>1, Places
<1> HIDE DEF place, ranks
<1>6. place \in [S -> ranks]
  BY <1>5 DEF Bijection, Injection
<1>7. \A t, u \in S : place[t] = place[u] => t = u
  BY <1>5 DEF Bijection, Injection, IsInjective
<1>8. \A r \in ranks : \E t \in S : place[t] = r
  BY <1>5 DEF Bijection, Surjection
<1>9. Cardinality(S) \in Nat
  BY <1>1, FS_CardinalityType
<1> QED
  BY <1>1, <1>4, <1>6, <1>7, <1>8, <1>9 DEF ranks

\* The bracket for n entrants has 2 * h places, of which the better h are taken.
LEMMA BracketIs ==
  ASSUME NEW S \in SUBSET Teams, S # {}
  PROVE  \E h \in Nat \cap Sizes :
           /\ PositionVal(Cardinality(S)) = 2 * h
           /\ PositionVal(Cardinality(S)) \div 2 = h
           /\ h <= Cardinality(S) /\ Cardinality(S) <= 2 * h
<1>1. IsFiniteSet(S) /\ Cardinality(S) \in Nat
  BY RankFacts
<1>2. Cardinality(S) # 0
  BY <1>1, FS_EmptySet
<1> DEFINE n == Cardinality(S)
           p == PositionVal(n)
           h == p \div 2
<1>3. p \in Nat /\ n <= p /\ p = 2 * h /\ h \in Sizes /\ h \in Nat /\ h <= n
  BY <1>1, <1>2, PositionValIs
<1> QED
  BY <1>3

\* Seeds meet in pairs, the lower half of the bracket has no byes, and no two
\* teams have the same place.
LEMMA SeedsAre ==
  ASSUME NEW S \in SUBSET Teams, S # {}
  PROVE  /\ \A t \in S : Position(S, t) \in Nat
         /\ \A t, u \in S : Position(S, t) = Position(S, u) => t = u
         /\ \A t \in S : Opponent(S, t) \in S \cup {0}
         /\ \A t \in S : Opponent(S, t) # 0 =>
               /\ Opponent(S, Opponent(S, t)) = t
               /\ t \in UpperHalf(S) => Opponent(S, t) \notin UpperHalf(S)
               /\ t \notin UpperHalf(S) => Opponent(S, t) \in UpperHalf(S)
         /\ \A t \in S : t \notin UpperHalf(S) => Opponent(S, t) # 0
         /\ Cardinality(UpperHalf(S)) \in Sizes
         /\ 2 * Cardinality(UpperHalf(S)) = PositionVal(Cardinality(S))
<1> DEFINE n == Cardinality(S)
           p == PositionVal(n)
           r(t) == Rank(S, t)
<1>1. PICK h \in Nat \cap Sizes : p = 2 * h /\ p \div 2 = h /\ h <= n /\ n <= 2 * h
  BY BracketIs
<1>2. n \in Nat
  BY RankFacts
<1>3. \A t \in S : r(t) \in 0..(n - 1)
  BY RankFacts
<1>4. \A t, u \in S : r(t) = r(u) => t = u
  BY RankFacts
<1>5. \A q \in 0..(n - 1) : \E t \in S : r(t) = q
  BY RankFacts
<1>6. 0 \notin S
  BY NoTeamZero
<1>7. \A t \in S : Position(S, t) = IF r(t) < h THEN 2 * r(t) ELSE 2 * (2 * h - 1 - r(t)) + 1
  BY <1>1 DEF Position
<1>8. \A t : Opponent(S, t) = IF 2 * h - 1 - r(t) < n
                              THEN CHOOSE u \in S : r(u) = 2 * h - 1 - r(t) ELSE 0
  BY <1>1 DEF Opponent
<1>9. UpperHalf(S) = {t \in S : r(t) < h}
  BY <1>1 DEF UpperHalf
<1> HIDE DEF n, p, r
<1>10. \A t \in S : Position(S, t) \in Nat
  BY <1>1, <1>2, <1>3, <1>7
<1>11. ASSUME NEW t \in S, NEW u \in S, Position(S, t) = Position(S, u) PROVE t = u
  <2>1. r(t) \in 0..(n - 1) /\ r(u) \in 0..(n - 1)
    BY <1>3
  <2> DEFINE a == r(t)
             b == r(u)
  <2>2. (IF a < h THEN 2 * a ELSE 2 * (2 * h - 1 - a) + 1)
          = (IF b < h THEN 2 * b ELSE 2 * (2 * h - 1 - b) + 1)
    BY <1>7, <1>11
  <2>3. a \in Nat /\ b \in Nat /\ h \in Nat
    BY <1>2, <2>1
  <2> HIDE DEF a, b
  <2>4. a = b
    BY <2>2, <2>3
  <2> QED
    BY <1>4, <2>4 DEF a, b
<1>12. ASSUME NEW t \in S, 2 * h - 1 - r(t) < n
       PROVE  Opponent(S, t) \in S /\ r(Opponent(S, t)) = 2 * h - 1 - r(t)
  <2>1. r(t) \in 0..(n - 1)
    BY <1>3
  <2>2. 2 * h - 1 - r(t) \in 0..(n - 1)
    BY <1>1, <1>2, <1>12, <2>1
  <2>3. \E u \in S : r(u) = 2 * h - 1 - r(t)
    BY <1>5, <2>2
  <2> QED
    BY <1>8, <1>12, <2>3
<1>13. \A t \in S : Opponent(S, t) # 0 => 2 * h - 1 - r(t) < n
  BY <1>8
<1>14. \A t \in S : Opponent(S, t) \in S \cup {0}
  BY <1>8, <1>12
<1>15. ASSUME NEW t \in S, Opponent(S, t) # 0
       PROVE  /\ Opponent(S, Opponent(S, t)) = t
              /\ t \in UpperHalf(S) => Opponent(S, t) \notin UpperHalf(S)
              /\ t \notin UpperHalf(S) => Opponent(S, t) \in UpperHalf(S)
  <2> DEFINE u == Opponent(S, t)
             w == Opponent(S, u)
  <2>1. u \in S /\ r(u) = 2 * h - 1 - r(t)
    BY <1>12, <1>13, <1>15
  <2>2. r(t) \in 0..(n - 1) /\ r(u) \in 0..(n - 1)
    BY <1>3, <2>1
  <2> HIDE DEF u
  <2>3. 2 * h - 1 - r(u) = r(t) /\ 2 * h - 1 - r(u) < n
    BY <1>1, <1>2, <2>1, <2>2
  <2>4. w \in S /\ r(w) = r(t)
    BY <1>12, <2>1, <2>3
  <2>5. w = t
    BY <1>4, <2>4
  <2>6. r(t) < h <=> ~(r(u) < h)
    BY <1>1, <1>2, <2>1, <2>2
  <2> QED
    BY <1>9, <2>1, <2>5, <2>6 DEF u
<1>16. ASSUME NEW t \in S, t \notin UpperHalf(S) PROVE Opponent(S, t) # 0
  <2>1. r(t) \in 0..(n - 1) /\ ~(r(t) < h)
    BY <1>3, <1>9, <1>16
  <2>2. 2 * h - 1 - r(t) < n
    BY <1>1, <1>2, <2>1
  <2> QED
    BY <1>6, <1>12, <2>2
<1>17. Cardinality(UpperHalf(S)) = h
  <2> DEFINE U == UpperHalf(S)
             f == [t \in U |-> r(t)]
  <2>1. \A t \in U : t \in S /\ r(t) \in 0..(h - 1)
    BY <1>1, <1>2, <1>3, <1>9
  <2>2. \A q \in 0..(h - 1) : \E t \in U : f[t] = q
    <3> SUFFICES ASSUME NEW q \in 0..(h - 1) PROVE \E t \in U : f[t] = q
      OBVIOUS
    <3>1. q \in 0..(n - 1) /\ q < h
      BY <1>1, <1>2
    <3>2. PICK t \in S : r(t) = q
      BY <1>5, <3>1
    <3>3. t \in U /\ f[t] = q
      BY <1>9, <3>1, <3>2
    <3> QED
      BY <3>3
  <2>3. f \in [U -> 0..(h - 1)] /\ \A t, u \in U : f[t] = f[u] => t = u
    BY <1>4, <2>1
  <2>4. IsFiniteSet(U)
    <3>1. U \in SUBSET S /\ IsFiniteSet(S)
      BY <2>1, RankFacts
    <3> QED
      BY <3>1, FS_Subset
  <2>5. Cardinality(0..(h - 1)) = h
    <3>1. 0 \in Int /\ h - 1 \in Int
      BY <1>1
    <3>2. Cardinality(0..(h - 1)) = IF 0 > h - 1 THEN 0 ELSE (h - 1) - 0 + 1
      BY <3>1, FS_Interval
    <3> QED
      BY <1>1, <3>2
  <2> HIDE DEF U, f
  <2>6. f \in Bijection(U, 0..(h - 1))
    BY <2>2, <2>3 DEF Bijection, Injection, Surjection, IsInjective
  <2>7. Cardinality(0..(h - 1)) = Cardinality(U)
    BY <2>4, <2>6, SameCount
  <2> QED
    BY <2>5, <2>7 DEF U
<1> QED
  BY <1>1, <1>10, <1>11, <1>14, <1>15, <1>16, <1>17 DEF n, p

\* The first round.
LEMMA FirstRound ==
  ASSUME ObjsType(objs), Entered(objs, challs), InitPosition
  PROVE  /\ ObjsType(objs') /\ ChallsType(challs') /\ DOMAIN objs' = DOMAIN objs
         /\ Going(objs', challs') /\ (DOMAIN challs' = {} => Played(objs'))
         /\ (\A t \in DOMAIN objs : ~objs[t].house) => Round(objs', challs')
<1> DEFINE S == DOMAIN objs
           o == objs'
           c == challs'
           U == UpperHalf(S)
<1>1. S \in SUBSET Teams
  BY DEF ObjsType
<1>2. /\ o = [t \in S |-> [objs[t] EXCEPT !.position = Position(S, t),
                                         !.competitor = Opponent(S, t)]]
      /\ c = [k \in U |-> Match(k, Opponent(S, k))]
  BY DEF InitPosition, Entered
<1>3. DOMAIN o = S /\ DOMAIN c = U /\ U \subseteq S
  BY <1>2 DEF UpperHalf
<1>4. CASE S = {}
  <2>1. DOMAIN o = {} /\ DOMAIN c = {}
    BY <1>3, <1>4
  <2>2. o = [t \in DOMAIN o |-> o[t]] /\ c = [k \in DOMAIN c |-> c[k]]
    BY <1>2
  <2> HIDE DEF o, c
  <2>3. ObjsType(o) /\ ChallsType(c)
    BY <2>1, <2>2 DEF ObjsType, ChallsType
  <2>4. Going(o, c) /\ Round(o, c)
    BY <2>1 DEF Round, Running, Going, Matches, Facing, Housed, Reports, Undecided
  <2>5. Valid(o) = {}
    BY <2>1 DEF Valid
  <2>6. Played(o)
    BY <2>1, <2>5, FS_EmptySet DEF Played
  <2> QED
    BY <1>3, <2>3, <2>4, <2>6 DEF o, c
<1>5. CASE S # {}
  <2>1. \A t \in S : t # 0 /\ t \in Teams
    BY <1>1, NoTeamZero
  <2>2. /\ \A t \in S : Position(S, t) \in Nat
        /\ \A t, u \in S : Position(S, t) = Position(S, u) => t = u
        /\ \A t \in S : Opponent(S, t) \in S \cup {0}
    BY <1>1, <1>5, SeedsAre
  <2>3. /\ \A t \in S : Opponent(S, t) # 0 =>
               /\ Opponent(S, Opponent(S, t)) = t
               /\ t \in U => Opponent(S, t) \notin U
               /\ t \notin U => Opponent(S, t) \in U
        /\ \A t \in S : t \notin U => Opponent(S, t) # 0
    BY <1>1, <1>5, SeedsAre
  <2>4. Cardinality(U) \in Sizes
    BY <1>1, <1>5, SeedsAre
  <2>6. \A t \in S : /\ o[t].status = 1 /\ o[t].value = 0 /\ o[t].house = objs[t].house
                      /\ o[t].position = Position(S, t) /\ o[t].competitor = Opponent(S, t)
                      /\ o[t] \in Obj
    <3> SUFFICES ASSUME NEW t \in S
                 PROVE  /\ o[t].status = 1 /\ o[t].value = 0 /\ o[t].house = objs[t].house
                        /\ o[t].position = Position(S, t) /\ o[t].competitor = Opponent(S, t)
                        /\ o[t] \in Obj
      OBVIOUS
    <3>1. Position(S, t) \in Nat /\ Opponent(S, t) \in Teams \cup {0}
      BY <2>1, <2>2
    <3>2. objs[t] \in Obj /\ objs[t].status = 1 /\ objs[t].value = 0
      BY ObjIs DEF Entered
    <3> DEFINE x == o[t]
               y == objs[t]
               a == Position(S, t)
               b == Opponent(S, t)
    <3>3. x = [y EXCEPT !.position = a, !.competitor = b]
      BY <1>2
    <3> HIDE DEF o, S, x, y, a, b
    <3>4. /\ x.status = y.status /\ x.value = y.value /\ x.house = y.house
          /\ x.position = a /\ x.competitor = b /\ x \in Obj
      BY <3>1, <3>2, <3>3 DEF Obj, a, b, y
    <3> QED
      BY <3>2, <3>4 DEF x, y, a, b
  <2>7. \A k \in U : /\ c[k].objId1 = k /\ c[k].objId2 = Opponent(S, k)
                      /\ c[k].result1 = 0 /\ c[k].result2 = 0 /\ c[k] \in Challenge
    <3> SUFFICES ASSUME NEW k \in U
                 PROVE  /\ c[k].objId1 = k /\ c[k].objId2 = Opponent(S, k)
                        /\ c[k].result1 = 0 /\ c[k].result2 = 0 /\ c[k] \in Challenge
      OBVIOUS
    <3>1. c[k] = Match(k, Opponent(S, k)) /\ k \in Teams /\ Opponent(S, k) \in Teams \cup {0}
      BY <1>2, <1>3, <2>1, <2>2
    <3> HIDE DEF c, S, U
    <3> QED
      BY <3>1 DEF Match, Challenge, Result
  <2>8. o = [t \in S |-> o[t]] /\ c = [k \in U |-> c[k]]
    BY <1>2
  <2> HIDE DEF o, c, S, U
  <2>9. ObjsType(o) /\ ChallsType(c)
    BY <1>1, <1>3, <2>6, <2>7, <2>8 DEF ObjsType, ChallsType
  <2>10. Valid(o) = S
    BY <1>3, <2>6 DEF Valid
  <2>11. \A t \in S : InMatch(c, t)
    <3> SUFFICES ASSUME NEW t \in S PROVE InMatch(c, t)
      OBVIOUS
    <3>1. CASE t \in U
      BY <1>3, <3>1 DEF InMatch
    <3>2. CASE t \notin U
      <4>1. Opponent(S, t) \in U /\ Opponent(S, Opponent(S, t)) = t
        BY <2>3, <3>2
      <4> QED
        BY <1>3, <2>7, <4>1 DEF InMatch
    <3> QED
      BY <3>1, <3>2
  <2>12. Matches(o, c)
    <3> SUFFICES ASSUME NEW k \in U
                 PROVE  /\ c[k].objId1 = k /\ k \in Valid(o) /\ o[k].competitor = c[k].objId2
                        /\ c[k].objId2 # 0 => /\ c[k].objId2 \in Valid(o) \ U
                                              /\ o[c[k].objId2].competitor = k
      BY <1>3 DEF Matches
    <3>1. k \in S /\ c[k].objId2 = Opponent(S, k)
      BY <1>3, <2>7
    <3>2. Opponent(S, k) # 0 => Opponent(S, k) \in S \ U /\ Opponent(S, Opponent(S, k)) = k
      BY <2>2, <2>3, <3>1
    <3> QED
      BY <2>6, <2>7, <2>10, <3>1, <3>2
  <2>13. Facing(o, c)
    BY <1>3, <2>11 DEF Facing
  <2>131. (\A t \in S : ~objs[t].house) => Housed(o)
    BY <1>3, <2>6 DEF Housed
  <2>14. Reports(o, c) /\ Undecided(c)
    BY <1>3, <2>7 DEF Reports, Undecided
  <2>15. Level(o, c)
    <3>1. \A t \in Valid(o) : o[t].value = IF InMatch(c, t) THEN 0 ELSE 0 + 1
      BY <2>6, <2>10, <2>11
    <3> QED
      BY <3>1 DEF Level
  <2>16. Spread(o)
    BY <2>2, <2>6, <2>10 DEF Spread
  <2>17. Halving(o, c)
    <3>1. Seats(o, c) = U
      BY <1>3, <2>10, <2>11 DEF Seats, Idle
    <3> QED
      BY <2>4, <3>1 DEF Halving
  <2>18. DOMAIN c # {}
    <3>1. Cardinality(U) # 0
      BY <2>4, SizeHalves
    <3> QED
      BY <1>3, <3>1, FS_EmptySet
  <2> QED
    BY <1>3, <2>9, <2>12, <2>13, <2>131, <2>14, <2>15, <2>16, <2>17, <2>18
    DEF Round, Running, Going, o, c, S
<1> QED
  BY <1>4, <1>5

-----------------------------------------------------------------------------
(***************************************************************************)
(* The leaders' messages.                                                  *)
(***************************************************************************)

\* Houses, scores and reports are no part of what makes a round.
SameRound(o, c, o1, c1) ==
  /\ DOMAIN o1 = DOMAIN o /\ DOMAIN c1 = DOMAIN c
  /\ \A t \in DOMAIN o : /\ o1[t].status = o[t].status /\ o1[t].value = o[t].value
                         /\ o1[t].position = o[t].position
                         /\ o1[t].competitor = o[t].competitor
  /\ \A k \in DOMAIN c : c1[k].objId1 = c[k].objId1 /\ c1[k].objId2 = c[k].objId2

LEMMA GoingStays ==
  ASSUME NEW o, NEW c, NEW o1, NEW c1, Going(o, c), SameRound(o, c, o1, c1)
  PROVE  Going(o1, c1) /\ Valid(o1) = Valid(o)
<1>1. Valid(o1) = Valid(o)
  BY DEF Valid, SameRound
<1>2. \A t \in Valid(o) : t \in DOMAIN o
  BY DEF Valid
<1>3. \A t : InMatch(c1, t) <=> InMatch(c, t)
  BY DEF InMatch, SameRound
<1>4. Matches(o1, c1)
  BY <1>1, <1>2 DEF Going, Matches, SameRound
<1>5. Facing(o1, c1)
  BY <1>3 DEF Going, Facing, SameRound
<1>6. ASSUME DOMAIN c1 # {} PROVE Level(o1, c1) /\ Spread(o1) /\ Halving(o1, c1)
  <2>1. Level(o, c) /\ Spread(o) /\ Halving(o, c)
    BY <1>6 DEF Going, SameRound
  <2>2. Level(o1, c1)
    BY <1>1, <1>2, <1>3, <2>1 DEF Level, SameRound
  <2>3. Spread(o1)
    BY <1>1, <1>2, <2>1 DEF Spread, SameRound
  <2>4. Seats(o1, c1) = Seats(o, c)
    BY <1>1, <1>3 DEF Seats, Idle, SameRound
  <2> QED
    BY <2>1, <2>2, <2>3, <2>4 DEF Halving
<1> QED
  BY <1>1, <1>4, <1>5, <1>6 DEF Going

\* ChallengerMem touches nothing but the house of a team that has an opponent.
LEMMA HouseIs ==
  ASSUME ObjsType(objs), NEW t \in Teams, CreateHouse(t), NEW c
  PROVE  /\ ObjsType(objs') /\ DOMAIN objs' = DOMAIN objs /\ Valid(objs') = Valid(objs)
         /\ SameRound(objs, c, objs', c)
         /\ \A x \in DOMAIN objs : /\ objs'[x].valueScore = objs[x].valueScore
                                   /\ objs[x].house => objs'[x].house
                                   /\ objs'[x].house => objs[x].house \/ x = t
         /\ t \in DOMAIN objs /\ objs[t].competitor # 0
<1> DEFINE o == objs
           o1 == objs'
<1>1. /\ t \in DOMAIN o /\ o[t].competitor \in DOMAIN o
      /\ o1 = [o EXCEPT ![t].house = TRUE]
  BY DEF CreateHouse
<1>2. DOMAIN o1 = DOMAIN o /\ o1 = [x \in DOMAIN o |-> o1[x]]
  BY <1>1
<1>3. \A x \in DOMAIN o : o1[x] = IF x = t THEN [o[x] EXCEPT !.house = TRUE] ELSE o[x]
  BY <1>1
<1>4. \A x \in DOMAIN o : /\ o1[x] \in Obj /\ o1[x].status = o[x].status
                          /\ o1[x].value = o[x].value /\ o1[x].position = o[x].position
                          /\ o1[x].competitor = o[x].competitor
                          /\ o1[x].valueScore = o[x].valueScore
                          /\ o[x].house => o1[x].house
                          /\ o1[x].house => o[x].house \/ x = t
  <2> SUFFICES ASSUME NEW x \in DOMAIN o
               PROVE  /\ o1[x] \in Obj /\ o1[x].status = o[x].status
                      /\ o1[x].value = o[x].value /\ o1[x].position = o[x].position
                      /\ o1[x].competitor = o[x].competitor
                      /\ o1[x].valueScore = o[x].valueScore
                      /\ o[x].house => o1[x].house
                      /\ o1[x].house => o[x].house \/ x = t
    OBVIOUS
  <2>1. o[x] \in Obj
    BY ObjIs
  <2> HIDE DEF o1
  <2> QED
    BY <1>3, <2>1 DEF Obj
<1>5. o[t].competitor # 0
  BY <1>1, ObjIs, NoTeamZero
<1> HIDE DEF o1
<1>6. Valid(o1) = Valid(o)
  BY <1>2, <1>4 DEF Valid
<1>7. ObjsType(o1)
  BY <1>2, <1>4 DEF ObjsType
<1>8. SameRound(o, c, o1, c)
  BY <1>2, <1>4 DEF SameRound
<1> QED
  BY <1>1, <1>2, <1>4, <1>5, <1>6, <1>7, <1>8 DEF o1

LEMMA HouseKeeps ==
  ASSUME ObjsType(objs), Round(objs, challs), NEW t \in Teams, CreateHouse(t)
  PROVE  /\ ObjsType(objs') /\ DOMAIN objs' = DOMAIN objs /\ Valid(objs') = Valid(objs)
         /\ Round(objs', challs)
<1> DEFINE o == objs
           o1 == objs'
           c == challs
<1>1. /\ ObjsType(o1) /\ DOMAIN o1 = DOMAIN o /\ Valid(o1) = Valid(o)
      /\ SameRound(o, c, o1, c) /\ t \in DOMAIN o /\ o[t].competitor # 0
      /\ \A x \in DOMAIN o : /\ o[x].house => o1[x].house
                             /\ o1[x].house => o[x].house \/ x = t
  BY HouseIs
<1> HIDE DEF o1
<1>2. Going(o, c) /\ Housed(o) /\ Reports(o, c) /\ Undecided(c)
  BY DEF Round, Running
<1>3. Going(o1, c)
  BY <1>1, <1>2, GoingStays
<1>4. Housed(o1)
  BY <1>1, <1>2 DEF Housed, SameRound
<1>5. \A k \in DOMAIN c : k \in DOMAIN o /\ (c[k].objId2 # 0 => c[k].objId2 \in DOMAIN o)
  BY <1>2 DEF Going, Matches, Valid
<1>6. Reports(o1, c)
  BY <1>1, <1>2, <1>5 DEF Reports
<1> QED
  BY <1>1, <1>2, <1>3, <1>4, <1>6 DEF Round, Running, o1

\* The match a report is about is that of its sender, and both have their house.
LEMMA ReportedMatch ==
  ASSUME NEW o, NEW c, ObjsType(o), ChallsType(c), Going(o, c),
         NEW t \in DOMAIN o, o[t].competitor \in DOMAIN o,
         NEW k \in {t, o[t].competitor}, k \in DOMAIN c
  PROVE  {k, c[k].objId2} = {t, o[t].competitor} /\ c[k].objId2 # 0
<1>1. Matches(o, c) /\ Facing(o, c)
  BY DEF Going
<1>2. o[t].competitor # 0 /\ t # 0
  BY ObjIs, NoTeamZero
<1>3. CASE k = t
  BY <1>1, <1>2, <1>3 DEF Matches
<1>4. CASE k = o[t].competitor
  <2>1. PICK j \in DOMAIN c : t \in {j, c[j].objId2}
    BY <1>1, <1>2 DEF Facing, InMatch
  <2>2. t # j
    BY <1>1, <1>2, <1>4, <2>1 DEF Matches
  <2>3. c[j].objId2 = t /\ o[t].competitor = j
    BY <1>1, <1>2, <2>1, <2>2 DEF Matches
  <2> QED
    BY <1>2, <1>4, <2>3
<1> QED
  BY <1>3, <1>4

\* A report leaves the round as it is, but for the result.
LEMMA ReportKeeps ==
  ASSUME NEW o, NEW c, ChallsType(c), Going(o, c), NEW k \in DOMAIN c,
         NEW m \in Challenge, m.objId1 = c[k].objId1, m.objId2 = c[k].objId2
  PROVE  LET c1 == [c EXCEPT ![k] = m]
         IN /\ ChallsType(c1) /\ Going(o, c1) /\ SameRound(o, c, o, c1)
            /\ (/\ Reports(o, c) /\ c[k].objId2 # 0
                /\ o[k].house /\ o[c[k].objId2].house) => Reports(o, c1)
<1> DEFINE c1 == [c EXCEPT ![k] = m]
<1>1. DOMAIN c1 = DOMAIN c /\ \A j \in DOMAIN c : c1[j] = IF j = k THEN m ELSE c[j]
  OBVIOUS
<1>2. c1 = [j \in DOMAIN c |-> c1[j]] /\ \A j \in DOMAIN c : c1[j] \in Challenge
  BY ChallIs
<1> HIDE DEF c1
<1>3. ChallsType(c1)
  BY <1>1, <1>2 DEF ChallsType
<1>4. \A j \in DOMAIN c : c1[j].objId1 = c[j].objId1 /\ c1[j].objId2 = c[j].objId2
  BY <1>1
<1>5. SameRound(o, c, o, c1)
  BY <1>1, <1>4 DEF SameRound
<1>6. Going(o, c1)
  BY <1>5, GoingStays
<1>7. ASSUME Reports(o, c), c[k].objId2 # 0, o[k].house, o[c[k].objId2].house
      PROVE  Reports(o, c1)
  BY <1>1, <1>4, <1>7 DEF Reports
<1> QED
  BY <1>3, <1>5, <1>6, <1>7 DEF c1

\* The match of a report, and what fightResult makes of it before contrl runs.
LEMMA ReportIs ==
  ASSUME ObjsType(objs), ChallsType(challs), Going(objs, challs),
         NEW t \in Teams, NEW result \in Result, FightResult(t, result),
         NEW k, k = MatchKey(t, objs[t].competitor),
         NEW m, m = IF k = t THEN [challs[k] EXCEPT !.result1 = result]
                             ELSE [challs[k] EXCEPT !.result2 = result]
  PROVE  /\ k \in DOMAIN challs /\ m \in Challenge
         /\ m.objId1 = challs[k].objId1 /\ m.objId2 = challs[k].objId2
         /\ challs[k].objId2 # 0 /\ objs[k].house /\ objs[challs[k].objId2].house
         /\ RuleContrl(objs, [challs EXCEPT ![k] = m])
<1> DEFINE o == objs
           c == challs
           other == o[t].competitor
<1>1. /\ t \in DOMAIN o /\ o[t].house /\ other \in DOMAIN o /\ o[other].house
      /\ k \in DOMAIN c
  BY DEF FightResult
<1>2. RuleContrl(o, [c EXCEPT ![k] = m])
  BY DEF FightResult
<1>3. k \in {t, other}
  BY DEF MatchKey
<1>4. {k, c[k].objId2} = {t, other} /\ c[k].objId2 # 0
  BY <1>1, <1>3, ReportedMatch
<1>5. o[k].house /\ o[c[k].objId2].house
  BY <1>1, <1>4
<1>6. m \in Challenge /\ m.objId1 = c[k].objId1 /\ m.objId2 = c[k].objId2
  <2>1. c[k] \in Challenge
    BY <1>1, ChallIs
  <2> QED
    BY <2>1 DEF Challenge, Result
<1> QED
  BY <1>1, <1>2, <1>4, <1>5, <1>6

LEMMA ResultKeeps ==
  ASSUME ObjsType(objs), ChallsType(challs), Round(objs, challs),
         promoted \in Seq(SUBSET Teams),
         NEW t \in Teams, NEW result \in Result, FightResult(t, result)
  PROVE  /\ Ruled(objs, objs', challs', promoted') /\ fault' = fault
         /\ Round(objs', challs')
<1> DEFINE o == objs
           c == challs
           k == MatchKey(t, o[t].competitor)
           m == IF k = t THEN [c[k] EXCEPT !.result1 = result]
                         ELSE [c[k] EXCEPT !.result2 = result]
           c1 == [c EXCEPT ![k] = m]
<1>1. Going(o, c) /\ Housed(o) /\ Reports(o, c)
  BY DEF Round, Running
<1>2. /\ k \in DOMAIN c /\ m \in Challenge
      /\ m.objId1 = c[k].objId1 /\ m.objId2 = c[k].objId2
      /\ c[k].objId2 # 0 /\ o[k].house /\ o[c[k].objId2].house
      /\ RuleContrl(o, c1)
  BY <1>1, ReportIs
<1> HIDE DEF k, m
<1>3. ChallsType(c1) /\ Going(o, c1) /\ Reports(o, c1)
  BY <1>1, <1>2, ReportKeeps
<1>4. DOMAIN c1 # {}
  BY <1>2
<1> HIDE DEF c1
<1> QED
  BY <1>1, <1>2, <1>3, <1>4, RuleKeeps

-----------------------------------------------------------------------------
(***************************************************************************)
(* The invariant is inductive.                                             *)
(***************************************************************************)

\* A step to a fight that runs, or is over and quiet, is a step to what IInv says.
LEMMA StepToRound ==
  ASSUME ObjsType(objs'), ChallsType(challs'), status' \in {"fight", "stop"},
         reached' \subseteq Moments, promoted' \in Seq(SUBSET Teams), fault' = FALSE,
         Round(objs', challs'), DOMAIN challs' = {} => Played(objs'),
         status' = "stop" => DOMAIN challs' = {}
  PROVE  IInv'
<1>1. TypeOK'
  BY DEF TypeOK, ObjsType, ChallsType
<1>2. ASSUME DOMAIN challs' = {} PROVE Quiet(objs', challs')
  BY <1>2 DEF Quiet, Round, Running, Going, Facing, Housed, InMatch
<1>3. /\ status' = "fight" => Round(objs', challs') /\ (DOMAIN challs' = {} => Played(objs'))
      /\ status' = "stop" => Quiet(objs', challs')
      /\ status' \notin {"set", "apply"}
  BY <1>2
<1> QED
  BY <1>1, <1>3 DEF IInv, Round, Running, Going, Matches, Facing, Housed, Reports, Undecided,
     Level, Spread, Halving, Played, Quiet

LEMMA UnseededIs ==
  ASSUME NEW o, NEW c, Unseeded(o, c)
  PROVE  Entered(o, c) /\ \A t \in DOMAIN o : ~o[t].house
  BY DEF Unseeded, Entered, FreshObj

LEMMA InitIInv == Init => IInv
<1> SUFFICES ASSUME Init PROVE IInv
  OBVIOUS
<1>1. PICK S \in SUBSET Teams : objs = [t \in S |-> FreshObj]
  BY DEF Init
<1>2. FreshObj \in Obj
  BY DEF FreshObj, Obj, Result
<1>3. TypeOK
  <2>1. DOMAIN objs \subseteq Teams /\ objs \in [DOMAIN objs -> Obj]
    BY <1>1, <1>2
  <2>2. DOMAIN NoMatch = {} /\ NoMatch \in [{} -> Challenge]
    BY DEF NoMatch
  <2>3. <<>> \in Seq(SUBSET Teams)
    OBVIOUS
  <2> QED
    BY <2>1, <2>2, <2>3 DEF Init, TypeOK
<1>4. Unseeded(objs, challs)
  BY <1>1 DEF Init, Unseeded, NoMatch
<1> QED
  BY <1>3, <1>4 DEF Init, IInv

\* What IInv says of a fight that has not begun, and of one that has.
LEMMA IInvTypes ==
  ASSUME IInv
  PROVE  /\ ObjsType(objs) /\ ChallsType(challs) /\ promoted \in Seq(SUBSET Teams)
         /\ status \in {"set", "apply", "fight", "stop"} /\ reached \subseteq Moments
         /\ fault = FALSE
  BY DEF IInv, TypeOK, ObjsType, ChallsType

LEMMA IdleFight ==
  ASSUME IInv, status # "fight"
  PROVE  DOMAIN challs = {} /\ \A t \in DOMAIN objs : objs[t].competitor = 0
<1>1. CASE status = "stop"
  BY <1>1 DEF IInv, Quiet
<1>2. CASE status \in {"set", "apply"}
  BY <1>2 DEF IInv, Unseeded, FreshObj
<1> QED
  BY <1>1, <1>2, IInvTypes

LEMMA NextIInv == IInv /\ [Next]_vars => IInv'
<1> SUFFICES ASSUME IInv, [Next]_vars PROVE IInv'
  OBVIOUS
<1>1. /\ ObjsType(objs) /\ ChallsType(challs) /\ promoted \in Seq(SUBSET Teams)
      /\ status \in {"set", "apply", "fight", "stop"} /\ reached \subseteq Moments
      /\ fault = FALSE
  BY IInvTypes
<1>2. ASSUME status = "fight"
      PROVE  Round(objs, challs) /\ (DOMAIN challs = {} => Played(objs))
  BY <1>2 DEF IInv
<1>3. ASSUME NEW m \in Moments, Reach(m) PROVE IInv'
  BY <1>1, <1>3 DEF Reach, IInv, TypeOK, Unseeded, Round, Running, Going, Matches, Facing,
     Housed, Reports, Undecided, Level, Spread, Halving, Played, Quiet
<1>4. CASE ContrlFight
  <2>1. status = "fight" /\ RuleContrl(objs, challs) /\ reached' = reached
    BY <1>4 DEF ContrlFight
  <2>2. Ruled(objs, objs', challs', promoted') /\ fault' = fault /\ Round(objs', challs')
    BY <1>1, <1>2, <2>1, RuleKeeps DEF Round, Running
  <2>3. /\ status' \in {"fight", "stop"}
        /\ status' = "stop" => DOMAIN challs' = {}
    BY <1>4, <2>1 DEF ContrlFight
  <2> QED
    BY <1>1, <2>1, <2>2, <2>3, StepToRound DEF Ruled
<1>5. CASE ContrlStart
  <2>1. /\ status \in {"set", "apply"} /\ InitPosition
        /\ UNCHANGED <<reached, promoted, fault>>
        /\ status' \in {"fight", "stop"}
        /\ status' = "stop" => DOMAIN challs' = {}
    BY <1>5 DEF ContrlStart, Applies
  <2>2. Unseeded(objs, challs)
    BY <2>1 DEF IInv
  <2>3. Entered(objs, challs) /\ \A t \in DOMAIN objs : ~objs[t].house
    BY <2>2, UnseededIs
  <2> QED
    BY <1>1, <2>1, <2>3, FirstRound, StepToRound
<1>6. CASE ContrlWait
  <2>1. /\ status # "fight" /\ UNCHANGED <<reached, objs, challs, promoted, fault>>
        /\ status' \in {"set", "apply", "stop"}
        /\ \/ status' = "stop" \/ status' = status
           \/ (status \in {"set", "apply"} /\ status' = "apply")
    BY <1>1, <1>6 DEF ContrlWait, Applies
  <2>2. CASE status = "stop"
    <3>1. status' = "stop"
      BY <1>6, <2>1, <2>2 DEF ContrlWait, Applies
    <3> QED
      BY <2>1, <2>2, <3>1 DEF IInv, TypeOK, Quiet
  <2>3. CASE status \in {"set", "apply"}
    <3>1. Unseeded(objs, challs)
      BY <2>3 DEF IInv
    <3>2. Quiet(objs, challs)
      BY <3>1 DEF Unseeded, Quiet, FreshObj
    <3>3. TypeOK' /\ ~fault'
      BY <1>1, <2>1 DEF TypeOK, IInv
    <3>4. Unseeded(objs', challs') /\ Quiet(objs', challs')
      BY <2>1, <3>1, <3>2
    <3> QED
      BY <2>1, <3>3, <3>4 DEF IInv, Unseeded, Quiet
  <2> QED
    BY <1>1, <2>1, <2>2, <2>3
<1>7. ASSUME NEW t \in Teams, CreateHouse(t) PROVE IInv'
  <2>1. t \in DOMAIN objs /\ objs[t].competitor \in DOMAIN objs
        /\ UNCHANGED <<status, reached, challs, promoted, fault>>
    BY <1>7 DEF CreateHouse
  <2>2. objs[t].competitor # 0
    BY <1>1, <2>1, ObjIs, NoTeamZero
  <2>3. status = "fight"
    BY <2>1, <2>2, IdleFight
  <2>4. /\ ObjsType(objs') /\ DOMAIN objs' = DOMAIN objs /\ Valid(objs') = Valid(objs)
        /\ Round(objs', challs)
    BY <1>1, <1>2, <1>7, <2>3, HouseKeeps
  <2>5. Round(objs', challs') /\ ChallsType(challs') /\ (DOMAIN challs' = {} => Played(objs'))
    BY <1>1, <1>2, <2>1, <2>3, <2>4 DEF Played
  <2> QED
    BY <1>1, <2>1, <2>3, <2>4, <2>5, StepToRound
<1>8. ASSUME NEW t \in Teams, NEW result \in Result, FightResult(t, result) PROVE IInv'
  <2>1. DOMAIN challs # {} /\ UNCHANGED <<status, reached>>
    BY <1>8 DEF FightResult
  <2>2. status = "fight"
    BY <2>1, IdleFight
  <2>3. Ruled(objs, objs', challs', promoted') /\ fault' = fault /\ Round(objs', challs')
    BY <1>1, <1>2, <1>8, <2>2, ResultKeeps
  <2> QED
    BY <1>1, <2>1, <2>2, <2>3, StepToRound DEF Ruled
<1>9. CASE UNCHANGED vars
  BY <1>9 DEF vars, IInv, TypeOK, Unseeded, Round, Running, Going, Matches, Facing, Housed,
     Reports, Undecided, Level, Spread, Halving, Played, Quiet
<1> QED
  BY <1>3, <1>4, <1>5, <1>6, <1>7, <1>8, <1>9 DEF Next, Contrl

\* Whatever the size of the field and the order of the reports, a running fight is
\* in a sound round: initPosition lays one out, contrl, ChallengerMem and
\* fightResult keep it one, createChallData makes the next out of it.
THEOREM RoundsAreSound == Spec => []IInv
  BY InitIInv, NextIInv, PTL DEF Spec

-----------------------------------------------------------------------------
(***************************************************************************)
(* What follows.                                                           *)
(***************************************************************************)

\* The matches of a round are sound.
LEMMA GoingSound ==
  ASSUME Going(objs, challs)
  PROVE  MatchSound
<1>1. CASE DOMAIN challs = {}
  BY <1>1 DEF MatchSound
<1>2. CASE DOMAIN challs # {}
  <2>1. Matches(objs, challs) /\ Level(objs, challs)
    BY <1>2 DEF Going
  <2>2. PICK v \in Nat :
          \A t \in Valid(objs) : objs[t].value = IF InMatch(challs, t) THEN v ELSE v + 1
    BY <2>1 DEF Level
  <2>3. ASSUME NEW k \in DOMAIN challs
        PROVE  /\ challs[k].objId1 = k /\ k \in Valid(objs)
               /\ objs[k].competitor = challs[k].objId2
               /\ challs[k].objId2 # 0 =>
                    /\ challs[k].objId2 \in Valid(objs) \ {k}
                    /\ objs[challs[k].objId2].competitor = k
                    /\ objs[challs[k].objId2].value = objs[k].value
    <3>1. /\ challs[k].objId1 = k /\ k \in Valid(objs)
          /\ objs[k].competitor = challs[k].objId2
          /\ challs[k].objId2 # 0 => /\ challs[k].objId2 \in Valid(objs) \ DOMAIN challs
                                     /\ objs[challs[k].objId2].competitor = k
      BY <2>1 DEF Matches
    <3>2. InMatch(challs, k) /\ InMatch(challs, challs[k].objId2)
      BY DEF InMatch
    <3> QED
      BY <2>2, <3>1, <3>2
  <2> QED
    BY <2>3 DEF MatchSound
<1> QED
  BY <1>1, <1>2

LEMMA IInvSound == IInv => SingleFailInv
<1> SUFFICES ASSUME IInv PROVE SingleFailInv
  OBVIOUS
<1>1. TypeOK /\ NoFault
  BY DEF IInv, NoFault
<1>2. CASE DOMAIN challs = {}
  BY <1>1, <1>2 DEF SingleFailInv, MatchSound
<1>3. CASE DOMAIN challs # {}
  <2>1. Round(objs, challs)
    BY <1>3, IdleFight DEF IInv
  <2>2. MatchSound
    BY <2>1, GoingSound DEF Round, Running
  <2> QED
    BY <1>1, <2>2 DEF SingleFailInv
<1> QED
  BY <1>2, <1>3

\* The teams of every match of the round name each other, are still in the
\* fight and have won equally often; contrl never spins and createChallData
\* never pairs an odd number of teams (fight_rule_single_fail.cpp).
THEOREM MatchesAreSound == Spec => []SingleFailInv
  BY RoundsAreSound, IInvSound, PTL

LEMMA IInvHouses == IInv => HousesOfThisRound
<1> SUFFICES ASSUME IInv PROVE HousesOfThisRound
  OBVIOUS
<1>1. CASE status # "fight"
  <2>1. DOMAIN challs = {}
    BY <1>1, IdleFight
  <2>2. \A t \in DOMAIN objs : ~objs[t].house
    <3>1. CASE status = "stop"
      BY <3>1 DEF IInv, Quiet
    <3>2. CASE status \in {"set", "apply"}
      BY <3>2 DEF IInv, Unseeded, FreshObj
    <3> QED
      BY <1>1, <3>1, <3>2, IInvTypes
  <2> QED
    BY <2>1, <2>2 DEF HousesOfThisRound
<1>2. CASE status = "fight"
  <2>1. Round(objs, challs) /\ ChallsType(challs)
    BY <1>2, IInvTypes DEF IInv
  <2>2. /\ Matches(objs, challs) /\ Facing(objs, challs) /\ Housed(objs)
        /\ Reports(objs, challs) /\ Undecided(challs)
    BY <2>1 DEF Round, Running, Going
  <2>3. ASSUME NEW t \in DOMAIN objs, objs[t].house
        PROVE  \E k \in DOMAIN challs : t \in {challs[k].objId1, challs[k].objId2}
    <3>1. PICK k \in DOMAIN challs : t \in {k, challs[k].objId2}
      BY <2>2, <2>3 DEF Facing, Housed, InMatch
    <3> QED
      BY <2>2, <3>1 DEF Matches
  <2>4. ASSUME NEW k \in DOMAIN challs, challs[k].result1 # 0 \/ challs[k].result2 # 0
        PROVE  /\ \/ challs[k].result1 = challs[k].result2
                  \/ challs[k].result1 = 0 \/ challs[k].result2 = 0
               /\ objs[challs[k].objId1].house /\ objs[challs[k].objId2].house
    <3>1. challs[k].result1 \in {0, 1, 2} /\ challs[k].result2 \in {0, 1, 2}
      BY <2>1, ChallIs
    <3>2. <<challs[k].result1, challs[k].result2>> \notin {<<1, 2>>, <<2, 1>>}
      BY <2>2 DEF Undecided
    <3>3. objs[k].house /\ objs[challs[k].objId2].house /\ challs[k].objId1 = k
      BY <2>2, <2>4 DEF Reports, Matches
    <3> QED
      BY <3>1, <3>2, <3>3
  <2> QED
    BY <2>3, <2>4 DEF HousesOfThisRound
<1> QED
  BY <1>1, <1>2

\* A house is of a match of this round and a report of a match with two houses;
\* an agreed result never waits (ChallengerMem, fightResult, contrl).
THEOREM HousesEndWithTheirMatch == Spec => []HousesOfThisRound
  BY RoundsAreSound, IInvHouses, PTL

LEMMA StopIsPlayed ==
  ASSUME IInv, [Next]_vars, status = "fight", status' = "stop"
  PROVE  Cardinality(Valid(objs')) = IF DOMAIN objs = {} THEN 0 ELSE 1
<1>1. ContrlFight
  BY DEF Next, Contrl, Reach, ContrlStart, ContrlWait, Applies, CreateHouse, FightResult, vars
<1>2. RuleContrl(objs, challs) /\ DOMAIN challs' = {}
  BY <1>1 DEF ContrlFight
<1>3. Round(objs, challs) /\ (DOMAIN challs = {} => Played(objs))
  BY DEF IInv
<1>4. Ruled(objs, objs', challs', promoted')
  BY <1>2, <1>3, IInvTypes, RuleKeeps DEF Round, Running
<1> QED
  BY <1>2, <1>4 DEF Ruled, Played

\* A fight that runs stops with one team left, or with no team at all, however
\* long its stop time has passed (Fight::contrl).
THEOREM StopsWhenPlayedOut == Spec => StopsPlayedOut
<1>1. IInv /\ [Next]_vars =>
        [(status = "fight" /\ status' = "stop") =>
           Cardinality(Valid(objs')) = IF DOMAIN objs = {} THEN 0 ELSE 1]_vars
  BY StopIsPlayed
<1> QED
  BY <1>1, RoundsAreSound, PTL DEF Spec, StopsPlayedOut

-----------------------------------------------------------------------------
(***************************************************************************)
(* The bracket as a whole: sizes of its parts.                             *)
(***************************************************************************)

\* Each round doubles the part of the bracket a team comes from.
LEMMA BlockSizes ==
  /\ BlockSize(0) = 1 /\ BlockSize(1) = 2
  /\ \A v \in Nat : /\ BlockSize(v) \in Nat \ {0}
                    /\ BlockSize(v + 1) = 2 * BlockSize(v)
<1>1. BlockSize(0) = 1 /\ BlockSize(1) = 2
  BY DoubledIs DEF BlockSize
<1>2. ASSUME NEW v \in Nat
      PROVE  BlockSize(v) \in Nat \ {0} /\ BlockSize(v + 1) = 2 * BlockSize(v)
  <2>1. BlockSize(v + 1) = Doubled[v]
    BY DEF BlockSize
  <2>2. CASE v = 0
    BY <1>1, <2>2
  <2>3. CASE v # 0
    <3>1. v - 1 \in Nat /\ (v - 1) + 1 = v /\ BlockSize(v) = Doubled[v - 1]
      BY <2>3 DEF BlockSize
    <3>2. Doubled[v - 1] \in Nat /\ (v - 1) + 2 <= Doubled[v - 1]
      BY <3>1, DoubledFacts
    <3>3. Doubled[v] = 2 * Doubled[v - 1]
      BY <3>1, DoubledIs
    <3> QED
      BY <2>1, <3>1, <3>2, <3>3
  <2> QED
    BY <2>2, <2>3
<1> QED
  BY <1>1, <1>2

LEMMA BlockSizeGrows ==
  ASSUME NEW i \in Nat, NEW j \in Nat, i < j
  PROVE  2 * BlockSize(i) <= BlockSize(j)
<1> DEFINE S == {k \in Nat : i < k /\ ~(2 * BlockSize(i) <= BlockSize(k))}
<1> SUFFICES ASSUME S # {} PROVE FALSE
  OBVIOUS
<1>1. PICK k \in S : \A m \in S : k <= m
  <2>1. S \in SUBSET Nat
    OBVIOUS
  <2> HIDE DEF S
  <2> QED
    BY <2>1, LeastNumber
<1>2. k \in Nat /\ i < k /\ ~(2 * BlockSize(i) <= BlockSize(k))
  OBVIOUS
<1>3. k - 1 \in Nat /\ (k - 1) + 1 = k /\ k - 1 \notin S
  BY <1>1, <1>2
<1>4. k - 1 = i \/ 2 * BlockSize(i) <= BlockSize(k - 1)
  BY <1>2, <1>3
<1>5. /\ BlockSize(k - 1) \in Nat /\ BlockSize(k) = 2 * BlockSize(k - 1)
      /\ BlockSize(i) \in Nat
  BY <1>3, BlockSizes
<1> QED
  BY <1>2, <1>4, <1>5

\* Taking the quotient twice.
LEMMA HalfQuotient ==
  ASSUME NEW x \in Nat, NEW p \in Nat \ {0}
  PROVE  /\ x \div p \in Nat
         /\ x \div (2 * p) = (x \div p) \div 2
<1> DEFINE q == x \div p
           h == q \div 2
<1>1. q \in Nat /\ q * p <= x /\ x < (q + 1) * p
  OBVIOUS
<1>2. h \in Nat /\ 2 * h <= q /\ q <= 2 * h + 1
  <2> HIDE DEF q
  <2> QED
    BY <1>1
<1> HIDE DEF q, h
<1>3. (2 * h) * p <= q * p /\ (q + 1) * p <= (2 * h + 2) * p
  BY <1>1, <1>2
<1>4. h * (2 * p) <= x /\ x < (h + 1) * (2 * p)
  BY <1>1, <1>2, <1>3
<1>5. x \div (2 * p) = h
  BY <1>2, <1>4
<1> QED
  BY <1>1, <1>5 DEF q, h

\* The quotients of numbers below n * p are those below n, and they keep the order.
LEMMA Quotients ==
  ASSUME NEW n \in Nat, NEW p \in Nat \ {0}
  PROVE  /\ \A x \in Nat : x < n * p => x \div p \in 0..(n - 1)
         /\ \A x, y \in Nat : x \div p < y \div p => x < y
         /\ \A x, y \in Nat : x < y => x \div p <= y \div p
         /\ \A b \in Nat : (b * p) \div p = b
<1>1. ASSUME NEW x \in Nat, NEW y \in Nat, x < y * p PROVE x \div p < y
  <2> DEFINE q == x \div p
  <2>1. q \in Nat /\ q * p <= x
    OBVIOUS
  <2> HIDE DEF q
  <2>2. ~(y <= q)
    <3> SUFFICES ASSUME y <= q PROVE FALSE
      OBVIOUS
    <3>1. y * p <= q * p
      BY <2>1
    <3> QED
      BY <1>1, <2>1, <3>1
  <2> QED
    BY <2>1, <2>2 DEF q
<1>2. \A x \in Nat : x < n * p => x \div p \in 0..(n - 1)
  <2> SUFFICES ASSUME NEW x \in Nat, x < n * p PROVE x \div p \in 0..(n - 1)
    OBVIOUS
  <2>1. x \div p \in Nat /\ x \div p < n
    BY <1>1
  <2> QED
    BY <2>1
<1>3. ASSUME NEW x \in Nat, NEW y \in Nat, x \div p < y \div p PROVE x < y
  <2> DEFINE q == y \div p
  <2>1. q \in Nat /\ q * p <= y
    OBVIOUS
  <2>2. x \div p < q
    BY <1>3
  <2> HIDE DEF q
  <2>3. x < (x \div p + 1) * p /\ x \div p \in Nat
    OBVIOUS
  <2> DEFINE r == x \div p
  <2>4. r \in Nat /\ r + 1 <= q /\ x < (r + 1) * p
    BY <2>1, <2>2, <2>3
  <2> HIDE DEF r
  <2>5. (r + 1) * p <= q * p
    BY <2>1, <2>4
  <2> QED
    BY <2>1, <2>4, <2>5
<1>4. \A x, y \in Nat : x < y => x \div p <= y \div p
  <2> SUFFICES ASSUME NEW x \in Nat, NEW y \in Nat, x < y, ~(x \div p <= y \div p) PROVE FALSE
    OBVIOUS
  <2>1. x \div p \in Nat /\ y \div p \in Nat
    OBVIOUS
  <2>2. y \div p < x \div p
    BY <2>1
  <2> QED
    BY <1>3, <2>2
<1>5. \A b \in Nat : (b * p) \div p = b
  <2> SUFFICES ASSUME NEW b \in Nat PROVE (b * p) \div p = b
    OBVIOUS
  <2>1. b * p <= b * p /\ b * p < (b + 1) * p /\ b * p \in Nat
    OBVIOUS
  <2> QED
    BY <2>1
<1> QED
  BY <1>2, <1>3, <1>4, <1>5

-----------------------------------------------------------------------------
(***************************************************************************)
(* The bracket as a whole: the tree, in a round of teams that have won v   *)
(* times.                                                                  *)
(***************************************************************************)

Size(o) == PositionVal(Cardinality(DOMAIN o))

\* Whoever plays has won v times, whoever is through once more, the others no more.
Wins(o, c, v) ==
  /\ \A t \in Valid(o) : o[t].value = IF InMatch(c, t) THEN v ELSE v + 1
  /\ \A t \in DOMAIN o : t \notin Valid(o) => o[t].value <= v

\* t comes from the part of the bracket that u has won.
From(o, t, u) == Block(o, t, o[u].value) = Block(o, u, o[u].value)

\* Of every entrant's part one team is left.
Parts(o) ==
  \A t \in DOMAIN o : \E u \in Valid(o) :
    From(o, t, u) /\ \A w \in Valid(o) : From(o, t, w) => w = u

\* A match joins the two halves of a part; the half opposite a bye is empty.
Halves(o, c, v) ==
  \A k \in DOMAIN c :
    LET m == c[k].objId2
    IN /\ m # 0 => Block(o, m, v + 1) = Block(o, k, v + 1)
       /\ \A t \in DOMAIN o : Block(o, t, v + 1) = Block(o, k, v + 1) =>
            \/ Block(o, t, v) = Block(o, k, v)
            \/ m # 0 /\ Block(o, t, v) = Block(o, m, v)

\* The even places, where the better seeds are, have no gaps.
Seeded(o) ==
  /\ \A t \in DOMAIN o : o[t].position < Size(o)
  /\ \A p \in Nat : p < Size(o) /\ p % 2 = 0 => \E t \in DOMAIN o : o[t].position = p

Winners(o, w) == {t \in DOMAIN o : o[t].value >= w}

\* The places of the next round fill the bracket, and so did those of each before.
Counts(o, c, v) ==
  /\ Cardinality(Seats(o, c)) * BlockSize(v + 1) = Size(o)
  /\ \A w \in 1..v : Cardinality(Winners(o, w)) * BlockSize(w) = Size(o)

\* The matches of the first round are kept under the smaller id.
Keyed(c, v) == v = 0 => \A k \in DOMAIN c : c[k].objId2 # 0 => k < c[k].objId2

Tree(o, c, v) ==
  Wins(o, c, v) /\ Parts(o) /\ Halves(o, c, v) /\ Seeded(o) /\ Counts(o, c, v) /\ Keyed(c, v)

LEMMA BlockIs ==
  ASSUME NEW o, ObjsType(o), NEW t \in DOMAIN o, NEW v \in Nat
  PROVE  /\ Block(o, t, v) \in Nat
         /\ Block(o, t, v + 1) = Block(o, t, v) \div 2
<1> DEFINE x == o[t].position
           p == BlockSize(v)
<1>1. x \in Nat
  BY ObjIs
<1>2. p \in Nat \ {0} /\ BlockSize(v + 1) = 2 * p
  BY BlockSizes
<1> HIDE DEF x, p
<1>3. x \div p \in Nat /\ x \div (2 * p) = (x \div p) \div 2
  BY <1>1, <1>2, HalfQuotient
<1> QED
  BY <1>2, <1>3 DEF Block, x, p

\* The tree is made of places, wins and who is left; houses, scores and reports are
\* no part of it.
SameTree(o, c, o1, c1) ==
  /\ DOMAIN o1 = DOMAIN o /\ DOMAIN c1 = DOMAIN c
  /\ \A t \in DOMAIN o : /\ o1[t].status = o[t].status /\ o1[t].value = o[t].value
                         /\ o1[t].position = o[t].position
  /\ \A k \in DOMAIN c : c1[k].objId2 = c[k].objId2

LEMMA TreeStays ==
  ASSUME NEW o, NEW c, NEW o1, NEW c1, NEW v \in Nat, SameTree(o, c, o1, c1), Tree(o, c, v),
         \A k \in DOMAIN c : c[k].objId2 # 0 => c[k].objId2 \in DOMAIN o,
         DOMAIN c \subseteq DOMAIN o
  PROVE  Tree(o1, c1, v)
<1>1. Valid(o1) = Valid(o) /\ \A t \in Valid(o) : t \in DOMAIN o
  BY DEF SameTree, Valid
<1>2. \A t : InMatch(c1, t) <=> InMatch(c, t)
  BY DEF SameTree, InMatch
<1>3. \A w : \A t \in DOMAIN o : Block(o1, t, w) = Block(o, t, w)
  BY DEF SameTree, Block
<1>4. Wins(o1, c1, v)
  BY <1>1, <1>2 DEF Tree, Wins, SameTree
<1>5. \A t \in DOMAIN o, u \in Valid(o) : From(o1, t, u) <=> From(o, t, u)
  BY <1>1, <1>3 DEF From, SameTree
<1>6. Parts(o1)
  BY <1>1, <1>5 DEF Tree, Parts, SameTree
<1>7. Halves(o1, c1, v)
  BY <1>3 DEF Tree, Halves, SameTree
<1>8. Size(o1) = Size(o)
  BY DEF SameTree, Size
<1>9. Seeded(o1)
  BY <1>8 DEF Tree, Seeded, SameTree
<1>10. Seats(o1, c1) = Seats(o, c)
  BY <1>1, <1>2 DEF Seats, Idle, SameTree
<1>11. \A w : Winners(o1, w) = Winners(o, w)
  BY DEF SameTree, Winners
<1>12. Counts(o1, c1, v)
  BY <1>8, <1>10, <1>11 DEF Tree, Counts
<1>13. Keyed(c1, v)
  BY DEF Tree, Keyed, SameTree
<1> QED
  BY <1>4, <1>6, <1>7, <1>9, <1>12, <1>13 DEF Tree

-----------------------------------------------------------------------------
(***************************************************************************)
(* The bracket as a whole: the loop of contrl.                             *)
(***************************************************************************)

\* Who is in the part that w wins comes from w's part or a beaten team's.
LEMMA Won ==
  ASSUME NEW o, NEW c, NEW D, ObjsType(o), ChallsType(c), Matches(o, c),
         NEW v \in Nat, Tree(o, c, v),
         NEW w \in DOMAIN o, Through(o, c, D, w),
         NEW t \in DOMAIN o, Block(o, t, v + 1) = Block(o, w, v + 1)
  PROVE  \E u \in Valid(o) : From(o, t, u) /\ (u = w \/ Beaten(o, c, D, u))
<1>1. PICK k \in DOMAIN c :
        \/ c[k].objId2 = 0 /\ w = k
        \/ /\ c[k].objId2 # 0 /\ w \in {k, c[k].objId2}
           /\ \A u \in {k, c[k].objId2} : u = w \/ Beaten(o, c, D, u)
  <2>1. CASE \E k \in ByesIn(o, c, D) : k = w
    BY <2>1, LoopIn
  <2>2. CASE \E k \in EndedIn(o, c, D) : Winner(c, k) = w
    <3>1. PICK k \in EndedIn(o, c, D) : Winner(c, k) = w
      BY <2>2
    <3>2. k \in DecidedIn(o, c, D)
      BY <3>1, LoopIn
    <3>3. k \in DOMAIN c /\ c[k].objId2 # 0 /\ {Winner(c, k), Loser(c, k)} = {k, c[k].objId2}
      BY <3>2, WinnerIn
    <3>4. Beaten(o, c, D, Loser(c, k))
      BY DEF Beaten
    <3> QED
      BY <3>1, <3>3, <3>4
  <2> QED
    BY <2>1, <2>2 DEF Through
<1> DEFINE m == c[k].objId2
<1>2. k \in Valid(o) /\ (m # 0 => m \in Valid(o))
  BY DEF Matches
<1>3. InMatch(c, k) /\ (m # 0 => InMatch(c, m))
  BY DEF InMatch
<1>4. o[k].value = v /\ (m # 0 => o[m].value = v)
  BY <1>2, <1>3 DEF Tree, Wins
<1>5. /\ m # 0 => Block(o, m, v + 1) = Block(o, k, v + 1)
      /\ Block(o, t, v + 1) = Block(o, k, v + 1) =>
            \/ Block(o, t, v) = Block(o, k, v)
            \/ m # 0 /\ Block(o, t, v) = Block(o, m, v)
  BY DEF Tree, Halves
<1>6. Block(o, t, v + 1) = Block(o, k, v + 1)
  BY <1>1, <1>5
<1>7. From(o, t, k) \/ (m # 0 /\ From(o, t, m))
  BY <1>4, <1>5, <1>6 DEF From
<1> QED
  BY <1>1, <1>2, <1>7

\* The winner of the match that t lost.
LEMMA LostTo ==
  ASSUME NEW o, NEW c, NEW D, ObjsType(o), ChallsType(c), Matches(o, c),
         NEW v \in Nat, Tree(o, c, v),
         NEW t \in DOMAIN o, Beaten(o, c, D, t)
  PROVE  \E w \in Valid(o) : Through(o, c, D, w) /\ Block(o, w, v + 1) = Block(o, t, v + 1)
<1>1. PICK k \in EndedIn(o, c, D) : Loser(c, k) = t
  BY DEF Beaten
<1>2. k \in DecidedIn(o, c, D)
  BY <1>1, LoopIn
<1>3. /\ k \in DOMAIN c /\ c[k].objId2 # 0 /\ {Winner(c, k), Loser(c, k)} = {k, c[k].objId2}
      /\ k \in Valid(o) /\ c[k].objId2 \in Valid(o)
  BY <1>2, WinnerIn
<1>4. Block(o, c[k].objId2, v + 1) = Block(o, k, v + 1)
  BY <1>3 DEF Tree, Halves
<1>5. Through(o, c, D, Winner(c, k))
  BY DEF Through
<1> QED
  BY <1>1, <1>3, <1>4, <1>5

LEMMA SettledTree ==
  ASSUME NEW o, NEW c, NEW D, ObjsType(o), ChallsType(c), Matches(o, c),
         NEW v \in Nat, Tree(o, c, v)
  PROVE  Tree(SettledIn(o, c, D), RemainingIn(o, c, D), v)
<1> DEFINE o1 == SettledIn(o, c, D)
           c1 == RemainingIn(o, c, D)
<1>1. /\ \A t \in DOMAIN o : Fate(o, c, D, o1, c1, t) /\ Outcome(o, c, D, t, o[t], o1[t])
      /\ Left(o, c, D, c1)
      /\ Cardinality(Seats(o1, c1)) = Cardinality(Seats(o, c))
  BY Fates, SettledIs, RemainingIs, SettledSeats
<1>2. DOMAIN o1 = DOMAIN o
  BY DEF SettledIn
<1> HIDE DEF o1, c1
<1>3. /\ \A t \in Valid(o) : t \in DOMAIN o
      /\ \A t \in Valid(o1) : t \in DOMAIN o /\ t \in Valid(o) /\ ~Beaten(o, c, D, t)
  BY <1>1, <1>2 DEF Fate, Valid
<1>4. Wins(o, c, v) /\ Parts(o) /\ Halves(o, c, v) /\ Seeded(o) /\ Counts(o, c, v) /\ Keyed(c, v)
  BY DEF Tree
<1>5. \A t \in DOMAIN o : o1[t].position = o[t].position
  BY <1>1 DEF Outcome
<1>6. \A w : \A t \in DOMAIN o : Block(o1, t, w) = Block(o, t, w)
  BY <1>5 DEF Block
<1>7. \A t \in DOMAIN o : Through(o, c, D, t) =>
        t \in Valid(o) /\ t \in Valid(o1) /\ o[t].value = v /\ o1[t].value = v + 1
  <2> SUFFICES ASSUME NEW t \in DOMAIN o, Through(o, c, D, t)
               PROVE  t \in Valid(o) /\ t \in Valid(o1) /\ o[t].value = v /\ o1[t].value = v + 1
    OBVIOUS
  <2>1. InMatch(c, t) /\ t \in Valid(o) /\ ~Beaten(o, c, D, t) /\ t \in Valid(o1)
    BY <1>1 DEF Fate
  <2>2. o[t].value = v /\ o1[t].value = o[t].value + 1
    BY <1>1, <1>4, <2>1 DEF Wins, Outcome
  <2> QED
    BY <2>1, <2>2
<1>8. \A t \in DOMAIN o : ~Through(o, c, D, t) =>
        o1[t].value = o[t].value
  BY <1>1 DEF Outcome, Same
<1>9. \A t \in DOMAIN o : o[t].value \in Nat
  BY ObjIs
<1>10. Wins(o1, c1, v)
  <2>1. ASSUME NEW t \in Valid(o1)
        PROVE  o1[t].value = IF InMatch(c1, t) THEN v ELSE v + 1
    <3>1. CASE Through(o, c, D, t)
      BY <1>1, <1>3, <1>7, <3>1 DEF Fate
    <3>2. CASE ~Through(o, c, D, t)
      <4>1. o1[t].value = o[t].value /\ (InMatch(c, t) <=> InMatch(c1, t))
        BY <1>1, <1>3, <1>8, <3>2 DEF Fate
      <4> QED
        BY <1>3, <1>4, <4>1 DEF Wins
    <3> QED
      BY <3>1, <3>2
  <2>2. ASSUME NEW t \in DOMAIN o, t \notin Valid(o1)
        PROVE  o1[t].value <= v
    <3>1. ~Through(o, c, D, t) /\ o1[t].value = o[t].value
      BY <1>7, <1>8, <2>2
    <3>2. CASE t \in Valid(o)
      <4>1. InMatch(c, t)
        BY <1>1, <2>2, <3>2 DEF Fate
      <4>2. o[t].value = v
        BY <1>4, <3>2, <4>1 DEF Wins
      <4> QED
        BY <3>1, <4>2
    <3>3. CASE t \notin Valid(o)
      BY <1>4, <3>1, <3>3 DEF Wins
    <3> QED
      BY <3>2, <3>3
  <2> QED
    BY <1>2, <2>1, <2>2 DEF Wins
<1>11. Parts(o1)
  <2> SUFFICES ASSUME NEW t \in DOMAIN o
               PROVE  \E u \in Valid(o1) :
                        From(o1, t, u) /\ \A w \in Valid(o1) : From(o1, t, w) => w = u
    BY <1>2 DEF Parts
  <2>1. PICK u \in Valid(o) : From(o, t, u) /\ \A w \in Valid(o) : From(o, t, w) => w = u
    BY <1>4 DEF Parts
  \* Those who are not through keep their parts.
  <2>2. \A w \in Valid(o1) : ~Through(o, c, D, w) => (From(o1, t, w) <=> From(o, t, w))
    BY <1>3, <1>6, <1>8 DEF From
  <2>3. \A w \in Valid(o1) : Through(o, c, D, w) =>
          (From(o1, t, w) <=> Block(o, t, v + 1) = Block(o, w, v + 1))
    BY <1>3, <1>6, <1>7 DEF From
  <2>4. \A w \in Valid(o1) : Through(o, c, D, w) /\ From(o1, t, w) => u = w \/ Beaten(o, c, D, u)
    <3> SUFFICES ASSUME NEW w \in Valid(o1), Through(o, c, D, w), From(o1, t, w)
                 PROVE  u = w \/ Beaten(o, c, D, u)
      OBVIOUS
    <3>1. w \in DOMAIN o /\ Block(o, t, v + 1) = Block(o, w, v + 1)
      BY <1>3, <2>3
    <3>2. PICK x \in Valid(o) : From(o, t, x) /\ (x = w \/ Beaten(o, c, D, x))
      BY <3>1, Won
    <3> QED
      BY <2>1, <3>2
  \* No two who are through share a part.
  <2>5. ASSUME NEW w \in Valid(o1), NEW x \in Valid(o1), Through(o, c, D, w), Through(o, c, D, x),
               From(o1, t, w), From(o1, t, x)
        PROVE  w = x
    <3>1. w \in DOMAIN o /\ x \in DOMAIN o /\ w \in Valid(o) /\ ~Beaten(o, c, D, w)
      BY <1>3
    <3>2. Block(o, w, v + 1) = Block(o, x, v + 1)
      BY <2>3, <2>5
    <3>3. PICK y \in Valid(o) : From(o, w, y) /\ (y = x \/ Beaten(o, c, D, y))
      BY <2>5, <3>1, <3>2, Won
    <3>4. From(o, w, w)
      BY DEF From
    <3>5. y = w
      BY <1>4, <3>1, <3>3, <3>4 DEF Parts
    <3> QED
      BY <3>1, <3>3, <3>5
  <2>6. CASE ~Beaten(o, c, D, u)
    <3>1. u \in Valid(o1) /\ u \in DOMAIN o
      BY <1>1, <1>3, <2>6 DEF Fate
    <3>2. From(o1, t, u)
      <4>1. CASE Through(o, c, D, u)
        <5>1. o[u].value = v /\ Block(o, t, v) = Block(o, u, v)
          BY <1>7, <2>1, <3>1, <4>1 DEF From
        <5>2. /\ Block(o, t, v + 1) = Block(o, t, v) \div 2
              /\ Block(o, u, v + 1) = Block(o, u, v) \div 2
          BY <3>1, BlockIs
        <5> QED
          BY <2>3, <3>1, <4>1, <5>1, <5>2
      <4>2. CASE ~Through(o, c, D, u)
        BY <2>1, <2>2, <3>1, <4>2
      <4> QED
        BY <4>1, <4>2
    <3>3. \A w \in Valid(o1) : From(o1, t, w) => w = u
      BY <1>3, <2>1, <2>2, <2>4, <2>6
    <3> QED
      BY <3>1, <3>2, <3>3
  <2>7. CASE Beaten(o, c, D, u)
    <3>1. u \in DOMAIN o /\ InMatch(c, u)
      BY <1>1, <1>3, <2>7 DEF Fate
    <3>2. o[u].value = v
      BY <1>4, <3>1 DEF Wins
    <3>3. PICK x \in Valid(o) : Through(o, c, D, x) /\ Block(o, x, v + 1) = Block(o, u, v + 1)
      BY <2>7, <3>1, LostTo
    <3>4. x \in DOMAIN o /\ x \in Valid(o1)
      BY <1>3, <1>7, <3>3
    <3>5. Block(o, t, v + 1) = Block(o, u, v + 1)
      <4>1. Block(o, t, v) = Block(o, u, v)
        BY <2>1, <3>2 DEF From
      <4>2. Block(o, t, v + 1) = Block(o, t, v) \div 2 /\ Block(o, u, v + 1) = Block(o, u, v) \div 2
        BY <3>1, BlockIs
      <4> QED
        BY <4>1, <4>2
    <3>6. From(o1, t, x)
      BY <2>3, <3>3, <3>4, <3>5
    <3>7. \A w \in Valid(o1) : From(o1, t, w) => w = x
      BY <1>3, <2>1, <2>2, <2>5, <2>7, <3>3, <3>4, <3>6
    <3> QED
      BY <3>4, <3>6, <3>7
  <2> QED
    BY <2>6, <2>7
<1>12. DOMAIN c1 \subseteq DOMAIN c /\ \A k \in DOMAIN c1 : c1[k].objId2 = c[k].objId2
  BY <1>1 DEF Left
<1>13. Halves(o1, c1, v)
  <2>1. \A k \in DOMAIN c : k \in DOMAIN o /\ (c[k].objId2 # 0 => c[k].objId2 \in DOMAIN o)
    BY <1>3 DEF Matches
  <2> QED
    BY <1>2, <1>4, <1>6, <1>12, <2>1 DEF Halves
<1>14. Size(o1) = Size(o)
  BY <1>2 DEF Size
<1>15. Seeded(o1)
  BY <1>2, <1>4, <1>5, <1>14 DEF Seeded
<1>16. ASSUME NEW w \in 1..v PROVE Winners(o1, w) = Winners(o, w)
  <2>1. \A t \in DOMAIN o : o1[t].value >= w <=> o[t].value >= w
    BY <1>7, <1>8, <1>9
  <2> QED
    BY <1>2, <2>1 DEF Winners
<1>17. Counts(o1, c1, v)
  BY <1>1, <1>4, <1>14, <1>16 DEF Counts
<1>18. Keyed(c1, v)
  BY <1>4, <1>12 DEF Keyed
<1> QED
  BY <1>10, <1>11, <1>13, <1>15, <1>17, <1>18 DEF Tree, o1, c1

-----------------------------------------------------------------------------
(***************************************************************************)
(* The bracket as a whole: createChallData.                                *)
(***************************************************************************)

\* The parts of the teams that are left are numbered from 0 on without a gap, and
\* the number of its part is a team's place by position.
LEMMA PartsInOrder ==
  ASSUME NEW o, ObjsType(o), NEW v \in Nat, Parts(o), Seeded(o),
         \A t \in Valid(o) : o[t].value = v + 1,
         Cardinality(Valid(o)) * BlockSize(v + 1) = Size(o)
  PROVE  \A t \in Valid(o) : PosRank(o, t) = Block(o, t, v + 1)
<1> DEFINE n == Cardinality(Valid(o))
           p == BlockSize(v + 1)
           f == [t \in Valid(o) |-> Block(o, t, v + 1)]
<1>1. n \in Nat /\ IsFiniteSet(Valid(o))
  BY ValidFinite
<1>2. p \in Nat \ {0} /\ p = 2 * BlockSize(v) /\ BlockSize(v) \in Nat
  BY BlockSizes
<1>3. \A t \in Valid(o) : t \in DOMAIN o
  BY DEF Valid
<1>4. \A t \in DOMAIN o : o[t].position \in Nat /\ Block(o, t, v + 1) = o[t].position \div p
  BY ObjIs DEF Block
<1>5. n * p = Size(o)
  OBVIOUS
<1> HIDE DEF n, p
<1>6. ASSUME NEW t \in Valid(o) PROVE f[t] \in 0..(n - 1)
  <2>1. o[t].position \in Nat /\ o[t].position < n * p
    BY <1>3, <1>4, <1>5 DEF Seeded
  <2> QED
    BY <1>1, <1>2, <1>3, <1>4, <2>1, Quotients
<1>7. ASSUME NEW t \in Valid(o), NEW u \in Valid(o), f[t] = f[u] PROVE t = u
  <2>1. From(o, t, u) /\ From(o, t, t)
    BY <1>7 DEF From
  <2> QED
    BY <1>3, <2>1 DEF Parts
<1>8. ASSUME NEW b \in 0..(n - 1) PROVE \E t \in Valid(o) : f[t] = b
  <2> DEFINE x == b * p
  <2>1. x \in Nat /\ x < n * p /\ x % 2 = 0
    <3> DEFINE q == BlockSize(v)
    <3>1. p = 2 * q /\ q \in Nat /\ b \in Nat /\ b + 1 <= n
      BY <1>1, <1>2
    <3> HIDE DEF q
    <3>2. (b + 1) * p <= n * p
      BY <1>1, <1>2, <3>1
    <3>3. x = 2 * (b * q) /\ b * q \in Nat
      BY <3>1
    <3>4. x % 2 = 0
      <4> DEFINE y == b * q
      <4>1. y \in Nat /\ x = 2 * y
        BY <3>3
      <4> HIDE DEF x, y
      <4> QED
        BY <4>1
    <3>5. (b + 1) * p = b * p + p
      BY <1>2, <3>1
    <3>6. x \in Nat
      BY <3>3
    <3> HIDE DEF x
    <3>7. (b + 1) * p = x + p
      BY <3>5 DEF x
    <3>8. n * p \in Nat /\ x + p <= n * p
      BY <1>1, <1>2, <3>2, <3>7
    <3> QED
      BY <1>2, <3>4, <3>6, <3>8
  <2>2. PICK t \in DOMAIN o : o[t].position = x
    BY <1>5, <2>1 DEF Seeded
  <2>3. Block(o, t, v + 1) = b
    BY <1>1, <1>2, <1>4, <2>2, Quotients
  <2>4. PICK u \in Valid(o) : From(o, t, u)
    BY DEF Parts
  <2> QED
    BY <2>3, <2>4 DEF From
<1> SUFFICES ASSUME NEW t \in Valid(o) PROVE PosRank(o, t) = Block(o, t, v + 1)
  OBVIOUS
<1> DEFINE B == {u \in Valid(o) : o[u].position < o[t].position}
           g == [u \in B |-> f[u]]
           r == f[t]
<1>9. \A u \in Valid(o) : o[u].position < o[t].position <=> f[u] < f[t]
  <2> SUFFICES ASSUME NEW u \in Valid(o)
               PROVE  o[u].position < o[t].position <=> f[u] < f[t]
    OBVIOUS
  <2> DEFINE x == o[u].position
             y == o[t].position
  <2>1. x \in Nat /\ y \in Nat /\ f[u] = x \div p /\ f[t] = y \div p
    BY <1>3, <1>4
  <2>2. f[u] \in 0..(n - 1) /\ f[t] \in 0..(n - 1)
    BY <1>6
  <2>3. f[u] = f[t] => u = t
    BY <1>7
  <2> HIDE DEF f
  <2>4. x < y => f[u] <= f[t]
    BY <1>2, <2>1, Quotients
  <2>5. f[u] < f[t] => x < y
    BY <1>2, <2>1, Quotients
  <2>6. u = t => x = y
    OBVIOUS
  <2> HIDE DEF x, y
  <2>7. x < y <=> f[u] < f[t]
    BY <1>1, <2>1, <2>2, <2>3, <2>4, <2>5, <2>6
  <2> QED
    BY <2>7 DEF x, y
<1>10. r \in 0..(n - 1)
  BY <1>6
<1>11. \A u \in B : u \in Valid(o) /\ f[u] \in 0..(n - 1) /\ f[u] < r
  BY <1>6, <1>9
<1>12. \A b \in 0..(r - 1) : \E u \in B : f[u] = b
  <2> SUFFICES ASSUME NEW b \in 0..(r - 1) PROVE \E u \in B : f[u] = b
    OBVIOUS
  <2> HIDE DEF f, r, B
  <2>1. b \in 0..(n - 1) /\ b < r
    BY <1>1, <1>10
  <2>2. PICK u \in Valid(o) : f[u] = b
    BY <1>8, <2>1 DEF f
  <2>3. u \in B
    BY <1>9, <2>1, <2>2 DEF B, r
  <2> QED
    BY <2>2, <2>3
<1>13. \A u, w \in B : f[u] = f[w] => u = w
  BY <1>7, <1>11
<1> HIDE DEF f, r, B
<1>14. g \in [B -> 0..(r - 1)]
  BY <1>1, <1>10, <1>11
<1>15. g \in Bijection(B, 0..(r - 1))
  BY <1>12, <1>13, <1>14 DEF Bijection, Injection, Surjection, IsInjective
<1>16. IsFiniteSet(B)
  <2>1. B \in SUBSET Valid(o)
    BY <1>11
  <2> QED
    BY <1>1, <2>1, FS_Subset
<1>17. Cardinality(0..(r - 1)) = Cardinality(B)
  <2> HIDE DEF g
  <2> QED
    BY <1>15, <1>16, SameCount
<1>18. Cardinality(0..(r - 1)) = r
  <2>1. 0 \in Int /\ r - 1 \in Int
    BY <1>1, <1>10
  <2>2. Cardinality(0..(r - 1)) = IF 0 > r - 1 THEN 0 ELSE (r - 1) - 0 + 1
    BY <2>1, FS_Interval
  <2> QED
    BY <1>1, <1>10, <2>2
<1> QED
  BY <1>17, <1>18 DEF PosRank, B, r, f

\* The next round is of the same tree: neighbours by position come from the two
\* halves of one part.
LEMMA PairedTree ==
  ASSUME NEW o, NEW c, ObjsType(o), DOMAIN c = {}, Spread(o), NEW v \in Nat, Tree(o, c, v),
         Cardinality(Valid(o)) % 2 = 0
  PROVE  Tree(Paired(o), NextRound(o), v + 1)
<1> DEFINE o2 == Paired(o)
           c2 == NextRound(o)
           n == Cardinality(Valid(o))
           r(t) == PosRank(o, t)
<1>1. Wins(o, c, v) /\ Parts(o) /\ Seeded(o) /\ Counts(o, c, v)
  BY DEF Tree
<1>2. \A t \in Valid(o) : t \in DOMAIN o /\ o[t].value = v + 1
  BY <1>1 DEF Wins, InMatch, Valid
<1>3. Seats(o, c) = Valid(o)
  BY SeatsAtEnd
<1>4. n * BlockSize(v + 1) = Size(o) /\ n \in Nat
  BY <1>1, <1>3, ValidFinite DEF Counts
<1>5. \A t \in Valid(o) : r(t) = Block(o, t, v + 1)
  BY <1>1, <1>2, <1>4, PartsInOrder
<1>6. \A t \in Valid(o) :
        /\ Neighbour(o, t) \in Valid(o) /\ Neighbour(o, t) # t
        /\ r(t) % 2 # 0 => r(Neighbour(o, t)) % 2 = 0
        /\ r(Neighbour(o, t)) = IF r(t) % 2 = 0 THEN r(t) + 1 ELSE r(t) - 1
        /\ Neighbour(o, Neighbour(o, t)) = t
  BY NeighbourIs
<1>7. /\ DOMAIN o2 = DOMAIN o
      /\ \A t \in DOMAIN o : /\ o2[t].status = o[t].status /\ o2[t].value = o[t].value
                             /\ o2[t].position = o[t].position
  <2>1. DOMAIN o2 = DOMAIN o
    BY DEF Paired
  <2>2. ASSUME NEW t \in DOMAIN o
        PROVE  /\ o2[t].status = o[t].status /\ o2[t].value = o[t].value
               /\ o2[t].position = o[t].position
    <3> DEFINE a == o[t]
    <3>1. a \in Obj
      BY ObjIs
    <3>2. o2[t] = IF t \in Valid(o) THEN [a EXCEPT !.competitor = Neighbour(o, t)] ELSE a
      BY DEF Paired
    <3> HIDE DEF a, o2
    <3>3. /\ o2[t].status = a.status /\ o2[t].value = a.value
          /\ o2[t].position = a.position
      BY <3>1, <3>2 DEF Obj
    <3> QED
      BY <3>3 DEF a
  <2> QED
    BY <2>1, <2>2
<1>8. /\ DOMAIN c2 = {t \in Valid(o) : r(t) % 2 = 0}
      /\ \A k \in DOMAIN c2 : c2[k].objId2 = Neighbour(o, k)
  <2>1. DOMAIN c2 = {t \in Valid(o) : r(t) % 2 = 0}
    BY DEF NextRound
  <2>2. \A k \in DOMAIN c2 : c2[k] = Match(k, Neighbour(o, k))
    BY DEF NextRound
  <2>3. \A k, m : Match(k, m).objId2 = m
    BY DEF Match
  <2> HIDE DEF c2
  <2> QED
    BY <2>1, <2>2, <2>3
<1>9. \A t \in Valid(o) : r(t) \in 0..(n - 1)
  BY PosRankFacts
<1> HIDE DEF o2, c2, n, r
<1>10. Valid(o2) = Valid(o)
  BY <1>7 DEF Valid
<1>11. ASSUME NEW t \in Valid(o) PROVE InMatch(c2, t)
  <2>1. CASE r(t) % 2 = 0
    BY <1>8, <2>1 DEF InMatch
  <2>2. CASE r(t) % 2 # 0
    <3>1. Neighbour(o, t) \in DOMAIN c2 /\ c2[Neighbour(o, t)].objId2 = t
      BY <1>6, <1>8, <2>2
    <3> QED
      BY <3>1 DEF InMatch
  <2> QED
    BY <2>1, <2>2
<1>12. Wins(o2, c2, v + 1)
  <2>1. \A t \in DOMAIN o : t \notin Valid(o) => o[t].value <= v /\ o[t].value \in Nat
    BY <1>1, ObjIs DEF Wins
  <2>2. \A t \in DOMAIN o : t \notin Valid(o) => o[t].value <= v + 1
    BY <2>1
  <2> QED
    BY <1>2, <1>7, <1>10, <1>11, <2>2 DEF Wins
<1>13. \A w : \A t \in DOMAIN o : Block(o2, t, w) = Block(o, t, w)
  BY <1>7 DEF Block
<1>14. Parts(o2)
  <2>1. \A t \in DOMAIN o, u \in Valid(o) : From(o2, t, u) <=> From(o, t, u)
    BY <1>2, <1>7, <1>13 DEF From
  <2> QED
    BY <1>1, <1>7, <1>10, <2>1 DEF Parts
<1>15. ASSUME NEW t \in DOMAIN o
       PROVE  /\ Block(o, t, v + 1) \in Nat
              /\ Block(o, t, (v + 1) + 1) = Block(o, t, v + 1) \div 2
  BY BlockIs
<1>16. Halves(o2, c2, v + 1)
  <2> SUFFICES ASSUME NEW k \in DOMAIN c2
               PROVE  LET m == c2[k].objId2
                      IN /\ m # 0 => Block(o2, m, (v + 1) + 1) = Block(o2, k, (v + 1) + 1)
                         /\ \A t \in DOMAIN o2 :
                              Block(o2, t, (v + 1) + 1) = Block(o2, k, (v + 1) + 1) =>
                                \/ Block(o2, t, v + 1) = Block(o2, k, v + 1)
                                \/ m # 0 /\ Block(o2, t, v + 1) = Block(o2, m, v + 1)
    BY DEF Halves
  <2> DEFINE m == c2[k].objId2
  <2>1. k \in Valid(o) /\ k \in DOMAIN o /\ r(k) % 2 = 0 /\ m = Neighbour(o, k)
    BY <1>2, <1>8
  <2>2. m \in Valid(o) /\ m \in DOMAIN o /\ r(m) = r(k) + 1
    BY <1>2, <1>6, <2>1
  <2>3. m # 0
    BY <2>2, ObjIs, NoTeamZero
  <2>4. Block(o, k, v + 1) = r(k) /\ Block(o, m, v + 1) = r(k) + 1 /\ r(k) \in Nat
    BY <1>4, <1>5, <1>9, <2>1, <2>2
  <2>5. Block(o, m, (v + 1) + 1) = Block(o, k, (v + 1) + 1)
    <3>1. (r(k) + 1) \div 2 = r(k) \div 2
      BY <2>1, <2>4
    <3> QED
      BY <1>15, <2>1, <2>2, <2>4, <3>1
  <2>6. ASSUME NEW t \in DOMAIN o, Block(o, t, (v + 1) + 1) = Block(o, k, (v + 1) + 1)
        PROVE  Block(o, t, v + 1) = Block(o, k, v + 1) \/ Block(o, t, v + 1) = Block(o, m, v + 1)
    <3> DEFINE b == Block(o, t, v + 1)
    <3>1. b \in Nat /\ b \div 2 = r(k) \div 2
      BY <1>15, <2>1, <2>4, <2>6
    <3> HIDE DEF b
    <3>2. b = r(k) \/ b = r(k) + 1
      BY <2>1, <2>4, <3>1
    <3> QED
      BY <2>4, <3>2 DEF b
  <2> QED
    BY <1>7, <1>13, <2>1, <2>2, <2>3, <2>5, <2>6
<1>17. Size(o2) = Size(o)
  BY <1>7 DEF Size
<1>18. Seeded(o2)
  BY <1>1, <1>7, <1>17 DEF Seeded
<1>19. Counts(o2, c2, v + 1)
  <2>1. Seats(o2, c2) = DOMAIN c2
    BY <1>10, <1>11 DEF Seats, Idle
  <2>2. Cardinality(DOMAIN c2) = n \div 2
    <3>1. DOMAIN c2 = {t \in Valid(o) : PosRank(o, t) % 2 = 0}
      BY <1>8 DEF r
    <3> QED
      BY <3>1, HalfOpen DEF n
  <2>3. Cardinality(Seats(o2, c2)) * BlockSize((v + 1) + 1) = Size(o2)
    <3> DEFINE p == BlockSize(v + 1)
               h == n \div 2
    <3>1. BlockSize((v + 1) + 1) = 2 * p /\ p \in Nat
      BY BlockSizes
    <3>2. n = 2 * h /\ h \in Nat
      BY <1>4 DEF n
    <3>3. h * (2 * p) = n * p
      <4> HIDE DEF h, p
      <4> QED
        BY <3>1, <3>2
    <3> QED
      BY <1>4, <1>17, <2>1, <2>2, <3>1, <3>3
  <2>4. \A w : Winners(o2, w) = Winners(o, w)
    BY <1>7 DEF Winners
  <2>5. Winners(o, v + 1) = Valid(o)
    <3>1. \A t \in DOMAIN o : t \notin Valid(o) => ~(o[t].value >= v + 1)
      <4> SUFFICES ASSUME NEW t \in DOMAIN o, t \notin Valid(o) PROVE ~(o[t].value >= v + 1)
        OBVIOUS
      <4>1. o[t].value <= v /\ o[t].value \in Nat
        BY <1>1, ObjIs DEF Wins
      <4> QED
        BY <4>1
    <3>2. \A t \in Valid(o) : t \in DOMAIN o /\ o[t].value >= v + 1
      BY <1>2
    <3> QED
      BY <3>1, <3>2 DEF Winners
  <2>6. ASSUME NEW w \in 1..(v + 1)
        PROVE  Cardinality(Winners(o2, w)) * BlockSize(w) = Size(o2)
    <3>1. CASE w = v + 1
      BY <1>4, <1>17, <2>4, <2>5, <3>1 DEF n
    <3>2. CASE w # v + 1
      <4>1. w \in 1..v
        BY <3>2
      <4> QED
        BY <1>1, <1>17, <2>4, <4>1 DEF Counts
    <3> QED
      BY <3>1, <3>2
  <2> QED
    BY <2>3, <2>6 DEF Counts
<1>20. Keyed(c2, v + 1)
  BY DEF Keyed
<1> QED
  BY <1>12, <1>14, <1>16, <1>18, <1>19, <1>20 DEF Tree, o2, c2

-----------------------------------------------------------------------------
(***************************************************************************)
(* The bracket as a whole: initPosition.                                   *)
(***************************************************************************)

\* The places fill the bracket: every even one is taken, and the two places of a
\* pair are a better seed's and his opponent's, who has the larger id.
LEMMA SeedPlaces ==
  ASSUME NEW S \in SUBSET Teams, S # {}, NEW size, size = PositionVal(Cardinality(S))
  PROVE  /\ \A t \in S : Position(S, t) \in Nat /\ Position(S, t) < size
         /\ \A x \in Nat : x < size /\ x % 2 = 0 => \E t \in S : Position(S, t) = x
         /\ \A k \in UpperHalf(S) :
              LET m == Opponent(S, k)
              IN /\ m # 0 => m \in S /\ Position(S, m) = Position(S, k) + 1 /\ k < m
                 /\ Position(S, k) % 2 = 0
                 /\ \A t \in S : Position(S, t) = Position(S, k) + 1 => m # 0 /\ t = m
<1> DEFINE n == Cardinality(S)
           r(t) == Rank(S, t)
<1>1. PICK h \in Nat \cap Sizes : size = 2 * h /\ size \div 2 = h /\ h <= n /\ n <= 2 * h
  BY BracketIs
<1>2. n \in Nat /\ IsFiniteSet(S)
  BY RankFacts
<1>3. \A t \in S : r(t) \in 0..(n - 1)
  BY RankFacts
<1>4. \A t, u \in S : r(t) = r(u) => t = u
  BY RankFacts
<1>5. \A q \in 0..(n - 1) : \E t \in S : r(t) = q
  BY RankFacts
<1>6. \A t \in S : t # 0 /\ t \in Nat
  BY NoTeamZero, TeamsAssumption
<1>7. \A t \in S : Position(S, t) = IF r(t) < h THEN 2 * r(t) ELSE 2 * (2 * h - 1 - r(t)) + 1
  BY <1>1 DEF Position
<1>8. \A t : Opponent(S, t) = IF 2 * h - 1 - r(t) < n
                              THEN CHOOSE u \in S : r(u) = 2 * h - 1 - r(t) ELSE 0
  BY <1>1 DEF Opponent
<1>9. UpperHalf(S) = {t \in S : r(t) < h}
  BY <1>1 DEF UpperHalf
<1>10. ASSUME NEW t \in S, NEW u \in S, r(t) < r(u) PROVE t < u
  <2> SUFFICES ASSUME u <= t PROVE FALSE
    BY <1>6
  <2>1. {w \in S : w < u} \in SUBSET {w \in S : w < t}
    BY <1>6
  <2>2. {w \in S : w < t} \in SUBSET S
    OBVIOUS
  <2>3. IsFiniteSet({w \in S : w < t})
    BY <1>2, <2>2, FS_Subset
  <2>4. Rank(S, u) <= Rank(S, t)
    BY <2>1, <2>3, FS_Subset DEF Rank
  <2> QED
    BY <1>2, <1>3, <1>10, <2>4
<1> HIDE DEF n, r
<1>11. \A t \in S : Position(S, t) \in Nat /\ Position(S, t) < size
  BY <1>1, <1>2, <1>3, <1>7
<1>12. ASSUME NEW x \in Nat, x < size, x % 2 = 0 PROVE \E t \in S : Position(S, t) = x
  <2> DEFINE q == x \div 2
  <2>1. q \in Nat /\ x = 2 * q
    BY <1>12
  <2> HIDE DEF q
  <2>2. q < h /\ q \in 0..(n - 1)
    BY <1>1, <1>2, <1>12, <2>1
  <2>3. PICK t \in S : r(t) = q
    BY <1>5, <2>2
  <2> QED
    BY <1>7, <2>1, <2>2, <2>3
<1>13. ASSUME NEW k \in UpperHalf(S), Opponent(S, k) # 0
       PROVE  /\ Opponent(S, k) \in S /\ r(Opponent(S, k)) = 2 * h - 1 - r(k)
              /\ Position(S, Opponent(S, k)) = Position(S, k) + 1 /\ k < Opponent(S, k)
  <2>1. k \in S /\ r(k) < h /\ r(k) \in 0..(n - 1) /\ 2 * h - 1 - r(k) < n
    BY <1>3, <1>8, <1>9, <1>13
  <2>2. 2 * h - 1 - r(k) \in 0..(n - 1)
    BY <1>1, <1>2, <2>1
  <2>3. \E u \in S : r(u) = 2 * h - 1 - r(k)
    BY <1>5, <2>2
  <2> DEFINE m == Opponent(S, k)
  <2>4. m \in S /\ r(m) = 2 * h - 1 - r(k)
    BY <1>8, <2>1, <2>3
  <2> HIDE DEF m
  <2>5. r(k) < r(m) /\ ~(r(m) < h)
    BY <1>1, <1>2, <2>1, <2>4
  <2>6. Position(S, m) = 2 * (2 * h - 1 - r(m)) + 1 /\ Position(S, k) = 2 * r(k)
    BY <1>7, <2>1, <2>4, <2>5
  <2>7. Position(S, m) = Position(S, k) + 1
    BY <1>1, <1>2, <2>1, <2>4, <2>6
  <2>8. k < m
    BY <1>10, <2>1, <2>4, <2>5 DEF r
  <2> QED
    BY <2>4, <2>7, <2>8 DEF m
<1>14. ASSUME NEW k \in UpperHalf(S)
       PROVE  /\ Position(S, k) % 2 = 0
              /\ \A t \in S : Position(S, t) = Position(S, k) + 1 =>
                   Opponent(S, k) # 0 /\ t = Opponent(S, k)
  <2>1. k \in S /\ r(k) < h /\ r(k) \in Nat /\ Position(S, k) = 2 * r(k)
    BY <1>2, <1>3, <1>7, <1>9
  <2>2. Position(S, k) % 2 = 0
    BY <2>1
  <2>3. ASSUME NEW t \in S, Position(S, t) = Position(S, k) + 1
        PROVE  Opponent(S, k) # 0 /\ t = Opponent(S, k)
    <3>1. r(t) \in 0..(n - 1)
      BY <1>3
    <3>2. ~(r(t) < h)
      <4> SUFFICES ASSUME r(t) < h PROVE FALSE
        OBVIOUS
      <4>1. 2 * r(t) = 2 * r(k) + 1
        BY <1>7, <2>1, <2>3
      <4> QED
        BY <1>2, <2>1, <3>1, <4>1
    <3>3. 2 * (2 * h - 1 - r(t)) + 1 = 2 * r(k) + 1
      BY <1>7, <2>1, <2>3, <3>2
    <3>4. 2 * h - 1 - r(k) = r(t) /\ 2 * h - 1 - r(k) < n
      BY <1>1, <1>2, <2>1, <3>1, <3>3
    <3>5. Opponent(S, k) \in S /\ r(Opponent(S, k)) = r(t)
      BY <1>8, <3>4
    <3> QED
      BY <1>4, <1>6, <3>5
  <2> QED
    BY <2>2, <2>3
<1> QED
  BY <1>11, <1>12, <1>13, <1>14

LEMMA FirstTree ==
  ASSUME ObjsType(objs), Entered(objs, challs), InitPosition, DOMAIN objs # {}
  PROVE  Tree(objs', challs', 0)
<1> DEFINE S == DOMAIN objs
           o == objs'
           c == challs'
           U == UpperHalf(S)
<1>1. S \in SUBSET Teams /\ S # {}
  BY DEF ObjsType
<1>2. /\ o = [t \in S |-> [objs[t] EXCEPT !.position = Position(S, t),
                                         !.competitor = Opponent(S, t)]]
      /\ c = [k \in U |-> Match(k, Opponent(S, k))]
  BY DEF InitPosition, Entered
<1>3. DOMAIN o = S /\ DOMAIN c = U /\ U \subseteq S
  BY <1>2 DEF UpperHalf
<1>4. \A t \in S : o[t].status = 1 /\ o[t].value = 0 /\ o[t].position = Position(S, t)
  <2> SUFFICES ASSUME NEW t \in S
               PROVE  o[t].status = 1 /\ o[t].value = 0 /\ o[t].position = Position(S, t)
    OBVIOUS
  <2> DEFINE x == o[t]
             a == Position(S, t)
             b == Opponent(S, t)
             y == objs[t]
  <2>1. x = [y EXCEPT !.position = a, !.competitor = b]
    BY <1>2
  <2>2. y \in Obj /\ y.status = 1 /\ y.value = 0
    BY ObjIs DEF Entered
  <2> HIDE DEF o, S, x, a, b, y
  <2>3. x.status = y.status /\ x.value = y.value /\ x.position = a
    BY <2>1, <2>2 DEF Obj
  <2> QED
    BY <2>2, <2>3 DEF x, a
<1>5. \A k \in U : c[k].objId2 = Opponent(S, k)
  <2>1. \A k \in U : c[k] = Match(k, Opponent(S, k))
    BY <1>2
  <2>2. \A k, m : Match(k, m).objId2 = m
    BY DEF Match
  <2> HIDE DEF c
  <2> QED
    BY <2>1, <2>2
<1>6. /\ \A t, u \in S : Position(S, t) = Position(S, u) => t = u
      /\ \A t \in S : Opponent(S, t) \in S \cup {0}
      /\ \A t \in S : Opponent(S, t) # 0 =>
               /\ Opponent(S, Opponent(S, t)) = t
               /\ t \notin UpperHalf(S) => Opponent(S, t) \in UpperHalf(S)
      /\ \A t \in S : t \notin UpperHalf(S) => Opponent(S, t) # 0
      /\ 2 * Cardinality(UpperHalf(S)) = PositionVal(Cardinality(S))
      /\ Cardinality(UpperHalf(S)) \in Sizes
  BY <1>1, SeedsAre
<1>7. Size(o) = PositionVal(Cardinality(S))
  BY <1>3 DEF Size
<1>8. /\ \A t \in S : Position(S, t) \in Nat /\ Position(S, t) < Size(o)
      /\ \A x \in Nat : x < Size(o) /\ x % 2 = 0 => \E t \in S : Position(S, t) = x
      /\ \A k \in U :
           LET m == Opponent(S, k)
           IN /\ m # 0 => m \in S /\ Position(S, m) = Position(S, k) + 1 /\ k < m
              /\ Position(S, k) % 2 = 0
              /\ \A t \in S : Position(S, t) = Position(S, k) + 1 => m # 0 /\ t = m
  BY <1>1, <1>7, SeedPlaces
<1> HIDE DEF o, c, S, U
<1>9. Valid(o) = S
  BY <1>3, <1>4 DEF Valid
<1>10. \A t \in S : InMatch(c, t)
  <2> SUFFICES ASSUME NEW t \in S PROVE InMatch(c, t)
    OBVIOUS
  <2>1. CASE t \in U
    BY <1>3, <2>1 DEF InMatch
  <2>2. CASE t \notin U
    <3>1. Opponent(S, t) \in U /\ Opponent(S, Opponent(S, t)) = t
      BY <1>6, <2>2 DEF U
    <3> QED
      BY <1>3, <1>5, <3>1 DEF InMatch
  <2> QED
    BY <2>1, <2>2
<1>11. Wins(o, c, 0)
  BY <1>3, <1>4, <1>9, <1>10 DEF Wins
<1>12. /\ \A t \in S : Block(o, t, 0) = Position(S, t)
       /\ \A t \in S : Block(o, t, 0 + 1) = Position(S, t) \div 2
  <2> SUFFICES ASSUME NEW t \in S
               PROVE  /\ Block(o, t, 0) = Position(S, t)
                      /\ Block(o, t, 0 + 1) = Position(S, t) \div 2
    OBVIOUS
  <2>1. BlockSize(0) = 1 /\ BlockSize(0 + 1) = 2
    BY BlockSizes
  <2> DEFINE x == Position(S, t)
  <2>2. x \in Nat /\ o[t].position = x
    BY <1>4, <1>8
  <2> HIDE DEF x
  <2>3. x \div 1 = x
    BY <2>2
  <2>4. Block(o, t, 0) = x /\ Block(o, t, 0 + 1) = x \div 2
    BY <2>1, <2>2, <2>3 DEF Block
  <2> QED
    BY <2>4 DEF x
<1>13. Parts(o)
  <2>1. \A t \in S, u \in S : From(o, t, u) <=> t = u
    BY <1>4, <1>6, <1>12 DEF From
  <2> QED
    BY <1>3, <1>9, <2>1 DEF Parts
<1>14. Halves(o, c, 0)
  <2> SUFFICES ASSUME NEW k \in U
               PROVE  LET m == c[k].objId2
                      IN /\ m # 0 => Block(o, m, 0 + 1) = Block(o, k, 0 + 1)
                         /\ \A t \in S : Block(o, t, 0 + 1) = Block(o, k, 0 + 1) =>
                              \/ Block(o, t, 0) = Block(o, k, 0)
                              \/ m # 0 /\ Block(o, t, 0) = Block(o, m, 0)
    BY <1>3 DEF Halves
  <2> DEFINE m == Opponent(S, k)
             x == Position(S, k)
  <2>1. k \in S /\ c[k].objId2 = m /\ x \in Nat /\ x % 2 = 0
    BY <1>3, <1>5, <1>8
  <2>2. /\ m # 0 => m \in S /\ Position(S, m) = x + 1
        /\ \A t \in S : Position(S, t) = x + 1 => m # 0 /\ t = m
    BY <1>8
  <2> HIDE DEF m, x
  <2>3. (x + 1) \div 2 = x \div 2
    BY <2>1
  <2>4. m # 0 => Block(o, m, 0 + 1) = Block(o, k, 0 + 1)
    BY <1>12, <2>1, <2>2, <2>3 DEF x
  <2>5. ASSUME NEW t \in S, Block(o, t, 0 + 1) = Block(o, k, 0 + 1)
        PROVE  \/ Block(o, t, 0) = Block(o, k, 0)
               \/ m # 0 /\ Block(o, t, 0) = Block(o, m, 0)
    <3> DEFINE y == Position(S, t)
    <3>1. y \in Nat /\ y \div 2 = x \div 2
      BY <1>8, <1>12, <2>1, <2>5 DEF x
    <3> HIDE DEF y
    <3>2. y = x \/ y = x + 1
      BY <2>1, <3>1
    <3> QED
      BY <1>12, <2>1, <2>2, <3>2 DEF x, y
  <2> QED
    BY <2>1, <2>4, <2>5
<1>15. Seeded(o)
  BY <1>3, <1>4, <1>8 DEF Seeded
<1>16. Counts(o, c, 0)
  <2>1. Seats(o, c) = U
    BY <1>3, <1>9, <1>10 DEF Seats, Idle
  <2>2. BlockSize(0 + 1) = 2
    BY BlockSizes
  <2>3. Cardinality(U) \in Nat
    BY <1>6, SizeHalves DEF U
  <2>4. 2 * Cardinality(U) = Size(o)
    BY <1>6, <1>7 DEF U
  <2>5. Cardinality(Seats(o, c)) * BlockSize(0 + 1) = Size(o)
    BY <2>1, <2>2, <2>3, <2>4
  <2>6. 1..0 = {}
    OBVIOUS
  <2> QED
    BY <2>5, <2>6 DEF Counts
<1>17. Keyed(c, 0)
  BY <1>3, <1>5, <1>8 DEF Keyed
<1> QED
  BY <1>11, <1>13, <1>14, <1>15, <1>16, <1>17 DEF Tree, o, c

-----------------------------------------------------------------------------
(***************************************************************************)
(* The bracket as a whole: every step.                                     *)
(***************************************************************************)

LEMMA MatchesIn ==
  ASSUME NEW o, NEW c, Matches(o, c)
  PROVE  /\ DOMAIN c \subseteq DOMAIN o
         /\ \A k \in DOMAIN c : c[k].objId2 # 0 => c[k].objId2 \in DOMAIN o
  BY DEF Matches, Valid

LEMMA RuleTree ==
  ASSUME NEW o, NEW c, ObjsType(o), ChallsType(c), Going(o, c), RuleContrl(o, c),
         NEW v \in Nat, Tree(o, c, v)
  PROVE  \E w \in Nat : Tree(objs', challs', w)
<1> DEFINE o1 == Settled(o, c)
           c1 == Remaining(o, c)
<1>1. Matches(o, c)
  BY DEF Going
<1>2. ~Spins(o, c)
  BY <1>1, LoopRuns
<1>3. Tree(o1, c1, v)
  BY <1>1, SettledTree, WholeLoop
<1>4. ObjsType(o1)
  BY <1>1, SettledTypes, WholeLoop
<1>5. DOMAIN c # {} => Spread(o1)
  BY <1>1, SettledGoing, WholeLoop
<1>6. CASE objs' = o /\ challs' = c
  BY <1>6
<1>7. CASE objs' = o1 /\ challs' = c1
  BY <1>3, <1>7
<1>8. CASE /\ DOMAIN c # {} /\ DOMAIN c1 = {} /\ Cardinality(Valid(o1)) % 2 = 0
           /\ objs' = Paired(o1) /\ challs' = NextRound(o1)
  <2> HIDE DEF o1, c1
  <2>1. Tree(Paired(o1), NextRound(o1), v + 1)
    BY <1>3, <1>4, <1>5, <1>8, PairedTree
  <2> QED
    BY <1>8, <2>1
<1> QED
  BY <1>2, <1>6, <1>7, <1>8 DEF RuleContrl

\* The tree has no part in houses, scores and reports.
LEMMA RoundStays ==
  ASSUME NEW o, NEW c, NEW o1, NEW c1, NEW v \in Nat,
         Going(o, c), Tree(o, c, v), SameRound(o, c, o1, c1)
  PROVE  Tree(o1, c1, v)
<1>1. SameTree(o, c, o1, c1)
  BY DEF SameTree, SameRound
<1>2. /\ DOMAIN c \subseteq DOMAIN o
      /\ \A k \in DOMAIN c : c[k].objId2 # 0 => c[k].objId2 \in DOMAIN o
  BY MatchesIn DEF Going
<1> QED
  BY <1>1, <1>2, TreeStays

\* A fight that runs or has run is a bracket, and over when one team is left.
TreeInv ==
  Started /\ DOMAIN objs # {} =>
    /\ \E v \in Nat : Tree(objs, challs, v)
    /\ DOMAIN challs = {} => Cardinality(Valid(objs)) = 1

LEMMA InitTree == Init => TreeInv
<1> SUFFICES ASSUME Init PROVE ~Started
  BY DEF TreeInv
<1>1. \A t \in DOMAIN objs : objs[t].value = 0
  BY DEF Init, FreshObj
<1> QED
  BY <1>1 DEF Init, Started

LEMMA NextTree == IInv /\ IInv' /\ TreeInv /\ [Next]_vars => TreeInv'
<1> SUFFICES ASSUME IInv, IInv', TreeInv, [Next]_vars, Started', DOMAIN objs' # {}
             PROVE  /\ \E v \in Nat : Tree(objs', challs', v)
                    /\ DOMAIN challs' = {} => Cardinality(Valid(objs')) = 1
  BY DEF TreeInv, Tree, Wins, Parts, Halves, Seeded, Counts, Keyed, From, Block, Size, Winners,
     Seats, Idle, InMatch, Valid
<1>1. /\ ObjsType(objs) /\ ChallsType(challs) /\ promoted \in Seq(SUBSET Teams)
      /\ status \in {"set", "apply", "fight", "stop"}
  BY IInvTypes
<1>2. ASSUME status = "fight"
      PROVE  Round(objs, challs) /\ (DOMAIN challs = {} => Played(objs))
  BY <1>2 DEF IInv
<1>3. ASSUME status = "fight", DOMAIN objs # {}
      PROVE  /\ \E v \in Nat : Tree(objs, challs, v)
             /\ Going(objs, challs)
  BY <1>2, <1>3 DEF TreeInv, Started, Round, Running
<1>4. CASE UNCHANGED <<objs, challs>> /\ (Started' => Started)
  BY <1>4 DEF TreeInv
<1>5. ASSUME NEW m \in Moments, Reach(m) PROVE Started' => Started
  BY <1>5 DEF Reach, Started
<1>6. CASE ContrlFight
  <2>1. status = "fight" /\ RuleContrl(objs, challs)
    BY <1>6 DEF ContrlFight
  <2>2. Ruled(objs, objs', challs', promoted')
    BY <1>1, <1>2, <2>1, RuleKeeps DEF Round, Running
  <2>3. DOMAIN objs # {} /\ (DOMAIN challs' = {} => Cardinality(Valid(objs')) = 1)
    BY <2>2 DEF Ruled, Played
  <2> QED
    BY <1>1, <1>3, <2>1, <2>3, RuleTree
<1>7. CASE ContrlStart
  <2>1. status \in {"set", "apply"} /\ InitPosition
    BY <1>7 DEF ContrlStart, Applies
  <2>2. Entered(objs, challs)
    BY <2>1, UnseededIs DEF IInv
  <2>3. DOMAIN objs' = DOMAIN objs /\ (DOMAIN challs' = {} => Played(objs'))
    BY <1>1, <2>1, <2>2, FirstRound
  <2>4. Tree(objs', challs', 0)
    BY <1>1, <2>1, <2>2, <2>3, FirstTree
  <2> QED
    BY <2>3, <2>4 DEF Played
<1>8. ASSUME ContrlWait PROVE UNCHANGED <<objs, challs>> /\ (Started' => Started)
  <2>1. UNCHANGED <<objs, challs>> /\ status' # "fight"
    BY <1>1, <1>8 DEF ContrlWait, Applies
  <2> QED
    BY <2>1 DEF Started
<1>9. ASSUME NEW t \in Teams, CreateHouse(t)
      PROVE  /\ \E v \in Nat : Tree(objs', challs', v)
             /\ DOMAIN challs' = {} => Cardinality(Valid(objs')) = 1
  <2>1. /\ t \in DOMAIN objs /\ objs[t].competitor # 0 /\ challs' = challs
        /\ SameRound(objs, challs, objs', challs) /\ Valid(objs') = Valid(objs)
    BY <1>1, <1>9, HouseIs DEF CreateHouse
  <2>2. status = "fight"
    BY <2>1, IdleFight
  <2>3. PICK v \in Nat : Tree(objs, challs, v)
    BY <1>3, <2>1, <2>2
  <2>4. Tree(objs', challs', v)
    BY <1>3, <2>1, <2>2, <2>3, RoundStays
  <2>5. DOMAIN challs = {} => Cardinality(Valid(objs)) = 1
    BY <2>1, <2>2 DEF TreeInv, Started
  <2> QED
    BY <2>1, <2>4, <2>5
<1>10. ASSUME NEW t \in Teams, NEW result \in Result, FightResult(t, result)
       PROVE  /\ \E v \in Nat : Tree(objs', challs', v)
              /\ DOMAIN challs' = {} => Cardinality(Valid(objs')) = 1
  <2> DEFINE k == MatchKey(t, objs[t].competitor)
             m == IF k = t THEN [challs[k] EXCEPT !.result1 = result]
                           ELSE [challs[k] EXCEPT !.result2 = result]
             c1 == [challs EXCEPT ![k] = m]
  <2>1. t \in DOMAIN objs /\ DOMAIN challs # {}
    BY <1>10 DEF FightResult
  <2>2. status = "fight"
    BY <2>1, IdleFight
  <2>3. Going(objs, challs)
    BY <1>3, <2>1, <2>2
  <2>4. PICK v \in Nat : Tree(objs, challs, v)
    BY <1>3, <2>1, <2>2
  <2>5. /\ k \in DOMAIN challs /\ m \in Challenge
        /\ m.objId1 = challs[k].objId1 /\ m.objId2 = challs[k].objId2
        /\ RuleContrl(objs, c1)
    BY <1>1, <1>10, <2>3, ReportIs
  <2>6. Ruled(objs, objs', challs', promoted')
    BY <1>1, <1>2, <1>10, <2>2, ResultKeeps
  <2>7. DOMAIN challs' = {} => Cardinality(Valid(objs')) = 1
    BY <2>1, <2>6 DEF Ruled, Played
  <2> HIDE DEF k, m
  <2>8. ChallsType(c1) /\ Going(objs, c1) /\ SameRound(objs, challs, objs, c1)
    BY <1>1, <2>3, <2>5, ReportKeeps
  <2> HIDE DEF c1
  <2>9. Tree(objs, c1, v)
    BY <2>3, <2>4, <2>8, RoundStays
  <2>10. \E w \in Nat : Tree(objs', challs', w)
    BY <1>1, <2>5, <2>8, <2>9, RuleTree
  <2> QED
    BY <2>7, <2>10
<1>11. ASSUME UNCHANGED vars PROVE UNCHANGED <<objs, challs>> /\ (Started' => Started)
  BY <1>11 DEF vars, Started
<1> QED
  BY <1>4, <1>5, <1>6, <1>7, <1>8, <1>9, <1>10, <1>11 DEF Next, Contrl, Reach

\* What a spectator sees of the tree.
LEMMA TreeShows ==
  ASSUME ObjsType(objs), ChallsType(challs), Matches(objs, challs), TreeInv,
         ~Started => DOMAIN challs = {}
  PROVE  BracketWhole
<1>1. ObjsType(objs) /\ ChallsType(challs)
  OBVIOUS
<1>2. Matches(objs, challs)
  OBVIOUS
<1>3. CASE ~Started \/ DOMAIN objs = {}
  <2>1. DOMAIN challs = {}
    BY <1>2, <1>3 DEF Matches, Valid
  <2> QED
    BY <1>3, <2>1 DEF BracketWhole, BracketTree, FinalPlacing, SeedsFindable
<1>4. CASE Started /\ DOMAIN objs # {}
  <2>1. PICK v \in Nat : Tree(objs, challs, v)
    BY <1>4 DEF TreeInv
  <2>2. /\ Wins(objs, challs, v) /\ Parts(objs) /\ Halves(objs, challs, v)
        /\ Counts(objs, challs, v) /\ Keyed(challs, v)
    BY <2>1 DEF Tree
  <2>3. \A k \in DOMAIN challs :
          /\ k \in Teams /\ k \in Valid(objs) /\ objs[k].value = v
          /\ challs[k].objId2 # 0 =>
               challs[k].objId2 \in Teams /\ objs[challs[k].objId2].value = v
    <3> SUFFICES ASSUME NEW k \in DOMAIN challs
                 PROVE  /\ k \in Teams /\ k \in Valid(objs) /\ objs[k].value = v
                        /\ challs[k].objId2 # 0 =>
                             challs[k].objId2 \in Teams /\ objs[challs[k].objId2].value = v
      OBVIOUS
    <3>1. k \in Valid(objs) /\ (challs[k].objId2 # 0 => challs[k].objId2 \in Valid(objs))
      BY <1>2 DEF Matches
    <3>2. InMatch(challs, k) /\ InMatch(challs, challs[k].objId2)
      BY DEF InMatch
    <3> QED
      BY <1>1, <2>2, <3>1, <3>2, ChallIs DEF Wins
  <2>4. BracketTree
    <3>1. ASSUME NEW t \in DOMAIN objs
          PROVE  \E u \in Valid(objs) :
                   /\ objs[u].value >= objs[t].value
                   /\ Block(objs, u, objs[u].value) = Block(objs, t, objs[u].value)
                   /\ \A w \in Valid(objs) :
                        Block(objs, w, objs[w].value) = Block(objs, t, objs[w].value) => w = u
      <4>1. PICK u \in Valid(objs) :
              From(objs, t, u) /\ \A w \in Valid(objs) : From(objs, t, w) => w = u
        BY <2>2 DEF Parts
      <4>2. objs[u].value >= objs[t].value
        <5>1. u \in DOMAIN objs /\ objs[u].value \in Nat /\ objs[t].value \in Nat
          BY <1>1, ObjIs DEF Valid
        <5>2. CASE t \in Valid(objs)
          <6>1. From(objs, t, t)
            BY DEF From
          <6>2. t = u
            BY <4>1, <5>2, <6>1
          <6> QED
            BY <5>1, <6>2
        <5>3. CASE t \notin Valid(objs)
          <6>1. objs[t].value <= v /\ (objs[u].value = v \/ objs[u].value = v + 1)
            BY <2>2, <5>3 DEF Wins
          <6> QED
            BY <5>1, <6>1
        <5> QED
          BY <5>2, <5>3
      <4>3. /\ Block(objs, u, objs[u].value) = Block(objs, t, objs[u].value)
            /\ \A w \in Valid(objs) :
                 Block(objs, w, objs[w].value) = Block(objs, t, objs[w].value) => w = u
        BY <4>1 DEF From
      <4> QED
        BY <4>2, <4>3
    <3>2. \A k \in DOMAIN challs : challs[k].objId2 # 0 =>
            LET won == objs[k].value
            IN Block(objs, k, won + 1) = Block(objs, challs[k].objId2, won + 1)
      BY <2>2, <2>3 DEF Halves
    <3> QED
      BY <3>1, <3>2 DEF BracketTree
  <2>5. FinalPlacing
    <3> SUFFICES ASSUME DOMAIN challs = {}
                 PROVE  /\ Cardinality(Valid(objs)) = 1
                        /\ \A w \in 1..Cardinality(DOMAIN objs) : BlockSize(w) <= Size(objs) =>
                             Cardinality({t \in DOMAIN objs : objs[t].value >= w}) * BlockSize(w)
                               = Size(objs)
      BY DEF FinalPlacing, Size
    <3>1. Cardinality(Valid(objs)) = 1
      BY <1>4 DEF TreeInv
    <3>2. Size(objs) = BlockSize(v + 1) /\ BlockSize(v + 1) \in Nat \ {0}
      <4>1. BlockSize(v + 1) \in Nat \ {0}
        <5>1. v + 1 \in Nat
          OBVIOUS
        <5> QED
          BY <5>1, BlockSizes
      <4>2. Cardinality(Seats(objs, challs)) = 1
        BY <3>1, SeatsAtEnd
      <4> QED
        BY <2>2, <4>1, <4>2 DEF Counts
    <3>3. Winners(objs, v + 1) = Valid(objs)
      <4>1. \A t \in DOMAIN objs : objs[t].value \in Nat
        BY <1>1, ObjIs
      <4>2. \A t \in Valid(objs) : t \in DOMAIN objs /\ objs[t].value = v + 1
        BY <2>2 DEF Wins, InMatch, Valid
      <4>3. \A t \in DOMAIN objs : t \notin Valid(objs) => objs[t].value <= v
        BY <2>2 DEF Wins
      <4>4. \A t \in DOMAIN objs : t \in Valid(objs) <=> objs[t].value >= v + 1
        BY <4>1, <4>2, <4>3
      <4> QED
        BY <4>2, <4>4 DEF Winners
    <3>4. ASSUME NEW w \in 1..Cardinality(DOMAIN objs), BlockSize(w) <= Size(objs)
          PROVE  Cardinality(Winners(objs, w)) * BlockSize(w) = Size(objs)
      <4>1. w \in Nat /\ w >= 1
        BY <1>1, ValidFinite
      <4>2. ~(v + 1 < w)
        <5> SUFFICES ASSUME v + 1 < w PROVE FALSE
          OBVIOUS
        <5>1. 2 * BlockSize(v + 1) <= BlockSize(w) /\ BlockSize(w) \in Nat
          BY <4>1, BlockSizeGrows, BlockSizes
        <5> QED
          BY <3>2, <3>4, <5>1
      <4>3. CASE w = v + 1
        BY <3>1, <3>2, <3>3, <4>3
      <4>4. CASE w # v + 1
        <5>1. w \in 1..v
          BY <4>1, <4>2, <4>4
        <5> QED
          BY <2>2, <5>1 DEF Counts
      <4> QED
        BY <4>3, <4>4
    <3> QED
      BY <3>1, <3>4 DEF Winners
  <2>6. SeedsFindable
    <3> SUFFICES ASSUME NEW k \in DOMAIN challs, challs[k].objId2 # 0,
                        MatchKey(k, challs[k].objId2) # k
                 PROVE  objs[k].value >= 1 /\ objs[challs[k].objId2].value >= 1
      BY DEF SeedsFindable
    <3>1. k \in Nat /\ challs[k].objId2 \in Nat
      BY <2>3, TeamsAssumption
    <3>2. ~(k < challs[k].objId2)
      BY <3>1 DEF MatchKey
    <3>3. v # 0
      BY <2>2, <3>2 DEF Keyed
    <3> QED
      BY <2>3, <3>3
  <2> QED
    BY <2>4, <2>5, <2>6 DEF BracketWhole
<1> QED
  BY <1>3, <1>4

\* For every field and any order of the reports (initPosition, contrl,
\* createChallData): the matches are one tree, in which every part of the bracket has
\* exactly one team left; what remains at the end is one champion, and as many teams
\* as came so far in each round; and a match that its reports do not find
\* (fightResult) is one of two teams that have won before.
THEOREM BracketIsWhole == Spec => []BracketWhole
<1>1. Init => IInv /\ TreeInv
  BY InitIInv, InitTree
<1>2. IInv /\ TreeInv /\ [Next]_vars => (IInv /\ TreeInv)'
  BY NextIInv, NextTree
<1>3. IInv /\ TreeInv => BracketWhole
  <2> SUFFICES ASSUME IInv, TreeInv PROVE BracketWhole
    OBVIOUS
  <2>1. ObjsType(objs) /\ ChallsType(challs)
    BY IInvTypes
  <2>2. Matches(objs, challs)
    <3>1. CASE status = "fight"
      BY <3>1 DEF IInv, Round, Running, Going
    <3>2. CASE status # "fight"
      BY <3>2, IdleFight DEF Matches
    <3> QED
      BY <3>1, <3>2
  <2>3. ~Started => DOMAIN challs = {}
    BY IdleFight DEF Started
  <2> QED
    BY <2>1, <2>2, <2>3, TreeShows
<1> QED
  BY <1>1, <1>2, <1>3, PTL DEF Spec

-----------------------------------------------------------------------------
(***************************************************************************)
(* The rows and the crashes of FightRecovery.                              *)
(*                                                                         *)
(* A handler's statements are followed one by one from rows that have      *)
(* caught up with memory to rows that catch up with what the handler left, *)
(* and at each statement that says so the rows on the way are a fight that *)
(* can be resumed.                                                         *)
(***************************************************************************)

Statements ==
  [kind : {"obj"}, key : Teams, val : Obj, safe : BOOLEAN]
    \cup [kind : {"chall"}, key : Teams, val : Challenge, safe : BOOLEAN]
    \cup [kind : {"erase"}, key : Teams, safe : BOOLEAN]
    \cup [kind : {"status"}, val : {"set", "apply", "fight", "stop"}, safe : BOOLEAN]

Tables(s, o, c) == [status |-> s, objs |-> o, challs |-> c]

\* A fight that has been seeded: its round can go on, or it is played out.
Fought(o, c) ==
  /\ Going(o, c)
  /\ DOMAIN c = {} => Played(o)
  /\ DOMAIN o # {} => \E v \in Nat : Tree(o, c, v)

\* What memory is, and what rows are that it can be loaded from.
Live(s, o, c) ==
  /\ ObjsType(o) /\ ChallsType(c) /\ s \in {"set", "apply", "fight", "stop"}
  /\ s \in {"set", "apply"} => Entered(o, c)
  /\ s = "fight" => Fought(o, c)
  /\ s = "stop" => DOMAIN c = {} /\ (Entered(o, c) \/ Fought(o, c))

NoHouse(o) == \A t \in DOMAIN o : o[t].house = FALSE

Resumable(r) == \E s, o, c : r = Tables(s, o, c) /\ Live(s, o, c) /\ NoHouse(o)

\* The row b and the team a in memory: all but the house and the games won.
Alike(b, a) ==
  /\ b.status = a.status /\ b.value = a.value /\ b.position = a.position
  /\ b.competitor = a.competitor /\ b.house = FALSE

Like(b, o) ==
  ObjsType(b) /\ DOMAIN b = DOMAIN o /\ \A t \in DOMAIN o : Alike(b[t], o[t])

\* The rows r have caught up with s, o and c.
Caught(r, s, o, c) == \E b : r = Tables(s, b, c) /\ Like(b, o)

\* p is what the rows r become, statement by statement; a statement that says so
\* finds a fight that can be resumed.
Path(p, r, q) ==
  /\ p[0] = r
  /\ \A i \in 1..Len(q) : /\ p[i] = Executed(p[i - 1], q[i])
                          /\ q[i].safe => Resumable(p[i - 1])

Leads(r, q, r2) == \E p : Path(p, r, q) /\ p[Len(q)] = r2

-----------------------------------------------------------------------------
(***************************************************************************)
(* Queues of statements.                                                   *)
(***************************************************************************)

LEMMA LeadsNone == ASSUME NEW r PROVE Leads(r, <<>>, r)
<1> DEFINE p == [i \in {0} |-> r]
<1>1. p[0] = r /\ Len(<<>>) = 0
  OBVIOUS
<1> HIDE DEF p
<1>2. Path(p, r, <<>>)
  BY <1>1 DEF Path
<1> QED
  BY <1>1, <1>2 DEF Leads

LEMMA LeadsOne ==
  ASSUME NEW r, NEW s, s.safe => Resumable(r)
  PROVE  Leads(r, <<s>>, Executed(r, s))
<1> DEFINE p == [i \in {0, 1} |-> IF i = 0 THEN r ELSE Executed(r, s)]
           q == <<s>>
<1>1. p[0] = r /\ p[1] = Executed(r, s) /\ Len(q) = 1 /\ q[1] = s
  OBVIOUS
<1> HIDE DEF p, q
<1>2. \A i \in 1..Len(q) : i = 1 /\ i - 1 = 0
  BY <1>1
<1>3. Path(p, r, q)
  BY <1>1, <1>2 DEF Path
<1>4. Leads(r, q, Executed(r, s))
  BY <1>1, <1>3 DEF Leads
<1> QED
  BY <1>4 DEF q

\* One queue behind the other.
LEMMA LeadsOn ==
  ASSUME NEW r, NEW r1, NEW r2, NEW S, NEW q1 \in Seq(S), NEW q2 \in Seq(S),
         Leads(r, q1, r1), Leads(r1, q2, r2)
  PROVE  Leads(r, q1 \o q2, r2)
<1> DEFINE n == Len(q1)
           m == Len(q2)
           q == q1 \o q2
<1>1. /\ n \in Nat /\ m \in Nat /\ Len(q) = n + m
      /\ \A i \in 1..(n + m) : q[i] = IF i <= n THEN q1[i] ELSE q2[i - n]
  BY ConcatProperties
<1>2. PICK p1 : Path(p1, r, q1) /\ p1[n] = r1
  BY DEF Leads
<1>3. PICK p2 : Path(p2, r1, q2) /\ p2[m] = r2
  BY DEF Leads
<1> DEFINE p == [i \in 0..(n + m) |-> IF i <= n THEN p1[i] ELSE p2[i - n]]
<1> HIDE DEF n, m, q
<1>4. \A i \in 0..(n + m) : p[i] = IF i <= n THEN p1[i] ELSE p2[i - n]
  OBVIOUS
<1> HIDE DEF p
<1>5. p2[0] = p1[n]
  BY <1>2, <1>3 DEF Path
<1>6. p[0] = r
  <2>1. 0 \in 0..(n + m) /\ 0 <= n
    BY <1>1
  <2> QED
    BY <1>2, <1>4, <2>1 DEF Path
<1>7. p[n + m] = r2
  <2>1. n + m \in 0..(n + m) /\ (n + m) - n = m /\ (n + m <= n => m = 0 /\ n + m = n)
    BY <1>1
  <2>2. CASE n + m <= n
    BY <1>2, <1>3, <1>4, <1>5, <2>1, <2>2
  <2>3. CASE ~(n + m <= n)
    BY <1>3, <1>4, <2>1, <2>3
  <2> QED
    BY <2>2, <2>3
<1>8. ASSUME NEW i \in 1..(n + m)
      PROVE  p[i] = Executed(p[i - 1], q[i]) /\ (q[i].safe => Resumable(p[i - 1]))
  <2>1. i \in 0..(n + m) /\ i - 1 \in 0..(n + m)
    BY <1>1
  <2>2. CASE i <= n
    <3>1. i \in 1..Len(q1) /\ i - 1 <= n
      BY <1>1, <2>2 DEF n
    <3>2. p[i] = p1[i] /\ p[i - 1] = p1[i - 1] /\ q[i] = q1[i]
      BY <1>1, <1>4, <2>1, <2>2, <3>1
    <3> QED
      BY <1>2, <3>1, <3>2 DEF Path
  <2>3. CASE ~(i <= n)
    <3>1. /\ i - n \in 1..Len(q2) /\ (i - n) - 1 = (i - 1) - n
          /\ (i - 1 <= n => i - 1 = n /\ (i - n) - 1 = 0)
      BY <1>1, <2>3 DEF m
    <3>2. p[i - 1] = p2[(i - n) - 1]
      BY <1>4, <1>5, <2>1, <3>1
    <3>3. p[i] = p2[i - n] /\ q[i] = q2[i - n]
      BY <1>1, <1>4, <2>1, <2>3
    <3> QED
      BY <1>3, <3>1, <3>2, <3>3 DEF Path
  <2> QED
    BY <2>2, <2>3
<1>9. Path(p, r, q)
  BY <1>1, <1>6, <1>8 DEF Path
<1> QED
  BY <1>1, <1>7, <1>9 DEF Leads, q

\* The statement at the head is executed first.
LEMMA LeadsNext ==
  ASSUME NEW r, NEW r2, NEW S, NEW q \in Seq(S), q # <<>>, Leads(r, q, r2)
  PROVE  /\ Head(q).safe => Resumable(r)
         /\ Leads(Executed(r, Head(q)), Tail(q), r2)
<1> DEFINE n == Len(q)
           u == Tail(q)
<1>1. /\ n \in Nat /\ n # 0 /\ Len(u) = n - 1 /\ Head(q) = q[1]
      /\ \A i \in 1..(n - 1) : u[i] = q[i + 1]
  OBVIOUS
<1>2. PICK p : Path(p, r, q) /\ p[n] = r2
  BY DEF Leads
<1> DEFINE h == [i \in 0..(n - 1) |-> p[i + 1]]
<1> HIDE DEF n, u
<1>3. \A i \in 0..(n - 1) : h[i] = p[i + 1]
  OBVIOUS
<1> HIDE DEF h
<1>4. /\ 1 \in 1..n /\ 1 - 1 = 0 /\ 0 \in 0..(n - 1) /\ 0 + 1 = 1
      /\ n - 1 \in 0..(n - 1) /\ (n - 1) + 1 = n
  BY <1>1
<1>5. p[1] = Executed(r, q[1]) /\ (q[1].safe => Resumable(r))
  BY <1>2, <1>4 DEF Path, n
<1>6. h[0] = Executed(r, Head(q))
  BY <1>1, <1>3, <1>4, <1>5
<1>7. ASSUME NEW i \in 1..(n - 1)
      PROVE  h[i] = Executed(h[i - 1], u[i]) /\ (u[i].safe => Resumable(h[i - 1]))
  <2>1. /\ i \in 0..(n - 1) /\ i - 1 \in 0..(n - 1) /\ i + 1 \in 1..Len(q)
        /\ (i - 1) + 1 = i /\ (i + 1) - 1 = i
    BY <1>1 DEF n
  <2>2. p[i + 1] = Executed(p[i], q[i + 1]) /\ (q[i + 1].safe => Resumable(p[i]))
    BY <1>2, <2>1 DEF Path
  <2> QED
    BY <1>1, <1>3, <2>1, <2>2
<1>8. Path(h, Executed(r, Head(q)), u)
  BY <1>1, <1>6, <1>7 DEF Path
<1>9. h[Len(u)] = r2
  BY <1>1, <1>2, <1>3, <1>4
<1> QED
  BY <1>1, <1>5, <1>8, <1>9 DEF Leads, u

\* What holds of zero and goes on from each number below n to the next holds of n.
LEMMA OneByOne ==
  ASSUME NEW n \in Nat, NEW S, 0 \in S, \A i \in 0..(n - 1) : i \in S => i + 1 \in S
  PROVE  n \in S
<1> DEFINE T == {i \in 0..n : i \notin S}
<1> SUFFICES ASSUME T # {} PROVE FALSE
  <2>1. n \in 0..n
    OBVIOUS
  <2> QED
    BY <2>1
<1>1. T \in SUBSET Nat
  OBVIOUS
<1> HIDE DEF T
<1>2. PICK i \in T : \A j \in T : i <= j
  BY <1>1, LeastNumber
<1>3. i \in 0..n /\ i \notin S /\ i # 0
  BY DEF T
<1>4. i - 1 \in 0..(n - 1) /\ (i - 1) + 1 = i /\ ~(i <= i - 1)
  BY <1>3
<1>5. i - 1 \in 0..n
  BY <1>3
<1>6. i - 1 \in S
  BY <1>2, <1>4, <1>5 DEF T
<1> QED
  BY <1>3, <1>4, <1>6

\* A path ends where Ran does.
LEMMA LeadsIsRan ==
  ASSUME NEW r, NEW r2, NEW S, NEW q \in Seq(S), Leads(r, q, r2)
  PROVE  Ran(r, q) = r2
<1> DEFINE n == Len(q)
           g == CHOOSE g : g = [i \in 0..n |-> IF i = 0 THEN r ELSE Executed(g[i - 1], q[i])]
<1>1. n \in Nat
  OBVIOUS
<1>2. Ran(r, q) = g[n]
  BY DEF Ran
<1>3. PICK p : Path(p, r, q) /\ p[n] = r2
  BY DEF Leads
<1> HIDE DEF n
<1>4. /\ p[0] = r
      /\ \A i \in 1..n : p[i] = Executed(p[i - 1], q[i])
  BY <1>3 DEF Path, n
<1> DEFINE h == [i \in 0..n |-> p[i]]
<1>5. h = [i \in 0..n |-> IF i = 0 THEN r ELSE Executed(h[i - 1], q[i])]
  <2>1. ASSUME NEW i \in 0..n PROVE h[i] = IF i = 0 THEN r ELSE Executed(h[i - 1], q[i])
    <3>1. CASE i = 0
      BY <1>1, <1>4, <3>1
    <3>2. CASE i # 0
      <4>1. i \in 1..n /\ i - 1 \in 0..n
        BY <1>1, <3>2
      <4> QED
        BY <1>4, <3>2, <4>1
    <3> QED
      BY <3>1, <3>2
  <2>2. h = [i \in 0..n |-> h[i]]
    OBVIOUS
  <2> HIDE DEF h
  <2> QED
    BY <2>1, <2>2
<1> HIDE DEF h
<1>6. g = [i \in 0..n |-> IF i = 0 THEN r ELSE Executed(g[i - 1], q[i])]
  BY <1>5
<1> HIDE DEF g
<1>7. g[0] = r /\ \A i \in 1..n : g[i] = Executed(g[i - 1], q[i])
  <2> DEFINE e(i) == IF i = 0 THEN r ELSE Executed(g[i - 1], q[i])
  <2>1. g = [i \in 0..n |-> e(i)]
    BY <1>6
  <2> HIDE DEF e
  <2>2. \A i \in 0..n : g[i] = e(i)
    BY <2>1
  <2>3. 0 \in 0..n /\ \A i \in 1..n : i \in 0..n /\ i # 0
    BY <1>1
  <2> QED
    BY <2>2, <2>3 DEF e
<1> DEFINE S0 == {i \in 0..n : g[i] = p[i]}
<1>8. 0 \in S0
  BY <1>1, <1>4, <1>7
<1>9. ASSUME NEW i \in 0..(n - 1), i \in S0 PROVE i + 1 \in S0
  <2>1. i + 1 \in 1..n /\ i + 1 \in 0..n /\ (i + 1) - 1 = i
    BY <1>1
  <2>2. g[i + 1] = Executed(g[i], q[i + 1]) /\ p[i + 1] = Executed(p[i], q[i + 1])
    BY <1>4, <1>7, <2>1
  <2> QED
    BY <1>9, <2>1, <2>2
<1> HIDE DEF S0
<1>10. n \in S0
  BY <1>1, <1>8, <1>9, OneByOne
<1> QED
  BY <1>2, <1>3, <1>10 DEF S0

\* The groups G of statements, one behind the other, when each leads from the rows
\* before it to the rows before the next.
LEMMA LeadsJoined ==
  ASSUME NEW S, NEW n \in Nat, NEW G \in [1..n -> Seq(S)], NEW w,
         \A i \in 1..n : Leads(w[i - 1], G[i], w[i])
  PROVE  FlattenSeq(G) \in Seq(S) /\ Leads(w[0], FlattenSeq(G), w[n])
<1>1. Len(G) = n
  OBVIOUS
<1>2. CASE n = 0
  <2>1. G = <<>>
    BY <1>1, <1>2
  <2>2. FlattenSeq(G) = <<>>
    BY <1>1, <1>2, <2>1 DEF FlattenSeq
  <2>3. <<>> \in Seq(S)
    OBVIOUS
  <2> QED
    BY <1>2, <2>2, <2>3, LeadsNone
<1>3. CASE n # 0
  <2> DEFINE J(f, m) == f = [i \in 1..m |-> IF i = 1 THEN G[i] ELSE f[i - 1] \o G[i]]
  <2>1. \E f : J(f, n)
    <3> DEFINE T == {m \in 0..n : \E f : J(f, m)}
    <3>1. 0 \in T
      <4> DEFINE f == [i \in 1..0 |-> 0]
      <4>1. f = [i \in 1..0 |-> IF i = 1 THEN G[i] ELSE f[i - 1] \o G[i]]
        OBVIOUS
      <4>2. J(f, 0)
        BY <4>1
      <4>3. 0 \in 0..n
        OBVIOUS
      <4> HIDE DEF f, J
      <4> QED
        BY <4>2, <4>3
    <3>2. ASSUME NEW m \in 0..(n - 1), m \in T PROVE m + 1 \in T
      <4>1. PICK f : J(f, m)
        BY <3>2
      <4>2. m \in Nat /\ m + 1 \in 0..n
        OBVIOUS
      <4>3. \A i \in 1..m : f[i] = IF i = 1 THEN G[i] ELSE f[i - 1] \o G[i]
        <5> DEFINE e(i) == IF i = 1 THEN G[i] ELSE f[i - 1] \o G[i]
        <5>1. f = [i \in 1..m |-> e(i)]
          BY <4>1
        <5> HIDE DEF e
        <5>2. \A i \in 1..m : f[i] = e(i)
          BY <5>1
        <5> QED
          BY <5>2 DEF e
      <4> DEFINE g == [i \in 1..(m + 1) |-> IF i = m + 1 THEN (IF i = 1 THEN G[i] ELSE f[m] \o G[i])
                                            ELSE f[i]]
      <4>4. ASSUME NEW i \in 1..(m + 1) PROVE g[i] = IF i = 1 THEN G[i] ELSE g[i - 1] \o G[i]
        <5>1. CASE i = m + 1
          <6>1. CASE i = 1
            BY <5>1, <6>1
          <6>2. CASE i # 1
            <7>1. i - 1 = m /\ m \in 1..(m + 1) /\ m # m + 1
              BY <4>2, <5>1, <6>2
            <7>2. g[i - 1] = f[m]
              BY <7>1
            <7> QED
              BY <5>1, <6>2, <7>2
          <6> QED
            BY <6>1, <6>2
        <5>2. CASE i # m + 1
          <6>1. i \in 1..m /\ g[i] = f[i]
            BY <4>2, <5>2
          <6>2. CASE i = 1
            BY <4>3, <6>1, <6>2
          <6>3. CASE i # 1
            <7>1. i - 1 \in 1..(m + 1) /\ i - 1 # m + 1
              BY <4>2, <6>1, <6>3
            <7>2. g[i - 1] = f[i - 1]
              BY <7>1
            <7> QED
              BY <4>3, <6>1, <6>3, <7>2
          <6> QED
            BY <6>2, <6>3
        <5> QED
          BY <5>1, <5>2
      <4>5. g = [i \in 1..(m + 1) |-> g[i]]
        OBVIOUS
      <4> HIDE DEF g
      <4>6. J(g, m + 1)
        BY <4>4, <4>5
      <4> HIDE DEF J
      <4> QED
        BY <4>2, <4>6
    <3> HIDE DEF T
    <3>3. n \in T
      BY <3>1, <3>2, OneByOne
    <3> QED
      BY <3>3 DEF T
  <2> DEFINE g == CHOOSE f : f = [i \in 1..n |-> IF i = 1 THEN G[i] ELSE f[i - 1] \o G[i]]
  <2>2. FlattenSeq(G) = g[n]
    BY <1>1, <1>3 DEF FlattenSeq
  <2>3. J(g, n)
    BY <2>1
  <2> HIDE DEF g
  <2>4. \A i \in 1..n : g[i] = IF i = 1 THEN G[i] ELSE g[i - 1] \o G[i]
    <3> DEFINE e(i) == IF i = 1 THEN G[i] ELSE g[i - 1] \o G[i]
    <3>1. g = [i \in 1..n |-> e(i)]
      BY <2>3
    <3> HIDE DEF e, J
    <3>2. \A i \in 1..n : g[i] = e(i)
      BY <3>1
    <3> QED
      BY <3>2 DEF e
  <2> HIDE DEF J
  <2> DEFINE T == {i \in 0..n : i # 0 => g[i] \in Seq(S) /\ Leads(w[0], g[i], w[i])}
  <2>5. 0 \in T
    OBVIOUS
  <2>6. ASSUME NEW i \in 0..(n - 1), i \in T PROVE i + 1 \in T
    <3>1. i + 1 \in 1..n /\ i + 1 \in 0..n /\ (i + 1) - 1 = i /\ (i + 1 = 1 <=> i = 0)
      OBVIOUS
    <3>2. G[i + 1] \in Seq(S) /\ Leads(w[i], G[i + 1], w[i + 1])
      BY <3>1
    <3>3. CASE i = 0
      <4>1. g[i + 1] = G[i + 1]
        BY <2>4, <3>1, <3>3
      <4> QED
        BY <3>1, <3>2, <3>3, <4>1
    <3>4. CASE i # 0
      <4>1. g[i + 1] = g[i] \o G[i + 1]
        BY <2>4, <3>1, <3>4
      <4>2. g[i] \in Seq(S) /\ Leads(w[0], g[i], w[i])
        BY <2>6, <3>4
      <4>3. g[i] \o G[i + 1] \in Seq(S)
        BY <3>2, <4>2, ConcatProperties
      <4>4. Leads(w[0], g[i] \o G[i + 1], w[i + 1])
        BY <3>2, <4>2, LeadsOn
      <4> QED
        BY <3>1, <4>1, <4>3, <4>4
    <3> QED
      BY <3>3, <3>4
  <2> HIDE DEF T
  <2>7. n \in T
    BY <2>5, <2>6, OneByOne
  <2> QED
    BY <1>3, <2>2, <2>7 DEF T
<1> QED
  BY <1>2, <1>3

-----------------------------------------------------------------------------
(***************************************************************************)
(* Rows and memory.                                                        *)
(***************************************************************************)

LEMMA SavedIs ==
  ASSUME NEW a \in Obj
  PROVE  Saved(a) \in Obj /\ Alike(Saved(a), a)
BY DEF Saved, Obj, Alike

\* What a fight is does not hang on its houses, its games or its reports.
LEMMA FoughtStays ==
  ASSUME NEW o, NEW c, NEW o1, NEW c1, Fought(o, c), SameRound(o, c, o1, c1)
  PROVE  Fought(o1, c1)
<1>1. Going(o1, c1) /\ Valid(o1) = Valid(o)
  BY GoingStays DEF Fought
<1>2. DOMAIN o1 = DOMAIN o /\ DOMAIN c1 = DOMAIN c
  BY DEF SameRound
<1>3. DOMAIN c1 = {} => Played(o1)
  BY <1>1, <1>2 DEF Fought, Played
<1>4. DOMAIN o1 # {} => \E v \in Nat : Tree(o1, c1, v)
  <2> SUFFICES ASSUME DOMAIN o1 # {} PROVE \E v \in Nat : Tree(o1, c1, v)
    OBVIOUS
  <2>1. PICK v \in Nat : Tree(o, c, v)
    BY <1>2 DEF Fought
  <2>2. Tree(o1, c1, v)
    BY <2>1, RoundStays DEF Fought
  <2> QED
    BY <2>2
<1> QED
  BY <1>1, <1>3, <1>4 DEF Fought

LEMMA EnteredStays ==
  ASSUME NEW o, NEW c, NEW o1, NEW c1, Entered(o, c), SameRound(o, c, o1, c1)
  PROVE  Entered(o1, c1)
BY DEF Entered, SameRound

LEMMA LiveStays ==
  ASSUME NEW s, NEW o, NEW c, NEW o1, NEW c1, Live(s, o, c), SameRound(o, c, o1, c1),
         ObjsType(o1), ChallsType(c1)
  PROVE  Live(s, o1, c1)
<1>1. Fought(o, c) => Fought(o1, c1)
  BY FoughtStays
<1>2. Entered(o, c) => Entered(o1, c1)
  BY EnteredStays
<1>3. DOMAIN c1 = DOMAIN c
  BY DEF SameRound
<1> QED
  BY <1>1, <1>2, <1>3 DEF Live

\* Rows that have caught up with a fight can be resumed.
LEMMA CaughtUp ==
  ASSUME NEW s, NEW o, NEW c, NEW b, Live(s, o, c), Like(b, o)
  PROVE  Live(s, b, c) /\ NoHouse(b) /\ Resumable(Tables(s, b, c))
<1>1. SameRound(o, c, b, c)
  BY DEF SameRound, Like, Alike
<1>2. ObjsType(b) /\ ChallsType(c)
  BY DEF Like, Live
<1>3. Live(s, b, c)
  BY <1>1, <1>2, LiveStays
<1>4. NoHouse(b)
  BY DEF Like, Alike, NoHouse
<1> QED
  BY <1>3, <1>4 DEF Resumable

LEMMA CaughtResumes ==
  ASSUME NEW s, NEW o, NEW c, NEW r, Live(s, o, c), Caught(r, s, o, c)
  PROVE  Resumable(r)
<1>1. PICK b : r = Tables(s, b, c) /\ Like(b, o)
  BY DEF Caught
<1> QED
  BY <1>1, CaughtUp

\* What each statement does.
LEMMA ExecutedObj ==
  ASSUME NEW s, NEW b, NEW c, NEW t, NEW a, NEW f
  PROVE  /\ Executed(Tables(s, b, c), UpdateFightObj(t, a, f)) = Tables(s, Put(b, t, Saved(a)), c)
         /\ UpdateFightObj(t, a, f).safe = f
BY DEF Executed, Tables, UpdateFightObj

LEMMA ExecutedChall ==
  ASSUME NEW s, NEW b, NEW c, NEW k, NEW m, NEW f
  PROVE  /\ Executed(Tables(s, b, c), UpdateChallData(k, m, f)) = Tables(s, b, Put(c, k, m))
         /\ UpdateChallData(k, m, f).safe = f
BY DEF Executed, Tables, UpdateChallData

Dropped(c, k) == [j \in DOMAIN c \ {k} |-> c[j]]

LEMMA ExecutedErase ==
  ASSUME NEW s, NEW b, NEW c, NEW k
  PROVE  /\ Executed(Tables(s, b, c), EraseChallData(k)) = Tables(s, b, Dropped(c, k))
         /\ EraseChallData(k).safe = FALSE
BY DEF Executed, Tables, EraseChallData, Dropped

LEMMA ExecutedStatus ==
  ASSUME NEW s, NEW b, NEW c, NEW s2, NEW f
  PROVE  /\ Executed(Tables(s, b, c), UpdateFightStatus(s2, f)) = Tables(s2, b, c)
         /\ UpdateFightStatus(s2, f).safe = f
BY DEF Executed, Tables, UpdateFightStatus

LEMMA StatementsAre ==
  /\ \A t \in Teams, a \in Obj, f \in BOOLEAN : UpdateFightObj(t, a, f) \in Statements
  /\ \A k \in Teams, m \in Challenge, f \in BOOLEAN : UpdateChallData(k, m, f) \in Statements
  /\ \A k \in Teams : EraseChallData(k) \in Statements
  /\ \A s \in {"set", "apply", "fight", "stop"}, f \in BOOLEAN :
        UpdateFightStatus(s, f) \in Statements
<1>1. ASSUME NEW t \in Teams, NEW a \in Obj, NEW f \in BOOLEAN
      PROVE  UpdateFightObj(t, a, f) \in Statements
  <2>1. Saved(a) \in Obj
    BY SavedIs
  <2> QED
    BY <2>1 DEF UpdateFightObj, Statements
<1>2. ASSUME NEW k \in Teams, NEW m \in Challenge, NEW f \in BOOLEAN
      PROVE  UpdateChallData(k, m, f) \in Statements
  BY DEF UpdateChallData, Statements
<1>3. ASSUME NEW k \in Teams PROVE EraseChallData(k) \in Statements
  BY DEF EraseChallData, Statements
<1>4. ASSUME NEW s \in {"set", "apply", "fight", "stop"}, NEW f \in BOOLEAN
      PROVE  UpdateFightStatus(s, f) \in Statements
  BY DEF UpdateFightStatus, Statements
<1> QED
  BY <1>1, <1>2, <1>3, <1>4

\* Rows in which the teams of T have been written, out of o, over b.
Written(b, o, T) == [t \in DOMAIN o |-> IF t \in T THEN Saved(o[t]) ELSE b[t]]

LEMMA WriteTeam ==
  ASSUME NEW b, NEW o, NEW T, NEW t \in DOMAIN o
  PROVE  Put(Written(b, o, T), t, Saved(o[t])) = Written(b, o, T \cup {t})
BY DEF Put, Written

LEMMA WrittenNone ==
  ASSUME NEW b, NEW o, ObjsType(b), DOMAIN b = DOMAIN o
  PROVE  Written(b, o, {}) = b
<1>1. b = [t \in DOMAIN o |-> b[t]]
  BY DEF ObjsType
<1> QED
  BY <1>1 DEF Written

LEMMA WrittenTypes ==
  ASSUME NEW b, NEW o, NEW T, ObjsType(o), ObjsType(b), DOMAIN b = DOMAIN o
  PROVE  /\ ObjsType(Written(b, o, T)) /\ DOMAIN Written(b, o, T) = DOMAIN o
         /\ \A t \in DOMAIN o : Written(b, o, T)[t] = IF t \in T THEN Saved(o[t]) ELSE b[t]
<1> DEFINE w == Written(b, o, T)
<1>1. \A t \in DOMAIN o : w[t] = IF t \in T THEN Saved(o[t]) ELSE b[t]
  BY DEF Written
<1>2. DOMAIN w = DOMAIN o /\ w = [t \in DOMAIN w |-> w[t]]
  BY DEF Written
<1> HIDE DEF w
<1>3. \A t \in DOMAIN o : w[t] \in Obj
  <2> TAKE t \in DOMAIN o
  <2>1. o[t] \in Obj /\ b[t] \in Obj
    BY ObjIs
  <2> QED
    BY <1>1, <2>1, SavedIs
<1>4. w \in [DOMAIN w -> Obj]
  BY <1>2, <1>3
<1>5. ObjsType(w)
  BY <1>2, <1>4 DEF ObjsType
<1> QED
  BY <1>1, <1>2, <1>5 DEF w

LEMMA WrittenLike ==
  ASSUME NEW b, NEW o, NEW o1, NEW T, ObjsType(o), ObjsType(b), DOMAIN b = DOMAIN o,
         DOMAIN o1 = DOMAIN o,
         \A t \in DOMAIN o : t \in T => Alike(Saved(o[t]), o1[t]),
         \A t \in DOMAIN o : t \notin T => Alike(b[t], o1[t])
  PROVE  Like(Written(b, o, T), o1)
<1>1. /\ ObjsType(Written(b, o, T)) /\ DOMAIN Written(b, o, T) = DOMAIN o
      /\ \A t \in DOMAIN o : Written(b, o, T)[t] = IF t \in T THEN Saved(o[t]) ELSE b[t]
  BY WrittenTypes
<1>2. \A t \in DOMAIN o1 : Alike(Written(b, o, T)[t], o1[t])
  BY <1>1
<1> QED
  BY <1>1, <1>2 DEF Like

-----------------------------------------------------------------------------
(***************************************************************************)
(* Walks in the order of the ids.                                          *)
(***************************************************************************)

\* The first i members of S.
Walked(S, i) == {t \in S : Rank(S, t) < i}

\* The teams of the matches of D.
Sides(c, D) == D \cup {c[j].objId2 : j \in D}

LEMMA WalkIs ==
  ASSUME NEW S \in SUBSET Teams, NEW n, n = Cardinality(S)
  PROVE  /\ n \in Nat /\ Walked(S, 0) = {} /\ Walked(S, n) = S
         /\ \A i \in 1..n :
              LET t == InIdOrder(S)[i]
              IN /\ t \in S /\ t \in Teams /\ Rank(S, t) = i - 1
                 /\ Walked(S, i) = Walked(S, i - 1) \cup {t} /\ t \notin Walked(S, i - 1)
<1>1. /\ n \in Nat /\ \A t \in S : Rank(S, t) \in 0..(n - 1)
      /\ \A t, u \in S : Rank(S, t) = Rank(S, u) => t = u
      /\ \A r \in 0..(n - 1) : \E t \in S : Rank(S, t) = r
  BY RankFacts
<1>2. Walked(S, 0) = {} /\ Walked(S, n) = S
  BY <1>1 DEF Walked
<1>3. ASSUME NEW i \in 1..n
      PROVE  LET t == InIdOrder(S)[i]
             IN /\ t \in S /\ t \in Teams /\ Rank(S, t) = i - 1
                /\ Walked(S, i) = Walked(S, i - 1) \cup {t} /\ t \notin Walked(S, i - 1)
  <2> DEFINE t == InIdOrder(S)[i]
  <2>1. i - 1 \in 0..(n - 1)
    BY <1>1
  <2>2. t = CHOOSE u \in S : Rank(S, u) = i - 1
    BY DEF InIdOrder
  <2>3. \E u \in S : Rank(S, u) = i - 1
    BY <1>1, <2>1
  <2> HIDE DEF t
  <2>4. t \in S /\ Rank(S, t) = i - 1
    BY <2>2, <2>3
  <2>5. ASSUME NEW u \in S PROVE Rank(S, u) < i <=> Rank(S, u) < i - 1 \/ u = t
    BY <1>1, <2>4
  <2>6. Walked(S, i) = Walked(S, i - 1) \cup {t} /\ t \notin Walked(S, i - 1)
    BY <1>1, <2>4, <2>5 DEF Walked
  <2>7. t \in Teams
    BY <2>4
  <2> QED
    BY <2>4, <2>6, <2>7 DEF t
<1> QED
  BY <1>1, <1>2, <1>3

LEMMA SidesAre ==
  ASSUME NEW c, NEW D, NEW k
  PROVE  Sides(c, D \cup {k}) = Sides(c, D) \cup {k, c[k].objId2}
BY DEF Sides

LEMMA WriteMatch ==
  ASSUME NEW c, NEW D, NEW k
  PROVE  Put(Restrict(c, D), k, c[k]) = Restrict(c, D \cup {k})
BY DEF Put, Restrict

\* A queue with one statement ahead of it.
LEMMA Ahead ==
  ASSUME NEW S, NEW p \in Seq(S), Len(p) = 1, NEW q \in Seq(S)
  PROVE  /\ p \o q \in Seq(S) /\ Len(p \o q) = Len(q) + 1 /\ (p \o q)[1] = p[1]
         /\ \A i \in 1..Len(q) : (p \o q)[i + 1] = q[i]
<1>1. /\ p \o q \in Seq(S) /\ Len(p \o q) = Len(p) + Len(q)
      /\ \A i \in 1..Len(p) + Len(q) : (p \o q)[i] = IF i <= Len(p) THEN p[i] ELSE q[i - Len(p)]
  BY ConcatProperties
<1>2. Len(q) \in Nat
  OBVIOUS
<1>3. (p \o q)[1] = p[1]
  BY <1>1, <1>2
<1>4. \A i \in 1..Len(q) : (p \o q)[i + 1] = q[i]
  <2> TAKE i \in 1..Len(q)
  <2>1. i + 1 \in 1..Len(p) + Len(q) /\ ~(i + 1 <= Len(p)) /\ (i + 1) - Len(p) = i
    BY <1>2
  <2> QED
    BY <1>1, <2>1
<1> QED
  BY <1>1, <1>2, <1>3, <1>4

LEMMA TwoAre ==
  ASSUME NEW S, NEW a \in S, NEW b \in S
  PROVE  <<a>> \o <<b>> = <<a, b>> /\ <<a, b>> \in Seq(S)
<1> DEFINE p == <<a>>
           q == <<b>>
           r == <<a, b>>
<1>1. /\ p \in Seq(S) /\ Len(p) = 1 /\ p[1] = a
      /\ q \in Seq(S) /\ Len(q) = 1 /\ q[1] = b /\ 1 \in 1..1 /\ 1 + 1 = 2
  OBVIOUS
<1>2. r \in Seq(S) /\ Len(r) = 2 /\ r[1] = a /\ r[2] = b /\ \A i \in 1..2 : i \in {1, 2}
  OBVIOUS
<1> HIDE DEF p, q, r
<1>3. /\ p \o q \in Seq(S) /\ Len(p \o q) = Len(q) + 1 /\ (p \o q)[1] = p[1]
      /\ \A i \in 1..Len(q) : (p \o q)[i + 1] = q[i]
  BY <1>1, Ahead
<1>4. (p \o q)[1] = a /\ (p \o q)[2] = b
  BY <1>1, <1>3
<1>5. \A i \in 1..2 : (p \o q)[i] = r[i]
  BY <1>2, <1>4
<1>6. p \o q = r
  BY <1>1, <1>2, <1>3, <1>5, SeqEqual
<1> QED
  BY <1>2, <1>6 DEF p, q, r

LEMMA ThreeAre ==
  ASSUME NEW S, NEW a \in S, NEW b \in S, NEW c \in S
  PROVE  <<a>> \o <<b, c>> = <<a, b, c>> /\ <<a, b, c>> \in Seq(S)
<1> DEFINE p == <<a>>
           q == <<b, c>>
           r == <<a, b, c>>
<1>1. /\ p \in Seq(S) /\ Len(p) = 1 /\ p[1] = a
      /\ q \in Seq(S) /\ Len(q) = 2 /\ q[1] = b /\ q[2] = c
      /\ 1 \in 1..2 /\ 2 \in 1..2 /\ 1 + 1 = 2 /\ 2 + 1 = 3
  OBVIOUS
<1>2. /\ r \in Seq(S) /\ Len(r) = 3 /\ r[1] = a /\ r[2] = b /\ r[3] = c
      /\ \A i \in 1..3 : i \in {1, 2, 3}
  OBVIOUS
<1> HIDE DEF p, q, r
<1>3. /\ p \o q \in Seq(S) /\ Len(p \o q) = Len(q) + 1 /\ (p \o q)[1] = p[1]
      /\ \A i \in 1..Len(q) : (p \o q)[i + 1] = q[i]
  BY <1>1, Ahead
<1>4. (p \o q)[1] = a /\ (p \o q)[2] = b /\ (p \o q)[3] = c
  BY <1>1, <1>3
<1>5. \A i \in 1..3 : (p \o q)[i] = r[i]
  BY <1>2, <1>4
<1>6. p \o q = r
  BY <1>1, <1>2, <1>3, <1>5, SeqEqual
<1> QED
  BY <1>2, <1>6 DEF p, q, r

LEMMA FourAre ==
  ASSUME NEW S, NEW a \in S, NEW b \in S, NEW c \in S, NEW d \in S
  PROVE  <<a>> \o (<<b>> \o (<<c>> \o <<d>>)) = <<a, b, c, d>>
<1> DEFINE p == <<a>>
           q == <<b, c, d>>
           r == <<a, b, c, d>>
<1>1. /\ p \in Seq(S) /\ Len(p) = 1 /\ p[1] = a
      /\ q \in Seq(S) /\ Len(q) = 3 /\ q[1] = b /\ q[2] = c /\ q[3] = d
      /\ 1 \in 1..3 /\ 2 \in 1..3 /\ 3 \in 1..3 /\ 1 + 1 = 2 /\ 2 + 1 = 3 /\ 3 + 1 = 4
  OBVIOUS
<1>2. /\ r \in Seq(S) /\ Len(r) = 4 /\ r[1] = a /\ r[2] = b /\ r[3] = c /\ r[4] = d
      /\ \A i \in 1..4 : i \in {1, 2, 3, 4}
  OBVIOUS
<1>3. <<b>> \o (<<c>> \o <<d>>) = q
  <2>1. <<c>> \o <<d>> = <<c, d>>
    BY TwoAre
  <2>2. <<b>> \o <<c, d>> = <<b, c, d>>
    BY ThreeAre
  <2> QED
    BY <2>1, <2>2
<1> HIDE DEF p, q, r
<1>4. /\ p \o q \in Seq(S) /\ Len(p \o q) = Len(q) + 1 /\ (p \o q)[1] = p[1]
      /\ \A i \in 1..Len(q) : (p \o q)[i + 1] = q[i]
  <2>1. p \in Seq(S) /\ Len(p) = 1 /\ q \in Seq(S)
    BY <1>1
  <2> QED
    BY <2>1, Ahead
<1>5. (p \o q)[1] = a /\ (p \o q)[2] = b /\ (p \o q)[3] = c /\ (p \o q)[4] = d
  BY <1>1, <1>4
<1>6. \A i \in 1..4 : (p \o q)[i] = r[i]
  BY <1>2, <1>5
<1>7. p \o q = r
  BY <1>1, <1>2, <1>4, <1>6, SeqEqual
<1> QED
  BY <1>3, <1>7 DEF p, r

\* The statement s and then those of q.
LEMMA LeadsThen ==
  ASSUME NEW r, NEW r2, NEW S, NEW s \in S, NEW q \in Seq(S),
         s.safe => Resumable(r), Leads(Executed(r, s), q, r2)
  PROVE  <<s>> \o q \in Seq(S) /\ Leads(r, <<s>> \o q, r2)
<1>1. Leads(r, <<s>>, Executed(r, s))
  BY LeadsOne
<1>2. <<s>> \in Seq(S)
  OBVIOUS
<1>3. <<s>> \o q \in Seq(S)
  BY <1>2, ConcatProperties
<1> QED
  BY <1>1, <1>2, <1>3, LeadsOn

LEMMA LeadsLast ==
  ASSUME NEW r, NEW S, NEW s \in S, s.safe => Resumable(r)
  PROVE  <<s>> \in Seq(S) /\ Leads(r, <<s>>, Executed(r, s))
BY LeadsOne

-----------------------------------------------------------------------------
(***************************************************************************)
(* The seeding.                                                            *)
(***************************************************************************)

LEMMA SeedPairLeads ==
  ASSUME NEW s, NEW b, NEW o, NEW c, NEW d, NEW T, ObjsType(o), ChallsType(c),
         NEW k \in DOMAIN c, k \in DOMAIN o, c[k].objId2 = 0 \/ c[k].objId2 \in DOMAIN o,
         NEW first \in BOOLEAN, first <=> \A j \in UpperHalf(DOMAIN o) : k <= j,
         first => \A U : Resumable(Tables(s, Written(b, o, U), d))
  PROVE  /\ SeedPair(o, c, k) \in Seq(Statements)
         /\ Leads(Tables(s, Written(b, o, T), d), SeedPair(o, c, k),
                  Tables(s, Written(b, o, T \cup {k, c[k].objId2}), Put(d, k, c[k])))
<1> DEFINE u == c[k].objId2
           r(U)  == Tables(s, Written(b, o, U), d)
           r2    == Tables(s, Written(b, o, T \cup {k, u}), Put(d, k, c[k]))
           x     == UpdateFightObj(k, o[k], first)
           y     == UpdateFightObj(u, o[u], first)
           z     == UpdateChallData(k, c[k], first)
<1>2. k \in Teams /\ o[k] \in Obj /\ c[k] \in Challenge /\ (u # 0 => u \in Teams /\ o[u] \in Obj)
  BY ObjIs, ChallIs
<1>3. x.safe = first /\ y.safe = first /\ z.safe = first
  BY ExecutedObj, ExecutedChall
<1>4. first => \A U : Resumable(r(U))
  OBVIOUS
<1>5. Executed(r(T), x) = r(T \cup {k})
  <2>1. Executed(r(T), x) = Tables(s, Put(Written(b, o, T), k, Saved(o[k])), d)
    BY ExecutedObj
  <2> QED
    BY <2>1, WriteTeam
<1>6. u # 0 => Executed(r(T \cup {k}), y) = r(T \cup {k, u})
  <2> SUFFICES ASSUME u # 0 PROVE Executed(r(T \cup {k}), y) = r(T \cup {k, u})
    OBVIOUS
  <2>1. u \in DOMAIN o
    OBVIOUS
  <2>2. Executed(r(T \cup {k}), y) = Tables(s, Put(Written(b, o, T \cup {k}), u, Saved(o[u])), d)
    BY ExecutedObj
  <2>3. Put(Written(b, o, T \cup {k}), u, Saved(o[u])) = Written(b, o, (T \cup {k}) \cup {u})
    BY <2>1, WriteTeam
  <2>4. (T \cup {k}) \cup {u} = T \cup {k, u}
    OBVIOUS
  <2> QED
    BY <2>2, <2>3, <2>4
<1>7. Executed(r(T \cup {k, u}), z) = r2
  BY ExecutedChall
<1>8. u = 0 => r(T \cup {k, u}) = r(T \cup {k})
  <2> SUFFICES ASSUME u = 0 PROVE Written(b, o, T \cup {k, u}) = Written(b, o, T \cup {k})
    OBVIOUS
  <2>1. \A t \in DOMAIN o : t # 0
    BY NoTeamZero DEF ObjsType
  <2>2. \A t \in DOMAIN o : t \in T \cup {k, u} <=> t \in T \cup {k}
    BY <2>1
  <2> QED
    BY <2>2 DEF Written
<1>9. x \in Statements /\ z \in Statements /\ (u # 0 => y \in Statements)
  BY <1>2, StatementsAre
<1>10. SeedPair(o, c, k) = <<x>> \o (IF u = 0 THEN <<>> ELSE <<y>>) \o <<z>>
  BY DEF SeedPair
<1> HIDE DEF r, r2, x, y, z, u
<1>11. <<z>> \in Seq(Statements) /\ Leads(r(T \cup {k, u}), <<z>>, r2)
  BY <1>3, <1>4, <1>7, <1>9, LeadsLast
<1>12. CASE u = 0
  <2>1. <<x>> \o <<z>> \in Seq(Statements) /\ Leads(r(T), <<x>> \o <<z>>, r2)
    BY <1>3, <1>4, <1>5, <1>8, <1>9, <1>11, <1>12, LeadsThen
  <2>2. SeedPair(o, c, k) = <<x>> \o <<z>>
    BY <1>9, <1>10, <1>12
  <2> QED
    BY <2>1, <2>2 DEF r, r2, u
<1>13. CASE u # 0
  <2>1. <<y>> \o <<z>> \in Seq(Statements) /\ Leads(r(T \cup {k}), <<y>> \o <<z>>, r2)
    BY <1>3, <1>4, <1>6, <1>9, <1>11, <1>13, LeadsThen
  <2>2. /\ <<x>> \o (<<y>> \o <<z>>) \in Seq(Statements)
        /\ Leads(r(T), <<x>> \o (<<y>> \o <<z>>), r2)
    BY <1>3, <1>4, <1>5, <1>9, <2>1, LeadsThen
  <2>3. SeedPair(o, c, k) = <<x>> \o (<<y>> \o <<z>>)
    BY <1>9, <1>10, <1>13
  <2> QED
    BY <2>2, <2>3 DEF r, r2, u
<1> QED
  BY <1>12, <1>13

\* A start that seeds the entered teams leads the rows to the first round.
LEMMA SeedLeads ==
  ASSUME ObjsType(objs), ChallsType(challs), Entered(objs, challs), InitPosition,
         NEW b, Like(b, objs)
  PROVE  /\ SeedStmts(objs', challs') \in Seq(Statements)
         /\ \E r : /\ Leads(Tables("apply", b, challs), SeedStmts(objs', challs'), r)
                   /\ Caught(r, "fight", objs', challs')
<1> DEFINE o == objs'
           c == challs'
           K == UpperHalf(DOMAIN o)
           n == Cardinality(K)
           d(i) == Restrict(c, Walked(K, i))
           w == [i \in 0..n |-> Tables("apply", Written(b, o, Sides(c, Walked(K, i))), d(i))]
           G == [i \in 1..n |-> SeedPair(o, c, InIdOrder(K)[i])]
<1>1. ObjsType(o) /\ ChallsType(c) /\ DOMAIN o = DOMAIN objs
  BY FirstRound
<1>2. K \in SUBSET Teams /\ K \subseteq DOMAIN o
  BY <1>1 DEF UpperHalf, ObjsType
<1>3. /\ c = [k \in K |-> Match(k, Opponent(DOMAIN o, k))]
      /\ \A t \in DOMAIN o : o[t].status = objs[t].status /\ o[t].value = objs[t].value
  <2>1. DOMAIN challs = {}
    BY DEF Entered
  <2>2. \A t \in DOMAIN objs : objs[t] \in Obj
    BY ObjIs
  <2> QED
    BY <1>1, <2>1, <2>2 DEF InitPosition, Obj
<1>4. \A k \in K : c[k].objId2 = Opponent(DOMAIN o, k)
  BY <1>3 DEF Match
<1>5. DOMAIN o # {} => /\ \A t \in DOMAIN o : Opponent(DOMAIN o, t) \in DOMAIN o \cup {0}
                       /\ \A t \in DOMAIN o : t \notin K =>
                            /\ Opponent(DOMAIN o, t) \in K
                            /\ Opponent(DOMAIN o, Opponent(DOMAIN o, t)) = t
  <2> SUFFICES ASSUME DOMAIN o # {}
               PROVE  /\ \A t \in DOMAIN o : Opponent(DOMAIN o, t) \in DOMAIN o \cup {0}
                      /\ \A t \in DOMAIN o : t \notin K =>
                           /\ Opponent(DOMAIN o, t) \in K
                           /\ Opponent(DOMAIN o, Opponent(DOMAIN o, t)) = t
    OBVIOUS
  <2>1. DOMAIN o \in SUBSET Teams
    BY <1>1 DEF ObjsType
  <2> QED
    BY <2>1, SeedsAre
<1>6. \A k \in K : c[k].objId2 = 0 \/ c[k].objId2 \in DOMAIN o
  BY <1>2, <1>4, <1>5
<1>7. ObjsType(b) /\ DOMAIN b = DOMAIN o /\ \A t \in DOMAIN o : Alike(b[t], objs[t])
  BY <1>1 DEF Like
<1>8. /\ n \in Nat /\ Walked(K, 0) = {} /\ Walked(K, n) = K
      /\ \A i \in 1..n :
           LET t == InIdOrder(K)[i]
           IN /\ t \in K /\ t \in Teams /\ Rank(K, t) = i - 1
              /\ Walked(K, i) = Walked(K, i - 1) \cup {t} /\ t \notin Walked(K, i - 1)
  BY <1>2, WalkIs
<1>9. ASSUME NEW U, NEW e, DOMAIN e = {}, ChallsType(e)
      PROVE  Resumable(Tables("apply", Written(b, o, U), e))
  <2> DEFINE x == Written(b, o, U)
  <2>1. /\ ObjsType(x) /\ DOMAIN x = DOMAIN o
        /\ \A t \in DOMAIN o : x[t] = IF t \in U THEN Saved(o[t]) ELSE b[t]
    BY <1>1, <1>7, WrittenTypes
  <2> HIDE DEF x
  <2>2. ASSUME NEW t \in DOMAIN o PROVE x[t].status = 1 /\ x[t].value = 0 /\ x[t].house = FALSE
    <3>1. objs[t].status = 1 /\ objs[t].value = 0
      BY <1>1 DEF Entered
    <3>2. Alike(b[t], objs[t]) /\ Alike(Saved(o[t]), o[t])
      BY <1>1, <1>7, ObjIs, SavedIs
    <3> QED
      BY <1>3, <2>1, <3>1, <3>2 DEF Alike
  <2>3. Entered(x, e) /\ NoHouse(x)
    BY <1>9, <2>1, <2>2 DEF Entered, NoHouse
  <2>4. Live("apply", x, e)
    BY <1>9, <2>1, <2>3 DEF Live
  <2> QED
    BY <2>3, <2>4 DEF Resumable, x
<1>10. ASSUME NEW i \in 1..n
       PROVE  G[i] \in Seq(Statements) /\ Leads(w[i - 1], G[i], w[i])
  <2> DEFINE k == InIdOrder(K)[i]
             D == Walked(K, i - 1)
  <2>1. k \in K /\ Rank(K, k) = i - 1 /\ Walked(K, i) = D \cup {k}
    BY <1>8
  <2>2. i - 1 \in 0..n /\ i \in 0..n /\ G[i] = SeedPair(o, c, k)
    BY <1>8
  <2> HIDE DEF k
  <2>3. k \in DOMAIN c /\ k \in DOMAIN o
    BY <1>2, <1>3, <2>1
  <2>4. ASSUME \A j \in K : k <= j, NEW U
        PROVE  Resumable(Tables("apply", Written(b, o, U), Restrict(c, D)))
    <3>1. {u \in K : u < k} = {}
      <4>1. \A u \in K : u \in Nat
        BY <1>2, TeamsAssumption
      <4> QED
        BY <2>1, <2>4, <4>1
    <3>2. Rank(K, k) = 0
      BY <3>1, FS_EmptySet DEF Rank
    <3>3. D = {}
      BY <1>8, <2>1, <3>2
    <3>4. DOMAIN Restrict(c, D) = {} /\ ChallsType(Restrict(c, D))
      BY <3>3 DEF Restrict, ChallsType
    <3> QED
      BY <1>9, <3>4
  <2>5. PICK first \in BOOLEAN : first <=> (\A j \in UpperHalf(DOMAIN o) : k <= j)
    OBVIOUS
  <2>6. first => \A U : Resumable(Tables("apply", Written(b, o, U), Restrict(c, D)))
    BY <2>4, <2>5
  <2>7. c[k].objId2 = 0 \/ c[k].objId2 \in DOMAIN o
    BY <1>6, <2>1
  <2> DEFINE T == Sides(c, D)
             e == Restrict(c, D)
  <2>8. /\ SeedPair(o, c, k) \in Seq(Statements)
        /\ Leads(Tables("apply", Written(b, o, T), e), SeedPair(o, c, k),
                 Tables("apply", Written(b, o, T \cup {k, c[k].objId2}), Put(e, k, c[k])))
    <3> HIDE DEF T, e, D, o, c
    <3>1. first => \A U : Resumable(Tables("apply", Written(b, o, U), e))
      BY <2>6 DEF e
    <3> QED
      BY <1>1, <2>3, <2>5, <2>7, <3>1, SeedPairLeads DEF K
  <2>9. w[i - 1] = Tables("apply", Written(b, o, T), e)
    BY <2>2
  <2>10. w[i] = Tables("apply", Written(b, o, T \cup {k, c[k].objId2}), Put(e, k, c[k]))
    <3>1. w[i] = Tables("apply", Written(b, o, Sides(c, Walked(K, i))), Restrict(c, Walked(K, i)))
      BY <2>2
    <3>2. /\ Put(Restrict(c, D), k, c[k]) = Restrict(c, D \cup {k})
          /\ Sides(c, D \cup {k}) = Sides(c, D) \cup {k, c[k].objId2}
      BY WriteMatch, SidesAre
    <3> HIDE DEF w, D, o, c
    <3> QED
      BY <2>1, <3>1, <3>2
  <2> HIDE DEF w, G, T, e, o, c
  <2> QED
    BY <2>2, <2>8, <2>9, <2>10
<1>11. w[0] = Tables("apply", b, challs)
  <2>1. 0 \in 0..n /\ Walked(K, 0) = {}
    BY <1>8
  <2>2. Sides(c, {}) = {}
    BY DEF Sides
  <2>3. Restrict(c, {}) = challs
    <3>1. DOMAIN challs = {} /\ challs = [k \in DOMAIN challs |-> challs[k]]
      BY DEF Entered, ChallsType
    <3> QED
      BY <3>1 DEF Restrict
  <2> QED
    BY <1>7, <2>1, <2>2, <2>3, WrittenNone
<1>12. w[n] = Tables("apply", Written(b, o, Sides(c, K)), c)
  <2>1. n \in 0..n /\ Walked(K, n) = K
    BY <1>8
  <2>2. Restrict(c, K) = c
    BY <1>3 DEF Restrict
  <2> QED
    BY <2>1, <2>2
<1>13. FlattenSeq(G) \in Seq(Statements) /\ Leads(w[0], FlattenSeq(G), w[n])
  <2>1. G \in [1..n -> Seq(Statements)]
    BY <1>10
  <2> HIDE DEF w, G
  <2>2. \A i \in 1..n : Leads(w[i - 1], G[i], w[i])
    BY <1>10
  <2> QED
    BY <1>8, <2>1, <2>2, LeadsJoined
<1> DEFINE s == UpdateFightStatus("fight", DOMAIN o = {})
           x == Written(b, o, Sides(c, K))
<1>14. SeedStmts(o, c) = FlattenSeq(G) \o <<s>>
  BY DEF SeedStmts, Each
<1>15. Like(x, o)
  <2>1. \A t \in DOMAIN o : t \in Sides(c, K)
    BY <1>4, <1>5 DEF Sides
  <2>2. \A t \in DOMAIN o : Alike(Saved(o[t]), o[t])
    BY <1>1, ObjIs, SavedIs
  <2> QED
    BY <1>1, <1>7, <2>1, <2>2, WrittenLike
<1>16. PICK f \in BOOLEAN : f <=> (DOMAIN o = {})
  OBVIOUS
<1>17. s = UpdateFightStatus("fight", f)
  BY <1>16 DEF UpdateFightStatus
<1>18. s \in Statements /\ s.safe = f
  BY <1>17, StatementsAre, ExecutedStatus
<1>19. s.safe => Resumable(w[n])
  <2> SUFFICES ASSUME DOMAIN o = {} PROVE Resumable(w[n])
    BY <1>16, <1>18
  <2>1. DOMAIN c = {}
    BY <1>2, <1>3
  <2> HIDE DEF w, o, c
  <2> QED
    BY <1>1, <1>9, <1>12, <2>1
<1>20. Executed(w[n], s) = Tables("fight", x, c)
  <2> HIDE DEF s, w, o, c
  <2> QED
    BY <1>12, <1>17, ExecutedStatus
<1> HIDE DEF s, w, G, x
<1>21. <<s>> \in Seq(Statements) /\ Leads(w[n], <<s>>, Tables("fight", x, c))
  BY <1>18, <1>19, <1>20, LeadsLast
<1>22. FlattenSeq(G) \o <<s>> \in Seq(Statements)
  BY <1>13, <1>21, ConcatProperties
<1>23. Leads(w[0], FlattenSeq(G) \o <<s>>, Tables("fight", x, c))
  BY <1>13, <1>21, LeadsOn
<1>24. Caught(Tables("fight", x, c), "fight", o, c)
  BY <1>15 DEF Caught
<1> QED
  BY <1>11, <1>14, <1>22, <1>23, <1>24

-----------------------------------------------------------------------------
(***************************************************************************)
(* The settling loop.                                                      *)
(***************************************************************************)

\* The matches of D that the loop erases.
Over(o, c, D) == ByesIn(o, c, D) \cup EndedIn(o, c, D)

\* What the loop makes of one match more: m is the match k, blank again, R and R1
\* are what is left before it and after it.
LoopsOver(o, c, D, k, m, R, R1) ==
  /\ k \in DOMAIN c /\ k \in DOMAIN R
  /\ R[k] = c[k] /\ m \in Challenge
  /\ k \in Byes(o, c) =>
       /\ c[k].objId2 = 0 /\ Over(o, c, D \cup {k}) = Over(o, c, D) \cup {k}
       /\ R1 = Dropped(R, k)
  /\ k \in Ended(o, c) =>
       /\ k \notin Byes(o, c) /\ Over(o, c, D \cup {k}) = Over(o, c, D) \cup {k}
       /\ R1 = Dropped(Put(R, k, m), k)
  /\ k \notin Byes(o, c) /\ k \notin Ended(o, c) =>
       /\ Over(o, c, D \cup {k}) = Over(o, c, D)
       /\ R1 = Put(R, k, m)

LEMMA LoopStep ==
  ASSUME NEW o, NEW c, ObjsType(o), ChallsType(c), Matches(o, c), NEW D,
         NEW k \in Byes(o, c) \cup Decided(o, c), k \notin D
  PROVE  LoopsOver(o, c, D, k, Match(c[k].objId1, c[k].objId2),
                   RemainingIn(o, c, D), RemainingIn(o, c, D \cup {k}))
<1> DEFINE R == RemainingIn(o, c, D)
           R1 == RemainingIn(o, c, D \cup {k})
           m == Match(c[k].objId1, c[k].objId2)
<1> DEFINE B == Byes(o, c)
           C == Decided(o, c)
           E == Ended(o, c)
<1>1. /\ B = {j \in DOMAIN c : c[j].objId2 = 0}
      /\ C = {j \in DOMAIN c :
                /\ c[j].objId2 # 0
                /\ <<c[j].result1, c[j].result2>> \in {<<1, 2>>, <<2, 1>>}}
      /\ E \subseteq C
  BY LoopRuns
<1>2. B \cap C = {} /\ E \subseteq C /\ k \in DOMAIN c
  BY <1>1
<1>3. m \in Challenge
  <2>1. c[k].objId1 \in Teams /\ c[k].objId2 \in Teams \cup {0}
    BY <1>2, ChallIs
  <2> QED
    BY <2>1 DEF Match, Challenge
<1>4. /\ R = [j \in DOMAIN c \ ((B \cap D) \cup (E \cap D)) |->
                IF j \in C \cap D THEN Match(c[j].objId1, c[j].objId2) ELSE c[j]]
      /\ R1 = [j \in DOMAIN c \ ((B \cap (D \cup {k})) \cup (E \cap (D \cup {k}))) |->
                IF j \in C \cap (D \cup {k}) THEN Match(c[j].objId1, c[j].objId2) ELSE c[j]]
  BY DEF RemainingIn, ByesIn, DecidedIn, EndedIn
<1>5. k \in DOMAIN R /\ R[k] = c[k]
  BY <1>2, <1>4
<1>6. \A X : Over(o, c, X) = (B \cap X) \cup (E \cap X)
  BY DEF Over, ByesIn, EndedIn
<1>7. ASSUME k \in B
      PROVE  /\ c[k].objId2 = 0 /\ Over(o, c, D \cup {k}) = Over(o, c, D) \cup {k}
             /\ R1 = Dropped(R, k)
  <2>1. c[k].objId2 = 0
    BY <1>1, <1>7
  <2> HIDE DEF B, C, E
  <2>2. Over(o, c, D \cup {k}) = Over(o, c, D) \cup {k}
    BY <1>2, <1>6, <1>7
  <2>3. DOMAIN R1 = DOMAIN R \ {k} /\ \A j \in DOMAIN R1 : R1[j] = R[j]
    BY <1>2, <1>4, <1>7
  <2>4. R1 = Dropped(R, k)
    BY <1>4, <2>3 DEF Dropped
  <2> QED
    BY <2>1, <2>2, <2>4
<1>8. ASSUME k \in E
      PROVE  /\ k \notin B /\ Over(o, c, D \cup {k}) = Over(o, c, D) \cup {k}
             /\ R1 = Dropped(Put(R, k, m), k)
  <2> HIDE DEF B, C, E
  <2>1. k \notin B /\ k \in C
    BY <1>2, <1>8
  <2>2. Over(o, c, D \cup {k}) = Over(o, c, D) \cup {k}
    BY <1>6, <1>8, <2>1
  <2>3. DOMAIN R1 = DOMAIN R \ {k} /\ \A j \in DOMAIN R1 : R1[j] = R[j]
    BY <1>2, <1>4, <1>8, <2>1
  <2>4. /\ DOMAIN Put(R, k, m) \ {k} = DOMAIN R \ {k}
        /\ \A j \in DOMAIN R \ {k} : Put(R, k, m)[j] = R[j]
    BY DEF Put
  <2>5. R1 = [j \in DOMAIN R1 |-> R1[j]]
    BY <1>4
  <2> QED
    BY <2>1, <2>2, <2>3, <2>4, <2>5 DEF Dropped
<1>9. ASSUME k \notin B, k \notin E
      PROVE  Over(o, c, D \cup {k}) = Over(o, c, D) /\ R1 = Put(R, k, m)
  <2> HIDE DEF B, C, E
  <2>1. k \in C
    BY <1>9 DEF B, C
  <2>2. Over(o, c, D \cup {k}) = Over(o, c, D)
    BY <1>6, <1>9
  <2>3. DOMAIN R1 = DOMAIN R \cup {k} /\ \A j \in DOMAIN R1 : R1[j] = IF j = k THEN m ELSE R[j]
    BY <1>2, <1>4, <1>5, <1>9, <2>1
  <2>4. R1 = [j \in DOMAIN R1 |-> R1[j]]
    BY <1>4
  <2> QED
    BY <2>2, <2>3, <2>4 DEF Put
<1> HIDE DEF R, R1, m, B, C, E
<1>10. LoopsOver(o, c, D, k, m, R, R1)
  BY <1>2, <1>3, <1>5, <1>7, <1>8, <1>9 DEF LoopsOver, B, E
<1> QED
  BY <1>10 DEF R, R1, m

\* The rows of the teams whose matches are over, and of the others, when the loop
\* has done the matches of D.
LEMMA SettledLike ==
  ASSUME NEW o, NEW c, ObjsType(o), ChallsType(c), Matches(o, c), NEW D,
         NEW b, Like(b, o)
  PROVE  Like(Written(b, Settled(o, c), Sides(c, Over(o, c, D))), SettledIn(o, c, D))
<1> DEFINE x == Settled(o, c)
           y == SettledIn(o, c, D)
           A == DOMAIN c
           T == Sides(c, Over(o, c, D))
<1>1. x = SettledIn(o, c, A)
  BY WholeLoop
<1>2. ObjsType(x) /\ DOMAIN x = DOMAIN o /\ ObjsType(y) /\ DOMAIN y = DOMAIN o
  BY <1>1, SettledTypes
<1>3. ObjsType(b) /\ DOMAIN b = DOMAIN o /\ \A t \in DOMAIN o : Alike(b[t], o[t])
  BY DEF Like
<1>4. \A t \in DOMAIN o : Outcome(o, c, A, t, o[t], x[t]) /\ Outcome(o, c, D, t, o[t], y[t])
  BY <1>1, SettledIs
<1>5. \A t \in DOMAIN o : /\ Through(o, c, D, t) => ~Beaten(o, c, D, t)
                          /\ Through(o, c, A, t) => ~Beaten(o, c, A, t)
  BY Fates DEF Fate
<1>6. ASSUME NEW t \in DOMAIN o PROVE t \in T <=> Through(o, c, D, t) \/ Beaten(o, c, D, t)
  <2>1. t # 0
    BY NoTeamZero DEF ObjsType
  <2>2. \A k \in ByesIn(o, c, D) : c[k].objId2 = 0
    BY LoopIn
  <2>3. \A k \in EndedIn(o, c, D) : {Winner(c, k), Loser(c, k)} = {k, c[k].objId2}
    BY LoopIn, WinnerIn
  <2>4. t \in T <=> \/ \E k \in ByesIn(o, c, D) : t = k \/ t = c[k].objId2
                    \/ \E k \in EndedIn(o, c, D) : t = k \/ t = c[k].objId2
    BY DEF Sides, Over
  <2>5. (\E k \in ByesIn(o, c, D) : t = k \/ t = c[k].objId2) <=> \E k \in ByesIn(o, c, D) : k = t
    BY <2>1, <2>2
  <2>6. (\E k \in EndedIn(o, c, D) : t = k \/ t = c[k].objId2)
           <=> \E k \in EndedIn(o, c, D) : Winner(c, k) = t \/ Loser(c, k) = t
    BY <2>3
  <2> QED
    BY <2>4, <2>5, <2>6 DEF Through, Beaten
<1>7. ASSUME NEW t \in DOMAIN o
      PROVE  /\ Through(o, c, D, t) => Through(o, c, A, t)
             /\ Beaten(o, c, D, t) => Beaten(o, c, A, t)
  <2>1. ByesIn(o, c, D) \subseteq ByesIn(o, c, A) /\ EndedIn(o, c, D) \subseteq EndedIn(o, c, A)
    BY LoopRuns DEF ByesIn, EndedIn
  <2> QED
    BY <2>1 DEF Through, Beaten
<1>8. ASSUME NEW t \in DOMAIN o, t \in T PROVE Alike(Saved(x[t]), y[t])
  <2>1. Alike(Saved(x[t]), x[t])
    BY <1>2, ObjIs, SavedIs
  <2>2. CASE Through(o, c, D, t)
    BY <1>4, <1>5, <1>7, <2>1, <2>2 DEF Outcome, Alike, Cleared
  <2>3. CASE Beaten(o, c, D, t)
    BY <1>4, <1>5, <1>7, <2>1, <2>3 DEF Outcome, Alike, Cleared
  <2> QED
    BY <1>6, <1>8, <2>2, <2>3
<1>9. ASSUME NEW t \in DOMAIN o, t \notin T PROVE Alike(b[t], y[t])
  BY <1>3, <1>4, <1>6, <1>9 DEF Outcome, Alike, Same
<1> HIDE DEF x, y, T
<1>10. Like(Written(b, x, T), y)
  BY <1>2, <1>3, <1>8, <1>9, WrittenLike
<1> QED
  BY <1>10 DEF x, y, T

\* With a match still to be settled, the rows are those of a fight that can go on.
LEMMA LoopLive ==
  ASSUME NEW o, NEW c, ObjsType(o), ChallsType(c), Fought(o, c), NEW D,
         NEW k \in DOMAIN c, k \in DOMAIN RemainingIn(o, c, D)
  PROVE  Live("fight", SettledIn(o, c, D), RemainingIn(o, c, D))
<1> DEFINE o1 == SettledIn(o, c, D)
           c1 == RemainingIn(o, c, D)
<1>1. Going(o, c) /\ Matches(o, c)
  BY DEF Fought, Going
<1>2. ObjsType(o1) /\ ChallsType(c1) /\ Going(o1, c1)
  BY <1>1, SettledGoing
<1>3. DOMAIN o # {}
  BY <1>1, MatchesIn
<1>4. PICK v \in Nat : Tree(o, c, v)
  BY <1>3 DEF Fought
<1>5. Tree(o1, c1, v)
  BY <1>1, <1>4, SettledTree
<1> HIDE DEF o1, c1
<1>6. DOMAIN c1 # {}
  BY DEF c1
<1>7. Fought(o1, c1)
  BY <1>2, <1>5, <1>6 DEF Fought
<1>8. Live("fight", o1, c1)
  BY <1>2, <1>7 DEF Live
<1> QED
  BY <1>8 DEF o1, c1

\* The statements of one match lead from the loop before it to the loop after it.
LEMMA SettleMatchLeads ==
  ASSUME NEW o, NEW c, ObjsType(o), ChallsType(c), Fought(o, c),
         NEW b, Like(b, o), NEW D,
         NEW k \in Byes(o, c) \cup Decided(o, c), k \notin D
  PROVE  /\ SettleMatch(o, c, k) \in Seq(Statements)
         /\ Leads(Tables("fight", Written(b, Settled(o, c), Sides(c, Over(o, c, D))),
                         RemainingIn(o, c, D)),
                  SettleMatch(o, c, k),
                  Tables("fight", Written(b, Settled(o, c), Sides(c, Over(o, c, D \cup {k}))),
                         RemainingIn(o, c, D \cup {k})))
<1> DEFINE x == Settled(o, c)
           T == Sides(c, Over(o, c, D))
           W(U) == Written(b, x, U)
           R == RemainingIn(o, c, D)
           R1 == RemainingIn(o, c, D \cup {k})
           m == Match(c[k].objId1, c[k].objId2)
           r == Tables("fight", W(T), R)
           r1 == Tables("fight", W(Sides(c, Over(o, c, D \cup {k}))), R1)
           blank == UpdateChallData(k, m, TRUE)
           erase == EraseChallData(k)
<1>1. Going(o, c) /\ Matches(o, c)
  BY DEF Fought, Going
<1>2. x = SettledIn(o, c, DOMAIN c)
  BY <1>1, WholeLoop
<1>3. ObjsType(x) /\ DOMAIN x = DOMAIN o /\ DOMAIN b = DOMAIN o
  BY <1>1, <1>2, SettledTypes DEF Like
<1>4. /\ k \in DOMAIN c /\ k \in DOMAIN R
      /\ R[k] = c[k] /\ m \in Challenge
      /\ k \in Byes(o, c) =>
           /\ c[k].objId2 = 0 /\ Over(o, c, D \cup {k}) = Over(o, c, D) \cup {k}
           /\ R1 = Dropped(R, k)
      /\ k \in Ended(o, c) =>
           /\ k \notin Byes(o, c) /\ Over(o, c, D \cup {k}) = Over(o, c, D) \cup {k}
           /\ R1 = Dropped(Put(R, k, m), k)
      /\ k \notin Byes(o, c) /\ k \notin Ended(o, c) =>
           /\ Over(o, c, D \cup {k}) = Over(o, c, D)
           /\ R1 = Put(R, k, m)
  <2>1. LoopsOver(o, c, D, k, m, R, R1)
    BY <1>1, LoopStep
  <2> HIDE DEF R, R1, m
  <2> QED
    BY <2>1 DEF LoopsOver
<1>5. k \in Teams /\ k \in DOMAIN o /\ x[k] \in Obj
  BY <1>1, <1>3, <1>4, MatchesIn, ObjIs
<1>6. Like(W(T), SettledIn(o, c, D))
  BY <1>1, SettledLike
<1>7. Live("fight", SettledIn(o, c, D), R)
  BY <1>4, LoopLive
<1>8. Resumable(r)
  BY <1>6, <1>7, CaughtUp
<1>9. Resumable(Tables("fight", W(T), Put(R, k, m)))
  <2>1. ChallsType(R)
    BY <1>1, SettledTypes
  <2> DEFINE R2 == Put(R, k, m)
  <2>2. DOMAIN R2 = DOMAIN R /\ \A j \in DOMAIN R : R2[j] = IF j = k THEN m ELSE R[j]
    BY <1>4 DEF Put
  <2>3. R2 = [j \in DOMAIN R2 |-> R2[j]]
    BY DEF Put
  <2> HIDE DEF R2, R
  <2>4. \A j \in DOMAIN R2 : R2[j] \in Challenge
    BY <1>4, <2>1, <2>2, ChallIs
  <2>5. ChallsType(R2)
    BY <2>1, <2>2, <2>3, <2>4 DEF ChallsType
  <2>6. m.objId1 = c[k].objId1 /\ m.objId2 = c[k].objId2
    BY DEF Match
  <2>7. SameRound(SettledIn(o, c, D), R, SettledIn(o, c, D), R2)
    <3> HIDE DEF m
    <3> QED
      BY <1>4, <2>2, <2>6 DEF SameRound
  <2>8. ObjsType(SettledIn(o, c, D))
    BY <1>1, SettledTypes
  <2>9. Live("fight", SettledIn(o, c, D), R2)
    BY <1>7, <2>5, <2>7, <2>8, LiveStays
  <2>10. Resumable(Tables("fight", W(T), R2))
    BY <1>6, <2>9, CaughtUp
  <2> QED
    BY <2>10 DEF R2
<1>10. blank \in Statements /\ erase \in Statements /\ blank.safe = TRUE /\ erase.safe = FALSE
  BY <1>4, <1>5, StatementsAre, ExecutedChall, ExecutedErase
<1>11. \A U : Executed(Tables("fight", W(U), R), blank) = Tables("fight", W(U), Put(R, k, m))
  <2> TAKE U
  <2> HIDE DEF W, R, m
  <2> QED
    BY ExecutedChall DEF UpdateChallData
<1>12. \A U, e : Executed(Tables("fight", W(U), e), erase)
                   = Tables("fight", W(U), Dropped(e, k))
  <2> TAKE U, e
  <2> HIDE DEF W
  <2> QED
    BY ExecutedErase DEF EraseChallData
<1>13. \A t \in DOMAIN o : \A U, e, f :
         /\ Executed(Tables("fight", W(U), e), UpdateFightObj(t, x[t], f))
              = Tables("fight", W(U \cup {t}), e)
         /\ UpdateFightObj(t, x[t], f).safe = f
  <2> TAKE t \in DOMAIN o
  <2> TAKE U, e, f
  <2>1. Executed(Tables("fight", W(U), e), UpdateFightObj(t, x[t], f))
          = Tables("fight", Put(Written(b, x, U), t, Saved(x[t])), e)
    BY ExecutedObj
  <2>2. t \in DOMAIN x
    BY <1>3
  <2> HIDE DEF x
  <2> QED
    BY <2>1, <2>2, WriteTeam, ExecutedObj
<1>14. \A t \in DOMAIN o, f \in BOOLEAN : UpdateFightObj(t, x[t], f) \in Statements
  BY <1>3, ObjIs, StatementsAre
<1>15. CASE k \in Byes(o, c)
  <2> DEFINE s == UpdateFightObj(k, x[k], TRUE)
  <2>1. SettleMatch(o, c, k) = <<s, erase>>
    <3>1. k \notin Ended(o, c)
      BY <1>4, <1>15
    <3> QED
      BY <1>15, <3>1 DEF SettleMatch
  <2>2. s \in Statements /\ Executed(r, s) = Tables("fight", W(T \cup {k}), R)
    BY <1>5, <1>13, <1>14
  <2>3. W(Sides(c, Over(o, c, D \cup {k}))) = W(T \cup {k})
    <3>1. Sides(c, Over(o, c, D \cup {k})) = T \cup {k, 0}
      <4>1. Over(o, c, D \cup {k}) = Over(o, c, D) \cup {k} /\ c[k].objId2 = 0
        BY <1>4, <1>15
      <4> QED
        BY <4>1, SidesAre
    <3>2. \A t \in DOMAIN x : t # 0
      BY <1>3, NoTeamZero DEF ObjsType
    <3> HIDE DEF x, T
    <3>3. \A t \in DOMAIN x : t \in T \cup {k, 0} <=> t \in T \cup {k}
      BY <3>2
    <3>4. Written(b, x, T \cup {k, 0}) = Written(b, x, T \cup {k})
      BY <3>3 DEF Written
    <3> QED
      BY <3>1, <3>4
  <2>4. Executed(Tables("fight", W(T \cup {k}), R), erase) = r1
    BY <1>4, <1>12, <1>15, <2>3
  <2> HIDE DEF s, r, r1, erase, W, R, T, x
  <2>5. /\ <<erase>> \in Seq(Statements)
        /\ Leads(Tables("fight", W(T \cup {k}), R), <<erase>>, r1)
    BY <1>10, <2>4, LeadsLast
  <2>6. <<s>> \o <<erase>> \in Seq(Statements) /\ Leads(r, <<s>> \o <<erase>>, r1)
    BY <1>8, <2>2, <2>5, LeadsThen
  <2>7. <<s>> \o <<erase>> = <<s, erase>>
    BY <1>10, <2>2, TwoAre
  <2> QED
    BY <2>1, <2>6, <2>7 DEF r, r1, R, W, x, T
<1>16. CASE k \in Ended(o, c)
  <2> DEFINE w == Winner(c, k)
             l == Loser(c, k)
             s == UpdateFightObj(w, x[w], TRUE)
             u == UpdateFightObj(l, x[l], FALSE)
             R2 == Put(R, k, m)
  <2>1. SettleMatch(o, c, k) = <<blank, s, u, erase>>
    BY <1>4, <1>16 DEF SettleMatch
  <2>2. {w, l} = {k, c[k].objId2} /\ w \in DOMAIN o /\ l \in DOMAIN o
    <3>1. k \in Decided(o, c)
      BY <1>1, <1>16, LoopRuns
    <3> QED
      BY <1>1, <1>5, <3>1, WinnerIs DEF Valid
  <2>3. /\ s \in Statements /\ u \in Statements
        /\ s.safe = TRUE /\ u.safe = FALSE
        /\ Executed(Tables("fight", W(T), R2), s) = Tables("fight", W(T \cup {w}), R2)
        /\ Executed(Tables("fight", W(T \cup {w}), R2), u)
             = Tables("fight", W((T \cup {w}) \cup {l}), R2)
    <3> HIDE DEF W, x, T, R2, w, l
    <3> QED
      BY <1>13, <1>14, <2>2
  <2>4. Sides(c, Over(o, c, D \cup {k})) = (T \cup {w}) \cup {l}
    <3>1. Sides(c, Over(o, c, D \cup {k})) = T \cup {k, c[k].objId2}
      <4>1. Over(o, c, D \cup {k}) = Over(o, c, D) \cup {k}
        BY <1>4, <1>16
      <4>2. Sides(c, Over(o, c, D) \cup {k}) = Sides(c, Over(o, c, D)) \cup {k, c[k].objId2}
        BY SidesAre
      <4> QED
        BY <4>1, <4>2
    <3> HIDE DEF w, l, T
    <3> QED
      BY <2>2, <3>1
  <2>5. Executed(Tables("fight", W((T \cup {w}) \cup {l}), R2), erase) = r1
    <3>1. R1 = Dropped(R2, k)
      BY <1>4, <1>16
    <3> HIDE DEF W, R1, R2, w, l, T, erase
    <3>2. Executed(Tables("fight", W((T \cup {w}) \cup {l}), R2), erase)
            = Tables("fight", W((T \cup {w}) \cup {l}), Dropped(R2, k))
      BY <1>12
    <3> QED
      BY <2>4, <3>1, <3>2
  <2>6. Executed(r, blank) = Tables("fight", W(T), R2)
    BY <1>11
  <2>7. Resumable(Tables("fight", W(T), R2))
    BY <1>9
  <2> HIDE DEF s, u, w, l, r, r1, erase, blank, W, R, R2, T, x
  <2>8. /\ <<erase>> \in Seq(Statements)
        /\ Leads(Tables("fight", W((T \cup {w}) \cup {l}), R2), <<erase>>, r1)
    BY <1>10, <2>5, LeadsLast
  <2>9. /\ <<u>> \o <<erase>> \in Seq(Statements)
        /\ Leads(Tables("fight", W(T \cup {w}), R2), <<u>> \o <<erase>>, r1)
    BY <2>3, <2>8, LeadsThen
  <2>10. /\ <<s>> \o (<<u>> \o <<erase>>) \in Seq(Statements)
         /\ Leads(Tables("fight", W(T), R2), <<s>> \o (<<u>> \o <<erase>>), r1)
    BY <2>3, <2>7, <2>9, LeadsThen
  <2>11. /\ <<blank>> \o (<<s>> \o (<<u>> \o <<erase>>)) \in Seq(Statements)
         /\ Leads(r, <<blank>> \o (<<s>> \o (<<u>> \o <<erase>>)), r1)
    BY <1>8, <1>10, <2>6, <2>10, LeadsThen
  <2>12. <<blank>> \o (<<s>> \o (<<u>> \o <<erase>>)) = <<blank, s, u, erase>>
    BY <1>10, <2>3, FourAre
  <2> QED
    BY <2>1, <2>11, <2>12 DEF r, r1, R, W, x, T
<1>17. CASE k \notin Byes(o, c) /\ k \notin Ended(o, c)
  <2>1. SettleMatch(o, c, k) = <<blank>>
    BY <1>17 DEF SettleMatch
  <2>2. Executed(r, blank) = r1
    BY <1>4, <1>11, <1>17
  <2> HIDE DEF r, r1, blank, R, x, T
  <2>3. <<blank>> \in Seq(Statements) /\ Leads(r, <<blank>>, r1)
    BY <1>8, <1>10, <2>2, LeadsLast
  <2> QED
    BY <2>1, <2>3 DEF r, r1, R, x, T
<1> QED
  BY <1>15, <1>16, <1>17

\* The statements of the loop lead from the round to what is left of it.
LEMMA SettleLeads ==
  ASSUME NEW o, NEW c, ObjsType(o), ChallsType(c), Fought(o, c), NEW b, Like(b, o)
  PROVE  /\ SettleStmts(o, c) \in Seq(Statements)
         /\ \E b1 : /\ Leads(Tables("fight", b, c), SettleStmts(o, c),
                             Tables("fight", b1, Remaining(o, c)))
                    /\ Like(b1, Settled(o, c))
<1> DEFINE K == Byes(o, c) \cup Decided(o, c)
           n == Cardinality(K)
           x == Settled(o, c)
           W(D) == Written(b, x, Sides(c, Over(o, c, D)))
           V(D) == Tables("fight", W(D), RemainingIn(o, c, D))
           w == [i \in 0..n |-> V(Walked(K, i))]
           G == [i \in 1..n |-> SettleMatch(o, c, InIdOrder(K)[i])]
<1>1. Matches(o, c)
  BY DEF Fought, Going
<1>2. K \in SUBSET Teams
  BY <1>1, LoopRuns DEF ChallsType
<1>3. /\ n \in Nat /\ Walked(K, 0) = {} /\ Walked(K, n) = K
      /\ \A i \in 1..n :
           LET t == InIdOrder(K)[i]
           IN /\ t \in K /\ t \in Teams /\ Rank(K, t) = i - 1
              /\ Walked(K, i) = Walked(K, i - 1) \cup {t} /\ t \notin Walked(K, i - 1)
  BY <1>2, WalkIs
<1>4. ASSUME NEW i \in 1..n
      PROVE  G[i] \in Seq(Statements) /\ Leads(w[i - 1], G[i], w[i])
  <2> DEFINE k == InIdOrder(K)[i]
             D == Walked(K, i - 1)
  <2>1. k \in K /\ k \notin D /\ Walked(K, i) = D \cup {k}
    BY <1>3
  <2>2. i - 1 \in 0..n /\ i \in 0..n /\ G[i] = SettleMatch(o, c, k)
    BY <1>3
  <2> HIDE DEF k, D
  <2>3. SettleMatch(o, c, k) \in Seq(Statements) /\ Leads(V(D), SettleMatch(o, c, k), V(D \cup {k}))
    BY <2>1, SettleMatchLeads
  <2>4. w[i - 1] = V(D) /\ w[i] = V(D \cup {k})
    <3>1. w[i - 1] = V(Walked(K, i - 1)) /\ w[i] = V(Walked(K, i))
      BY <2>2
    <3> HIDE DEF w, V
    <3> QED
      BY <2>1, <3>1 DEF D
  <2> HIDE DEF w, G, V
  <2> QED
    BY <2>2, <2>3, <2>4
<1>5. w[0] = Tables("fight", b, c)
  <2>1. 0 \in 0..n /\ Walked(K, 0) = {}
    <3> HIDE DEF K, n
    <3> QED
      BY <1>3
  <2>2. w[0] = V({})
    BY <2>1
  <2>3. Over(o, c, {}) = {} /\ Sides(c, {}) = {}
    BY DEF Over, ByesIn, EndedIn, Sides
  <2>4. RemainingIn(o, c, {}) = c
    <3>1. c = [k \in DOMAIN c |-> c[k]]
      BY DEF ChallsType
    <3> QED
      BY <3>1 DEF RemainingIn, ByesIn, EndedIn, DecidedIn
  <2>5. ObjsType(b) /\ DOMAIN b = DOMAIN x
    BY DEF Like, Settled
  <2>6. W({}) = b
    BY <2>3, <2>5, WrittenNone
  <2> HIDE DEF w, W
  <2> QED
    BY <2>2, <2>4, <2>6
<1>6. w[n] = Tables("fight", W(K), Remaining(o, c))
  <2>1. n \in 0..n /\ Walked(K, n) = K
    BY <1>3
  <2>2. w[n] = V(K)
    BY <2>1
  <2>3. /\ ByesIn(o, c, K) = Byes(o, c) /\ EndedIn(o, c, K) = Ended(o, c)
        /\ DecidedIn(o, c, K) = Decided(o, c)
    BY <1>1, LoopRuns DEF ByesIn, EndedIn, DecidedIn
  <2>4. RemainingIn(o, c, K) = Remaining(o, c)
    BY <2>3 DEF RemainingIn, Remaining, Erased
  <2> HIDE DEF w, W, K
  <2> QED
    BY <2>2, <2>4
<1>7. Like(W(K), x)
  <2>1. /\ ByesIn(o, c, K) = Byes(o, c) /\ EndedIn(o, c, K) = Ended(o, c)
        /\ DecidedIn(o, c, K) = Decided(o, c)
    BY <1>1, LoopRuns DEF ByesIn, EndedIn, DecidedIn
  <2>2. SettledIn(o, c, K) = x
    <3> HIDE DEF K
    <3> QED
      BY <2>1 DEF SettledIn, Settled
  <2>3. Like(W(K), SettledIn(o, c, K))
    BY <1>1, SettledLike
  <2> HIDE DEF x, W, K
  <2> QED
    BY <2>2, <2>3
<1>8. FlattenSeq(G) \in Seq(Statements) /\ Leads(w[0], FlattenSeq(G), w[n])
  <2>1. G \in [1..n -> Seq(Statements)]
    BY <1>4
  <2> HIDE DEF w, G
  <2>2. \A i \in 1..n : Leads(w[i - 1], G[i], w[i])
    BY <1>4
  <2> QED
    BY <1>3, <2>1, <2>2, LeadsJoined
<1>9. SettleStmts(o, c) = FlattenSeq(G)
  BY DEF SettleStmts, Each
<1> HIDE DEF w, G, W, x, K, n
<1> QED
  BY <1>5, <1>6, <1>7, <1>8, <1>9 DEF x

-----------------------------------------------------------------------------
(***************************************************************************)
(* The pairing.                                                            *)
(***************************************************************************)

LEMMA PairMatchLeads ==
  ASSUME NEW s, NEW b, NEW o, NEW c, NEW d, NEW T, ObjsType(o), ChallsType(c),
         NEW k \in DOMAIN c, k \in DOMAIN o, c[k].objId2 \in DOMAIN o
  PROVE  /\ PairMatch(o, c, k) \in Seq(Statements)
         /\ Leads(Tables(s, Written(b, o, T), d), PairMatch(o, c, k),
                  Tables(s, Written(b, o, T \cup {k, c[k].objId2}), Put(d, k, c[k])))
<1> DEFINE u == c[k].objId2
           r(U) == Tables(s, Written(b, o, U), d)
           r2 == Tables(s, Written(b, o, T \cup {k, u}), Put(d, k, c[k]))
<1> PICK safe \in BOOLEAN : safe = FALSE
  OBVIOUS
<1> DEFINE x == UpdateFightObj(u, o[u], safe)
           y == UpdateFightObj(k, o[k], safe)
           z == UpdateChallData(k, c[k], safe)
<1>1. k \in Teams /\ o[k] \in Obj /\ c[k] \in Challenge /\ u \in Teams /\ o[u] \in Obj
  BY ObjIs, ChallIs
<1>2. ~x.safe /\ ~y.safe /\ ~z.safe
  BY ExecutedObj, ExecutedChall
<1>3. Executed(r(T), x) = r(T \cup {u})
  <2>1. Executed(r(T), x) = Tables(s, Put(Written(b, o, T), u, Saved(o[u])), d)
    BY ExecutedObj
  <2> QED
    BY <2>1, WriteTeam
<1>4. Executed(r(T \cup {u}), y) = r(T \cup {k, u})
  <2>1. Executed(r(T \cup {u}), y) = Tables(s, Put(Written(b, o, T \cup {u}), k, Saved(o[k])), d)
    BY ExecutedObj
  <2>2. Put(Written(b, o, T \cup {u}), k, Saved(o[k])) = Written(b, o, (T \cup {u}) \cup {k})
    BY WriteTeam
  <2>3. (T \cup {u}) \cup {k} = T \cup {k, u}
    OBVIOUS
  <2> QED
    BY <2>1, <2>2, <2>3
<1>5. Executed(r(T \cup {k, u}), z) = r2
  BY ExecutedChall
<1>6. x \in Statements /\ y \in Statements /\ z \in Statements
  BY <1>1, StatementsAre
<1>7. PairMatch(o, c, k) = <<x, y, z>>
  BY DEF PairMatch
<1> HIDE DEF r, r2, x, y, z, u
<1>8. <<z>> \in Seq(Statements) /\ Leads(r(T \cup {k, u}), <<z>>, r2)
  BY <1>2, <1>5, <1>6, LeadsLast
<1>9. <<y>> \o <<z>> \in Seq(Statements) /\ Leads(r(T \cup {u}), <<y>> \o <<z>>, r2)
  BY <1>2, <1>4, <1>6, <1>8, LeadsThen
<1>10. /\ <<x>> \o (<<y>> \o <<z>>) \in Seq(Statements)
       /\ Leads(r(T), <<x>> \o (<<y>> \o <<z>>), r2)
  BY <1>2, <1>3, <1>6, <1>9, LeadsThen
<1>11. <<x>> \o (<<y>> \o <<z>>) = <<x, y, z>>
  <2>1. <<y>> \o <<z>> = <<y, z>>
    BY <1>6, TwoAre
  <2>2. <<x>> \o <<y, z>> = <<x, y, z>>
    BY <1>6, ThreeAre
  <2> QED
    BY <2>1, <2>2
<1> QED
  BY <1>7, <1>10, <1>11 DEF r, r2, u

\* Pairing changes nothing but opponents.
LEMMA PairedIs ==
  ASSUME NEW o, ObjsType(o), Spread(o), Cardinality(Valid(o)) % 2 = 0
  PROVE  /\ ObjsType(Paired(o)) /\ DOMAIN Paired(o) = DOMAIN o
         /\ \A t \in DOMAIN o : t \notin Valid(o) => Paired(o)[t] = o[t]
         /\ \A t \in Valid(o) : PosRank(Paired(o), t) = PosRank(o, t)
<1> DEFINE y == Paired(o)
<1>1. DOMAIN y = DOMAIN o /\ y = [t \in DOMAIN y |-> y[t]]
  BY DEF Paired
<1>2. \A t \in DOMAIN o : y[t] = IF t \in Valid(o) THEN [o[t] EXCEPT !.competitor = Neighbour(o, t)]
                                                   ELSE o[t]
  BY DEF Paired
<1> HIDE DEF y
<1>3. ASSUME NEW t \in DOMAIN o
      PROVE  y[t] \in Obj /\ y[t].status = o[t].status /\ y[t].position = o[t].position
  <2>1. o[t] \in Obj
    BY ObjIs
  <2>2. t \in Valid(o) => Neighbour(o, t) \in Teams
    BY NeighbourIs, ObjIs DEF Valid
  <2> QED
    BY <1>2, <2>1, <2>2 DEF Obj
<1>4. ObjsType(y)
  BY <1>1, <1>3 DEF ObjsType
<1>5. Valid(y) = Valid(o)
  BY <1>1, <1>3 DEF Valid
<1>6. ASSUME NEW t \in Valid(o) PROVE PosRank(y, t) = PosRank(o, t)
  <2>1. \A u \in Valid(o) : y[u].position = o[u].position
    BY <1>3 DEF Valid
  <2>2. {u \in Valid(y) : y[u].position < y[t].position}
          = {u \in Valid(o) : o[u].position < o[t].position}
    BY <1>5, <2>1
  <2> QED
    BY <2>2 DEF PosRank
<1> QED
  BY <1>1, <1>2, <1>4, <1>6 DEF y

\* The pairs in the order of the positions: Openers(o, c, i) are the first teams of
\* the first i.
Openers(o, c, i) == {k \in DOMAIN c : PosRank(o, k) < 2 * i}

LEMMA OpenersAre ==
  ASSUME NEW o, ObjsType(o), Spread(o), Cardinality(Valid(o)) % 2 = 0,
         NEW h, h = Cardinality(DOMAIN NextRound(o))
  PROVE  LET y == Paired(o)
             c == NextRound(o)
         IN /\ h \in Nat /\ Openers(y, c, 0) = {} /\ Openers(y, c, h) = DOMAIN c
            /\ \A i \in 1..h :
                 LET k == OpensPair(y, c, i)
                 IN k \in DOMAIN c /\ Openers(y, c, i) = Openers(y, c, i - 1) \cup {k}
<1> DEFINE y == Paired(o)
           c == NextRound(o)
           n == Cardinality(Valid(o))
           r(k) == PosRank(o, k)
<1>1. DOMAIN c = {t \in Valid(o) : PosRank(o, t) % 2 = 0}
  BY DEF NextRound
<1>2. h = n \div 2 /\ n \in Nat /\ n % 2 = 0
  <2> HIDE DEF c
  <2> QED
    BY <1>1, HalfOpen, ValidFinite DEF c
<1>3. h \in Nat /\ n = 2 * h
  <2> HIDE DEF n
  <2> QED
    BY <1>2
<1>4. \A k \in DOMAIN c : r(k) \in 0..(n - 1) /\ r(k) % 2 = 0 /\ PosRank(y, k) = r(k)
  BY <1>1, PosRankFacts, PairedIs
<1> HIDE DEF y, c, n
<1>5. Openers(y, c, 0) = {} /\ Openers(y, c, h) = DOMAIN c
  <2> HIDE DEF r
  <2> QED
    BY <1>3, <1>4 DEF Openers
<1>6. ASSUME NEW i \in 1..h
      PROVE  LET k == OpensPair(y, c, i)
             IN k \in DOMAIN c /\ Openers(y, c, i) = Openers(y, c, i - 1) \cup {k}
  <2>1. 2 * (i - 1) \in 0..(n - 1) /\ (2 * (i - 1)) % 2 = 0
    BY <1>3
  <2>2. PICK t \in Valid(o) : r(t) = 2 * (i - 1)
    BY <2>1, PosRankFacts DEF n
  <2>3. t \in DOMAIN c /\ PosRank(y, t) = 2 * (i - 1)
    BY <1>1, <1>4, <2>1, <2>2 DEF c
  <2> DEFINE k == OpensPair(y, c, i)
  <2>4. k \in DOMAIN c /\ PosRank(y, k) = 2 * (i - 1)
    BY <2>3 DEF OpensPair
  <2> HIDE DEF k
  <2>5. ASSUME NEW j \in DOMAIN c
        PROVE  PosRank(y, j) < 2 * i <=> (PosRank(y, j) < 2 * (i - 1) \/ j = k)
    <3>1. r(j) \in 0..(n - 1) /\ r(j) % 2 = 0 /\ PosRank(y, j) = r(j) /\ r(k) = 2 * (i - 1)
      BY <1>4, <2>4
    <3>2. r(j) = r(k) <=> j = k
      BY <1>1, <2>4, PosRankFacts DEF c
    <3> HIDE DEF r
    <3>3. r(j) < 2 * i <=> (r(j) < 2 * (i - 1) \/ r(j) = 2 * (i - 1))
      BY <1>3, <3>1
    <3> QED
      BY <3>1, <3>2, <3>3
  <2>6. Openers(y, c, i) = Openers(y, c, i - 1) \cup {k}
    BY <2>4, <2>5 DEF Openers
  <2> QED
    BY <2>4, <2>6 DEF k
<1> QED
  BY <1>3, <1>5, <1>6 DEF y, c

\* The statements of the pairing lead from a settled round to the next.
LEMMA PairLeads ==
  ASSUME NEW x, ObjsType(x), Spread(x), Cardinality(Valid(x)) % 2 = 0,
         ChallsType(NextRound(x)),
         NEW e, ChallsType(e), DOMAIN e = {}, NEW b, Like(b, x)
  PROVE  /\ PairStmts(Paired(x), NextRound(x)) \in Seq(Statements)
         /\ \E b1 : /\ Leads(Tables("fight", b, e), PairStmts(Paired(x), NextRound(x)),
                             Tables("fight", b1, NextRound(x)))
                    /\ Like(b1, Paired(x))
<1> DEFINE o == Paired(x)
           c == NextRound(x)
           h == Cardinality(DOMAIN c)
           V(D) == Tables("fight", Written(b, o, Sides(c, D)), Restrict(c, D))
           w == [i \in 0..h |-> V(Openers(o, c, i))]
           G == [i \in 1..h |-> PairMatch(o, c, OpensPair(o, c, i))]
<1>1. /\ ObjsType(o) /\ DOMAIN o = DOMAIN x
      /\ \A t \in DOMAIN x : t \notin Valid(x) => o[t] = x[t]
  BY PairedIs
<1>2. /\ h \in Nat /\ Openers(o, c, 0) = {} /\ Openers(o, c, h) = DOMAIN c
      /\ \A i \in 1..h :
           LET k == OpensPair(o, c, i)
           IN k \in DOMAIN c /\ Openers(o, c, i) = Openers(o, c, i - 1) \cup {k}
  BY OpenersAre
<1>3. DOMAIN c = {t \in Valid(x) : PosRank(x, t) % 2 = 0}
  BY DEF NextRound
<1>4. \A k \in DOMAIN c : c[k].objId2 = Neighbour(x, k)
  BY DEF NextRound, Match
<1>5. \A k \in DOMAIN c : k \in DOMAIN o /\ c[k].objId2 \in DOMAIN o
  BY <1>1, <1>3, <1>4, NeighbourIs DEF Valid
<1>6. \A t \in Valid(x) : t \in Sides(c, DOMAIN c)
  <2> SUFFICES ASSUME NEW t \in Valid(x) PROVE t \in Sides(c, DOMAIN c)
    OBVIOUS
  <2> DEFINE u == Neighbour(x, t)
  <2>1. /\ u \in Valid(x) /\ Neighbour(x, u) = t
        /\ PosRank(x, t) % 2 # 0 => PosRank(x, u) % 2 = 0
    BY NeighbourIs
  <2> HIDE DEF u, c
  <2>2. CASE PosRank(x, t) % 2 = 0
    BY <1>3, <2>2 DEF Sides
  <2>3. CASE PosRank(x, t) % 2 # 0
    <3>1. u \in DOMAIN c /\ c[u].objId2 = t
      BY <1>3, <1>4, <2>1, <2>3
    <3> QED
      BY <3>1 DEF Sides
  <2> QED
    BY <2>2, <2>3
<1>7. ObjsType(b) /\ DOMAIN b = DOMAIN o /\ \A t \in DOMAIN o : Alike(b[t], x[t])
  BY <1>1 DEF Like
<1> HIDE DEF o, c
<1>8. ASSUME NEW i \in 1..h
      PROVE  G[i] \in Seq(Statements) /\ Leads(w[i - 1], G[i], w[i])
  <2> DEFINE k == OpensPair(o, c, i)
             D == Openers(o, c, i - 1)
  <2>1. k \in DOMAIN c /\ Openers(o, c, i) = D \cup {k}
    BY <1>2
  <2>2. i - 1 \in 0..h /\ i \in 0..h /\ G[i] = PairMatch(o, c, k)
    BY <1>2
  <2> HIDE DEF k, D
  <2>3. /\ PairMatch(o, c, k) \in Seq(Statements)
        /\ Leads(V(D), PairMatch(o, c, k),
                 Tables("fight", Written(b, o, Sides(c, D) \cup {k, c[k].objId2}),
                        Put(Restrict(c, D), k, c[k])))
    BY <1>1, <1>5, <2>1, PairMatchLeads DEF c
  <2>4. /\ Put(Restrict(c, D), k, c[k]) = Restrict(c, D \cup {k})
        /\ Sides(c, D \cup {k}) = Sides(c, D) \cup {k, c[k].objId2}
    BY WriteMatch, SidesAre
  <2>5. Leads(V(D), PairMatch(o, c, k), V(D \cup {k}))
    BY <2>3, <2>4
  <2>6. w[i - 1] = V(D) /\ w[i] = V(D \cup {k})
    <3>1. w[i - 1] = V(Openers(o, c, i - 1)) /\ w[i] = V(Openers(o, c, i))
      BY <2>2
    <3> HIDE DEF w, V
    <3> QED
      BY <2>1, <3>1 DEF D
  <2> HIDE DEF w, G, V
  <2> QED
    BY <2>2, <2>3, <2>5, <2>6
<1>9. w[0] = Tables("fight", b, e)
  <2>1. 0 \in 0..h /\ Openers(o, c, 0) = {}
    BY <1>2
  <2>2. w[0] = V({})
    BY <2>1
  <2>3. Sides(c, {}) = {}
    BY DEF Sides
  <2>4. Restrict(c, {}) = e
    <3>1. e = [k \in DOMAIN e |-> e[k]]
      BY DEF ChallsType
    <3> QED
      BY <3>1 DEF Restrict
  <2>5. Written(b, o, {}) = b
    BY <1>7, WrittenNone
  <2> HIDE DEF w
  <2> QED
    BY <2>2, <2>3, <2>4, <2>5
<1>10. w[h] = Tables("fight", Written(b, o, Sides(c, DOMAIN c)), c)
  <2>1. h \in 0..h /\ Openers(o, c, h) = DOMAIN c
    BY <1>2
  <2>2. w[h] = V(DOMAIN c)
    BY <2>1
  <2>3. Restrict(c, DOMAIN c) = c
    BY DEF Restrict, ChallsType, c
  <2> HIDE DEF w
  <2> QED
    BY <2>2, <2>3
<1>11. Like(Written(b, o, Sides(c, DOMAIN c)), o)
  <2>1. \A t \in DOMAIN o : Alike(Saved(o[t]), o[t])
    BY <1>1, ObjIs, SavedIs
  <2>2. \A t \in DOMAIN o : t \notin Sides(c, DOMAIN c) => Alike(b[t], o[t])
    <3> SUFFICES ASSUME NEW t \in DOMAIN o, t \notin Sides(c, DOMAIN c) PROVE Alike(b[t], o[t])
      OBVIOUS
    <3>1. o[t] = x[t]
      BY <1>1, <1>6
    <3> QED
      BY <1>7, <3>1
  <2> QED
    BY <1>1, <1>7, <2>1, <2>2, WrittenLike
<1>12. FlattenSeq(G) \in Seq(Statements) /\ Leads(w[0], FlattenSeq(G), w[h])
  <2>1. G \in [1..h -> Seq(Statements)]
    BY <1>8
  <2> HIDE DEF w, G
  <2>2. \A i \in 1..h : Leads(w[i - 1], G[i], w[i])
    BY <1>8
  <2> QED
    BY <1>2, <2>1, <2>2, LeadsJoined
<1>13. PairStmts(o, c) = FlattenSeq(G)
  BY DEF PairStmts
<1> HIDE DEF w, G, h
<1> QED
  BY <1>9, <1>10, <1>11, <1>12, <1>13 DEF o, c

-----------------------------------------------------------------------------
(***************************************************************************)
(* The handlers.                                                           *)
(***************************************************************************)

\* One run of the rule's loop takes a fight to a fight.
LEMMA RuleFought ==
  ASSUME NEW o, NEW c, ObjsType(o), ChallsType(c), Fought(o, c),
         promoted \in Seq(SUBSET Teams), RuleContrl(o, c)
  PROVE  /\ ObjsType(objs') /\ ChallsType(challs') /\ DOMAIN objs' = DOMAIN o
         /\ Fought(objs', challs')
         /\ promoted' \in Seq(SUBSET Teams) /\ fault' = fault
<1>1. Going(o, c) /\ (DOMAIN c = {} => Played(o))
  BY DEF Fought
<1>2. Ruled(o, objs', challs', promoted') /\ fault' = fault
  BY <1>1, RuleKeeps
<1>3. ASSUME DOMAIN o # {} PROVE \E v \in Nat : Tree(objs', challs', v)
  <2>1. PICK v \in Nat : Tree(o, c, v)
    BY <1>3 DEF Fought
  <2> QED
    BY <1>1, <2>1, RuleTree
<1> QED
  BY <1>2, <1>3 DEF Ruled, Fought

\* Its statements lead from the rows of the one to rows of the other.
LEMMA RuleLeads ==
  ASSUME NEW o, NEW c, ObjsType(o), ChallsType(c), Fought(o, c),
         promoted \in Seq(SUBSET Teams), RuleContrl(o, c), NEW b, Like(b, o)
  PROVE  /\ RuleStmts(o, c) \in Seq(Statements)
         /\ \E r : /\ Leads(Tables("fight", b, c), RuleStmts(o, c), r)
                   /\ Caught(r, "fight", objs', challs')
<1> DEFINE x == Settled(o, c)
           e == Remaining(o, c)
           q == SettleStmts(o, c)
           r0 == Tables("fight", b, c)
<1>1. Going(o, c) /\ Matches(o, c)
  BY DEF Fought, Going
<1>2. ~Spins(o, c)
  BY <1>1, LoopRuns
<1>3. ObjsType(x) /\ ChallsType(e) /\ (DOMAIN c # {} => Spread(x))
  BY <1>1, SettledGoing, WholeLoop
<1>4. ChallsType(challs')
  BY RuleFought
<1>5. /\ q \in Seq(Statements)
      /\ \E b1 : Leads(r0, q, Tables("fight", b1, e)) /\ Like(b1, x)
  BY SettleLeads
<1>6. <<>> \in Seq(Statements)
  OBVIOUS
<1>7. CASE DOMAIN c = {} /\ objs' = o /\ challs' = c
  <2>1. RuleStmts(o, c) = <<>>
    BY <1>7 DEF RuleStmts
  <2>2. Caught(r0, "fight", objs', challs')
    BY <1>7 DEF Caught
  <2> HIDE DEF r0
  <2> QED
    BY <1>6, <2>1, <2>2, LeadsNone DEF r0
<1> HIDE DEF x, e, q, r0
<1>8. CASE DOMAIN c # {} /\ objs' = x /\ challs' = e
  <2>1. RuleStmts(o, c) = q \o <<>>
    BY <1>2, <1>8 DEF RuleStmts, e, q
  <2>2. PICK b1 : Leads(r0, q, Tables("fight", b1, e)) /\ Like(b1, x)
    BY <1>5
  <2> DEFINE r1 == Tables("fight", b1, e)
  <2>3. Leads(r1, <<>>, r1)
    BY LeadsNone
  <2>4. Caught(r1, "fight", objs', challs')
    BY <1>8, <2>2 DEF Caught
  <2> HIDE DEF r1
  <2>5. Leads(r0, q \o <<>>, r1)
    BY <1>5, <1>6, <2>2, <2>3, LeadsOn DEF r1
  <2>6. q \o <<>> \in Seq(Statements)
    BY <1>5, <1>6, ConcatProperties
  <2> QED
    BY <2>1, <2>4, <2>5, <2>6 DEF r0
<1>9. CASE /\ DOMAIN c # {} /\ DOMAIN e = {}
           /\ Cardinality(Valid(x)) >= 2 /\ Cardinality(Valid(x)) % 2 = 0
           /\ objs' = Paired(x) /\ challs' = NextRound(x)
  <2> DEFINE p == PairStmts(Paired(x), NextRound(x))
             u == IF DOMAIN NextRound(x) # {} THEN p ELSE <<>>
  <2>1. RuleStmts(o, c) = q \o u
    BY <1>2, <1>9 DEF RuleStmts, e, q
  <2>2. PICK b1 : Leads(r0, q, Tables("fight", b1, e)) /\ Like(b1, x)
    BY <1>5
  <2>3. /\ p \in Seq(Statements)
        /\ \E b2 : /\ Leads(Tables("fight", b1, e), p, Tables("fight", b2, NextRound(x)))
                   /\ Like(b2, Paired(x))
    BY <1>3, <1>4, <1>9, <2>2, PairLeads
  <2>4. PICK b2 : /\ Leads(Tables("fight", b1, e), p, Tables("fight", b2, NextRound(x)))
                  /\ Like(b2, Paired(x))
    BY <2>3
  <2>5. DOMAIN NextRound(x) # {}
    <3>1. Cardinality(Valid(x)) \in Nat
      BY <1>3, ValidFinite
    <3>2. 0 \in 0..(Cardinality(Valid(x)) - 1) /\ 0 % 2 = 0
      BY <1>9, <3>1
    <3>3. PICK t \in Valid(x) : PosRank(x, t) = 0
      BY <1>3, <1>9, <3>2, PosRankFacts
    <3>4. t \in DOMAIN NextRound(x)
      BY <3>2, <3>3 DEF NextRound
    <3> QED
      BY <3>4
  <2> DEFINE r2 == Tables("fight", b2, NextRound(x))
  <2>6. Caught(r2, "fight", objs', challs')
    BY <1>9, <2>4 DEF Caught
  <2> HIDE DEF p, r2
  <2>7. Leads(r0, q \o p, r2) /\ q \o p \in Seq(Statements)
    BY <1>5, <2>2, <2>3, <2>4, LeadsOn, ConcatProperties DEF r2
  <2> QED
    BY <2>1, <2>5, <2>6, <2>7 DEF r0
<1> QED
  BY <1>2, <1>7, <1>8, <1>9 DEF RuleContrl, x, e

LEMMA StatusStmts == StopStmts \in Seq(Statements) /\ ApplyStmts \in Seq(Statements)
<1> DEFINE a == UpdateFightStatus("apply", TRUE)
           s == UpdateFightStatus("stop", TRUE)
<1>1. a \in Statements /\ s \in Statements
  BY DEF UpdateFightStatus, Statements
<1> HIDE DEF a, s
<1>2. <<a>> \in Seq(Statements) /\ <<s>> \in Seq(Statements) /\ <<>> \in Seq(Statements)
  BY <1>1
<1> QED
  BY <1>2 DEF StopStmts, ApplyStmts, a, s

LEMMA StatusLeads ==
  ASSUME NEW s, NEW o, NEW c, NEW r, Live(s, o, c), Caught(r, s, o, c),
         NEW s2 \in {"set", "apply", "fight", "stop"}
  PROVE  /\ <<UpdateFightStatus(s2, TRUE)>> \in Seq(Statements)
         /\ \E r2 : /\ Leads(r, <<UpdateFightStatus(s2, TRUE)>>, r2)
                    /\ Caught(r2, s2, o, c)
<1>1. PICK b : r = Tables(s, b, c) /\ Like(b, o)
  BY DEF Caught
<1>2. Resumable(r)
  BY CaughtResumes
<1>3. PICK safe \in BOOLEAN : safe = TRUE
  OBVIOUS
<1> DEFINE u == UpdateFightStatus(s2, safe)
<1>4. u \in Statements /\ Executed(r, u) = Tables(s2, b, c)
  <2>1. u \in Statements
    BY StatementsAre
  <2>2. Executed(Tables(s, b, c), u) = Tables(s2, b, c)
    BY ExecutedStatus
  <2> QED
    BY <1>1, <2>1, <2>2
<1> HIDE DEF u
<1>5. <<u>> \in Seq(Statements) /\ Leads(r, <<u>>, Tables(s2, b, c))
  BY <1>2, <1>4, LeadsLast
<1>6. Caught(Tables(s2, b, c), s2, o, c)
  BY <1>1 DEF Caught
<1> QED
  BY <1>3, <1>5, <1>6 DEF u

\* The start of a tick that opens the application, if it does.
LEMMA ApplyLeads ==
  ASSUME Live(status, objs, challs), NEW r, Caught(r, status, objs, challs),
         NEW s, s = IF status = "set" /\ Applies THEN "apply" ELSE status
  PROVE  /\ ApplyStmts \in Seq(Statements) /\ Live(s, objs, challs)
         /\ \E r2 : Leads(r, ApplyStmts, r2) /\ Caught(r2, s, objs, challs)
<1>1. CASE status = "set" /\ Applies
  <2>1. ApplyStmts = <<UpdateFightStatus("apply", TRUE)>> /\ s = "apply"
    BY <1>1 DEF ApplyStmts
  <2>2. Live(s, objs, challs)
    BY <1>1, <2>1 DEF Live
  <2> QED
    BY <2>1, <2>2, StatusLeads
<1>2. CASE ~(status = "set" /\ Applies)
  <2>1. ApplyStmts = <<>> /\ s = status
    BY <1>2 DEF ApplyStmts
  <2>2. <<>> \in Seq(Statements)
    OBVIOUS
  <2> QED
    BY <2>1, <2>2, LeadsNone
<1> QED
  BY <1>1, <1>2

\* Its end, which stops the fight, if it does.
LEMMA StopLeads ==
  ASSUME NEW s, NEW o, NEW c, Live(s, o, c), NEW r, Caught(r, s, o, c),
         status' \in {s, "stop"}
  PROVE  /\ StopStmts \in Seq(Statements)
         /\ \E r2 : Leads(r, StopStmts, r2) /\ Caught(r2, status', o, c)
<1>1. CASE status' = "stop"
  <2>1. StopStmts = <<UpdateFightStatus("stop", TRUE)>>
    BY <1>1 DEF StopStmts
  <2> QED
    BY <1>1, <2>1, StatusLeads
<1>2. CASE status' # "stop"
  <2>1. StopStmts = <<>> /\ status' = s
    BY <1>2 DEF StopStmts
  <2>2. <<>> \in Seq(Statements)
    OBVIOUS
  <2> QED
    BY <2>1, <2>2, LeadsNone
<1> QED
  BY <1>1, <1>2

-----------------------------------------------------------------------------
(***************************************************************************)
(* The invariant: unless a crash has torn a group of statements, memory is *)
(* a fight that can go on, and what is queued leads the rows to it.        *)
(***************************************************************************)

Sound ==
  /\ fault = FALSE /\ promoted \in Seq(SUBSET Teams) /\ stmts \in Seq(Statements)
  /\ Live(status, objs, challs)
  /\ \E r : Leads(rows, stmts, r) /\ Caught(r, status, objs, challs)

RecInv == ~torn => Sound

\* A handler keeps it that leaves a fight that can go on and queues what leads there.
LEMMA QueueKeeps ==
  ASSUME Sound, NEW q \in Seq(Statements), Queue(q),
         fault' = fault, promoted' \in Seq(SUBSET Teams), Live(status', objs', challs'),
         \A b : Like(b, objs) =>
           \E r : /\ Leads(Tables(status, b, challs), q, r)
                  /\ Caught(r, status', objs', challs')
  PROVE  Sound'
<1>1. stmts \in Seq(Statements) /\ stmts' = stmts \o q /\ rows' = rows
  BY DEF Sound, Queue
<1>2. PICK r : Leads(rows, stmts, r) /\ Caught(r, status, objs, challs)
  BY DEF Sound
<1>3. PICK b : r = Tables(status, b, challs) /\ Like(b, objs)
  BY <1>2 DEF Caught
<1>4. PICK r2 : Leads(r, q, r2) /\ Caught(r2, status', objs', challs')
  BY <1>3
<1>5. stmts' \in Seq(Statements)
  BY <1>1, ConcatProperties
<1>6. Leads(rows', stmts', r2)
  BY <1>1, <1>2, <1>4, LeadsOn
<1>7. fault' = FALSE
  BY DEF Sound
<1>8. \E x : Leads(rows', stmts', x) /\ Caught(x, status', objs', challs')
  BY <1>4, <1>6
<1> QED
  BY <1>5, <1>7, <1>8 DEF Sound, Leads, Path, Executed, Resumable, Caught, Live, Like, Alike

LEMMA SoundTypes ==
  ASSUME Sound
  PROVE  /\ ObjsType(objs) /\ ChallsType(challs) /\ promoted \in Seq(SUBSET Teams)
         /\ status \in {"set", "apply", "fight", "stop"} /\ fault = FALSE
         /\ status = "fight" => Fought(objs, challs)
         /\ status # "fight" => DOMAIN challs = {}
BY DEF Sound, Live, Entered

LEMMA SoundStays ==
  ASSUME Sound, UNCHANGED <<rows, stmts, status, objs, challs, promoted, fault>>
  PROVE  Sound'
<1>1. PICK r : Leads(rows, stmts, r) /\ Caught(r, status, objs, challs)
  BY DEF Sound
<1>2. \E x : Leads(rows', stmts', x) /\ Caught(x, status', objs', challs')
  BY <1>1
<1>3. /\ fault' = FALSE /\ promoted' \in Seq(SUBSET Teams) /\ stmts' \in Seq(Statements)
      /\ Live(status', objs', challs')
  BY DEF Sound
<1> QED
  BY <1>2, <1>3 DEF Sound, Leads, Path, Executed, Resumable, Caught, Live, Like, Alike

\* A tick of a running fight.
LEMMA FightKeeps == ASSUME Sound, TickFight PROVE Sound'
<1>1. /\ ObjsType(objs) /\ ChallsType(challs) /\ promoted \in Seq(SUBSET Teams)
      /\ status = "fight" /\ Fought(objs, challs) /\ RuleContrl(objs, challs)
  BY SoundTypes DEF TickFight, ContrlFight
<1>2. status' = IF "stopFight" \in reached /\ DOMAIN challs' = {} THEN "stop" ELSE "fight"
  BY <1>1 DEF TickFight, ContrlFight
<1>3. Queue(RuleStmts(objs, challs) \o StopStmts)
  BY DEF TickFight
<1>4. /\ ObjsType(objs') /\ ChallsType(challs') /\ Fought(objs', challs')
      /\ promoted' \in Seq(SUBSET Teams) /\ fault' = fault
  BY <1>1, RuleFought
<1>5. Live("fight", objs', challs') /\ Live(status', objs', challs')
  BY <1>2, <1>4 DEF Live
<1> DEFINE q == RuleStmts(objs, challs)
           o == objs'
           c == challs'
<1>6. \A b : Like(b, objs) =>
        /\ q \in Seq(Statements)
        /\ \E r : Leads(Tables("fight", b, challs), q, r) /\ Caught(r, "fight", o, c)
  BY <1>1, RuleLeads
<1>7. StopStmts \in Seq(Statements)
  BY StatusStmts
<1>8. q \in Seq(Statements)
  BY <1>6 DEF Sound, Caught
<1> HIDE DEF q, o, c
<1>9. ASSUME NEW b, Like(b, objs)
      PROVE  \E r : /\ Leads(Tables(status, b, challs), q \o StopStmts, r)
                    /\ Caught(r, status', o, c)
  <2>1. PICK r1 : Leads(Tables("fight", b, challs), q, r1) /\ Caught(r1, "fight", o, c)
    BY <1>6, <1>9
  <2>2. status' \in {"fight", "stop"}
    BY <1>2
  <2>3. PICK r : Leads(r1, StopStmts, r) /\ Caught(r, status', o, c)
    BY <1>5, <2>1, <2>2, StopLeads DEF o, c
  <2>4. Leads(Tables("fight", b, challs), q \o StopStmts, r)
    BY <1>7, <1>8, <2>1, <2>3, LeadsOn
  <2> QED
    BY <1>1, <2>3, <2>4
<1>10. q \o StopStmts \in Seq(Statements)
  BY <1>7, <1>8, ConcatProperties
<1> QED
  BY <1>3, <1>4, <1>5, <1>9, <1>10, QueueKeeps DEF q, o, c

\* The tick that seeds the fight.
LEMMA StartKeeps == ASSUME Sound, TickStart PROVE Sound'
<1>1. /\ ObjsType(objs) /\ ChallsType(challs) /\ promoted \in Seq(SUBSET Teams)
      /\ status \in {"set", "apply"} /\ Applies /\ InitPosition
  BY SoundTypes DEF TickStart, ContrlStart, Applies
<1>2. Live(status, objs, challs) /\ Entered(objs, challs)
  BY <1>1 DEF Sound, Live
<1>3. /\ status' = IF "stopFight" \in reached /\ DOMAIN challs' = {} THEN "stop" ELSE "fight"
      /\ promoted' = promoted /\ fault' = fault
  BY DEF TickStart, ContrlStart
<1>4. /\ ObjsType(objs') /\ ChallsType(challs') /\ DOMAIN objs' = DOMAIN objs
      /\ Going(objs', challs') /\ (DOMAIN challs' = {} => Played(objs'))
  BY <1>1, <1>2, FirstRound
<1>5. Fought(objs', challs')
  <2>1. 0 \in Nat
    OBVIOUS
  <2>2. DOMAIN objs' # {} => Tree(objs', challs', 0)
    BY <1>1, <1>2, <1>4, FirstTree
  <2> QED
    BY <1>4, <2>1, <2>2 DEF Fought
<1>6. Live("fight", objs', challs') /\ Live(status', objs', challs')
  BY <1>3, <1>4, <1>5 DEF Live
<1> DEFINE q == SeedStmts(objs', challs')
           o == objs'
           c == challs'
<1>7. \A b : Like(b, objs) =>
        /\ q \in Seq(Statements)
        /\ \E r : Leads(Tables("apply", b, challs), q, r) /\ Caught(r, "fight", o, c)
  BY <1>1, <1>2, SeedLeads
<1>8. StopStmts \in Seq(Statements) /\ ApplyStmts \in Seq(Statements)
  BY StatusStmts
<1>9. q \in Seq(Statements)
  BY <1>7 DEF Sound, Caught
<1>10. Queue(ApplyStmts \o q \o StopStmts)
  BY DEF TickStart
<1> HIDE DEF q, o, c
<1>11. ASSUME NEW b, Like(b, objs)
       PROVE  \E r : /\ Leads(Tables(status, b, challs), ApplyStmts \o q \o StopStmts, r)
                     /\ Caught(r, status', o, c)
  <2>1. Caught(Tables(status, b, challs), status, objs, challs)
    BY <1>11 DEF Caught
  <2>2. "apply" = IF status = "set" /\ Applies THEN "apply" ELSE status
    BY <1>1
  <2>3. PICK r1 : /\ Leads(Tables(status, b, challs), ApplyStmts, r1)
                  /\ Caught(r1, "apply", objs, challs)
    BY <1>2, <2>1, <2>2, ApplyLeads
  <2>4. PICK b1 : r1 = Tables("apply", b1, challs) /\ Like(b1, objs)
    BY <2>3 DEF Caught
  <2>5. PICK r2 : Leads(r1, q, r2) /\ Caught(r2, "fight", o, c)
    BY <1>7, <2>4
  <2>6. status' \in {"fight", "stop"}
    BY <1>3
  <2>7. PICK r : Leads(r2, StopStmts, r) /\ Caught(r, status', o, c)
    BY <1>6, <2>5, <2>6, StopLeads DEF o, c
  <2>8. ApplyStmts \o q \in Seq(Statements) /\ Leads(Tables(status, b, challs), ApplyStmts \o q, r2)
    BY <1>8, <1>9, <2>3, <2>5, LeadsOn, ConcatProperties
  <2>9. Leads(Tables(status, b, challs), ApplyStmts \o q \o StopStmts, r)
    BY <1>8, <2>7, <2>8, LeadsOn
  <2> QED
    BY <2>7, <2>9
<1>12. ApplyStmts \o q \o StopStmts \in Seq(Statements)
  BY <1>8, <1>9, ConcatProperties
<1> QED
  BY <1>1, <1>3, <1>6, <1>10, <1>11, <1>12, QueueKeeps DEF o, c

\* Every other tick.
LEMMA WaitKeeps == ASSUME Sound, TickWait PROVE Sound'
<1> DEFINE s == IF status = "set" /\ Applies THEN "apply" ELSE status
<1>1. /\ status \in {"set", "apply", "stop"} /\ promoted \in Seq(SUBSET Teams)
      /\ DOMAIN challs = {} /\ Live(status, objs, challs)
  BY SoundTypes DEF TickWait, ContrlWait, Sound
<1>2. /\ status' = IF "stopFight" \in reached /\ DOMAIN challs = {} THEN "stop"
                   ELSE IF Applies THEN "apply" ELSE status
      /\ objs' = objs /\ challs' = challs /\ promoted' = promoted /\ fault' = fault
      /\ Queue(ApplyStmts \o StopStmts)
  BY DEF TickWait, ContrlWait
<1>3. s \in {"set", "apply", "stop"} /\ status' \in {s, "stop"}
  BY <1>1, <1>2 DEF Applies
<1> HIDE DEF s
<1>4. StopStmts \in Seq(Statements) /\ ApplyStmts \in Seq(Statements)
  BY StatusStmts
<1>5. ASSUME NEW r, Caught(r, status, objs, challs)
      PROVE  /\ Live(s, objs, challs)
             /\ \E r2 : Leads(r, ApplyStmts, r2) /\ Caught(r2, s, objs, challs)
  BY <1>1, <1>5, ApplyLeads DEF s
<1>6. Live(s, objs, challs)
  BY <1>5 DEF Sound
<1>7. Live(status', objs', challs')
  <2>1. Entered(objs, challs) \/ Fought(objs, challs)
    BY <1>3, <1>6 DEF Live
  <2> QED
    BY <1>1, <1>2, <1>3, <1>6, <2>1 DEF Live
<1>8. ASSUME NEW b, Like(b, objs)
      PROVE  \E r : /\ Leads(Tables(status, b, challs), ApplyStmts \o StopStmts, r)
                    /\ Caught(r, status', objs', challs')
  <2>1. Caught(Tables(status, b, challs), status, objs, challs)
    BY <1>8 DEF Caught
  <2>2. PICK r1 : /\ Leads(Tables(status, b, challs), ApplyStmts, r1)
                  /\ Caught(r1, s, objs, challs)
    BY <1>5, <2>1
  <2>3. PICK r : Leads(r1, StopStmts, r) /\ Caught(r, status', objs, challs)
    BY <1>3, <1>6, <2>2, StopLeads
  <2>4. Leads(Tables(status, b, challs), ApplyStmts \o StopStmts, r)
    BY <1>4, <2>2, <2>3, LeadsOn
  <2> QED
    BY <1>2, <2>3, <2>4
<1>9. ApplyStmts \o StopStmts \in Seq(Statements)
  BY <1>4, ConcatProperties
<1> QED
  BY <1>1, <1>2, <1>7, <1>8, <1>9, QueueKeeps

\* A leader's players enter the house, which no row holds.
LEMMA OpensKeeps == ASSUME Sound, NEW t \in Teams, OpenHouse(t) PROVE Sound'
<1>1. /\ CreateHouse(t) /\ status' = status /\ challs' = challs
      /\ promoted' = promoted /\ fault' = fault /\ rows' = rows /\ stmts' = stmts
  BY DEF OpenHouse, CreateHouse, dbVars
<1>2. ObjsType(objs) /\ ChallsType(challs) /\ Live(status, objs, challs)
  BY SoundTypes DEF Sound
<1>3. ObjsType(objs') /\ SameRound(objs, challs, objs', challs)
  BY <1>1, <1>2, HouseIs
<1>4. Live(status', objs', challs')
  BY <1>1, <1>2, <1>3, LiveStays
<1>5. PICK r : Leads(rows, stmts, r) /\ Caught(r, status, objs, challs)
  BY DEF Sound
<1>6. PICK b : r = Tables(status, b, challs) /\ Like(b, objs)
  BY <1>5 DEF Caught
<1>7. Like(b, objs')
  BY <1>3, <1>6 DEF Like, Alike, SameRound
<1>8. Leads(rows', stmts', r) /\ Caught(r, status', objs', challs')
  BY <1>1, <1>5, <1>6, <1>7 DEF Caught
<1>9. fault' = FALSE /\ promoted' \in Seq(SUBSET Teams) /\ stmts' \in Seq(Statements)
  BY <1>1 DEF Sound
<1>10. \E x : Leads(rows', stmts', x) /\ Caught(x, status', objs', challs')
  BY <1>8
<1> QED
  BY <1>4, <1>9, <1>10 DEF Sound, Leads, Path, Executed, Resumable, Caught, Live, Like, Alike

\* A leader reports.
LEMMA ReportSounds ==
  ASSUME Sound, NEW t \in Teams, NEW result \in Result, Report(t, result)
  PROVE  Sound'
<1> DEFINE k == MatchKey(t, objs[t].competitor)
           m == IF k = t THEN [challs[k] EXCEPT !.result1 = result]
                         ELSE [challs[k] EXCEPT !.result2 = result]
           c1 == [challs EXCEPT ![k] = m]
           q == RuleStmts(objs, c1)
           o == objs'
           c == challs'
<1>1. FightResult(t, result) /\ Queue(<<UpdateChallData(k, m, TRUE)>> \o q)
  BY DEF Report
<1>2. status' = status /\ DOMAIN challs # {}
  BY <1>1 DEF FightResult
<1>3. /\ ObjsType(objs) /\ ChallsType(challs) /\ promoted \in Seq(SUBSET Teams)
      /\ status = "fight" /\ Fought(objs, challs) /\ Live(status, objs, challs)
  BY <1>2, SoundTypes DEF Sound
<1>4. Going(objs, challs)
  BY <1>3 DEF Fought
<1>5. /\ k \in DOMAIN challs /\ m \in Challenge
      /\ m.objId1 = challs[k].objId1 /\ m.objId2 = challs[k].objId2
      /\ RuleContrl(objs, c1)
  BY <1>1, <1>3, <1>4, ReportIs
<1>6. k \in Teams
  BY <1>3, <1>5 DEF ChallsType
<1> HIDE DEF k, m
<1>7. ChallsType(c1) /\ SameRound(objs, challs, objs, c1)
  BY <1>3, <1>4, <1>5, ReportKeeps
<1>8. c1 = Put(challs, k, m)
  BY <1>5 DEF Put
<1> HIDE DEF c1
<1>9. Fought(objs, c1)
  BY <1>3, <1>7, FoughtStays
<1>10. /\ ObjsType(o) /\ ChallsType(c) /\ Fought(o, c)
       /\ promoted' \in Seq(SUBSET Teams) /\ fault' = fault
  BY <1>3, <1>5, <1>7, <1>9, RuleFought
<1>11. \A b : Like(b, objs) =>
         /\ q \in Seq(Statements)
         /\ \E r : Leads(Tables("fight", b, c1), q, r) /\ Caught(r, "fight", o, c)
  BY <1>3, <1>5, <1>7, <1>9, RuleLeads
<1>12. q \in Seq(Statements)
  BY <1>11 DEF Sound, Caught
<1> HIDE DEF q, o, c
<1>13. Live(status', o, c)
  BY <1>2, <1>3, <1>10 DEF Live
<1>14. PICK safe \in BOOLEAN : safe = TRUE
  OBVIOUS
<1> DEFINE u == UpdateChallData(k, m, safe)
<1>15. u \in Statements
  BY <1>5, <1>6, StatementsAre
<1>16. \A b : Executed(Tables("fight", b, challs), u) = Tables("fight", b, c1)
  BY <1>8, ExecutedChall
<1> HIDE DEF u
<1>17. ASSUME NEW b, Like(b, objs)
       PROVE  \E r : /\ Leads(Tables(status, b, challs), <<u>> \o q, r)
                     /\ Caught(r, status', o, c)
  <2>1. Resumable(Tables("fight", b, challs))
    BY <1>3, <1>17, CaughtUp
  <2>2. PICK r : Leads(Tables("fight", b, c1), q, r) /\ Caught(r, "fight", o, c)
    BY <1>11, <1>17
  <2>3. Leads(Tables("fight", b, challs), <<u>> \o q, r)
    BY <1>12, <1>15, <1>16, <2>1, <2>2, LeadsThen
  <2> QED
    BY <1>2, <1>3, <2>2, <2>3
<1>18. <<u>> \o q \in Seq(Statements)
  <2>1. <<u>> \in Seq(Statements)
    BY <1>15
  <2> QED
    BY <1>12, <2>1, ConcatProperties
<1>19. Queue(<<u>> \o q)
  BY <1>1, <1>14 DEF u
<1> QED
  BY <1>10, <1>13, <1>17, <1>18, <1>19, QueueKeeps DEF o, c

\* The write connection executes the oldest statement.
LEMMA ExecuteKeeps == ASSUME Sound, Execute PROVE Sound'
<1>1. /\ stmts \in Seq(Statements) /\ stmts # <<>>
      /\ rows' = Executed(rows, Head(stmts)) /\ stmts' = Tail(stmts)
      /\ status' = status /\ objs' = objs /\ challs' = challs
      /\ promoted' = promoted /\ fault' = fault
  BY DEF Sound, Execute, vars
<1>2. PICK r : Leads(rows, stmts, r) /\ Caught(r, status, objs, challs)
  BY DEF Sound
<1>3. Leads(rows', stmts', r)
  BY <1>1, <1>2, LeadsNext
<1>4. stmts' \in Seq(Statements)
  BY <1>1
<1>5. \E x : Leads(rows', stmts', x) /\ Caught(x, status', objs', challs')
  BY <1>1, <1>2, <1>3
<1>6. /\ fault' = FALSE /\ promoted' \in Seq(SUBSET Teams)
      /\ Live(status', objs', challs')
  BY <1>1 DEF Sound
<1> QED
  BY <1>4, <1>5, <1>6 DEF Sound, Leads, Path, Executed, Resumable, Caught, Live, Like, Alike

\* What a fight that can go on is loaded from, matches keyed by their first team,
\* is that fight.
LEMMA Reloaded ==
  ASSUME NEW s, NEW o, NEW c, Live(s, o, c)
  PROVE  [k \in {c[i].objId1 : i \in DOMAIN c} |-> c[k]] = c
<1>1. c = [k \in DOMAIN c |-> c[k]]
  BY DEF Live, ChallsType
<1>2. \A i \in DOMAIN c : c[i].objId1 = i
  BY DEF Live, Entered, Fought, Going, Matches
<1>3. {c[i].objId1 : i \in DOMAIN c} = DOMAIN c
  BY <1>2
<1> QED
  BY <1>1, <1>3

\* The crash and the start after it.
LEMMA RestartKeeps == ASSUME RecInv, Restart, ~torn' PROVE Sound'
<1>1. /\ torn' = (torn \/ (stmts # <<>> /\ ~Head(stmts).safe))
      /\ status' = rows.status /\ objs' = rows.objs
      /\ challs' = [k \in {rows.challs[i].objId1 : i \in DOMAIN rows.challs} |-> rows.challs[k]]
      /\ stmts' = <<>> /\ rows' = rows /\ promoted' = promoted /\ fault' = fault
  BY DEF Restart
<1>2. Sound
  BY <1>1 DEF RecInv
<1>3. stmts \in Seq(Statements) /\ Live(status, objs, challs)
  BY <1>2 DEF Sound
<1>4. PICK r : Leads(rows, stmts, r) /\ Caught(r, status, objs, challs)
  BY <1>2 DEF Sound
<1>5. Resumable(rows)
  <2>1. CASE stmts = <<>>
    <3>1. PICK p : Path(p, rows, stmts) /\ p[Len(stmts)] = r
      BY <1>4 DEF Leads
    <3>2. Len(stmts) = 0
      BY <2>1
    <3>3. r = rows
      BY <3>1, <3>2 DEF Path
    <3> QED
      BY <1>3, <1>4, <3>3, CaughtResumes
  <2>2. CASE stmts # <<>>
    <3>1. Head(stmts).safe
      BY <1>1, <2>2
    <3> QED
      BY <1>3, <1>4, <2>2, <3>1, LeadsNext
  <2> QED
    BY <2>1, <2>2
<1>6. PICK s, o, c : rows = Tables(s, o, c) /\ Live(s, o, c) /\ NoHouse(o)
  BY <1>5 DEF Resumable
<1>7. rows.status = s /\ rows.objs = o /\ rows.challs = c
  BY <1>6 DEF Tables
<1>8. status' = s /\ objs' = o /\ challs' = c
  <2>1. [k \in {c[i].objId1 : i \in DOMAIN c} |-> c[k]] = c
    BY <1>6, Reloaded
  <2> QED
    BY <1>1, <1>7, <2>1
<1>9. Like(o, o)
  BY <1>6 DEF Like, Alike, NoHouse, Live
<1>10. Leads(rows', stmts', rows)
  BY <1>1, LeadsNone
<1>11. Caught(rows, status', objs', challs')
  BY <1>6, <1>8, <1>9 DEF Caught
<1>12. Live(status', objs', challs')
  BY <1>6, <1>8
<1>13. fault' = FALSE /\ promoted' \in Seq(SUBSET Teams) /\ stmts' \in Seq(Statements)
  BY <1>1, <1>2 DEF Sound
<1>14. \E x : Leads(rows', stmts', x) /\ Caught(x, status', objs', challs')
  BY <1>10, <1>11
<1> QED
  BY <1>12, <1>13, <1>14
  DEF Sound, Leads, Path, Executed, Resumable, Caught, Live, Like, Alike

LEMMA InitRec == InitRecovery => RecInv
<1> SUFFICES ASSUME InitRecovery PROVE Sound
  BY DEF RecInv
<1>1. /\ Init /\ stmts = <<>>
      /\ rows = [status |-> status, challs |-> challs,
                 objs |-> [t \in DOMAIN objs |-> Saved(objs[t])]]
  BY DEF InitRecovery
<1>2. status \in {"set", "apply"} /\ fault = FALSE /\ promoted = <<>>
  BY <1>1 DEF Init
<1>3. ObjsType(objs) /\ ChallsType(challs) /\ Entered(objs, challs)
  <2>1. IInv
    BY <1>1, InitIInv
  <2>2. Unseeded(objs, challs)
    BY <1>2, <2>1 DEF IInv
  <2> QED
    BY <2>1, <2>2, IInvTypes, UnseededIs
<1>4. Live(status, objs, challs)
  BY <1>2, <1>3 DEF Live
<1> DEFINE b == [t \in DOMAIN objs |-> Saved(objs[t])]
<1>5. rows = Tables(status, b, challs)
  BY <1>1 DEF Tables
<1>6. DOMAIN b = DOMAIN objs /\ b = [t \in DOMAIN b |-> b[t]]
      /\ \A t \in DOMAIN objs : b[t] = Saved(objs[t])
  OBVIOUS
<1> HIDE DEF b
<1>7. \A t \in DOMAIN objs : b[t] \in Obj /\ Alike(b[t], objs[t])
  BY <1>3, <1>6, ObjIs, SavedIs
<1>8. Like(b, objs)
  BY <1>3, <1>6, <1>7 DEF Like, ObjsType
<1>9. Leads(rows, stmts, rows)
  BY <1>1, LeadsNone
<1>10. Caught(rows, status, objs, challs)
  BY <1>5, <1>8 DEF Caught
<1>11. promoted \in Seq(SUBSET Teams) /\ stmts \in Seq(Statements)
  BY <1>1, <1>2
<1> QED
  BY <1>2, <1>4, <1>9, <1>10, <1>11 DEF Sound

LEMMA NextRec == RecInv /\ [NextRecovery]_allVars => RecInv'
<1> SUFFICES ASSUME RecInv, [NextRecovery]_allVars, ~torn' PROVE Sound'
  BY DEF RecInv, Sound, Leads, Path, Executed, Resumable, Caught, Live, Like, Alike
<1>1. CASE Restart
  BY <1>1, RestartKeeps
<1>2. ASSUME torn' = torn PROVE Sound
  BY <1>2 DEF RecInv
<1>3. CASE Clock
  <2>1. UNCHANGED <<rows, stmts, torn, status, objs, challs, promoted, fault>>
    BY <1>3 DEF Clock, Reach, dbVars
  <2>2. Sound
    BY <1>2, <2>1
  <2> QED
    BY <2>1, <2>2, SoundStays
<1>4. CASE TickFight
  BY <1>2, <1>4, FightKeeps DEF TickFight, Queue
<1>5. CASE TickStart
  BY <1>2, <1>5, StartKeeps DEF TickStart, Queue
<1>6. CASE TickWait
  BY <1>2, <1>6, WaitKeeps DEF TickWait, Queue
<1>7. ASSUME NEW t \in Teams, OpenHouse(t) PROVE Sound'
  BY <1>2, <1>7, OpensKeeps DEF OpenHouse, dbVars
<1>8. ASSUME NEW t \in Teams, NEW result \in Result, Report(t, result) PROVE Sound'
  BY <1>2, <1>8, ReportSounds DEF Report
<1>9. CASE Execute
  BY <1>2, <1>9, ExecuteKeeps DEF Execute
<1>10. CASE UNCHANGED allVars
  <2>1. UNCHANGED <<rows, stmts, torn, status, objs, challs, promoted, fault>>
    BY <1>10 DEF allVars, vars, dbVars
  <2>2. Sound
    BY <1>2, <2>1
  <2> QED
    BY <2>1, <2>2, SoundStays
<1> QED
  BY <1>1, <1>3, <1>4, <1>5, <1>6, <1>7, <1>8, <1>9, <1>10 DEF NextRecovery

-----------------------------------------------------------------------------
(***************************************************************************)
(* What follows.                                                           *)
(***************************************************************************)

\* Two rows with the same columns are the same row.
LEMMA SameRow ==
  ASSUME NEW a \in Obj, NEW b \in Obj, Alike(b, a)
  PROVE  b = [Saved(a) EXCEPT !.valueScore = b.valueScore]
<1>1. /\ a = [status |-> a.status, value |-> a.value, valueScore |-> a.valueScore,
              position |-> a.position, competitor |-> a.competitor, house |-> a.house]
      /\ b = [status |-> b.status, value |-> b.value, valueScore |-> b.valueScore,
              position |-> b.position, competitor |-> b.competitor, house |-> b.house]
  BY DEF Obj
<1> QED
  BY <1>1 DEF Alike, Saved

LEMMA SoundCatchesUp == ASSUME Sound PROVE RowsCatchUp
<1>1. stmts \in Seq(Statements) /\ ObjsType(objs)
  BY DEF Sound, Live
<1>2. PICK r : Leads(rows, stmts, r) /\ Caught(r, status, objs, challs)
  BY DEF Sound
<1>3. Ran(rows, stmts) = r
  BY <1>1, <1>2, LeadsIsRan
<1>4. PICK b : r = Tables(status, b, challs) /\ Like(b, objs)
  BY <1>2 DEF Caught
<1>5. r.status = status /\ r.challs = challs /\ r.objs = b
  BY <1>4 DEF Tables
<1>6. DOMAIN b = DOMAIN objs
  BY <1>4 DEF Like
<1>7. \A t \in DOMAIN objs : b[t] = [Saved(objs[t]) EXCEPT !.valueScore = b[t].valueScore]
  <2> TAKE t \in DOMAIN objs
  <2>1. objs[t] \in Obj /\ b[t] \in Obj /\ Alike(b[t], objs[t])
    BY <1>1, <1>4, <1>6, ObjIs DEF Like
  <2> QED
    BY <2>1, SameRow
<1> QED
  BY <1>3, <1>5, <1>6, <1>7 DEF RowsCatchUp

LEMMA SoundFight == ASSUME Sound PROVE MatchSound /\ BracketWhole /\ NoFault
<1>1. /\ ObjsType(objs) /\ ChallsType(challs) /\ fault = FALSE
      /\ status \in {"set", "apply", "fight", "stop"}
      /\ status = "fight" => Fought(objs, challs)
      /\ status # "fight" => DOMAIN challs = {}
  BY SoundTypes
<1>2. Matches(objs, challs) /\ MatchSound
  <2>1. CASE status = "fight"
    BY <1>1, <2>1, GoingSound DEF Fought, Going
  <2>2. CASE status # "fight"
    BY <1>1, <2>2 DEF Matches, MatchSound
  <2> QED
    BY <2>1, <2>2
<1>3. ~Started => DOMAIN challs = {}
  BY <1>1 DEF Started
<1>4. ASSUME Started PROVE Fought(objs, challs)
  <2>1. CASE status = "fight"
    BY <1>1, <2>1
  <2>2. CASE status # "fight"
    <3>1. PICK t \in DOMAIN objs : objs[t].value > 0
      BY <1>4, <2>2 DEF Started
    <3>2. objs[t].value # 0
      BY <1>1, <3>1, ObjIs
    <3>3. ~Entered(objs, challs)
      BY <3>2 DEF Entered
    <3> QED
      BY <1>1, <2>2, <3>3 DEF Sound, Live
  <2> QED
    BY <2>1, <2>2
<1>5. TreeInv
  <2> SUFFICES ASSUME Started, DOMAIN objs # {}
               PROVE  /\ \E v \in Nat : Tree(objs, challs, v)
                      /\ DOMAIN challs = {} => Cardinality(Valid(objs)) = 1
    BY DEF TreeInv
  <2> QED
    BY <1>4 DEF Fought, Played
<1>6. BracketWhole
  BY <1>1, <1>2, <1>3, <1>5, TreeShows
<1> QED
  BY <1>1, <1>2, <1>6 DEF NoFault

\* For any field, any number of games a match and any crashes: unless a crash fell
\* inside the statements of one seeding, of one decided match or of one pairing,
\* memory is always a sound fight of one bracket that contrl can go on with, and the
\* rows, once the write connection has worked off what the handlers queued, hold it.
THEOREM RecoveryIsSound == RecoverySpec => []RecoverySound
<1>1. InitRecovery => RecInv
  BY InitRec
<1>2. RecInv /\ [NextRecovery]_allVars => RecInv'
  BY NextRec
<1>3. RecInv => RecoverySound
  BY SoundCatchesUp, SoundFight DEF RecInv, RecoverySound
<1> QED
  BY <1>1, <1>2, <1>3, PTL DEF RecoverySpec

=============================================================================
