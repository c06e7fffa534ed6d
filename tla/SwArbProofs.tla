----------------------------- MODULE SwArbProofs -----------------------------
(***************************************************************************)
(* Fairness of the switch allocator's arbiters, for any number of ports    *)
(* and VCs: of the least-recently-selected ones whatever requests come and *)
(* go, of V:1 in round robin if requests stay until they are served.       *)
(***************************************************************************)
EXTENDS SwArbFairness, ArbiterProofs

\* One arbitration: a contender that has lost no more often than it has moved
\* up in the list still has not.
LEMMA StillMovedUp ==
  ASSUME NEW n \in Nat, NEW s \in Orders(n), NEW f \in [0 .. n - 1 -> Nat],
         \A x \in 0 .. n - 1 : f[x] + PositionIn(s, x) <= n,
         NEW S \in SUBSET (0 .. n - 1), NEW w \in S,
         \A y \in S \ {w} : PositionIn(s, w) < PositionIn(s, y)
  PROVE  /\ Count(f, S, w, n) \in [0 .. n - 1 -> Nat]
         /\ \A x \in 0 .. n - 1 :
              Count(f, S, w, n)[x] + PositionIn(ToTheEnd(s, w), x) <= n
<1> DEFINE g == Count(f, S, w, n)
<1>1. g \in [0 .. n - 1 -> Nat] /\ g[w] = 0
  BY DEF Count
<1>2. \A x \in (0 .. n - 1) \ {w} :
        g[x] = IF x \in S /\ f[x] < n THEN f[x] + 1 ELSE f[x]
  BY DEF Count
<1> HIDE DEF g
<1>3. PositionIn(ToTheEnd(s, w), w) = n
  BY MovedToTheEnd
<1>4. ASSUME NEW x \in (0 .. n - 1) \ {w}
      PROVE  g[x] + PositionIn(ToTheEnd(s, w), x) <= n
  <2>1. /\ PositionIn(s, x) \in 1 .. n /\ PositionIn(s, w) \in 1 .. n
        /\ f[x] \in Nat /\ f[x] + PositionIn(s, x) <= n
    BY PositionKnown
  <2>2. PositionIn(ToTheEnd(s, w), x) = IF PositionIn(s, x) < PositionIn(s, w)
                                        THEN PositionIn(s, x) ELSE PositionIn(s, x) - 1
    BY MovedToTheEnd
  <2>3. x \in S => PositionIn(s, w) < PositionIn(s, x)
    OBVIOUS
  <2> QED
    BY <1>2, <2>1, <2>2, <2>3
<1> QED
  BY <1>1, <1>3, <1>4 DEF g

-----------------------------------------------------------------------------

\* Both arbiters' lists are lists of all contenders, and nobody has lost more
\* often than it has moved up.
IInv ==
  /\ v1 \in Orders(NumVC)
  /\ p1 \in Orders(NumPC)
  /\ passed \in [VC -> Nat]
  /\ lost \in [PC -> Nat]
  /\ LostMeansMovedUp

\* The invariant is kept by every arbitration.
LEMMA LRSInductive ==
  ASSUME SAType = "LRS"
  PROVE  Spec => []IInv
<1> USE SwArbAssumption
<1>1. Init => IInv
  <2> SUFFICES ASSUME Init PROVE IInv
    OBVIOUS
  <2>1. v1 = Contenders(NumVC) /\ p1 = Contenders(NumPC)
    BY DEF Init, InitArbiter
  <2>2. /\ v1 \in Orders(NumVC) /\ p1 \in Orders(NumPC)
        /\ \A v \in VC : PositionIn(v1, v) = v + 1
        /\ \A p \in PC : PositionIn(p1, p) = p + 1
    BY <2>1, InitialOrders DEF VC, PC
  <2>3. /\ passed \in [VC -> Nat] /\ \A v \in VC : passed[v] = 0
        /\ lost \in [PC -> Nat] /\ \A p \in PC : lost[p] = 0
    BY DEF Init
  <2>4. LostMeansMovedUp
    BY <2>2, <2>3 DEF LostMeansMovedUp, VC, PC
  <2> QED
    BY <2>2, <2>3, <2>4 DEF IInv
<1>2. IInv /\ [Next]_vars => IInv'
  <2> SUFFICES ASSUME IInv, [Next]_vars PROVE IInv'
    OBVIOUS
  <2>1. ASSUME NEW S \in SUBSET VC, SelectVC(S) PROVE IInv'
    <3> DEFINE w == V1Select(v1, S)
    <3>1. w \in S /\ \A y \in S \ {w} : PositionIn(v1, w) < PositionIn(v1, y)
      BY <2>1, V1SelectsFirst DEF IInv, SelectVC, Contends
    <3>2. v1' = ToTheEnd(v1, w) /\ passed' = Count(passed, S, w, NumVC)
      BY <2>1 DEF SelectVC, V1Next
    <3> HIDE DEF w
    <3>3. v1' \in Orders(NumVC)
      BY <3>1, <3>2, MovedToTheEnd DEF IInv, VC
    <3>4. passed' \in [VC -> Nat] /\ \A v \in VC : passed'[v] + PositionIn(v1', v) <= NumVC
      BY <3>1, <3>2, StillMovedUp DEF IInv, LostMeansMovedUp, VC
    <3>5. UNCHANGED <<p1, lost>>
      BY <2>1 DEF SelectVC
    <3> QED
      BY <3>3, <3>4, <3>5 DEF IInv, LostMeansMovedUp
  <2>2. ASSUME NEW S \in SUBSET PC, SelectPC(S) PROVE IInv'
    <3> DEFINE w == P1Select(p1, S)
    <3>1. w \in S /\ \A y \in S \ {w} : PositionIn(p1, w) < PositionIn(p1, y)
      BY <2>2, P1SelectsFirst DEF IInv, SelectPC, Contends
    <3>2. p1' = ToTheEnd(p1, w) /\ lost' = Count(lost, S, w, NumPC)
      BY <2>2 DEF SelectPC, P1Next
    <3> HIDE DEF w
    <3>3. p1' \in Orders(NumPC)
      BY <3>1, <3>2, MovedToTheEnd DEF IInv, PC
    <3>4. lost' \in [PC -> Nat] /\ \A p \in PC : lost'[p] + PositionIn(p1', p) <= NumPC
      BY <3>1, <3>2, StillMovedUp DEF IInv, LostMeansMovedUp, PC
    <3>5. UNCHANGED <<v1, passed>>
      BY <2>2 DEF SelectPC
    <3> QED
      BY <3>3, <3>4, <3>5 DEF IInv, LostMeansMovedUp
  <2>3. CASE UNCHANGED vars
    BY <2>3 DEF IInv, LostMeansMovedUp, vars
  <2> QED
    BY <2>1, <2>2, <2>3 DEF Next
<1> QED
  BY <1>1, <1>2, PTL DEF Spec

\* What follows from it: a contender has its turn before it reaches the front.
LEMMA MovedUpHasTurn ==
  ASSUME IInv
  PROVE  TurnOfVC /\ TurnOfPC
<1> USE SwArbAssumption
<1>1. \A v \in VC : PositionIn(v1, v) \in 1 .. NumVC
  BY PositionKnown DEF IInv, VC
<1>2. \A p \in PC : PositionIn(p1, p) \in 1 .. NumPC
  BY PositionKnown DEF IInv, PC
<1>3. TurnOfVC
  BY <1>1 DEF IInv, LostMeansMovedUp, TurnOfVC
<1>4. TurnOfPC
  BY <1>2 DEF IInv, LostMeansMovedUp, TurnOfPC
<1> QED
  BY <1>3, <1>4

\* However requests come and go, under LRS a VC of a port and an input port lose no
\* more arbitrations than they have moved up in their arbiter's list since they
\* last won one (SwArb2Stage::grantGeneric with SW_ALLOC_LRS).
THEOREM LosersMoveUp ==
  ASSUME SAType = "LRS"
  PROVE  Spec => []LostMeansMovedUp
<1>1. IInv => LostMeansMovedUp
  BY DEF IInv
<1> QED
  BY <1>1, LRSInductive, PTL

\* Under LRS no input port loses as many arbitrations for an output port as there
\* are ports before it wins one, however requests come and go
\* (SwArb2Stage::grantGeneric with SW_ALLOC_LRS).
THEOREM TurnsOfLRS ==
  ASSUME SAType = "LRS"
  PROVE  Spec => []TurnOfPC
<1>1. IInv => TurnOfPC
  BY MovedUpHasTurn
<1> QED
  BY <1>1, LRSInductive, PTL

-----------------------------------------------------------------------------
(* Round robin. *)

\* How many VCs V:1 looks at before v when its counter is c.
Before(c, v) == (v - c) % NumVC

LEMMA Remainder ==
  ASSUME NEW n \in Nat \ {0}, NEW x \in 0 .. n - 1, NEW c \in 0 .. n - 1
  PROVE  (x - c) % n = IF x >= c THEN x - c ELSE x - c + n
<1>1. CASE x >= c
  BY <1>1
<1>2. CASE x < c
  <2>1. x - c = (0 - 1) * n + (x - c + n) /\ x - c + n \in 0 .. n - 1
    BY <1>2
  <2>2. \A q \in Int, m \in 0 .. n - 1 : (q * n + m) % n = m
    OBVIOUS
  <2> QED
    BY <1>2, <2>1, <2>2
<1> QED
  BY <1>1, <1>2

LEMMA Distance ==
  ASSUME NEW c \in VC, NEW v \in VC
  PROVE  /\ Before(c, v) = IF v >= c THEN v - c ELSE v - c + NumVC
         /\ Before(c, v) \in Nat
<1>1. Before(c, v) = IF v >= c THEN v - c ELSE v - c + NumVC
  BY SwArbAssumption, Remainder DEF Before, VC
<1> QED
  BY <1>1, SwArbAssumption DEF VC

\* V:1 selects the VC it looks at first.
LEMMA FirstInTurn ==
  ASSUME SAType = "RR", NEW s \in VC, NEW S \in SUBSET VC, S # {}
  PROVE  /\ V1Select(s, S) \in S
         /\ \A y \in S : Before(s, V1Select(s, S)) <= Before(s, y)
<1> DEFINE order == [v \in S |-> Before(s, v)]
<1>1. order \in [S -> Nat] /\ S \in SUBSET Nat
  BY Distance, SwArbAssumption DEF VC
<1>2. \E x \in S : \A y \in S :
        order[x] < order[y] \/ (order[x] = order[y] /\ x <= y)
  BY <1>1, FirstExists
<1>3. \E x \in S : \A y \in S :
        Before(s, x) < Before(s, y) \/ (Before(s, x) = Before(s, y) /\ x <= y)
  BY <1>2
<1> DEFINE w == V1Select(s, S)
<1>4. w = CHOOSE x \in S : \A y \in S :
            Before(s, x) < Before(s, y) \/ (Before(s, x) = Before(s, y) /\ x <= y)
  BY DEF V1Select, First, V1Order, Before
<1> HIDE DEF w
<1>5. w \in S /\ \A y \in S :
        Before(s, w) < Before(s, y) \/ (Before(s, w) = Before(s, y) /\ w <= y)
  BY <1>3, <1>4
<1>6. \A y \in S : Before(s, w) \in Nat /\ Before(s, y) \in Nat
  BY <1>5, Distance
<1>7. \A y \in S : Before(s, w) <= Before(s, y)
  BY <1>5, <1>6
<1> QED
  BY <1>5, <1>7 DEF w

\* A VC has lost no more often than the counter has come nearer to it.
NearerInv ==
  /\ v1 \in VC
  /\ passed \in [VC -> Nat]
  /\ \A v \in VC : passed[v] + Before(v1, v) < NumVC

\* Round robin keeps this if those that lost ask again.
LEMMA RRInductive ==
  ASSUME SAType = "RR", LosersStay
  PROVE  Spec => []NearerInv
<1> USE SwArbAssumption
<1>1. Init => NearerInv
  <2> SUFFICES ASSUME Init PROVE NearerInv
    OBVIOUS
  <2>1. v1 = 0 /\ passed = [v \in VC |-> 0]
    BY DEF Init, InitArbiter
  <2>2. 0 \in VC /\ \A v \in VC : Before(0, v) = v
    BY Distance DEF VC
  <2> QED
    BY <2>1, <2>2 DEF NearerInv, VC
<1>2. NearerInv /\ [Next]_vars => NearerInv'
  <2> SUFFICES ASSUME NearerInv, [Next]_vars PROVE NearerInv'
    OBVIOUS
  <2>1. ASSUME NEW S \in SUBSET VC, SelectVC(S) PROVE NearerInv'
    <3> DEFINE w == V1Select(v1, S)
    <3>1. /\ S # {} /\ \A x \in VC : passed[x] > 0 => x \in S
          /\ v1 \in VC /\ passed \in [VC -> Nat]
          /\ \A v \in VC : passed[v] + Before(v1, v) < NumVC
      BY <2>1 DEF NearerInv, SelectVC, Contends
    <3>2. w \in S /\ \A y \in S : Before(v1, w) <= Before(v1, y)
      BY <3>1, FirstInTurn
    <3>3. v1' = (w + 1) % NumVC /\ passed' = Count(passed, S, w, NumVC)
      BY <2>1 DEF SelectVC, V1Next
    <3> HIDE DEF w
    <3>4. v1' = IF w + 1 = NumVC THEN 0 ELSE w + 1
      BY <3>2, <3>3 DEF VC
    <3>5. v1' \in VC
      BY <3>2, <3>4 DEF VC
    <3>6. passed' \in [VC -> Nat]
      BY <3>1, <3>3 DEF Count
    <3>7. ASSUME NEW v \in VC
          PROVE  passed'[v] + Before(v1', v) < NumVC
      <4>1. /\ Before(v1', v) = IF v >= v1' THEN v - v1' ELSE v - v1' + NumVC
            /\ Before(v1, v) = IF v >= v1 THEN v - v1 ELSE v - v1 + NumVC
            /\ Before(v1, w) = IF w >= v1 THEN w - v1 ELSE w - v1 + NumVC
        BY <3>1, <3>2, <3>5, Distance
      <4>5. passed[v] + Before(v1, v) < NumVC /\ (v \in S => Before(v1, w) <= Before(v1, v))
        BY <3>1, <3>2
      <4>7. v \in 0 .. NumVC - 1 /\ w \in 0 .. NumVC - 1 /\ v1 \in 0 .. NumVC - 1
        BY <3>1, <3>2 DEF VC
      <4>2. CASE v = w
        <5>1. passed'[v] = 0
          BY <3>1, <3>3, <4>2 DEF Count
        <5> QED
          BY <3>4, <4>1, <4>7, <5>1
      <4>3. CASE v \in S /\ v # w
        <5>1. passed'[v] <= passed[v] + 1 /\ passed'[v] \in Nat /\ passed[v] \in Nat
          BY <3>1, <3>3, <4>3 DEF Count
        <5> QED
          BY <3>4, <4>1, <4>3, <4>5, <4>7, <5>1
      <4>4. CASE v \notin S
        <5>1. passed[v] = 0
          BY <3>1, <4>4
        <5>2. passed'[v] = 0
          BY <3>1, <3>2, <3>3, <4>4, <5>1 DEF Count
        <5> QED
          BY <3>4, <4>1, <4>7, <5>2
      <4> QED
        BY <4>2, <4>3, <4>4
    <3> QED
      BY <3>5, <3>6, <3>7 DEF NearerInv
  <2>2. ASSUME NEW S \in SUBSET PC, SelectPC(S) PROVE NearerInv'
    BY <2>2 DEF SelectPC, NearerInv
  <2>3. CASE UNCHANGED vars
    BY <2>3 DEF NearerInv, vars
  <2> QED
    BY <2>1, <2>2, <2>3 DEF Next
<1> QED
  BY <1>1, <1>2, PTL DEF Spec

\* Every VC of an input port has its turn within as many arbitrations of V:1 as
\* there are VCs, under LRS however requests come and go, in round robin if they
\* stay (SwArb2Stage::grantGeneric).
THEOREM EveryVCHasItsTurn ==
  ASSUME SAType = "LRS" \/ LosersStay
  PROVE  Spec => []TurnOfVC
<1>1. CASE SAType = "LRS"
  <2>1. IInv => TurnOfVC
    BY MovedUpHasTurn
  <2>2. Spec => []IInv
    BY <1>1, LRSInductive
  <2> QED
    BY <2>1, <2>2, PTL
<1>2. CASE SAType = "RR" /\ LosersStay
  <2>1. NearerInv => TurnOfVC
    <3> SUFFICES ASSUME NearerInv, NEW v \in VC PROVE passed[v] < NumVC
      BY DEF TurnOfVC
    <3>1. Before(v1, v) \in Nat /\ passed[v] \in Nat /\ NumVC \in Nat
      BY SwArbAssumption, Distance DEF NearerInv
    <3>2. passed[v] + Before(v1, v) < NumVC
      BY DEF NearerInv
    <3> QED
      BY <3>1, <3>2
  <2>2. Spec => []NearerInv
    BY <1>2, RRInductive
  <2> QED
    BY <2>1, <2>2, PTL
<1> QED
  BY <1>1, <1>2, SwArbAssumption
=============================================================================
