---------------------------- MODULE ArbiterProofs ----------------------------
(***************************************************************************)
(* What the arbiters of the switch allocator select, for any number of     *)
(* contenders: one of those that ask, and their state stays one of theirs. *)
(***************************************************************************)
EXTENDS SwArb2Stage, WellFoundedInduction, TLAPS

\* The lists of an LRS arbiter: every contender occurs once.
Orders(n) ==
  {s \in [1 .. n -> 0 .. n - 1] :
     /\ \A x \in 0 .. n - 1 : \E i \in 1 .. n : s[i] = x
     /\ \A i, j \in 1 .. n : s[i] = s[j] => i = j}

\* A list knows where each of its contenders is.
LEMMA PositionKnown ==
  ASSUME NEW n \in Nat, NEW s \in Orders(n), NEW x \in 0 .. n - 1
  PROVE  /\ PositionIn(s, x) \in 1 .. n
         /\ s[PositionIn(s, x)] = x
<1>1. \E i \in DOMAIN s : s[i] = x
  BY DEF Orders
<1>2. PositionIn(s, x) \in DOMAIN s /\ s[PositionIn(s, x)] = x
  BY <1>1 DEF PositionIn
<1> QED
  BY <1>2 DEF Orders

\* ... and nowhere else.
LEMMA PositionUnique ==
  ASSUME NEW n \in Nat, NEW s \in Orders(n), NEW i \in 1 .. n
  PROVE  PositionIn(s, s[i]) = i
<1>1. s[i] \in 0 .. n - 1
  BY DEF Orders
<1>2. PositionIn(s, s[i]) \in 1 .. n /\ s[PositionIn(s, s[i])] = s[i]
  BY <1>1, PositionKnown
<1> QED
  BY <1>2 DEF Orders

\* Moving a contender to the end leaves a list of all contenders, in which
\* those that were behind it have moved up by one.
LEMMA MovedToTheEnd ==
  ASSUME NEW n \in Nat, NEW s \in Orders(n), NEW x \in 0 .. n - 1
  PROVE  /\ ToTheEnd(s, x) \in Orders(n)
         /\ PositionIn(ToTheEnd(s, x), x) = n
         /\ \A y \in (0 .. n - 1) \ {x} :
              PositionIn(ToTheEnd(s, x), y) =
                IF PositionIn(s, y) < PositionIn(s, x)
                THEN PositionIn(s, y) ELSE PositionIn(s, y) - 1
<1> DEFINE k == PositionIn(s, x)
           t == ToTheEnd(s, x)
<1>1. /\ k \in 1 .. n /\ s[k] = x
      /\ n >= 1
  BY PositionKnown
<1>2. /\ t \in [1 .. n -> 0 .. n - 1]
      /\ \A i \in 1 .. n : t[i] = IF i < k THEN s[i] ELSE IF i < n THEN s[i + 1] ELSE x
  BY <1>1 DEF ToTheEnd, Orders
<1> HIDE DEF t, k
<1>3. \A i \in 1 .. n : \E j \in 1 .. n :
        /\ t[i] = s[j]
        /\ \/ i < k /\ j = i
           \/ i >= k /\ i < n /\ j = i + 1
           \/ i >= k /\ i = n /\ j = k
  <2> SUFFICES ASSUME NEW i \in 1 .. n
               PROVE  \E j \in 1 .. n :
                        /\ t[i] = s[j]
                        /\ \/ i < k /\ j = i
                           \/ i >= k /\ i < n /\ j = i + 1
                           \/ i >= k /\ i = n /\ j = k
    OBVIOUS
  <2>1. CASE i < k
    BY <1>1, <1>2, <2>1
  <2>2. CASE i >= k /\ i < n
    <3>1. i + 1 \in 1 .. n /\ t[i] = s[i + 1]
      BY <1>1, <1>2, <2>2
    <3> QED
      BY <2>2, <3>1
  <2>3. CASE i >= k /\ i = n
    BY <1>1, <1>2, <2>3
  <2> QED
    BY <1>1, <2>1, <2>2, <2>3
<1>4. ASSUME NEW i \in 1 .. n, NEW j \in 1 .. n, t[i] = t[j]
      PROVE  i = j
  <2>1. PICK a \in 1 .. n :
          /\ t[i] = s[a]
          /\ \/ i < k /\ a = i
             \/ i >= k /\ i < n /\ a = i + 1
             \/ i >= k /\ i = n /\ a = k
    BY <1>3
  <2>2. PICK b \in 1 .. n :
          /\ t[j] = s[b]
          /\ \/ j < k /\ b = j
             \/ j >= k /\ j < n /\ b = j + 1
             \/ j >= k /\ j = n /\ b = k
    BY <1>3
  <2>3. a = b
    BY <1>4, <2>1, <2>2 DEF Orders
  <2> QED
    BY <1>1, <2>1, <2>2, <2>3
<1>5. ASSUME NEW y \in (0 .. n - 1) \ {x}
      PROVE  \E i \in 1 .. n :
               /\ t[i] = y
               /\ i = IF PositionIn(s, y) < k THEN PositionIn(s, y) ELSE PositionIn(s, y) - 1
  <2>1. PositionIn(s, y) \in 1 .. n /\ s[PositionIn(s, y)] = y
    BY PositionKnown
  <2>2. PositionIn(s, y) # k
    BY <1>1, <2>1
  <2>3. CASE PositionIn(s, y) < k
    BY <1>1, <1>2, <2>1, <2>3
  <2>4. CASE PositionIn(s, y) > k
    <3>1. PositionIn(s, y) - 1 \in 1 .. n - 1 /\ PositionIn(s, y) - 1 >= k
      BY <1>1, <2>1, <2>4
    <3>2. t[PositionIn(s, y) - 1] = y
      BY <1>1, <1>2, <2>1, <3>1
    <3> QED
      BY <2>1, <2>4, <3>1, <3>2, <1>1
  <2> QED
    BY <1>1, <2>1, <2>2, <2>3, <2>4
<1>6. t[n] = x
  BY <1>1, <1>2
<1>7. t \in Orders(n)
  <2>1. \A y \in 0 .. n - 1 : \E i \in 1 .. n : t[i] = y
    BY <1>1, <1>5, <1>6
  <2> QED
    BY <1>2, <1>4, <2>1 DEF Orders
<1>8. PositionIn(t, x) = n
  BY <1>1, <1>6, <1>7, PositionUnique
<1>9. ASSUME NEW y \in (0 .. n - 1) \ {x}
      PROVE  PositionIn(t, y) = IF PositionIn(s, y) < k
                                THEN PositionIn(s, y) ELSE PositionIn(s, y) - 1
  <2>1. PICK i \in 1 .. n :
               /\ t[i] = y
               /\ i = IF PositionIn(s, y) < k THEN PositionIn(s, y) ELSE PositionIn(s, y) - 1
    BY <1>5
  <2>2. PositionIn(t, t[i]) = i
    BY <1>7, PositionUnique
  <2> QED
    BY <2>1, <2>2
<1> QED
  BY <1>7, <1>8, <1>9 DEF t, k

\* A set of numbers has a least one.
LEMMA LeastExists ==
  ASSUME NEW T \in SUBSET Nat, T # {}
  PROVE  \E m \in T : \A n \in T : m <= n
<1> DEFINE R == {e \in Nat \X Nat : e[1] < e[2]}
<1>1. IsWellFoundedOn(R, Nat)
  BY NatLessThanWellFounded, Zenon DEF OpToRel
<1>2. \A m, n \in Nat : n < m => <<n, m>> \in R
  OBVIOUS
<1> HIDE DEF R
<1>3. \E m \in T : \A n \in T : ~ (<<n, m>> \in R)
  BY <1>1, WFMin, Zenon
<1>4. PICK m \in T : \A k \in T : ~ (<<k, m>> \in R)
  BY <1>3
<1>5. \A k \in T : ~ (k < m)
  BY <1>2, <1>4
<1>6. \A k \in T : m <= k
  BY <1>5
<1> QED
  BY <1>4, <1>6

\* The order First() minimises over contenders in a list has a least element.
LEMMA ChosenFirst ==
  ASSUME NEW n \in Nat, NEW s \in Orders(n), NEW S \in SUBSET (0 .. n - 1), S # {}
  PROVE  \E x \in S : \A y \in S :
           \/ PositionIn(s, x) < PositionIn(s, y)
           \/ PositionIn(s, x) = PositionIn(s, y) /\ x <= y
<1> DEFINE T == {PositionIn(s, x) : x \in S}
<1>1. \A x \in S : PositionIn(s, x) \in 1 .. n /\ s[PositionIn(s, x)] = x
  BY PositionKnown
<1>2. T \in SUBSET Nat /\ T # {}
  <2>1. \A x \in S : PositionIn(s, x) \in Nat
    BY <1>1
  <2> QED
    BY <2>1
<1>3. PICK m \in T : \A k \in T : m <= k
  BY <1>2, LeastExists
<1>4. PICK x \in S : m = PositionIn(s, x)
  BY <1>3
<1>5. ASSUME NEW y \in S
      PROVE  \/ PositionIn(s, x) < PositionIn(s, y)
             \/ PositionIn(s, x) = PositionIn(s, y) /\ x <= y
  <2>1. PositionIn(s, x) <= PositionIn(s, y)
    BY <1>3, <1>4
  <2>2. PositionIn(s, x) = PositionIn(s, y) => x = y
    BY <1>1
  <2>3. x \in Int /\ y \in Int
    OBVIOUS
  <2> QED
    BY <1>1, <2>1, <2>2, <2>3
<1> QED
  BY <1>5

\* V:1 selects the contender that is first in its list.
LEMMA V1SelectsFirst ==
  ASSUME SAType = "LRS", NEW s \in Orders(NumVC), NEW S \in SUBSET VC, S # {}
  PROVE  /\ V1Select(s, S) \in S
         /\ \A y \in S \ {V1Select(s, S)} : PositionIn(s, V1Select(s, S)) < PositionIn(s, y)
<1>1. NumVC \in Nat
  BY SwArbAssumption
<1>2. V1Select(s, S) = CHOOSE x \in S : \A y \in S :
           \/ PositionIn(s, x) < PositionIn(s, y)
           \/ PositionIn(s, x) = PositionIn(s, y) /\ x <= y
  BY DEF V1Select, V1Order, First
<1>3. V1Select(s, S) \in S /\ \A y \in S :
           \/ PositionIn(s, V1Select(s, S)) < PositionIn(s, y)
           \/ PositionIn(s, V1Select(s, S)) = PositionIn(s, y) /\ V1Select(s, S) <= y
  BY <1>1, <1>2, ChosenFirst DEF VC
<1> QED
  BY <1>1, <1>3, PositionKnown DEF VC

\* So does P:1.
LEMMA P1SelectsFirst ==
  ASSUME SAType = "LRS", NEW s \in Orders(NumPC), NEW S \in SUBSET PC, S # {}
  PROVE  /\ P1Select(s, S) \in S
         /\ \A y \in S \ {P1Select(s, S)} : PositionIn(s, P1Select(s, S)) < PositionIn(s, y)
<1>1. NumPC \in Nat
  BY SwArbAssumption
<1>2. P1Select(s, S) = CHOOSE x \in S : \A y \in S :
           \/ PositionIn(s, x) < PositionIn(s, y)
           \/ PositionIn(s, x) = PositionIn(s, y) /\ x <= y
  BY DEF P1Select, P1Order, First
<1>3. P1Select(s, S) \in S /\ \A y \in S :
           \/ PositionIn(s, P1Select(s, S)) < PositionIn(s, y)
           \/ PositionIn(s, P1Select(s, S)) = PositionIn(s, y) /\ P1Select(s, S) <= y
  BY <1>1, <1>2, ChosenFirst DEF PC
<1> QED
  BY <1>1, <1>3, PositionKnown DEF PC

\* A list of all contenders in the order of their numbers.
LEMMA InitialOrders ==
  ASSUME NEW n \in Nat
  PROVE  /\ Contenders(n) \in Orders(n)
         /\ \A x \in 0 .. n - 1 : PositionIn(Contenders(n), x) = x + 1
<1>1. /\ Contenders(n) \in [1 .. n -> 0 .. n - 1]
      /\ \A i \in 1 .. n : Contenders(n)[i] = i - 1
  BY DEF Contenders
<1>2. \A x \in 0 .. n - 1 : x + 1 \in 1 .. n /\ Contenders(n)[x + 1] = x
  BY <1>1
<1>3. Contenders(n) \in Orders(n)
  BY <1>1, <1>2 DEF Orders
<1> QED
  BY <1>2, <1>3, PositionUnique

\* The state of an arbiter of n contenders: a round-robin counter or a list.
Arbiter(n) == IF SAType = "RR" THEN 0 .. n - 1 ELSE Orders(n)

LEMMA InitialArbiter ==
  ASSUME NEW n \in Nat \ {0}
  PROVE  InitArbiter(n) \in Arbiter(n)
BY InitialOrders DEF InitArbiter, Arbiter

\* In whatever order First() looks at numbers, there is a first one.
LEMMA FirstExists ==
  ASSUME NEW S \in SUBSET Nat, S # {}, NEW order \in [S -> Nat]
  PROVE  \E x \in S : \A y \in S :
           order[x] < order[y] \/ (order[x] = order[y] /\ x <= y)
<1> DEFINE T == {order[x] : x \in S}
<1>1. T \in SUBSET Nat /\ T # {}
  OBVIOUS
<1>2. PICK m \in T : \A k \in T : m <= k
  BY <1>1, LeastExists
<1> DEFINE R == {x \in S : order[x] = m}
<1>3. R \in SUBSET Nat /\ R # {}
  BY <1>2
<1>4. PICK x \in R : \A y \in R : x <= y
  BY <1>3, LeastExists
<1>5. ASSUME NEW y \in S
      PROVE  order[x] < order[y] \/ (order[x] = order[y] /\ x <= y)
  <2>1. order[x] = m /\ m <= order[y] /\ order[y] \in Nat
    BY <1>2, <1>4
  <2> QED
    BY <1>4, <2>1
<1> QED
  BY <1>4, <1>5

\* V:1 selects one of the VCs that ask, and its next state is a state.
LEMMA V1Works ==
  ASSUME NEW s \in Arbiter(NumVC), NEW S \in SUBSET VC, S # {}
  PROVE  V1Select(s, S) \in S /\ V1Next(s, V1Select(s, S)) \in Arbiter(NumVC)
<1> USE SwArbAssumption
<1>1. CASE SAType = "RR"
  <2> DEFINE order == [v \in S |-> (v - s) % NumVC]
  <2>1. s \in 0 .. NumVC - 1 /\ order \in [S -> Nat] /\ S \in SUBSET Nat
    BY <1>1 DEF Arbiter, VC
  <2>2. \E x \in S : \A y \in S :
          order[x] < order[y] \/ (order[x] = order[y] /\ x <= y)
    BY <2>1, FirstExists
  <2>3. \E x \in S : \A y \in S :
          \/ (x - s) % NumVC < (y - s) % NumVC
          \/ (x - s) % NumVC = (y - s) % NumVC /\ x <= y
    BY <2>2
  <2>4. V1Select(s, S) \in S
    BY <1>1, <2>3 DEF V1Select, First, V1Order
  <2>5. \A w \in VC : (w + 1) % NumVC \in 0 .. NumVC - 1
    BY DEF VC
  <2>6. V1Next(s, V1Select(s, S)) \in 0 .. NumVC - 1
    BY <1>1, <2>4, <2>5 DEF V1Next
  <2> QED
    BY <1>1, <2>4, <2>6 DEF Arbiter
<1>2. CASE SAType = "LRS"
  <2>1. s \in Orders(NumVC)
    BY <1>2 DEF Arbiter
  <2>2. V1Select(s, S) \in S
    BY <1>2, <2>1, V1SelectsFirst
  <2>3. ToTheEnd(s, V1Select(s, S)) \in Orders(NumVC)
    BY <2>1, <2>2, MovedToTheEnd DEF VC
  <2> QED
    BY <1>2, <2>2, <2>3 DEF Arbiter, V1Next
<1> QED
  BY <1>1, <1>2

\* P:1 selects one of the ports that ask, and its next state is a state.
LEMMA P1Works ==
  ASSUME NEW s \in Arbiter(NumPC), NEW S \in SUBSET PC, S # {}
  PROVE  P1Select(s, S) \in S /\ P1Next(s, P1Select(s, S)) \in Arbiter(NumPC)
<1> USE SwArbAssumption
<1>1. CASE SAType = "RR"
  <2> DEFINE order == [p \in S |-> RROrder(p, s)]
  <2>1. s \in 0 .. NumPC - 1 /\ order \in [S -> Nat] /\ S \in SUBSET Nat
    BY <1>1 DEF Arbiter, PC, RROrder
  <2>2. \E x \in S : \A y \in S :
          order[x] < order[y] \/ (order[x] = order[y] /\ x <= y)
    BY <2>1, FirstExists
  <2>3. \E x \in S : \A y \in S :
          \/ RROrder(x, s) < RROrder(y, s)
          \/ RROrder(x, s) = RROrder(y, s) /\ x <= y
    BY <2>2
  <2>4. P1Select(s, S) \in S
    BY <1>1, <2>3 DEF P1Select, First, P1Order
  <2>5. \A w \in PC : (w + 1) % NumPC \in 0 .. NumPC - 1
    BY DEF PC
  <2>6. P1Next(s, P1Select(s, S)) \in 0 .. NumPC - 1
    BY <1>1, <2>4, <2>5 DEF P1Next
  <2> QED
    BY <1>1, <2>4, <2>6 DEF Arbiter
<1>2. CASE SAType = "LRS"
  <2>1. s \in Orders(NumPC)
    BY <1>2 DEF Arbiter
  <2>2. P1Select(s, S) \in S
    BY <1>2, <2>1, P1SelectsFirst
  <2>3. ToTheEnd(s, P1Select(s, S)) \in Orders(NumPC)
    BY <2>1, <2>2, MovedToTheEnd DEF PC
  <2> QED
    BY <1>2, <2>2, <2>3 DEF Arbiter, P1Next
<1> QED
  BY <1>1, <1>2
=============================================================================
