--------------------------- MODULE CreditLoopProofs ---------------------------
(***************************************************************************)
(* Theorems about CreditLoop for every set of VCs, buffer depth, reserve   *)
(* and both buffer types.                                                  *)
(***************************************************************************)
EXTENDS CreditLoop, FiniteSetTheorems, TLAPS

-----------------------------------------------------------------------------
(* Sums over the VCs. *)

LEMMA UnitsFinite ==
  ASSUME NEW f \in [VC -> Nat]
  PROVE  IsFiniteSet(Units(f)) /\ Total(f) \in Nat
<1> DEFINE block == [v \in VC |-> {v} \X (1 .. f[v])]
<1> DEFINE S == {{v} \X (1 .. f[v]) : v \in VC}
<1>1. block \in Surjection(VC, S)
  BY DEF Surjection
<1>2. IsFiniteSet(S)
  BY <1>1, FS_Surjection, CreditLoopAssumption
<1>3. ASSUME NEW v \in VC
      PROVE  IsFiniteSet({v} \X (1 .. f[v]))
  <2>1. IsFiniteSet({v})
    BY FS_Singleton
  <2>2. IsFiniteSet(1 .. f[v])
    BY FS_Interval
  <2>3. QED
    BY <2>1, <2>2, FS_Product
<1>4. IsFiniteSet(UNION S)
  BY <1>2, <1>3, FS_UNION
<1>5. QED
  BY <1>4, FS_CardinalityType DEF Units, Total

\* One VC counting one unit more adds one to the total.
LEMMA TotalStep ==
  ASSUME NEW f \in [VC -> Nat], NEW g \in [VC -> Nat], NEW v \in VC,
         g[v] = f[v] + 1, \A w \in VC \ {v} : g[w] = f[w]
  PROVE  Total(g) = Total(f) + 1
<1>1. <<v, f[v] + 1>> \notin Units(f)
  BY DEF Units
<1>2. Units(g) = Units(f) \cup {<<v, f[v] + 1>>}
  BY DEF Units
<1>3. QED
  BY <1>1, <1>2, UnitsFinite, FS_AddElement DEF Total

LEMMA TotalMonotone ==
  ASSUME NEW f \in [VC -> Nat], NEW g \in [VC -> Nat],
         \A w \in VC : f[w] <= g[w]
  PROVE  Total(f) <= Total(g)
<1>1. Units(f) \subseteq Units(g)
  BY DEF Units
<1>2. QED
  BY <1>1, UnitsFinite, FS_Subset DEF Total

-----------------------------------------------------------------------------
(* What a step does to the slots a VC holds, and the type invariant. *)

\* Every step moves one unit of one VC, so that what a VC holds changes only
\* when a credit is taken or counted again.
LEMMA HeldType == TypeOK => Held \in [VC -> Nat]
  BY DEF TypeOK, Held

LEMMA HeldMoves ==
  ASSUME TypeOK, NEW v \in VC, Send(v) \/ Deliver(v) \/ Drain(v)
  PROVE  \A w \in VC : Held'[w] = Held[w]
BY DEF TypeOK, Held, Send, Deliver, Drain

LEMMA HeldGrows ==
  ASSUME TypeOK, NEW v \in VC, Grant(v)
  PROVE  Held'[v] = Held[v] + 1 /\ \A w \in VC \ {v} : Held'[w] = Held[w]
BY DEF TypeOK, Held, Grant

LEMMA HeldShrinks ==
  ASSUME TypeOK, NEW v \in VC, Inc(v)
  PROVE  Held[v] = Held'[v] + 1 /\ \A w \in VC \ {v} : Held'[w] = Held[w]
BY DEF TypeOK, Held, Inc

LEMMA TypeStep ==
  ASSUME TypeOK, [Next]_vars
  PROVE  TypeOK'
<1> USE CreditLoopAssumption DEF TypeOK
<1>0. awake' \in BOOLEAN
  BY DEF Next, vars, Grant, Send, Deliver, Drain, Inc, Sleep, Wakeup
<1>1. ASSUME NEW v \in VC, Grant(v)
      PROVE  TypeOK'
  BY <1>1 DEF Grant, HasCredit, Pool, PoolOf
<1>2. ASSUME NEW v \in VC, Send(v) \/ Deliver(v) \/ Drain(v)
      PROVE  TypeOK'
  BY <1>2 DEF Send, Deliver, Drain
<1>3. ASSUME NEW v \in VC, Inc(v)
      PROVE  TypeOK'
  BY <1>3 DEF Inc, Pool, PoolOf
<1>4. CASE UNCHANGED slots
  BY <1>4, <1>0 DEF slots
<1>5. QED
  BY <1>1, <1>2, <1>3, <1>4 DEF Next, Sleep, Wakeup, vars

\* The type invariant: no counter of the link is ever negative, which is what
\* the assertions of decCredit say, and no VC's reserve exceeds its size.
THEOREM TypeCorrect == Spec => []TypeOK
<1>1. Init => TypeOK
  <2>1. Cardinality(VC) \in Nat
    BY CreditLoopAssumption, FS_CardinalityType
  <2>2. Cardinality(VC) * (Depth - Rsv) \in Nat
    BY <2>1, CreditLoopAssumption
  <2>3. QED
    BY <2>2, CreditLoopAssumption DEF Init, TypeOK, Pool
<1>2. TypeOK /\ [Next]_vars => TypeOK'
  BY TypeStep
<1>3. QED
  BY <1>1, <1>2, PTL DEF Spec

-----------------------------------------------------------------------------
(* Conservation. *)

\* The shared pool, the reserves and the slots in use add up to the capacity
\* (DAMQ_P) after a credit is taken and after one is counted again.
LEMMA ConservationStep ==
  ASSUME TypeOK, Conservation, [Next]_vars
  PROVE  Conservation'
<1>0. TypeOK' /\ Held \in [VC -> Nat] /\ Held' \in [VC -> Nat]
  BY TypeStep, HeldType DEF TypeOK, Held
<1>t. /\ rsv \in [VC -> Nat] /\ rsv' \in [VC -> Nat]
      /\ Total(rsv) \in Nat /\ Total(rsv') \in Nat
      /\ Total(Held) \in Nat /\ Total(Held') \in Nat
  <2>1. rsv \in [VC -> Nat] /\ rsv' \in [VC -> Nat]
    BY <1>0, CreditLoopAssumption DEF TypeOK
  <2>2. QED
    BY <2>1, <1>0, UnitsFinite
<1>1. ASSUME NEW v \in VC, Grant(v)
      PROVE  Conservation'
  <2>1. Total(Held') = Total(Held) + 1
    BY <1>0, <1>1, HeldGrows, TotalStep
  <2>2. CASE BufferType = "SAMQ"
    <3>1. Held'[v] = Held[v] + 1 /\ \A w \in VC \ {v} : Held'[w] = Held[w]
      BY <1>1, HeldGrows
    <3>2. credit \in [VC -> Nat] /\ credit' = [credit EXCEPT ![v] = @ - 1]
      BY <1>1, <2>2 DEF TypeOK, Grant, HasCredit, Pool, PoolOf
    <3>3. QED
      BY <1>0, <2>2, <3>1, <3>2, CreditLoopAssumption DEF Conservation
  <2>3. CASE BufferType = "DAMQ_P" /\ credit["outport"] >= 1
    BY <1>0, <1>1, <1>t, <2>1, <2>3
    DEF Conservation, TypeOK, Grant, Pool, PoolOf
  <2>4. CASE BufferType = "DAMQ_P" /\ ~ credit["outport"] >= 1
    <3>1. /\ rsv[v] = rsv'[v] + 1 /\ \A w \in VC \ {v} : rsv[w] = rsv'[w]
          /\ credit' = credit
      BY <1>0, <1>1, <2>4, CreditLoopAssumption DEF TypeOK, Grant, PoolOf
    <3>2. Total(rsv) = Total(rsv') + 1
      BY <1>t, <3>1, TotalStep
    <3>3. QED
      BY <1>0, <1>t, <2>1, <2>4, <3>1, <3>2 DEF Conservation, TypeOK, Pool
  <2>5. QED
    BY <2>2, <2>3, <2>4, CreditLoopAssumption
<1>2. ASSUME NEW v \in VC, Send(v) \/ Deliver(v) \/ Drain(v)
      PROVE  Conservation'
  <2>1. Held' = Held
    BY <1>0, <1>2, HeldMoves
  <2>2. credit' = credit /\ rsv' = rsv
    BY <1>2 DEF Send, Deliver, Drain
  <2>3. QED
    BY <2>1, <2>2 DEF Conservation, Total, Units
<1>3. ASSUME NEW v \in VC, Inc(v)
      PROVE  Conservation'
  <2>1. Total(Held) = Total(Held') + 1
    <3>1. Held[v] = Held'[v] + 1 /\ \A w \in VC \ {v} : Held[w] = Held'[w]
      BY <1>3, HeldShrinks
    <3>2. QED
      BY <1>0, <3>1, TotalStep
  <2>2. CASE BufferType = "SAMQ"
    <3>1. Held[v] = Held'[v] + 1 /\ \A w \in VC \ {v} : Held'[w] = Held[w]
      BY <1>3, HeldShrinks
    <3>2. credit \in [VC -> Nat] /\ credit' = [credit EXCEPT ![v] = @ + 1]
      BY <1>3, <2>2 DEF TypeOK, Inc, Pool, PoolOf
    <3>3. QED
      BY <1>0, <2>2, <3>1, <3>2, CreditLoopAssumption DEF Conservation
  <2>3. CASE BufferType = "DAMQ_P" /\ ~ rsv[v] < Rsv
    BY <1>0, <1>3, <1>t, <2>1, <2>3
    DEF Conservation, TypeOK, Inc, Pool, PoolOf
  <2>4. CASE BufferType = "DAMQ_P" /\ rsv[v] < Rsv
    <3>1. /\ rsv'[v] = rsv[v] + 1 /\ \A w \in VC \ {v} : rsv'[w] = rsv[w]
          /\ credit' = credit
      BY <1>0, <1>3, <2>4, CreditLoopAssumption DEF TypeOK, Inc
    <3>2. Total(rsv') = Total(rsv) + 1
      BY <1>t, <3>1, TotalStep
    <3>3. QED
      BY <1>0, <1>t, <2>1, <2>4, <3>1, <3>2 DEF Conservation, TypeOK, Pool
  <2>5. QED
    BY <2>2, <2>3, <2>4, CreditLoopAssumption
<1>4. CASE UNCHANGED slots
  BY <1>4 DEF slots, Conservation, Held, Total, Units
<1>5. QED
  BY <1>1, <1>2, <1>3, <1>4 DEF Next, Sleep, Wakeup, vars

LEMMA ConservationInit == Init => TypeOK /\ Conservation
<1> SUFFICES ASSUME Init PROVE TypeOK /\ Conservation
  OBVIOUS
<1> DEFINE N == Cardinality(VC)
<1>1. N \in Nat
  BY CreditLoopAssumption, FS_CardinalityType
<1>2. N * (Depth - Rsv) \in Nat
  BY <1>1, CreditLoopAssumption
<1>3. TypeOK
  BY <1>2, CreditLoopAssumption DEF Init, TypeOK, Pool
<1>4. CASE BufferType = "SAMQ"
  BY <1>3, <1>4, CreditLoopAssumption DEF Init, Conservation, Held, Pool
<1>5. CASE BufferType = "DAMQ_P"
  <2>1. Total(Held) = 0
    <3>1. Units(Held) = {}
      BY DEF Init, Units, Held
    <3>2. QED
      BY <3>1, FS_EmptySet DEF Total
  <2>2. Total(rsv) = N * Rsv
    <3>1. Units(rsv) = VC \X (1 .. Rsv)
      BY DEF Init, Units
    <3>2. IsFiniteSet(1 .. Rsv) /\ Cardinality(1 .. Rsv) = Rsv
      BY FS_Interval, CreditLoopAssumption
    <3>3. QED
      BY <3>1, <3>2, FS_Product, CreditLoopAssumption DEF Total
  <2>3. credit["outport"] = N * (Depth - Rsv)
    BY <1>5 DEF Init, Pool
  <2>4. N * (Depth - Rsv) + N * Rsv = N * Depth
    <3> HIDE DEF N
    <3>1. \A n, d, r \in Int : n * (d - r) + n * r = n * d
      OBVIOUS
    <3>2. Depth \in Int /\ Rsv \in Int
      BY CreditLoopAssumption
    <3>3. QED
      BY <1>1, <3>1, <3>2
  <2>5. credit["outport"] + Total(rsv) + Total(Held) = Capacity
    <3>1. N * Rsv \in Int
      BY <1>1, CreditLoopAssumption
    <3> HIDE DEF N
    <3>2. N * (Depth - Rsv) + N * Rsv + 0 = N * Depth
      BY <1>2, <2>4, <3>1
    <3>3. QED
      BY <2>1, <2>2, <2>3, <3>2 DEF Capacity, N
  <2>6. QED
    BY <1>3, <1>5, <2>5 DEF Conservation
<1>6. QED
  BY <1>3, <1>4, <1>5, CreditLoopAssumption

\* No credit is ever lost or duplicated: every slot of the downstream buffer is
\* accounted for, for any number of VCs, any depth and any reserve.
THEOREM ConservationHolds == Spec => []Conservation
<1>1. TypeOK /\ Conservation /\ [Next]_vars => (TypeOK /\ Conservation)'
  BY TypeStep, ConservationStep
<1>2. QED
  BY <1>1, ConservationInit, PTL DEF Spec

LEMMA ConservationImpliesRoom == TypeOK /\ Conservation => NoOverflow
<1> SUFFICES ASSUME TypeOK, Conservation, NEW v \in VC, wire[v] > 0
             PROVE  ~ IsFull(v)
  BY DEF NoOverflow
<1>1. /\ Held \in [VC -> Nat] /\ buf \in [VC -> Nat]
      /\ Held[v] >= buf[v] + 1 /\ \A w \in VC : Held[w] >= buf[w]
  BY DEF TypeOK, Held
<1>2. CASE BufferType = "SAMQ"
  <2>1. credit[v] \in Nat /\ credit[v] + Held[v] = Depth
    BY <1>2 DEF TypeOK, Conservation, Pool
  <2>2. QED
    BY <1>1, <1>2, <2>1, CreditLoopAssumption DEF IsFull
<1>3. CASE BufferType = "DAMQ_P"
  <2> DEFINE more == [buf EXCEPT ![v] = @ + 1]
  <2>1. /\ more \in [VC -> Nat] /\ more[v] = buf[v] + 1
        /\ \A w \in VC \ {v} : more[w] = buf[w]
    BY <1>1
  <2> HIDE DEF more
  <2>2. Total(more) = Total(buf) + 1 /\ Total(more) <= Total(Held)
    <3>1. Total(more) = Total(buf) + 1
      BY <1>1, <2>1, TotalStep
    <3>2. \A w \in VC : more[w] <= Held[w]
      BY <1>1, <2>1
    <3>3. QED
      BY <1>1, <2>1, <3>1, <3>2, TotalMonotone
  <2>3. /\ Total(buf) \in Nat /\ Total(Held) \in Nat /\ Total(rsv) \in Nat
        /\ credit["outport"] \in Nat
    <3>1. rsv \in [VC -> Nat]
      BY CreditLoopAssumption DEF TypeOK
    <3>2. QED
      BY <1>1, <1>3, <3>1, UnitsFinite DEF TypeOK, Pool
  <2>4. Cardinality(VC) \in Nat /\ Capacity \in Nat
    BY CreditLoopAssumption, FS_CardinalityType DEF Capacity
  <2>5. QED
    BY <1>3, <2>2, <2>3, <2>4 DEF Conservation, IsFull
<1>4. QED
  BY <1>2, <1>3, CreditLoopAssumption

\* A flit that leaves the link always finds room downstream.
THEOREM NoOverflowHolds == Spec => []NoOverflow
<1>1. TypeOK /\ Conservation => NoOverflow
  BY ConservationImpliesRoom
<1>2. QED
  BY <1>1, TypeCorrect, ConservationHolds, PTL

-----------------------------------------------------------------------------
(* The reserve. *)

\* A credit missing from a VC's reserve is held by a flit of that VC.
THEOREM ReserveOwedHolds == Spec => []ReserveOwed
<1>1. Init => ReserveOwed
  BY CreditLoopAssumption DEF Init, ReserveOwed, Held
<1>2. TypeOK /\ ReserveOwed /\ [Next]_vars => ReserveOwed'
  <2> SUFFICES ASSUME TypeOK, ReserveOwed, [Next]_vars
               PROVE  ReserveOwed'
    OBVIOUS
  <2>0. TypeOK' /\ Held \in [VC -> Nat] /\ Held' \in [VC -> Nat]
    BY TypeStep, HeldType DEF TypeOK, Held
  <2>1. ASSUME NEW v \in VC, Grant(v)
        PROVE  ReserveOwed'
    <3>1. Held'[v] = Held[v] + 1 /\ \A w \in VC \ {v} : Held'[w] = Held[w]
      BY <2>1, HeldGrows
    <3>2. rsv'[v] >= rsv[v] - 1 /\ \A w \in VC \ {v} : rsv'[w] = rsv[w]
      BY <2>0, <2>1 DEF TypeOK, Grant
    <3>3. QED
      BY <2>0, <3>1, <3>2, CreditLoopAssumption DEF TypeOK, ReserveOwed
  <2>2. ASSUME NEW v \in VC, Send(v) \/ Deliver(v) \/ Drain(v)
        PROVE  ReserveOwed'
    <3>1. \A w \in VC : Held'[w] = Held[w]
      BY <2>2, HeldMoves
    <3>2. rsv' = rsv
      BY <2>2 DEF Send, Deliver, Drain
    <3>3. QED
      BY <3>1, <3>2 DEF ReserveOwed
  <2>3. ASSUME NEW v \in VC, Inc(v)
        PROVE  ReserveOwed'
    <3>1. Held[v] = Held'[v] + 1 /\ \A w \in VC \ {v} : Held'[w] = Held[w]
      BY <2>3, HeldShrinks
    <3>2. /\ rsv'[v] = rsv[v] + 1 \/ (rsv'[v] = rsv[v] /\ rsv[v] = Rsv)
          /\ \A w \in VC \ {v} : rsv'[w] = rsv[w]
      <4>1. rsv \in [VC -> 0 .. Rsv] /\ Rsv \in Nat
        BY CreditLoopAssumption DEF TypeOK
      <4>2. CASE BufferType = "DAMQ_P" /\ rsv[v] < Rsv
        BY <2>3, <4>1, <4>2 DEF Inc
      <4>3. CASE ~ (BufferType = "DAMQ_P" /\ rsv[v] < Rsv)
        <5>1. rsv' = rsv
          BY <2>3, <4>3 DEF Inc
        <5>2. rsv[v] = Rsv
          BY <4>1, <4>3, CreditLoopAssumption
        <5>3. QED
          BY <5>1, <5>2
      <4>4. QED
        BY <4>2, <4>3
    <3>3. QED
      BY <2>0, <3>1, <3>2, CreditLoopAssumption DEF TypeOK, ReserveOwed
  <2>4. CASE UNCHANGED slots
    BY <2>4 DEF slots, ReserveOwed, Held
  <2>5. QED
    BY <2>1, <2>2, <2>3, <2>4 DEF Next, Sleep, Wakeup, vars
<1>3. QED
  BY <1>1, <1>2, TypeCorrect, PTL DEF Spec

\* A VC that holds fewer slots than its reserve is never refused a credit,
\* whatever traffic the other VCs of the port carry.
THEOREM NoShutOutHolds == Spec => []NoShutOut
<1>1. TypeOK /\ ReserveOwed => NoShutOut
  <2> SUFFICES ASSUME TypeOK, ReserveOwed, NEW v \in VC, Held[v] < Rsv
               PROVE  HasCredit(v)
    BY DEF NoShutOut
  <2>1. Held[v] \in Nat /\ rsv[v] \in Int /\ Rsv - rsv[v] <= Held[v]
    BY HeldType DEF TypeOK, ReserveOwed
  <2>2. rsv[v] >= 1 /\ BufferType = "DAMQ_P"
    BY <2>1, CreditLoopAssumption
  <2>3. QED
    BY <2>2 DEF HasCredit
<1>2. QED
  BY <1>1, TypeCorrect, ReserveOwedHolds, PTL
=============================================================================
