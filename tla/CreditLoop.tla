------------------------------ MODULE CreditLoop ------------------------------
(***************************************************************************)
(* Credit-based flow control over one link: the output port of an upstream *)
(* router, the wires, the input port of the downstream router and the      *)
(* credits on their way back (Router.C, FlitQ.C).                          *)
(*                                                                         *)
(* This is the abstract view of one link: only how many flits and credits  *)
(* of each VC are where.  Clock cycles, pipeline stages, packets and the   *)
(* arbiters are in module Network, which implements this one.              *)
(*                                                                         *)
(* A flit that won switch arbitration holds a slot of the downstream       *)
(* buffer from that moment until its credit is counted again upstream:     *)
(*   credit -Grant-> xbar -Send-> wire -Deliver-> buf -Drain-> back -Inc-> *)
(***************************************************************************)
EXTENDS Integers, FiniteSets

CONSTANTS
  VC,          \* the virtual channels of the link
  Depth,       \* m_inbuf_depth: buffer slots per VC
  Rsv,         \* router_num_rsv_credit: credits reserved for each VC
  BufferType   \* router_buffer_type: "SAMQ" or "DAMQ_P"

\* parse_arg.C sets no reserved credit for SAMQ and one for a DAMQ.
ASSUME CreditLoopAssumption ==
  /\ IsFiniteSet(VC)
  /\ VC # {}
  /\ Depth \in Nat \ {0}
  /\ BufferType \in {"SAMQ", "DAMQ_P"}
  /\ Rsv \in IF BufferType = "SAMQ" THEN {0} ELSE 0 .. Depth

VARIABLES
  credit,   \* m_num_credit: per VC (SAMQ), or its sum over the VCs (DAMQ_P)
  rsv,      \* m_num_credit_rsv[v]
  xbar,     \* flits of v granted by switch arbitration, not yet sent
  wire,     \* flits of v in m_w_pipeline of the link
  buf,      \* flits of v in the downstream FlitQ
  back,     \* credits of v in m_credit_deposit_vec
  awake     \* the upstream router does not wait for m_ev_wakeup

slots == <<credit, rsv, xbar, wire, buf, back>>
vars == <<slots, awake>>

\* The counters a VC draws from: its own one, or the one all VCs share (the
\* code of DAMQ_P only ever uses the sum of the VCs' m_num_credit).
Pool == IF BufferType = "SAMQ" THEN VC ELSE {"outport"}

PoolOf(v) == IF BufferType = "SAMQ" THEN v ELSE "outport"

\* The sum of f over the VCs, as the number of units it counts.
Units(f) == UNION {{v} \X (1 .. f[v]) : v \in VC}
Total(f) == Cardinality(Units(f))

Held == [v \in VC |-> xbar[v] + wire[v] + buf[v] + back[v]]

Capacity == Cardinality(VC) * Depth

IsFull(v) == IF BufferType = "SAMQ" THEN buf[v] >= Depth
                                    ELSE Total(buf) >= Capacity

\* Mutant of HasCredit: off by one.
HasCreditZero(v) == credit[PoolOf(v)] >= 0

HasCredit(v) == \/ credit[PoolOf(v)] >= 1
                \/ BufferType = "DAMQ_P" /\ rsv[v] >= 1

-----------------------------------------------------------------------------

Init ==
  /\ credit = [p \in Pool |-> IF BufferType = "SAMQ"
                              THEN Depth - Rsv
                              ELSE Cardinality(VC) * (Depth - Rsv)]
  /\ rsv  = [v \in VC |-> Rsv]
  /\ xbar = [v \in VC |-> 0]
  /\ wire = [v \in VC |-> 0]
  /\ buf  = [v \in VC |-> 0]
  /\ back = [v \in VC |-> 0]
  /\ awake = TRUE

\* Mutant of Grant: the credit is checked, but not taken.
GrantKeeps(v) ==
  /\ awake /\ HasCredit(v)
  /\ xbar' = [xbar EXCEPT ![v] = @ + 1]
  /\ xbar[v] < Capacity
  /\ UNCHANGED <<credit, rsv, wire, buf, back, awake>>

\* Switch arbitration checks and takes a credit: the shared one first.
Grant(v) ==
  /\ awake /\ HasCredit(v)
  /\ IF credit[PoolOf(v)] >= 1
     THEN credit' = [credit EXCEPT ![PoolOf(v)] = @ - 1] /\ UNCHANGED rsv
     ELSE rsv' = [rsv EXCEPT ![v] = @ - 1] /\ UNCHANGED credit
  /\ xbar' = [xbar EXCEPT ![v] = @ + 1]
  /\ UNCHANGED <<wire, buf, back, awake>>

\* Switch traversal upstream: the flit enters the link.
Send(v) ==
  /\ awake /\ xbar[v] > 0
  /\ xbar' = [xbar EXCEPT ![v] = @ - 1]
  /\ wire' = [wire EXCEPT ![v] = @ + 1]
  /\ UNCHANGED <<credit, rsv, buf, back, awake>>

\* Link traversal: nobody asks again whether there is room downstream.
Deliver(v) ==
  /\ awake /\ wire[v] > 0
  /\ wire' = [wire EXCEPT ![v] = @ - 1]
  /\ buf'  = [buf EXCEPT ![v] = @ + 1]
  /\ UNCHANGED <<credit, rsv, xbar, back, awake>>

\* Mutant of Drain: no credit is sent.
DrainSilently(v) ==
  /\ buf[v] > 0
  /\ buf' = [buf EXCEPT ![v] = @ - 1]
  /\ UNCHANGED <<credit, rsv, xbar, wire, back, awake>>

\* Switch traversal downstream frees the slot and sends the credit.
Drain(v) ==
  /\ buf[v] > 0
  /\ buf'  = [buf EXCEPT ![v] = @ - 1]
  /\ back' = [back EXCEPT ![v] = @ + 1]
  /\ UNCHANGED <<credit, rsv, xbar, wire, awake>>

\* Mutant of Inc: the reserve is not refilled.
IncShared(v) ==
  /\ awake /\ back[v] > 0
  /\ credit' = [credit EXCEPT ![PoolOf(v)] = @ + 1]
  /\ back' = [back EXCEPT ![v] = @ - 1]
  /\ UNCHANGED <<rsv, xbar, wire, buf, awake>>

\* The credit is counted upstream: the reserve of its VC is refilled first.
Inc(v) ==
  /\ awake /\ back[v] > 0
  /\ IF BufferType = "DAMQ_P" /\ rsv[v] < Rsv
     THEN rsv' = [rsv EXCEPT ![v] = @ + 1] /\ UNCHANGED credit
     ELSE credit' = [credit EXCEPT ![PoolOf(v)] = @ + 1] /\ UNCHANGED rsv
  /\ back' = [back EXCEPT ![v] = @ - 1]
  /\ UNCHANGED <<xbar, wire, buf, awake>>

\* The upstream router sleeps when it has neither flits nor credits to count.
\* A credit that arrives then does not wake it: only a flit does.
Sleep ==
  /\ awake /\ \A v \in VC : xbar[v] = 0 /\ wire[v] = 0 /\ back[v] = 0
  /\ awake' = FALSE /\ UNCHANGED slots

Wakeup == ~ awake /\ awake' = TRUE /\ UNCHANGED slots

Next ==
  \/ \E v \in VC : Grant(v) \/ Send(v) \/ Deliver(v) \/ Drain(v) \/ Inc(v)
  \/ Sleep \/ Wakeup

Spec == Init /\ [][Next]_vars

\* A router that is awake runs every cycle, and the downstream router forwards
\* what it buffers.  Nothing says that there are flits to grant or to wake for.
Fairness == \A v \in VC : /\ WF_vars(Send(v))
                          /\ WF_vars(Deliver(v))
                          /\ WF_vars(Drain(v))
                          /\ WF_vars(Inc(v))

FairSpec == Spec /\ Fairness

-----------------------------------------------------------------------------

TypeOK ==
  /\ credit \in [Pool -> Nat]
  /\ rsv \in [VC -> 0 .. Rsv]
  /\ xbar \in [VC -> Nat]
  /\ wire \in [VC -> Nat]
  /\ buf \in [VC -> Nat]
  /\ back \in [VC -> Nat]
  /\ awake \in BOOLEAN

\* Every slot of the downstream buffer is either a credit or in use: no
\* credit is lost, made up or counted for the wrong VC (depositCredit,
\* decCredit and incCredit run in different routers at different times).
Conservation ==
  IF BufferType = "SAMQ"
  THEN \A v \in VC : credit[v] + Held[v] = Depth
  ELSE credit["outport"] + Total(rsv) + Total(Held) = Capacity

\* The assertion of stageLT: a flit that leaves the link finds room in the
\* downstream FlitQ, although only the credits upstream say so.
NoOverflow == \A v \in VC : wire[v] > 0 => ~ IsFull(v)

\* What the reserve is for: the credits missing from a VC's reserve are all
\* held by flits of that VC, whatever the other VCs took from the pool.
ReserveOwed == \A v \in VC : Rsv - rsv[v] <= Held[v]

\* "DAMQ must reserve at least one credit for each VC" (Router.h): a VC that
\* holds fewer slots than its reserve is never refused a credit.
NoShutOut == \A v \in VC : Held[v] < Rsv => HasCredit(v)

\* No VC of a router that stays awake is out of credit forever, however busy
\* the others are.
CreditComesBack == \A v \in VC : []<>(HasCredit(v) \/ ~ awake)
=============================================================================
