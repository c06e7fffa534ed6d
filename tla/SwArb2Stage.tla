----------------------------- MODULE SwArb2Stage -----------------------------
(***************************************************************************)
(* The two arbiters of the two-stage switch allocator (SwArb2Stage.C):     *)
(* V:1 selects one requesting VC of an input port, P:1 selects one of the  *)
(* input ports whose selected VC asks for the same output port.            *)
(*                                                                         *)
(* An arbiter's state is its round-robin counter (SAType = "RR") or its    *)
(* list of contenders, least recently selected first ("LRS").              *)
(***************************************************************************)
EXTENDS Integers, Sequences

CONSTANTS
  NumPC,   \* m_num_pc: ports of a router, 0 .. NumPC - 1
  NumVC,   \* m_num_vc: virtual channels of a port, 0 .. NumVC - 1
  SAType   \* router_sa_v1_type and router_sa_p1_type: "RR" or "LRS"

ASSUME SwArbAssumption ==
  /\ NumPC \in Nat \ {0}
  /\ NumVC \in Nat \ {0}
  /\ SAType \in {"RR", "LRS"}

PC == 0 .. NumPC - 1
VC == 0 .. NumVC - 1

\* The contender of the set S that comes first in an order.
First(S, Order(_)) ==
  CHOOSE x \in S : \A y \in S : Order(x) < Order(y) \/ (Order(x) = Order(y) /\ x <= y)

PositionIn(seq, x) == CHOOSE i \in DOMAIN seq : seq[i] = x

\* Mutant of ToTheEnd: the contender behind the selected one changes places
\* with it, the others stay.
ToTheEndSwap(seq, x) ==
  [i \in DOMAIN seq |->
     IF i = PositionIn(seq, x) /\ i + 1 \in DOMAIN seq THEN seq[i + 1]
     ELSE IF i = PositionIn(seq, x) + 1 THEN x ELSE seq[i]]

\* The selected contender becomes the most recently selected one: those after
\* it move up.
ToTheEnd(seq, x) ==
  [i \in DOMAIN seq |->
     IF i < PositionIn(seq, x) THEN seq[i]
     ELSE IF i + 1 \in DOMAIN seq THEN seq[i + 1] ELSE x]

Contenders(n) == [i \in 1 .. n |-> i - 1]

InitArbiter(n) == IF SAType = "RR" THEN 0 ELSE Contenders(n)

\* V:1 looks at the VCs from the counter on, modulo their number.
V1Order(state, v) ==
  IF SAType = "RR" THEN (v - state) % NumVC ELSE PositionIn(state, v)

\* Mutant of V1Next: no progress.
V1NextStays(state, v) == IF SAType = "RR" THEN v ELSE state

V1Next(state, v) == IF SAType = "RR" THEN (v + 1) % NumVC ELSE ToTheEnd(state, v)

\* RR_ORDER is called with m_num_pc - 1 for its max_val: ports below the counter
\* wrap around one place too early.
RROrder(p, start) == IF p < start THEN p - start + (NumPC - 1) ELSE p - start

P1Order(state, p) == IF SAType = "RR" THEN RROrder(p, state) ELSE PositionIn(state, p)

\* Mutant of P1Next: the list is not updated.
P1NextStays(state, p) == IF SAType = "RR" THEN (p + 1) % NumPC ELSE state

P1Next(state, p) == IF SAType = "RR" THEN (p + 1) % NumPC ELSE ToTheEnd(state, p)

V1Select(state, S) == First(S, LAMBDA v : V1Order(state, v))
P1Select(state, S) == First(S, LAMBDA p : P1Order(state, p))
=============================================================================
