------------------------------ MODULE Delivery ------------------------------
(***************************************************************************)
(* What the network promises to the workload: every packet handed over is  *)
(* delivered to its destination NI, all of its flits exactly once and in   *)
(* order, whatever the other packets do.  Packets may overtake each other. *)
(***************************************************************************)
EXTENDS Naturals, Sequences

CONSTANTS Packet, Dst, NumFlits

VARIABLES
  gen,      \* packets the workload has yet to hand over
  ejected   \* of each packet, the flits that were delivered and where

vars == <<gen, ejected>>

Init == gen = Packet /\ ejected = [p \in Packet |-> <<>>]

HandOver(p) ==
  /\ p \in gen
  /\ gen' = gen \ {p}
  /\ UNCHANGED ejected

Deliver(p) ==
  /\ p \notin gen /\ Len(ejected[p]) < NumFlits[p]
  /\ ejected' = [ejected EXCEPT ![p] = Append(@, <<Dst[p], Len(@) + 1>>)]
  /\ UNCHANGED gen

Next == \E p \in Packet : HandOver(p) \/ Deliver(p)

Fairness == \A p \in Packet : WF_vars(Deliver(p))

Spec == Init /\ [][Next]_vars /\ Fairness
=============================================================================
