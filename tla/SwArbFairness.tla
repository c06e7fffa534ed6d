---------------------------- MODULE SwArbFairness ----------------------------
(***************************************************************************)
(* Who waits how long at an arbiter of the switch allocator                *)
(* (SwArb2Stage.C): the V:1 arbiter of an input port and the P:1 arbiter   *)
(* of an output port.  Any set of contenders may come to an arbitration;   *)
(* a loser may drop out of the next one (its port selects another VC, its  *)
(* credit is gone), or, with LosersStay, contends until it wins.           *)
(***************************************************************************)
EXTENDS SwArb2Stage

CONSTANT LosersStay

ASSUME SwArbFairnessAssumption == LosersStay \in BOOLEAN

VARIABLES
  v1,       \* state of the V:1 arbiter (m_RR_sa_v1a_vec or m_LRS_sa_v1a_vec)
  p1,       \* state of the P:1 arbiter (m_RR_sa_p1a_vec or m_LRS_sa_p1a_vec)
  passed,   \* arbitrations that a VC has lost since it last won one
  lost      \* the same of an input port

vars == <<v1, p1, passed, lost>>

\* Losses are counted up to the number of contenders: nobody should get there.
Count(losses, S, winner, n) ==
  [x \in DOMAIN losses |->
     IF x = winner THEN 0
     ELSE IF x \in S /\ losses[x] < n THEN losses[x] + 1 ELSE losses[x]]

Init ==
  /\ v1 = InitArbiter(NumVC)
  /\ p1 = InitArbiter(NumPC)
  /\ passed = [v \in VC |-> 0]
  /\ lost = [p \in PC |-> 0]

Contends(S, losses) ==
  S # {} /\ (LosersStay => \A x \in DOMAIN losses : losses[x] > 0 => x \in S)

\* The VCs in S of the input port have a request.
SelectVC(S) ==
  /\ Contends(S, passed)
  /\ v1' = V1Next(v1, V1Select(v1, S))
  /\ passed' = Count(passed, S, V1Select(v1, S), NumVC)
  /\ UNCHANGED <<p1, lost>>

\* The selected VCs of the input ports in S compete for the output port.
SelectPC(S) ==
  /\ Contends(S, lost)
  /\ p1' = P1Next(p1, P1Select(p1, S))
  /\ lost' = Count(lost, S, P1Select(p1, S), NumPC)
  /\ UNCHANGED <<v1, passed>>

Next ==
  \/ \E S \in SUBSET VC : SelectVC(S)
  \/ \E S \in SUBSET PC : SelectPC(S)

Spec == Init /\ [][Next]_vars

\* V:1 gives every VC of an input port its turn, round robin and least recently
\* selected alike: a request loses to each of the other VCs at most once.
TurnOfVC == \A v \in VC : passed[v] < NumVC

\* P:1 gives every input port its turn in the same way.
TurnOfPC == \A p \in PC : lost[p] < NumPC

\* What LRS maintains: a contender has lost no more often than it has moved up.
LostMeansMovedUp ==
  /\ \A v \in VC : passed[v] + PositionIn(v1, v) <= NumVC
  /\ \A p \in PC : lost[p] + PositionIn(p1, p) <= NumPC
=============================================================================
