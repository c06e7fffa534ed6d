----------------------------- MODULE NetworkMC -----------------------------
(***************************************************************************)
(* Networks for TLC: two routers joined by a link in each direction (port  *)
(* 0), with one NI each (port 1); and three routers in a line (port 0 to   *)
(* the next router, port 1 to the one before), with one NI each (port 2).  *)
(***************************************************************************)
EXTENDS NetworkLinks

CONSTANTS pktA, pktB, pktC

TwoWire == <<0, 0>> :> <<1, 0>> @@ <<1, 0>> :> <<0, 0>>

TwoRouting == [r \in 0 .. 1 |-> [d \in NI |-> IF d[1] = r THEN 1 ELSE 0]]

Lat1 == [l \in Link |-> 1]
Lat2 == [l \in Link |-> 2]

\* No restriction on output VCs: two routers have no cyclic dependency.
AnyVC(out_vc, in_pc, in_vc, out_pc, r, dest) == TRUE

\* Two packets from one NI that are longer than the buffers on their way, and one
\* that meets them at their destination.
Packets3 == {pktA, pktB, pktC}
Src3 == pktA :> <<0, 1>> @@ pktB :> <<0, 1>> @@ pktC :> <<1, 1>>
Dst3 == pktA :> <<1, 1>> @@ pktB :> <<1, 1>> @@ pktC :> <<1, 1>>
Len3 == pktA :> 5 @@ pktB :> 4 @@ pktC :> 2

\* Two long packets from NI 1, while NI 0 sends one to it.
CrossSrc == pktA :> <<1, 1>> @@ pktB :> <<1, 1>> @@ pktC :> <<0, 1>>
CrossDst == pktA :> <<0, 1>> @@ pktB :> <<0, 1>> @@ pktC :> <<1, 1>>
CrossLen == pktA :> 4 @@ pktB :> 4 @@ pktC :> 2

LineWire == <<0, 0>> :> <<1, 1>> @@ <<1, 0>> :> <<2, 1>>
            @@ <<2, 1>> :> <<1, 0>> @@ <<1, 1>> :> <<0, 0>>

LineRouting == [r \in 0 .. 2 |-> [d \in NI |-> IF d[1] = r THEN 2
                                              ELSE IF d[1] > r THEN 0 ELSE 1]]

\* The wires between routers 0 and 1 are of the second level of a hierarchical
\* mesh: twice as long.
LineLat == [l \in Link |-> IF 0 \in {l[1], Wire[l][1]} THEN 2 ELSE 1]

\* A packet crosses the line and meets, in the middle, two of that router.
LineSrc == pktA :> <<0, 2>> @@ pktB :> <<1, 2>> @@ pktC :> <<1, 2>>
LineDst == pktA :> <<2, 2>> @@ pktB :> <<2, 2>> @@ pktC :> <<2, 2>>
LineLen == pktA :> 2 @@ pktB :> 2 @@ pktC :> 1

There == INSTANCE CreditLoop WITH
  credit <- LoopCredit(<<0, 0>>), rsv <- LoopRsv(<<0, 0>>), xbar <- LoopXbar(<<0, 0>>),
  wire <- LoopWire(<<0, 0>>), buf <- LoopBuf(<<0, 0>>), back <- LoopBack(<<0, 0>>),
  awake <- LoopAwake(<<0, 0>>)

Back == INSTANCE CreditLoop WITH
  credit <- LoopCredit(<<1, 0>>), rsv <- LoopRsv(<<1, 0>>), xbar <- LoopXbar(<<1, 0>>),
  wire <- LoopWire(<<1, 0>>), buf <- LoopBuf(<<1, 0>>), back <- LoopBack(<<1, 0>>),
  awake <- LoopAwake(<<1, 0>>)

\* The link from router 0 to router 1 is a credit loop, fairness included:
\* stages of two routers and the clock move its flits and credits one by one.
LinkThere == There!FairSpec

\* So is the link from router 1, to router 0 or to router 2 of the line.
LinkBack == Back!FairSpec

Promise == INSTANCE Delivery

\* The network delivers what the workload hands over.
PromiseKept == Promise!Spec
=============================================================================
