-------------------------------- MODULE Mesh --------------------------------
(***************************************************************************)
(* Topology2DMesh, with RoutingMeshStatic (XY, YX) and                     *)
(* RoutingMeshMinAdaptive.                                                 *)
(***************************************************************************)
EXTENDS Grid

CONSTANT net_routing  \* "XY", "YX" or "MIN" (MIN_OBLIVIOUS, MIN_ADAPTIVE_VC)

VARIABLES flit, cur, in_pc, in_vc, out_pc, hops, core

NumRouter == K * K
NumCore == K * K
num_internal_pc(r) == 4
core2router(c) == <<c, 0>>
router2core(r, pos) == r

\* Only the router's number is checked: at the end of a row the "link" leads to
\* the next row, and is not m_valid.
getNextConn(r, pc) ==
  IF pc < 4 /\ ahead(r, pc, 1) \in 0 .. NumRouter - 1
  THEN <<ahead(r, pc, 1), opposite(pc)>>
  ELSE NoConn

getPrevConn(r, pc) == getNextConn(r, pc)

m_valid(r, pc) == pc < 4 /\ toEdge(r, pc) > 0

getMinHopCount(r, s) == Distance(r, s) + 1

steer(r, f) == f

Eject(r, f) == num_internal_pc(r) + f.pos

\* RoutingMeshStatic goes along the one axis before it goes along the other.
DimensionOrder(r, f) ==
  LET x == xTowards(r, f.dst)
      y == yTowards(r, f.dst)
      first == IF net_routing = "XY" THEN x ELSE y
  IN  IF x \cup y = {} THEN {Eject(r, f)}
      ELSE IF first # {} THEN first ELSE x \cup y

\* RoutingMeshMinAdaptive compares a random cost, or the VCs other packets have
\* reserved: any direction towards the destination may win.
MinAdaptive(r, f) ==
  LET towards == xTowards(r, f.dst) \cup yTowards(r, f.dst)
  IN  IF towards = {} THEN {Eject(r, f)} ELSE towards

selectOutPC(r, f) ==
  IF net_routing = "MIN" THEN MinAdaptive(r, f) ELSE DimensionOrder(r, f)

\* Mutant of MinAdaptiveVC: the high VCs begin one too late.
MinAdaptiveVCAbove(ovc, ipc, ivc, opc, r, f) ==
  LET high(vc) == vc > NumVC \div 2
  IN  \/ opc >= num_internal_pc(r)
      \/ IF y_coord(f.dst) = y_coord(f.src)
         THEN ipc >= num_internal_pc(r) \/ high(ivc) = high(ovc)
         ELSE \/ x_coord(r) = x_coord(getNextConn(r, opc)[1])
              \/ high(ovc) = (y_coord(f.dst) > y_coord(f.src))

\* Along a row, packets that also go down the grid use the high VCs, and those
\* that go up the low ones; those that stay in their row keep to one half.
MinAdaptiveVC(ovc, ipc, ivc, opc, r, f) ==
  LET high(vc) == vc >= NumVC \div 2
  IN  \/ opc >= num_internal_pc(r)
      \/ IF y_coord(f.dst) = y_coord(f.src)
         THEN ipc >= num_internal_pc(r) \/ high(ivc) = high(ovc)
         ELSE \/ x_coord(r) = x_coord(getNextConn(r, opc)[1])
              \/ high(ovc) = (y_coord(f.dst) > y_coord(f.src))

isOutVCDeadlockFree(ovc, ipc, ivc, opc, r, f) ==
  net_routing = "MIN" => MinAdaptiveVC(ovc, ipc, ivc, opc, r, f)

\* Ranks for ChannelOrder.  A packet moving east is in a west port.  With
\* dimension order, the first axis comes before the second, and each direction
\* is a line.  With MIN, packets going down fill the rows from the top, packets
\* going up from the bottom.
Along(r, ipc) == K - 1 - toEdge(r, opposite(ipc))

OrderRank(r, ipc) ==
  IF (ipc \in {DIR_WEST, DIR_EAST}) = (net_routing = "XY") THEN Along(r, ipc)
  ELSE K + Along(r, ipc)

MinRank(r, ipc, ivc) ==
  LET row == IF ipc = DIR_NORTH \/ (ipc # DIR_SOUTH /\ ivc >= NumVC \div 2)
             THEN y_coord(r) ELSE K - 1 - y_coord(r)
  IN  row * K + (IF ipc \in {DIR_WEST, DIR_EAST} THEN Along(r, ipc) ELSE 0)

ChannelRank(r, ipc, ivc) ==
  IF ipc >= num_internal_pc(r) THEN -1
  ELSE IF net_routing = "MIN" THEN MinRank(r, ipc, ivc) ELSE OrderRank(r, ipc)

INSTANCE RouteWalk
=============================================================================
