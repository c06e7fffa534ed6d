-------------------------------- MODULE Torus --------------------------------
(***************************************************************************)
(* Topology2DTorus with RoutingTorusStatic: dimension order, each way      *)
(* around whichever is shorter, and the VCs in two classes so that no ring *)
(* of links becomes a ring of waiting packets.                             *)
(***************************************************************************)
EXTENDS Grid

VARIABLES flit, cur, in_pc, in_vc, out_pc, hops, core

NumRouter == K * K
NumCore == K * K
num_internal_pc(r) == 4
core2router(c) == <<c, 0>>
router2core(r, pos) == r

getNextConn(r, pc) ==
  LET around(dir) == IF toEdge(r, dir) = 0 THEN ahead(r, opposite(dir), K - 1)
                     ELSE ahead(r, dir, 1)
  IN  IF pc < 4 THEN <<around(pc), opposite(pc)>> ELSE NoConn

getPrevConn(r, pc) == getNextConn(r, pc)

m_valid(r, pc) == TRUE

\* The least of the four quadrants' counts: the shorter way along either axis.
getMinHopCount(r, s) ==
  LET shorter(n) == IF n <= K - n THEN n ELSE K - n
  IN  shorter(Abs(x_coord(s) - x_coord(r))) + shorter(Abs(y_coord(s) - y_coord(r))) + 1

steer(r, f) == f

\* Mutant of shorterWay: no offset is as long as all the way around.
shorterWayNever(dirs, offset) ==
  IF Abs(offset) > K THEN {opposite(dir) : dir \in dirs} ELSE dirs

\* Towards the destination, or away from it when that is the shorter way.
shorterWay(dirs, offset) ==
  IF Abs(offset) * 2 > K THEN {opposite(dir) : dir \in dirs} ELSE dirs

selectOutPC(r, f) ==
  LET x == xTowards(r, f.dst)
      y == yTowards(r, f.dst)
  IN  IF r = f.dst THEN {num_internal_pc(r) + f.pos}
      ELSE IF x # {} THEN shorterWay(x, x_coord(f.dst) - x_coord(r))
      ELSE shorterWay(y, y_coord(f.dst) - y_coord(r))

\* Mutant of isOutVCDeadlockFree: no classes along the columns.
isOutVCDeadlockFreeX(ovc, ipc, ivc, opc, r, f) ==
  LET high == ovc >= NumVC \div 2
  IN  x_coord(r) # x_coord(f.dst) =>
        IF x_coord(r) < x_coord(f.dst) THEN high ELSE ~ high

\* Below the destination's coordinate on the axis it moves along, a packet uses
\* the high VCs; above it the low ones.
isOutVCDeadlockFree(ovc, ipc, ivc, opc, r, f) ==
  LET high == ovc >= NumVC \div 2
      class(at, to) == IF at < to THEN high ELSE ~ high
  IN  IF x_coord(r) # x_coord(f.dst) THEN class(x_coord(r), x_coord(f.dst))
      ELSE y_coord(r) # y_coord(f.dst) => class(y_coord(r), y_coord(f.dst))

\* Ranks for ChannelOrder: along x before along y.  Going up in coordinates, a
\* packet uses the low VCs up to the wrap-around link and the high ones after
\* it; going down it is the other way about.
Around(at, ivc, up) ==
  LET second == (ivc >= NumVC \div 2) = up
      place == IF up THEN (IF at = 0 /\ ~ second THEN K ELSE at)
               ELSE (IF at = K - 1 /\ ~ second THEN K ELSE K - 1 - at)
  IN  IF second THEN K + place ELSE place

ChannelRank(r, ipc, ivc) ==
  CASE ipc >= num_internal_pc(r) -> -1
    [] ipc \in {DIR_WEST, DIR_EAST} -> Around(x_coord(r), ivc, ipc = DIR_WEST)
    [] ipc \in {DIR_NORTH, DIR_SOUTH} -> 2 * K + Around(y_coord(r), ivc, ipc = DIR_NORTH)

INSTANCE RouteWalk
=============================================================================
