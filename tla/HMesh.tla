-------------------------------- MODULE HMesh --------------------------------
(***************************************************************************)
(* TopologyHMesh, the mesh with a level of express links over two routers, *)
(* and RoutingHMeshStatic's ascent routing.  (Descent routing stops at an  *)
(* assert(0).)                                                             *)
(***************************************************************************)
EXTENDS Grid

VARIABLES flit, cur, in_pc, in_vc, out_pc, hops, core

bypass_hop == 1

NumRouter == K * K
NumCore == K * K
num_internal_pc(r) == 4 * (bypass_hop + 1)
core2router(c) == <<c, 0>>
router2core(r, pos) == r

\* As in the mesh, only the router's number is checked.
getNextConn(r, pc) ==
  LET next == ahead(r, direction(pc), 1 + level(pc))
  IN  IF pc < num_internal_pc(r) /\ next \in 0 .. NumRouter - 1
      THEN <<next, Port(opposite(direction(pc)), level(pc))>>
      ELSE NoConn

getPrevConn(r, pc) == getNextConn(r, pc)

m_valid(r, pc) == pc < num_internal_pc(r) /\ toEdge(r, direction(pc)) > level(pc)

getMinHopCount(r, s) ==
  LET links(n) == (n \div (bypass_hop + 1)) + (n % (bypass_hop + 1))
  IN  links(Abs(x_coord(r) - x_coord(s))) + links(Abs(y_coord(r) - y_coord(s))) + 1

steer(r, f) == f

\* The longest link that does not lead past the destination's column or row.
selectOutPC(r, f) ==
  LET x == xTowards(r, f.dst)
      y == yTowards(r, f.dst)
      offset == IF x # {} THEN Abs(x_coord(f.dst) - x_coord(r))
                ELSE Abs(y_coord(f.dst) - y_coord(r))
      express == CHOOSE l \in 0 .. bypass_hop :
                   /\ offset >= l + 1
                   /\ \A m \in l + 1 .. bypass_hop : offset < m + 1
  IN  IF x \cup y = {} THEN {num_internal_pc(r) + f.pos}
      ELSE {Port(dir, express) : dir \in IF x # {} THEN x ELSE y}

\* Routing::isOutVCDeadlockFree
isOutVCDeadlockFree(ovc, ipc, ivc, opc, r, f) == TRUE

\* Ranks for ChannelOrder: along the rows before along the columns, each
\* direction a line, whatever the length of the links.
ChannelRank(r, ipc, ivc) ==
  LET along == K - 1 - toEdge(r, opposite(direction(ipc)))
  IN  IF ipc >= num_internal_pc(r) THEN -1
      ELSE IF direction(ipc) \in {DIR_WEST, DIR_EAST} THEN along ELSE K + along

INSTANCE RouteWalk
=============================================================================
