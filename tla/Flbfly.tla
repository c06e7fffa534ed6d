------------------------------- MODULE Flbfly -------------------------------
(***************************************************************************)
(* TopologyFlbfly, the flattened butterfly: a 4 x 4 grid of routers with   *)
(* four cores each, and links over one, two and three routers.  With       *)
(* RoutingFlbfly, XY or YX, which takes an express link only if it finds   *)
(* it available.                                                           *)
(***************************************************************************)
EXTENDS Integers

CONSTANTS
  NumVC,       \* router_num_vc
  net_routing  \* "XY" or "YX"

VARIABLES flit, cur, in_pc, in_vc, out_pc, hops, core

K == 4
concentration == 4

INSTANCE Grid

NumRouter == K * K
NumCore == concentration * NumRouter
num_internal_pc(r) == 4 * 3

\* Two by two cores around each router.
router2core(r, pos) ==
  2 * x_coord(r) + (pos % 2) + 2 * K * (2 * y_coord(r) + (pos \div 2))

core2router(c) ==
  CHOOSE at \in (0 .. NumRouter - 1) \X (0 .. concentration - 1) : router2core(at[1], at[2]) = c

m_valid(r, pc) == pc < num_internal_pc(r) /\ toEdge(r, direction(pc)) > level(pc)

getNextConn(r, pc) ==
  IF m_valid(r, pc)
  THEN <<ahead(r, direction(pc), 1 + level(pc)), Port(opposite(direction(pc)), level(pc))>>
  ELSE NoConn

getPrevConn(r, pc) == getNextConn(r, pc)

\* The program has no hop count for this topology, it stops at an assert(0):
\* what a path has to keep to is the way over links of one router only.
getMinHopCount(r, s) == Distance(r, s) + 1

steer(r, f) == f

\* isPCAvailable counts the VCs for which "! m_state != OUT_MOD_I", those that
\* are free, and finds a port available unless it counts all of them.
isPCAvailable(free) == free # NumVC

\* The longest link within the offset that is available; any number of an
\* express port's VCs may be free.
selectOutPC(r, f) ==
  LET x == xTowards(r, f.dst)
      y == yTowards(r, f.dst)
      first == IF net_routing = "XY" THEN x ELSE y
      dirs == IF first # {} THEN first ELSE x \cup y
      offset == IF dirs = x THEN Abs(x_coord(f.dst) - x_coord(r))
                ELSE Abs(y_coord(f.dst) - y_coord(r))
      express(free) == {l \in 1 .. 2 : offset >= l + 1 /\ isPCAvailable(free[l])}
      longest(ls) == CHOOSE l \in ls \cup {0} : \A m \in ls : m <= l
  IN  IF x \cup y = {} THEN {num_internal_pc(r) + f.pos}
      ELSE {Port(dir, longest(express(free))) : dir \in dirs, free \in [1 .. 2 -> 0 .. NumVC]}

\* Routing::isOutVCDeadlockFree
isOutVCDeadlockFree(ovc, ipc, ivc, opc, r, f) == TRUE

\* Ranks for ChannelOrder: the one axis before the other, each direction a line.
ChannelRank(r, ipc, ivc) ==
  LET along == K - 1 - toEdge(r, opposite(direction(ipc)))
      horizontal == direction(ipc) \in {DIR_WEST, DIR_EAST}
  IN  IF ipc >= num_internal_pc(r) THEN -1
      ELSE IF horizontal = (net_routing = "XY") THEN along ELSE K + along

INSTANCE RouteWalk

\* Express links only ever shorten the way: each brings the packet as many
\* columns or rows nearer as it passes over, and it comes out where it should.
NoDetour ==
  /\ hops + Distance(cur, flit.dst) <= Distance(flit.src, flit.dst) + 1
  /\ core \in {INVALID, flit.to}
=============================================================================
