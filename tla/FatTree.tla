------------------------------- MODULE FatTree -------------------------------
(***************************************************************************)
(* TopologyFatTree with RoutingFatTree: up over any port, to the level of  *)
(* the common ancestors of source and destination, and down the one way    *)
(* there is.  Routers of level 0 have Way cores each; the other levels     *)
(* have as many routers, each with Way ports up and Way ports down.        *)
(***************************************************************************)
EXTENDS Integers

CONSTANTS
  Way,     \* m_num_way: buildTopology places the cores for 4 only
  Levels,  \* m_max_level
  NumVC    \* router_num_vc

VARIABLES flit, cur, in_pc, in_vc, out_pc, hops, core

NumCore == Way ^ Levels
num_router_per_level == NumCore \div Way
NumRouter == num_router_per_level * Levels

getTreeLevel(r) == r \div num_router_per_level
getIndexOnLevel(r) == r % num_router_per_level

num_internal_pc(r) == IF getTreeLevel(r) = 0 THEN Way ELSE 2 * Way

\* Two by two cores around each router of level 0.
router2core(r, pos) ==
  LET dim == 2 ^ (Levels - 1)
  IN  2 * (r % dim) + (pos % 2) + 2 * dim * (2 * (r \div dim) + (pos \div 2))

core2router(c) ==
  CHOOSE at \in (0 .. num_router_per_level - 1) \X (0 .. Way - 1) :
    router2core(at[1], at[2]) = c

\* On level lev, the router n places after r's, in the group of Way ^ size
\* routers r's index falls in.
inGroup(r, lev, n, size) ==
  LET scale == Way ^ size
      base == (getIndexOnLevel(r) \div scale) * scale + num_router_per_level * lev
      next == num_router_per_level * lev + getIndexOnLevel(r) + n
  IN  IF next >= base + scale THEN next - scale ELSE next

upConn(r, pc) ==
  LET lev == getTreeLevel(r)
  IN  <<inGroup(r, lev + 1, pc * Way ^ lev, lev + 1), Way + pc>>

\* Mutant of downConn: the port above is numbered as that below.
downConnSame(r, pc) ==
  LET lev == getTreeLevel(r)
      below == {inGroup(r, lev - 1, n * Way ^ (lev - 1), lev) : n \in 0 .. Way - 1}
  IN  <<CHOOSE s \in below : upConn(s, pc - Way)[1] = r, pc>>

\* The router below whose port `pc - Way' leads up to r.
downConn(r, pc) ==
  LET lev == getTreeLevel(r)
      below == {inGroup(r, lev - 1, n * Way ^ (lev - 1), lev) : n \in 0 .. Way - 1}
  IN  <<CHOOSE s \in below : upConn(s, pc - Way)[1] = r, pc - Way>>

m_valid(r, pc) == ~ (getTreeLevel(r) = Levels - 1 /\ pc < Way)

getNextConn(r, pc) ==
  IF pc >= num_internal_pc(r) \/ ~ m_valid(r, pc) THEN <<-1, -1>>
  ELSE IF pc < Way THEN upConn(r, pc) ELSE downConn(r, pc)

getPrevConn(r, pc) == getNextConn(r, pc)

getCommonAncestorTreeLevel(r, s) ==
  CHOOSE lev \in 0 .. Levels :
    /\ r \div Way ^ lev = s \div Way ^ lev
    /\ \A l \in 0 .. lev - 1 : r \div Way ^ l # s \div Way ^ l

getMinHopCount(r, s) == 2 * getCommonAncestorTreeLevel(r, s) + 1

\* m_fattree_up_dir is cleared at the level of the common ancestors.
steer(r, f) ==
  IF r # f.dst /\ getTreeLevel(r) = getCommonAncestorTreeLevel(f.src, f.dst)
  THEN [f EXCEPT !.up = FALSE] ELSE f

\* The port down to the subtree of the destination.
downPC(r, dst) ==
  LET stride == Way ^ (getTreeLevel(r) - 1)
      leftmost == (dst \div stride) * stride + num_router_per_level * (getTreeLevel(r) - 1)
      leads(pc) == getNextConn(r, pc)[1] \in leftmost .. leftmost + stride - 1
      pc1 == CHOOSE pc \in Way .. 2 * Way - 1 :
               leads(pc) /\ \A p \in Way .. pc - 1 : ~ leads(p)
  IN  getNextConn(r, pc1)[2] + (num_internal_pc(r) \div 2)

\* Upwards, a random port or the one with the fewest reserved VCs: any may be.
selectOutPC(r, f) ==
  IF r = f.dst THEN {num_internal_pc(r) + f.pos}
  ELSE IF f.up THEN 0 .. Way - 1
  ELSE {downPC(r, f.dst)}

\* Routing::isOutVCDeadlockFree
isOutVCDeadlockFree(ovc, ipc, ivc, opc, r, f) == TRUE

\* Ranks for ChannelOrder: up level by level, then down.
ChannelRank(r, ipc, ivc) ==
  IF ipc >= Way THEN getTreeLevel(r) ELSE 2 * Levels - getTreeLevel(r)

INSTANCE RouteWalk
=============================================================================
