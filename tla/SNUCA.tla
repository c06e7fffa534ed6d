------------------------------- MODULE SNUCA -------------------------------
(***************************************************************************)
(* TopologySNUCA: the mesh of Topology2DMesh, 8 by 8, with the caches and  *)
(* directories of SNUCAMap at its routers, and RoutingMeshStatic.          *)
(***************************************************************************)
EXTENDS SNUCAMap

CONSTANTS
  NumVC,
  net_routing,  \* "XY" or "YX"
  Sources       \* the cores whose packets are looked at

VARIABLES flit, cur, in_pc, in_vc, out_pc, hops, core

Plain == INSTANCE Mesh WITH K <- 8

NumRouter == 64
NumCore == 272

\* Four ports for the neighbours, then one for the NI of each core.
num_internal_pc(r) == 4
num_pc(r) == num_internal_pc(r) + Len(m_router_external_pc_vec[r])

router2core(r, pos) == m_router_external_pc_vec[r][pos + 1]

core2router(c) ==
  LET r == attached_router(c)
  IN  <<r, CHOOSE pos \in 0 .. num_pc(r) - num_internal_pc(r) - 1 : router2core(r, pos) = c>>

getNextConn(r, pc) == Plain!getNextConn(r, pc)
getPrevConn(r, pc) == Plain!getPrevConn(r, pc)
m_valid(r, pc) == Plain!m_valid(r, pc) \/ pc \in num_internal_pc(r) .. num_pc(r) - 1
getMinHopCount(r, s) == Plain!getMinHopCount(r, s)
steer(r, f) == f
selectOutPC(r, f) == Plain!DimensionOrder(r, f)
isOutVCDeadlockFree(ovc, ipc, ivc, opc, r, f) == TRUE
ChannelRank(r, ipc, ivc) == Plain!ChannelRank(r, ipc, ivc)

Walk == INSTANCE RouteWalk

\* WorkloadSNUCAValue::readTrace asks for the routers of a packet's cores but
\* not for the port of the destination (getExternalPC): NI_out_pos is 0.
Init ==
  /\ \E from \in Sources, to \in 0 .. NumCore - 1 :
       /\ flit = [to |-> to, src |-> attached_router(from), dst |-> attached_router(to),
                  pos |-> 0, up |-> TRUE]
       /\ in_pc = num_internal_pc(flit.src) + core2router(from)[2]
  /\ cur = flit.src
  /\ in_vc \in 0 .. NumVC - 1
  /\ out_pc = -1
  /\ hops = 0
  /\ core = -1

Next == Walk!Next

-----------------------------------------------------------------------------
\* The packet comes out at the router of its core after as many hops as
\* getMinHopCount says, though at the router's first core whichever core it is
\* for.
Minimal ==
  /\ hops <= getMinHopCount(flit.src, flit.dst)
  /\ core # -1 => /\ attached_router(core) = attached_router(flit.to)
                  /\ hops = getMinHopCount(flit.src, flit.dst)
=============================================================================
