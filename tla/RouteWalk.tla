------------------------------ MODULE RouteWalk ------------------------------
(***************************************************************************)
(* The way of one packet's head flit through a network: at each router     *)
(* stageRC asks the routing algorithm for the output port, stageVA for the *)
(* output VCs the packet may reserve, and the flit goes over the link to   *)
(* the router at its end, or out of the network into an output NI.         *)
(*                                                                         *)
(* All other packets are left out: what they have reserved only decides    *)
(* which of the ports and VCs open to this packet it gets, and when.  The  *)
(* topology and the routing algorithm are the constants; the modules Mesh, *)
(* Torus, HMesh, Flbfly and FatTree instantiate them.                      *)
(***************************************************************************)
EXTENDS Integers

CONSTANTS
  NumRouter,            \* routers are 0 .. NumRouter - 1
  NumCore,              \* cores are 0 .. NumCore - 1
  NumVC,                \* m_num_vc
  num_internal_pc(_),   \* of a router: its ports from here on are those of NIs
  core2router(_),       \* of a core: <<router, m_NI_out_pos>>
  router2core(_, _),    \* the core whose NI is at (router, position)
  getNextConn(_, _),    \* (router, out_pc): <<router, in_pc>> at the end of the link
  getPrevConn(_, _),    \* (router, in_pc): <<router, out_pc>> credits go back to
  m_valid(_, _),        \* (router, out_pc): Link::m_valid
  getMinHopCount(_, _),
  steer(_, _),          \* (router, flit): the head flit as selectOutPC leaves it
  selectOutPC(_, _),    \* (router, flit): the ports selectOutPC may return
  isOutVCDeadlockFree(_, _, _, _, _, _), \* (out_vc, in_pc, in_vc, out_pc, router, flit)
  ChannelRank(_, _, _)  \* (router, in_pc, in_vc): see ChannelOrder

VARIABLES
  flit,    \* the head flit's fields the routing algorithms read
  cur,     \* the router it is in,
  in_pc,   \* at which input port
  in_vc,   \* and VC
  out_pc,  \* the port chosen for it there, if it has been
  hops,    \* Packet::m_hops
  core     \* the core it was handed to

vars == <<flit, cur, in_pc, in_vc, out_pc, hops, core>>

INVALID == -1

Router == 0 .. NumRouter - 1
Core == 0 .. NumCore - 1
VC == 0 .. NumVC - 1

isEjectChannel(r, pc) == pc >= num_internal_pc(r)

\* A core hands a packet over: its flits enter the router of the core's input
\* NI by the NI's port and any of its VCs.
Init ==
  /\ \E from, to \in Core :
       /\ flit = [to |-> to, src |-> core2router(from)[1],
                  dst |-> core2router(to)[1], pos |-> core2router(to)[2], up |-> TRUE]
       /\ in_pc = num_internal_pc(core2router(from)[1]) + core2router(from)[2]
  /\ cur = flit.src
  /\ in_vc \in VC
  /\ out_pc = INVALID
  /\ hops = 0
  /\ core = INVALID

StageRC ==
  /\ out_pc = INVALID
  /\ core = INVALID
  /\ flit' = steer(cur, flit)
  /\ out_pc' \in selectOutPC(cur, flit')
  /\ hops' = hops + 1
  /\ UNCHANGED <<cur, in_pc, in_vc, core>>

UsableVCs == {vc \in VC : isOutVCDeadlockFree(vc, in_pc, in_vc, out_pc, cur, flit)}

\* It gets one of the VCs it may reserve and goes over the link.
StageVA ==
  /\ out_pc # INVALID
  /\ ~ isEjectChannel(cur, out_pc)
  /\ in_vc' \in UsableVCs
  /\ cur' = getNextConn(cur, out_pc)[1]
  /\ in_pc' = getNextConn(cur, out_pc)[2]
  /\ out_pc' = INVALID
  /\ UNCHANGED <<flit, hops, core>>

\* It goes out of the network, to the NI at the ejection port.
StageST ==
  /\ out_pc # INVALID
  /\ isEjectChannel(cur, out_pc)
  /\ core' = router2core(cur, out_pc - num_internal_pc(cur))
  /\ out_pc' = INVALID
  /\ UNCHANGED <<flit, cur, in_pc, in_vc, hops>>

Arrived == core # INVALID /\ UNCHANGED vars

Next == StageRC \/ StageVA \/ StageST \/ Arrived

Spec == Init /\ [][Next]_vars

-----------------------------------------------------------------------------
\* The packet comes out at the core it was sent to, and stageRC has counted as
\* many hops for it as the topology's getMinHopCount says for its way, which is
\* the count the decompressing NI and the statistics go by.
Minimal ==
  /\ hops <= getMinHopCount(flit.src, flit.dst)
  /\ core # INVALID => core = flit.to /\ hops = getMinHopCount(flit.src, flit.dst)

\* Routing picks links that exist, and stageST's credits for the buffer at the
\* end of such a link go back to the port that counts them.
CreditsReturn ==
  out_pc # INVALID /\ ~ isEjectChannel(cur, out_pc) =>
    LET next == getNextConn(cur, out_pc)
    IN  /\ m_valid(cur, out_pc)
        /\ next[1] \in Router
        /\ getPrevConn(next[1], next[2]) = <<cur, out_pc>>

\* Of the output VCs of the port chosen, the packet may always reserve one.
Served == out_pc # INVALID /\ ~ isEjectChannel(cur, out_pc) => UsableVCs # {}

\* No cyclic wait: the buffers (input VCs) can be ranked so that a packet that
\* holds one only ever asks for buffers of a higher rank, whichever ports and
\* VCs it is given.  Then the packet in the highest-ranked full buffer is never
\* blocked by another one.
Ascends == ChannelRank(cur', in_pc', in_vc') > ChannelRank(cur, in_pc, in_vc)

ChannelOrder == [][StageVA => Ascends]_vars
=============================================================================
