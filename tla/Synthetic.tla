----------------------------- MODULE Synthetic -----------------------------
(***************************************************************************)
(* WorkloadSynthetic and WorkloadSyntheticMatrix: the packets that the     *)
(* cores generate, with the destinations of a spatial pattern.  The        *)
(* topology is one with a router for each core (mesh, torus, HMesh).       *)
(***************************************************************************)
EXTENDS Integers, SequencesExt, FiniteSetsExt

CONSTANTS
  NumPackets,            \* the bound: simulations end after so many packets
  num_flits_pkt          \* wkld_synth_num_flits_pkt

VARIABLES
  wkld,         \* the workload: [spatial, radix, bimodal, multicast, matrix], constant
  next_flit_id, \* m_next_flit_id
  packets       \* the packets generated: a history

vars == <<wkld, next_flit_id, packets>>

radix == wkld.radix
CoreId == 0 .. radix * radix - 1
x(c) == c % radix
y(c) == c \div radix
at(col, row) == col + row * radix

\* A matrix has the load that each core sends to each core, and a core without
\* any has no process.
noInjection(src) == wkld.matrix # <<>> /\ \A dest \in CoreId : wkld.matrix[src + 1][dest + 1] = 0

spatialUR(src) == {(src + n) % (radix * radix) : n \in CoreId}

\* One of two neighbours in a corner, of three at an edge, of four elsewhere.
spatialNN(src) ==
  LET east == at(x(src) + 1, y(src))
      west == at(x(src) - 1, y(src))
      down == at(x(src), y(src) + 1)
      up == at(x(src), y(src) - 1)
  IN  CASE src = 0 -> {1, radix}
        [] src = radix - 1 -> {radix - 2, radix * 2 - 1}
        [] src = radix * (radix - 1) -> {radix * (radix - 2), radix * (radix - 1) + 1}
        [] src = radix * radix - 1 -> {radix * (radix - 1) - 1, radix * radix - 2}
        [] OTHER ->
             IF x(src) = 0 THEN {east, down, up}
             ELSE IF y(src) = 0 THEN {west, east, down}
             ELSE IF x(src) = radix - 1 THEN {west, down, up}
             ELSE IF y(src) = radix - 1 THEN {west, east, up}
             ELSE {west, east, down, up}

spatialBC(src) == at(radix - x(src) - 1, radix - y(src) - 1)

spatialTP(src) == at(y(src), x(src))

spatialTOR(src) == at(Min({x(src) + radix \div 2 - 1, radix - 1}), y(src))

\* The destinations that spatialPattern may return.  The matrix has no say:
\* its spatialPattern has other parameters, and genPacket does not call it.
spatialPattern(src) ==
  CASE wkld.spatial = "UR" -> spatialUR(src)
    [] wkld.spatial = "NN" -> spatialNN(src)
    [] wkld.spatial = "BC" -> {spatialBC(src)}
    [] wkld.spatial = "TP" -> {spatialTP(src)}
    [] wkld.spatial = "TOR" -> {spatialTOR(src)}

\* The sets that spatialPatternMulticast may draw: one destination more than
\* its random number says, which is two at least.
spatialPatternMulticast(src) ==
  UNION {kSubset(n + 1, spatialUR(src)) : n \in 2 .. radix * radix - 1}

Descending(S) == SetToSortSeq(S, LAMBDA a, b : a > b)

Init ==
  /\ next_flit_id = 0
  /\ packets = <<>>

\* Mutant of Flits: a single-flit packet takes as many identifiers as others.
FlitsUnequal(single) == num_flits_pkt

Flits(single) == IF single THEN 1 ELSE num_flits_pkt

\* The routers are collected in a set, and sorted.  m_packet_type is left out: it
\* ends up as UNICAST_LONG even for single-flit packets of bimodal traffic, and
\* nothing here depends on it.
Packet(src, dests, single) ==
  [src_core |-> src, dest_cores |-> Descending(dests), src_router |-> src,
   dest_routers |-> Descending(dests), num_flits |-> IF single THEN 1 ELSE num_flits_pkt,
   start_flit_id |-> next_flit_id]

genPacket ==
  /\ Len(packets) < NumPackets
  /\ \E src \in CoreId, single \in {FALSE, wkld.bimodal}, multicast \in {FALSE, wkld.multicast} :
       /\ ~ noInjection(src)
       /\ \E dests \in IF multicast THEN spatialPatternMulticast(src)
                       ELSE {{dest} : dest \in spatialPattern(src)} :
            packets' = Append(packets, Packet(src, dests, single))
       /\ next_flit_id' = next_flit_id + Flits(single)
  /\ UNCHANGED wkld

-----------------------------------------------------------------------------
Distance(a, b) ==
  LET abs(n) == Max({n, -n}) IN abs(x(a) - x(b)) + abs(y(a) - y(b))

\* Destinations are cores; a nearest neighbour is one step away, to whichever
\* edge or corner of the grid the source is; bit complement and transpose lead
\* back when they are applied to the destination.  The flits of different
\* packets have different identifiers, and none is left out between them.
PacketsRight ==
  \A i \in DOMAIN packets :
    LET p == packets[i] IN
    /\ \A d \in ToSet(p.dest_cores) :
         /\ d \in CoreId
         /\ wkld.spatial = "NN" /\ Len(p.dest_cores) = 1 => Distance(p.src_core, d) = 1
         /\ wkld.spatial \in {"BC", "TP"} /\ Len(p.dest_cores) = 1 => spatialPattern(d) = {p.src_core}
    /\ i > 1 => p.start_flit_id = packets[i - 1].start_flit_id + packets[i - 1].num_flits
=============================================================================
