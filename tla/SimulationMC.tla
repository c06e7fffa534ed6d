---------------------------- MODULE SimulationMC ----------------------------
(***************************************************************************)
(* Simulations for TLC, in parts: whole simulations from the start of the  *)
(* first process to sim()'s exit, with synthetic traffic and each kind of  *)
(* trace, and options for skipping, warming up and profiling that change   *)
(* the order of events (SIM); the scaling of links (DVS); the packets of   *)
(* synthetic workloads (SYNTH); the configuration (CONFIG); a router with  *)
(* tunnels (TUNNEL); the wires of a link that change with the flits' data  *)
(* (WIRES); and how full buffers are (QUEUES).                             *)
(***************************************************************************)
EXTENDS Profile, LinkDVS, Config, Tunnel

CONSTANTS
  Parts,      \* the parts to be checked
  Workloads   \* the workloads of SIM to be checked

VARIABLES
  part,                                                              \* which of them this is: never changes
  wkld, next_flit_id, packets,                                       \* Synthetic
  m_link_trav_data, m_intra_trans, m_inter_trans, carried,           \* LinkValue
  router_buffer_type, now, size, m_sum_occupancy, m_last_update_clk, m_max_occupancy, \* Occupancy
  pktQ, extra_pktQ, ni, writes, held

ClkVars == <<clk, wake, running>>
SimVars == <<simVars, traceVars, profileVars>>
SynthVars == <<wkld, next_flit_id, packets>>
WiresVars == <<m_link_trav_data, m_intra_trans, m_inter_trans, carried>>
QueuesVars == <<router_buffer_type, now, size, m_sum_occupancy, m_last_update_clk, m_max_occupancy,
                pktQ, extra_pktQ, ni, writes, held>>
allVars == <<part, ClkVars, SimVars, dvsVars, SynthVars, configVars, vars, WiresVars, QueuesVars>>

\* The links' processes run for two intervals and the beginning of a third, after
\* one that was skipped, with delays that differ.  A flow over both links, one over
\* one of them, one over neither; with a rate of 2 it needs the second level, and
\* two of them the first.
FlowsOver == [l \in Link |-> IF l = CHOOSE k \in Link : TRUE THEN {"both", "one"} ELSE {"both"}]
Uses == <<3, 1>>

Synth == INSTANCE Synthetic WITH NumPackets <- 2, num_flits_pkt <- 4

GivenOptions ==
  {<<"WKLD", "TYPE", t>> : t \in {"CMP", "VALUE", "SNUCA"}}
    \cup {<<"WKLD", "TRACE:SKIP_MCYCLES", 1>>}
    \cup {<<"NET", "TOPOLOGY", t>> : t \in {"TORUS", "HMESH", "FTREE", "FLBFLY", "SNUCA"}}
    \cup {<<"NET", "ROUTING", r>> : r \in {"TORUS_DALLY", "HMESH_ASCENT", "FTREE_RANDOM", "FLBFLY_XY", "MIN_SCHEDULED"}}
    \cup {<<"NET", "CORE_NUM", n>> : n \in {0, 32, 64, 272}}
    \cup {<<"NET", "CORE_TILE_NUM", n>> : n \in {0, 16, 32, 272}}
    \cup {<<"CORE", "NUM_NI", 2>>, <<"ROUTER", "PC", 6>>, <<"NI", "PORT_MUX", TRUE>>,
           <<"LINK", "", 64>>, <<"LINK", "", 100>>}
    \cup {<<"ROUTER", "BUFFER", b>> : b \in {"SAMQ", "DAMQ_P"}}
    \cup {<<"SIM", "PERF_PFILE", "file">>, <<"SIM", "WARM_CYCLE", 10>>, <<"SIM", "END_CYCLE", -1>>}
    \cup {<<"CAM", "DATA_ENABLE", TRUE>>, <<"CAM", "DATA_BLK_BYTE", 16>>, <<"CAM", "INTERLEAVE_TAB", 2>>}

\* A packet from input VC <<in_pc, in_vc>>, and its flow.
Way(in_pc, in_vc, src, dest, out_pc, flits) ==
  [in_pc |-> in_pc, in_vc |-> in_vc, src |-> src, dest |-> dest, out_pc |-> out_pc, flits |-> flits]

\* Packets of an input VC after each other, for the same output, destination or
\* flow, and those of another input port and of another VC, which may come
\* between them or with them.
ToLink ==
  <<Way(0, 0, "a", "d", "link", 1), Way(0, 0, "c", "d", "link", 2), Way(0, 1, "a", "e", "link", 1),
    Way(1, 0, "b", "d", "link", 1)>>

ToNI ==
  <<Way(0, 0, "a", "d", "NI", 2), Way(0, 0, "a", "d", "NI", 2),
    Way(1, 0, "b", "d", "NI", 2), Way(0, 1, "a", "e", "link", 1)>>

\* Words that differ in their lower wires and in their upper ones.
Words == (0 .. 15) \cup {16 * n + 1 : n \in 1 .. 15}

Wires == INSTANCE LinkValue WITH Bits <- 8, Flits <- {<<x, 255 - x>> : x \in Words}, NumFlits <- 2

\* The VCs of a port, with more writes than it has slots; a reset at any time.
Queues == INSTANCE Occupancy WITH NumPC <- 1, NumVC <- 2, Depth <- 1, PktDepth <- 1,
            MaxClk <- 2, MaxWrites <- 3

Config(workload, skip, start, end, profile, interval, files) ==
  [workload |-> workload, skip |-> skip * Cycle, start |-> start * Cycle, end |-> end * Cycle,
   profile_perf |-> "perf" \in profile, profile_power |-> "power" \in profile, files |-> files, tiles |-> 16,
   interval |-> IF workload = "CMP" THEN interval ELSE interval * Cycle,
   NIs |-> IF workload = "SNUCA" THEN 1 ELSE 2, link_width |-> 64]

Record(cycle, instr, src, dest) ==
  [cycle |-> cycle, instr |-> instr, src |-> src, dest |-> dest, size |-> "short", multicast |-> <<>>]

L1(n) == <<"L1Cache", n>>
L2(n) == <<"L2Cache", n>>
Dir(n) == <<"Directory", n>>

Files ==
  << <<Record(1, 10, L1(0), L2(3)),
       Record(3, 20, L2(3), Dir(1)),
       \* not later than the one before it, and to a tile that there is not
       [Record(3, 25, L1(2), L2(17)) EXCEPT !.size = "long"]>>,
     <<[Record(2, 40, L2(3), L1(0)) EXCEPT !.multicast = <<1, 4, 5>>],
       [Record(6, 50, Dir(7), L1(0)) EXCEPT !.size = "long"]>>,
     <<Record(7, 70, L1(4), L1(5))>> >>

\* Records for machines that the two workloads with data always have.
DataFiles ==
  << <<Record(1, 0, L1(0), L2(3)), Record(2, 0, L2(3), Dir(1))>>,
     <<[Record(4, 0, Dir(7), L1(0)) EXCEPT !.size = "long"], Record(4, 0, L1(4), L1(5))>> >>

Both == {"perf", "power"}

Configs ==
  {Config("SYNTH", 0, 0, 2, Both, 1, <<>>), Config("SYNTH", 0, 1, 2, Both, 1, <<>>),
   Config("SYNTH", 0, 1, 3, {}, 1, <<>>), Config("SYNTH", 0, 1, 2, {"power"}, 1, <<>>),
   Config("CMP", 0, 2, 20, Both, 20, Files), Config("CMP", 3, 3, 20, {"perf"}, 10, Files),
   Config("CMP", 1, 4, 6, {}, 10, Files), Config("CMP", 5, 6, 9, Both, 10, Files),
   Config("VALUE", 0, 1, 9, {"perf"}, 3, DataFiles), Config("VALUE", 1, 0, 9, Both, 2, DataFiles),
   Config("SNUCA", 1, 3, 4, {"power"}, 1, DataFiles)}

\* A core of the matrix that sends nothing, and one that sends to itself.
Matrix == << <<0, 0, 0, 0>>, <<0, 1, 0, 0>>, <<1, 0, 0, 1>>, <<0, 1, 1, 0>> >>

SynthWorkload(spatial, radix, bimodal, multicast, matrix) ==
  [spatial |-> spatial, radix |-> radix, bimodal |-> bimodal, multicast |-> multicast, matrix |-> matrix]

SyntheticWorkloads ==
  {SynthWorkload(spatial, radix, FALSE, FALSE, <<>>) : spatial \in {"NN", "BC", "TP", "TOR"}, radix \in {3, 4}}
    \cup {SynthWorkload("UR", 3, FALSE, FALSE, <<>>), SynthWorkload("NN", 3, TRUE, FALSE, <<>>),
          SynthWorkload("UR", 2, FALSE, TRUE, <<>>), SynthWorkload("UR", 2, TRUE, FALSE, Matrix)}

\* The other parts' variables: no process, no packet and no line.
NoClk == clk = 0 /\ wake = [p \in Process |-> Never] /\ running = Nobody
NoSim ==
  /\ cfg = [workload |-> "SYNTH"]
  /\ pc = [main |-> "none", control |-> "none"] /\ EOS = 0 /\ sim = 0 /\ flying = 0
  /\ file_id = 0 /\ fp = 0 /\ pos = 0 /\ pkts = 0 /\ last_pkt_inject_clk = 0 /\ NI_last_pos = 0 /\ log = <<>>
  /\ last_profile_clk = 0 /\ next_profile_instr = 0 /\ printed = <<>>
NoDvs ==
  /\ dvs_voltage = [l \in Link |-> 0] /\ dvs_freq = dvs_voltage
  /\ next_level = 0 /\ speedup_flag = 0 /\ set = 0 /\ step = 0 /\ link_dvs_method = 0 /\ line = 0
NoSynth == wkld = 0 /\ next_flit_id = 0 /\ packets = 0
NoConfig == g_cfg = 0 /\ stage = "none" /\ given = 0
NoTunnel == Init /\ router_tunnel_type = "PER_FLOW"
NoWires == m_link_trav_data = 0 /\ m_intra_trans = 0 /\ m_inter_trans = 0 /\ carried = 0
NoQueues ==
  /\ router_buffer_type = 0 /\ now = 0 /\ size = 0 /\ m_sum_occupancy = 0 /\ m_last_update_clk = 0
  /\ m_max_occupancy = 0 /\ pktQ = 0 /\ extra_pktQ = 0 /\ ni = 0 /\ writes = 0 /\ held = 0

SimPartInit == cfg \in {c \in Configs : c.workload \in Workloads} /\ SimulationInit

MCInit ==
  /\ part \in Parts
  /\ IF part = "SIM" THEN SimPartInit ELSE NoSim
  /\ CASE part = "SIM" -> TRUE [] part = "DVS" -> DvsInit [] OTHER -> NoClk
  /\ IF part = "DVS" THEN TRUE ELSE NoDvs
  /\ IF part = "SYNTH" THEN wkld \in SyntheticWorkloads /\ Synth!Init ELSE NoSynth
  /\ IF part = "CONFIG" THEN ConfigInit ELSE NoConfig
  /\ IF part = "TUNNEL" THEN Init ELSE NoTunnel
  /\ IF part = "WIRES" THEN Wires!Init ELSE NoWires
  /\ IF part = "QUEUES" THEN Queues!Init ELSE NoQueues

MCNext ==
  /\ UNCHANGED part
  /\ \/ part = "SIM" /\ SimulationNext
     \/ part = "DVS" /\ DvsNext /\ UNCHANGED SimVars
     \/ part = "SYNTH" /\ Synth!genPacket /\ UNCHANGED <<ClkVars, SimVars>>
     \/ part = "CONFIG" /\ ConfigNext /\ UNCHANGED <<ClkVars, SimVars>>
     \/ part = "TUNNEL" /\ Next /\ UNCHANGED <<ClkVars, SimVars>>
     \/ part = "WIRES" /\ Wires!traverse /\ UNCHANGED <<ClkVars, SimVars>>
     \/ part = "QUEUES" /\ Queues!Next /\ UNCHANGED <<ClkVars, SimVars>>
  /\ IF part = "DVS" THEN TRUE ELSE UNCHANGED dvsVars
  /\ IF part = "SYNTH" THEN TRUE ELSE UNCHANGED SynthVars
  /\ IF part = "CONFIG" THEN TRUE ELSE UNCHANGED configVars
  /\ IF part = "TUNNEL" THEN TRUE ELSE UNCHANGED vars
  /\ IF part = "WIRES" THEN TRUE ELSE UNCHANGED WiresVars
  /\ IF part = "QUEUES" THEN TRUE ELSE UNCHANGED QueuesVars

MCSpec == MCInit /\ [][MCNext]_allVars /\ WF_allVars(MCNext)

-----------------------------------------------------------------------------
\* Every simulation ends: the one event that process_main waits for is set,
\* whichever of the control process and the trace comes to the end first.
SimEnds == <>(part # "SIM" \/ pc["main"] = "done")

\* Synthetic packets go where their spatial pattern says, and have flit
\* identifiers of their own.
PacketsRight == part = "SYNTH" => Synth!PacketsRight

\* What statistics add up is what happened: the wires of a link that changed,
\* each change and each coupling once, and the flits in buffers in each cycle
\* since the last reset.
Accounted ==
  /\ part = "WIRES" => Wires!WiresCounted
  /\ part = "QUEUES" => Queues!OccupancyMeasured
=============================================================================
