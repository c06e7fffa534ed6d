------------------------------- MODULE Config -------------------------------
(***************************************************************************)
(* The configuration: config_sim's defaults, the options that              *)
(* parse_options takes one by one in any order, and what sim() then        *)
(* computes, changes and asserts before process_main.  Left out are the    *)
(* fields that only power models, printing and files depend on, and the    *)
(* workload and the topology that are not modelled (TRIPS, DMESH).         *)
(***************************************************************************)
EXTENDS Integers, FiniteSetsExt

CONSTANTS
  Options,              \* the options that may be given: pairs of a name and a value
  MaxOptions,           \* the bound on how many are given
  MAX_PACKET_NUM_DEST   \* of the build: 128, 256 or 1024

VARIABLES
  g_cfg,
  stage,   \* how far sim() is; "stopped" by an assertion
  given    \* the number of options read

configVars == <<g_cfg, stage, given>>

\* Times are in thousands of cycles.
Kilo == 1
Mega == 1000
Tera == 1000000000
BITS_IN_BYTE == 8

config_sim ==
  [core_num |-> 16, core_num_NIs |-> 1, core_num_tile_tiledCMP |-> 64, core_num_mem_tiledCMP |-> 8,
   net_routing |-> "XY", net_topology |-> "MESH", net_fattree_way |-> 4, router_num |-> 16,
   wkld_type |-> "SYNTH", router_inbuf_depth |-> 4, router_num_pc |-> 5, router_num_vc |-> 2,
   router_buffer_type |-> "SAMQ", router_num_rsv_credit |-> 0, NI_port_mux |-> FALSE,
   link_width |-> 128, flit_sz_byte |-> 0, sim_clk_start |-> 100 * Kilo, sim_clk_end |-> 1 * Mega,
   wkld_trace_skip_cycles |-> 0, profile_interval_cycle |-> TRUE, profile_perf |-> FALSE,
   cam_data_enable |-> FALSE, cam_data_blk_byte |-> 8, cam_data_num_interleaved_tab |-> 1]

Workload == {"SYNTH", "CMP", "VALUE", "SNUCA"}
Topology == {"MESH", "TORUS", "HMESH", "FTREE", "FLBFLY", "SNUCA"}
Routing ==
  {"XY", "YX", "MIN_OBLIVIOUS", "MIN_ADAPTIVE_VC", "MIN_SCHEDULED", "TORUS_DALLY", "FTREE_ADAPTIVE",
   "FTREE_RANDOM", "HMESH_ASCENT", "HMESH_DESCENT", "FLBFLY_XY", "FLBFLY_YX"}

\* The options there are, with the values that parse_options can make of their text.
Option ==
  ({"WKLD"} \X {"TYPE"} \X Workload)
    \cup ({"WKLD"} \X {"TRACE:SKIP_MCYCLES", "TRACE:SKIP_KCYCLES"} \X Int)
    \cup ({"NET"} \X {"TOPOLOGY"} \X Topology)
    \cup ({"NET"} \X {"ROUTING"} \X Routing)
    \cup ({"NET"} \X {"CORE_NUM", "CORE_TILE_NUM"} \X Int)
    \cup ({"CORE"} \X {"NUM_NI"} \X Int)
    \cup ({"NI"} \X {"PORT_MUX"} \X BOOLEAN)
    \cup ({"ROUTER"} \X {"PC", "VC", "INBUF_DEPTH"} \X Int)
    \cup ({"ROUTER"} \X {"BUFFER"} \X {"SAMQ", "DAMQ_P", "DAMQ_R"})
    \cup ({"LINK"} \X {""} \X Int)
    \cup ({"SIM"} \X {"PERF_PFILE"} \X STRING)
    \cup ({"SIM"} \X {"WARM_CYCLE", "END_CYCLE"} \X Int)
    \cup ({"CAM"} \X {"DATA_ENABLE"} \X BOOLEAN)
    \cup ({"CAM"} \X {"DATA_BLK_BYTE", "INTERLEAVE_TAB"} \X Int)

ASSUME OptionsAssumption == Options \subseteq Option

-----------------------------------------------------------------------------
\* parse_options, by the part of the option's name before the colon.

parse_wkld(c, name, value) ==
  CASE name = "TYPE" -> [c EXCEPT !.wkld_type = value]
    [] name = "TRACE:SKIP_MCYCLES" -> [c EXCEPT !.wkld_trace_skip_cycles = value * Mega]
    [] name = "TRACE:SKIP_KCYCLES" -> [c EXCEPT !.wkld_trace_skip_cycles = value * Kilo]

parse_net(c, name, value) ==
  CASE name = "TOPOLOGY" -> [c EXCEPT !.net_topology = value]
    [] name = "ROUTING" -> [c EXCEPT !.net_routing = value]
    [] name = "CORE_NUM" -> [c EXCEPT !.core_num = value]
    [] name = "CORE_TILE_NUM" -> [c EXCEPT !.core_num_tile_tiledCMP = value]

\* The number of reserved credits is set with the buffers, but never taken back.
parse_router(c, name, value) ==
  CASE name = "NUM_NI" -> [c EXCEPT !.core_num_NIs = value]
    [] name = "PORT_MUX" -> [c EXCEPT !.NI_port_mux = value]
    [] name = "PC" -> [c EXCEPT !.router_num_pc = value]
    [] name = "VC" -> [c EXCEPT !.router_num_vc = value]
    [] name = "INBUF_DEPTH" -> [c EXCEPT !.router_inbuf_depth = value]
    [] name = "BUFFER" -> [c EXCEPT !.router_buffer_type = value,
                                    !.router_num_rsv_credit = IF value = "SAMQ" THEN @ ELSE 1]

parse_link(c, value) == [c EXCEPT !.link_width = value]

\* A negative end is for traces to be read to their end.
parse_sim(c, name, value) ==
  CASE name = "PERF_PFILE" -> [c EXCEPT !.profile_perf = TRUE]
    [] name = "WARM_CYCLE" -> [c EXCEPT !.sim_clk_start = value]
    [] name = "END_CYCLE" -> [c EXCEPT !.sim_clk_end = IF value < 0 THEN 1 * Tera ELSE value]

parse_cam(c, name, value) ==
  CASE name = "DATA_ENABLE" -> [c EXCEPT !.cam_data_enable = value]
    [] name = "DATA_BLK_BYTE" -> [c EXCEPT !.cam_data_blk_byte = value]
    [] name = "INTERLEAVE_TAB" -> [c EXCEPT !.cam_data_num_interleaved_tab = value]

parse_option(c, group, name, value) ==
  CASE group = "WKLD" -> parse_wkld(c, name, value)
    [] group = "NET" -> parse_net(c, name, value)
    [] group \in {"NI", "CORE", "ROUTER"} -> parse_router(c, name, value)
    [] group = "LINK" -> parse_link(c, value)
    [] group = "SIM" -> parse_sim(c, name, value)
    [] group = "CAM" -> parse_cam(c, name, value)

\* Numbers of cores and tiles are looked at as soon as they are read.
Accepted(c) == c.core_num > 0 /\ c.core_num_tile_tiledCMP > 0

-----------------------------------------------------------------------------
\* Every phase asserts what it needs and goes on with what it makes of g_cfg.
Phase(from, to, ok, c) ==
  /\ stage = from
  /\ IF ok THEN stage' = to /\ g_cfg' = c ELSE stage' = "stopped" /\ UNCHANGED g_cfg
  /\ UNCHANGED given

parse_options ==
  /\ stage = "options"
  /\ given < MaxOptions
  /\ \E o \in Options :
       LET c == parse_option(g_cfg, o[1], o[2], o[3]) IN
       /\ g_cfg' = c
       /\ stage' = IF Accepted(c) THEN "options" ELSE "stopped"
  /\ given' = given + 1

\* The end of the options, and the size of flits.
FlitSize ==
  Phase("options", "workload", g_cfg.link_width > 0 /\ g_cfg.link_width % BITS_IN_BYTE = 0,
        [g_cfg EXCEPT !.flit_sz_byte = g_cfg.link_width \div BITS_IN_BYTE])

config_tiledCMP_network(c) ==
  [c EXCEPT !.router_num_pc = 4 + c.core_num_NIs, !.router_num = c.core_num_tile_tiledCMP,
            !.core_num = c.core_num_tile_tiledCMP]

config_snucaCMP_network(c) == [c EXCEPT !.core_num = 256 + 8 + 8, !.router_num = 64]

\* Mutant of customised: the network is set up before the number of NIs.
customisedLate(c) ==
  CASE c.wkld_type = "SYNTH" -> c
    [] c.wkld_type = "CMP" ->
         config_tiledCMP_network([c EXCEPT !.NI_port_mux = c.core_num_tile_tiledCMP # 16,
                                           !.profile_interval_cycle = FALSE])
    [] c.wkld_type = "VALUE" ->
         [config_tiledCMP_network([c EXCEPT !.core_num_tile_tiledCMP = 16, !.core_num_mem_tiledCMP = 16])
            EXCEPT !.NI_port_mux = TRUE, !.cam_data_num_interleaved_tab = 8, !.core_num_NIs = 2]
    [] c.wkld_type = "SNUCA" -> config_snucaCMP_network([c EXCEPT !.cam_data_num_interleaved_tab = 16])

\* Trace workloads overrule what the options said of cores, routers and tables.
customised(c) ==
  CASE c.wkld_type = "SYNTH" -> c
    [] c.wkld_type = "CMP" ->
         config_tiledCMP_network([c EXCEPT !.NI_port_mux = c.core_num_tile_tiledCMP # 16,
                                           !.profile_interval_cycle = FALSE])
    [] c.wkld_type = "VALUE" ->
         config_tiledCMP_network(
           [c EXCEPT !.NI_port_mux = TRUE, !.cam_data_num_interleaved_tab = 8, !.core_num_NIs = 2,
                     !.core_num_tile_tiledCMP = 16, !.core_num_mem_tiledCMP = 16])
    [] c.wkld_type = "SNUCA" -> config_snucaCMP_network([c EXCEPT !.cam_data_num_interleaved_tab = 16])

Customise ==
  Phase("workload", "topology",
        g_cfg.wkld_type = "CMP" => g_cfg.core_num_tile_tiledCMP >= g_cfg.core_num_mem_tiledCMP,
        customised(g_cfg))

Square(n) == \E k \in 0 .. n : k * k = n

\* Of numbers up to the largest MAX_PACKET_NUM_DEST.
is_power2(n) == n \in {1, 2, 4, 8, 16, 32, 64, 128, 256, 512, 1024}
log_int(n, base) == Max({k \in 0 .. 10 : base ^ k <= n})
FatTreeRouters(c) ==
  (c.core_num \div c.net_fattree_way) * log_int(c.core_num, c.net_fattree_way)

\* What buildTopology of each topology asks for.
Buildable(c) ==
  CASE c.net_topology \in {"MESH", "TORUS", "HMESH"} -> Square(c.core_num)
    [] c.net_topology = "FTREE" -> is_power2(c.core_num) /\ is_power2(c.net_fattree_way)
    [] c.net_topology = "FLBFLY" -> c.core_num = 64
    [] c.net_topology = "SNUCA" -> c.core_num = 8 + 256 + 8 /\ c.router_num = 256 \div 4

\* The topology has the last word on the number of routers, and HMesh on ports.
built(c) ==
  CASE c.net_topology \in {"MESH", "TORUS"} -> [c EXCEPT !.router_num = c.core_num]
    [] c.net_topology = "HMESH" ->
         [c EXCEPT !.router_num = c.core_num, !.router_num_pc = 2 * 4 + c.core_num_NIs]
    [] c.net_topology = "FTREE" -> [c EXCEPT !.router_num = FatTreeRouters(c)]
    [] c.net_topology = "FLBFLY" -> [c EXCEPT !.router_num = c.core_num \div 4]
    [] c.net_topology = "SNUCA" -> c

BuildTopology == Phase("topology", "routing", Buildable(g_cfg), built(g_cfg))

\* The topologies that a routing algorithm is written for; one that parse_options
\* knows has not been written.
TopologiesOf(routing) ==
  CASE routing = "MIN_SCHEDULED" -> {}
    [] routing \in {"XY", "YX", "MIN_OBLIVIOUS", "MIN_ADAPTIVE_VC"} -> {"MESH", "SNUCA"}
    [] routing = "TORUS_DALLY" -> {"TORUS"}
    [] routing \in {"FTREE_ADAPTIVE", "FTREE_RANDOM"} -> {"FTREE"}
    [] routing \in {"HMESH_ASCENT", "HMESH_DESCENT"} -> {"HMESH"}
    [] routing \in {"FLBFLY_XY", "FLBFLY_YX"} -> {"FLBFLY"}

ChooseRouting ==
  Phase("routing", "compression",
        /\ g_cfg.net_topology \in TopologiesOf(g_cfg.net_routing)
        /\ g_cfg.net_routing = "TORUS_DALLY" => g_cfg.router_num_vc % 2 = 0,
        g_cfg)

containData(c) == c.wkld_type \in {"VALUE", "SNUCA"}

Compression ==
  Phase("compression", "pools", g_cfg.cam_data_enable => containData(g_cfg),
        IF g_cfg.cam_data_enable /\ g_cfg.flit_sz_byte <= g_cfg.cam_data_blk_byte
        THEN [g_cfg EXCEPT !.cam_data_num_interleaved_tab = 1] ELSE g_cfg)

\* Packets have a bit for every router and core.
Pools ==
  Phase("pools", "run",
        g_cfg.router_num <= MAX_PACKET_NUM_DEST /\ g_cfg.core_num <= MAX_PACKET_NUM_DEST, g_cfg)

ConfigInit == g_cfg = config_sim /\ stage = "options" /\ given = 0

ConfigNext ==
  \/ parse_options \/ FlitSize \/ Customise \/ BuildTopology \/ ChooseRouting
  \/ Compression \/ Pools

ConfigSpec == ConfigInit /\ [][ConfigNext]_configVars

-----------------------------------------------------------------------------
\* Whatever the options and their order, a simulation that starts has a network
\* that its workload and the other parts can work with: a trace's machine has
\* the network that its files are for (with tiles on a grid, a router and the
\* ports of its NIs for each tile), buffers that share credits reserve one of
\* them for each VC, a flit is not divided between more tables than it has
\* blocks for, and only packets with data are compressed.
Consistent ==
  stage = "run" =>
    /\ (g_cfg.wkld_type = "SNUCA") <=> (g_cfg.net_topology = "SNUCA")
    /\ g_cfg.wkld_type \in {"CMP", "VALUE"} /\ g_cfg.net_topology \in {"MESH", "TORUS", "HMESH"} =>
         /\ g_cfg.router_num = g_cfg.core_num_tile_tiledCMP
         /\ g_cfg.core_num = g_cfg.router_num
         /\ g_cfg.router_num_pc - g_cfg.core_num_NIs = (IF g_cfg.net_topology = "HMESH" THEN 8 ELSE 4)
    /\ g_cfg.router_buffer_type # "SAMQ" => g_cfg.router_num_rsv_credit = 1
    /\ g_cfg.cam_data_enable =>
         /\ g_cfg.wkld_type \in {"VALUE", "SNUCA"}
         /\ g_cfg.cam_data_num_interleaved_tab > 1 => g_cfg.flit_sz_byte > g_cfg.cam_data_blk_byte
=============================================================================
