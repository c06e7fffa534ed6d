---------------------------- MODULE TraceReader ----------------------------
(***************************************************************************)
(* Trace workloads: WorkloadTiledCMP, WorkloadTiledCMPValue and            *)
(* WorkloadSNUCAValue read records from numbered files, turn each into     *)
(* packets, and process_parse_trace hands them to the network when their   *)
(* time has come.  cfg.files is a sequence of files, sequences of records. *)
(***************************************************************************)
EXTENDS SimControl, SequencesExt, SNUCAMap

VARIABLES
  file_id,  \* m_trace_file_id: the number of the file to open next, from 0
  fp,       \* m_trace_fp: the number of the open file, from 1
  pos,      \* the records read from it
  pkts,     \* pkt_vec, while its packets wait for their time
  last_pkt_inject_clk,
  NI_last_pos,  \* g_NI_in_last_pos and g_NI_out_last_pos: always equal
  log       \* the packets handed to the network, with the time: a history

traceVars == <<file_id, fp, pos, pkts, last_pkt_inject_clk, NI_last_pos, log>>

-----------------------------------------------------------------------------
(* Records and packets *)

\* PktTrace and PktTraceValue, of which a file is read record by record: a machine
\* has a type and a number.
Machine == {"L1Cache", "L2Cache", "Directory"} \X Nat
TraceRecord ==
  [cycle : Nat, instr : Nat, src : Machine, dest : Machine, size : {"short", "long"},
   multicast : Seq(Nat)]

\* MessageSizeType_to_int: CONTROL_MESSAGE_SIZE and DATA_MESSAGE_SIZE, as the
\* build without TRACE_PACKET_VALUE has them.
Bytes(tr) == IF tr.size = "short" THEN 16 ELSE 80
num_flits(tr) == (Bytes(tr) * 8 + cfg.link_width - 1) \div cfg.link_width

\* Where the memory controllers are in a CMP of 16 tiles.
Dir16 == <<1, 3, 4, 6, 9, 11, 12, 14>>

\* The inner switch of getTileID has one case and no braces: the return after
\* it is taken for any number of tiles, and so is the map for 16.  -1 stands for
\* TILE_ID_ERROR.
getTileID(type, num) ==
  IF type = "Directory"
  THEN IF cfg.tiles = 16 /\ num >= Len(Dir16) THEN -1 ELSE Dir16[num + 1]
  ELSE IF num >= cfg.tiles THEN -1 ELSE num

\* The NI of a tile for a machine of that type.  With NI_port_mux (every CMP but
\* that of 16 tiles) a tile has one NI, or the directory shares the second.
CmpNI(type) ==
  CASE type = "L1Cache" \/ (cfg.tiles # 16 /\ cfg.NIs = 1) -> 0
    [] type = "L2Cache" /\ ~ (cfg.tiles # 16 /\ cfg.NIs = 1) -> 1
    [] OTHER -> IF cfg.tiles = 16 THEN 0 ELSE 1

\* WorkloadTiledCMP::readTrace: a packet for each destination that is set, or
\* none after TRACE_ERROR.
CmpPackets(tr) ==
  LET src == getTileID(tr.src[1], tr.src[2])
      dest == getTileID(tr.dest[1], tr.dest[2])
      dests == IF tr.multicast = <<>> THEN <<dest>>
               ELSE [i \in DOMAIN tr.multicast |-> getTileID(tr.dest[1], tr.multicast[i])]
  IN  IF -1 \in {src, dest} \cup ToSet(dests) THEN <<>>
      ELSE [i \in DOMAIN dests |->
              [src |-> src, dest |-> dests[i], flits |-> num_flits(tr), clk_gen |-> tr.cycle * Cycle,
               NI_in_pos |-> CmpNI(tr.src[1]), NI_out_pos |-> CmpNI(tr.dest[1])]]

\* WorkloadTiledCMPValue::readTrace: the NIs take turns.
ValuePackets(tr) ==
  <<[src |-> tr.src[2], dest |-> tr.dest[2], flits |-> num_flits(tr), clk_gen |-> tr.cycle * Cycle,
     NI_in_pos |-> NI_last_pos, NI_out_pos |-> NI_last_pos]>>

\* WorkloadSNUCAValue::readTrace: a core has one NI.
SnucaPackets(tr) ==
  <<[src |-> getCoreID(tr.src[1], tr.src[2]), dest |-> getCoreID(tr.dest[1], tr.dest[2]),
     flits |-> num_flits(tr), clk_gen |-> tr.cycle * Cycle, NI_in_pos |-> 0, NI_out_pos |-> 0]>>

Packets(tr) ==
  CASE cfg.workload = "CMP" -> CmpPackets(tr)
    [] cfg.workload = "VALUE" -> ValuePackets(tr)
    [] cfg.workload = "SNUCA" -> SnucaPackets(tr)

\* What a record changes in g_sim: an invalid machine is found before, an
\* invalid multicast destination after the instructions are counted.
Counted(s, tr) ==
  LET known == getTileID(tr.src[1], tr.src[2]) # -1 /\ getTileID(tr.dest[1], tr.dest[2]) # -1
  IN  [s EXCEPT !.m_num_instr_executed = CASE cfg.workload = "CMP" -> IF known THEN tr.instr ELSE @
                                           [] cfg.workload = "VALUE" -> 0
                                           [] cfg.workload = "SNUCA" -> @,
                !.m_periodic_inj_pkt = @ + (IF cfg.profile_perf /\ Packets(tr) # <<>> THEN 1 ELSE 0)]

-----------------------------------------------------------------------------
(* Files *)

late(tr) == tr.cycle * Cycle > cfg.skip

\* skipTraceFile looks at the first record of one file after the other, until
\* one is late: the file before that is the one to skip in.
SkipFile ==
  CHOOSE k \in 1 .. Len(cfg.files) :
    /\ \A i \in 1 .. k : ~ late(cfg.files[i][1])
    /\ k < Len(cfg.files) => late(cfg.files[k + 1][1])

\* In it, all records up to the first late one are read, and are lost.
SkipPos == Min({i \in DOMAIN cfg.files[SkipFile] : late(cfg.files[SkipFile][i])})

\* The assertions that a trace has to meet: a file and a record to skip to.
TraceFits ==
  cfg.workload # "SYNTH" =>
    /\ cfg.files \in Seq(Seq(TraceRecord) \ {<<>>}) \ {<<>>}
    /\ cfg.skip # 0 => ~ late(cfg.files[1][1]) /\ late(Last(cfg.files[SkipFile]))

\* The constructor and sim() open the first file.
TraceInit ==
  /\ TraceFits
  /\ file_id = 1
  /\ fp = 1
  /\ pos = 0
  /\ pkts = <<>>
  /\ last_pkt_inject_clk = 0
  /\ NI_last_pos = 0
  /\ log = <<>>

\* process_parse_trace skips, and holds.
TraceSkip ==
  /\ pc["trace"] = "start"
  /\ Runs("trace")
  /\ IF cfg.skip = 0 THEN UNCHANGED <<file_id, fp, pos, sim>>
     ELSE /\ file_id' = SkipFile
          /\ fp' = SkipFile
          /\ pos' = SkipPos
          /\ sim' = IF cfg.workload # "CMP" THEN sim
                    ELSE [sim EXCEPT !.m_num_instr_executed = cfg.files[SkipFile][SkipPos].instr]
  /\ pc' = [pc EXCEPT !["trace"] = "skip"]
  /\ hold("trace", cfg.skip)
  /\ UNCHANGED <<clk, cfg, EOS, flying, pkts, last_pkt_inject_clk, NI_last_pos, log>>

TraceSkipped ==
  /\ pc["trace"] = "skip"
  /\ Runs("trace")
  /\ last_pkt_inject_clk' = clk
  /\ pc' = [pc EXCEPT !["trace"] = "read"]
  /\ GoesOn("trace")
  /\ UNCHANGED <<clk, cfg, EOS, sim, flying, file_id, fp, pos, pkts, NI_last_pos, log>>

\* readTrace with the next record: its packets wait for their time, and those
\* whose time has passed do not.
Read(tr) ==
  /\ sim' = Counted(sim, tr)
  /\ NI_last_pos' = IF cfg.workload = "VALUE" THEN (NI_last_pos + 1) % cfg.NIs ELSE NI_last_pos
  /\ pkts' = Packets(tr)
  /\ pc' = [pc EXCEPT !["trace"] = IF Packets(tr) = <<>> THEN "read" ELSE "inject"]
  /\ IF Packets(tr) # <<>> /\ tr.cycle * Cycle > last_pkt_inject_clk
     THEN hold("trace", tr.cycle * Cycle - last_pkt_inject_clk)
     ELSE GoesOn("trace")
  /\ UNCHANGED EOS

\* readTrace goes on with the next file at the end of one.  After the last
\* record, or when the simulation has ended, the loop is left.
TraceRead ==
  /\ pc["trace"] = "read"
  /\ Runs("trace")
  /\ IF ~ EOS /\ pos < Len(cfg.files[fp])
     THEN pos' = pos + 1 /\ UNCHANGED <<file_id, fp>> /\ Read(cfg.files[fp][pos + 1])
     ELSE IF ~ EOS /\ file_id < Len(cfg.files)
     THEN pos' = 1 /\ fp' = file_id + 1 /\ file_id' = file_id + 1 /\ Read(cfg.files[file_id + 1][1])
     ELSE /\ IF EOS THEN Ends("trace") /\ UNCHANGED <<EOS, sim>> ELSE Finish("trace")
          /\ pc' = [pc EXCEPT !["trace"] = "done"]
          /\ UNCHANGED <<file_id, fp, pos, pkts, NI_last_pos>>
  /\ UNCHANGED <<clk, cfg, flying, last_pkt_inject_clk, log>>

\* Mutant of InjectClk: the time of the last packet is not kept.
InjectClkStale == last_pkt_inject_clk

InjectClk == IF pkts[1].clk_gen > last_pkt_inject_clk THEN clk ELSE last_pkt_inject_clk

TraceInject ==
  /\ pc["trace"] = "inject"
  /\ Runs("trace")
  /\ last_pkt_inject_clk' = InjectClk
  /\ log' = log \o [i \in DOMAIN pkts |-> [pkt |-> pkts[i], clk |-> clk]]
  /\ \E l \in Latency : flying' = Forward(Len(pkts), l)
  /\ sim' = [sim EXCEPT !.m_num_pkt_inj = @ + Len(pkts)]
  /\ pkts' = <<>>
  /\ pc' = [pc EXCEPT !["trace"] = "read"]
  /\ GoesOn("trace")
  /\ UNCHANGED <<clk, cfg, EOS, file_id, fp, pos, NI_last_pos>>

TraceNext == TraceSkip \/ TraceSkipped \/ TraceRead \/ TraceInject

-----------------------------------------------------------------------------
\* The records that the options ask for: all of them, or those after the first
\* one that is later than the time skipped.
Asked ==
  LET all == FlattenSeq(cfg.files)
      first == Min({i \in DOMAIN all : late(all[i])})
  IN  IF cfg.skip = 0 THEN all ELSE SubSeq(all, first + 1, Len(all))

\* Their packets, each with the time at which it should enter the network: its
\* own, or that of the packet before it if that was later.
Due ==
  LET of(i) ==
        LET tr == Asked[i]
            at == Max({cfg.skip} \cup {Asked[j].cycle * Cycle : j \in {j \in 1 .. i : Packets(Asked[j]) # <<>>}})
        IN  [n \in DOMAIN Packets(tr) |-> [src |-> Packets(tr)[n].src, dest |-> Packets(tr)[n].dest, clk |-> at]]
  IN  FlattenSeq([i \in DOMAIN Asked |-> of(i)])

\* However the records are spread over files, and whatever could not be used
\* between them, the packets enter the network in the order of the trace, each
\* once and at its time, through an input NI that its core has; and all of them
\* have when the trace ends the simulation.
TraceInOrder ==
  cfg.workload # "SYNTH" =>
    LET entered == [i \in DOMAIN log |-> [src |-> log[i].pkt.src, dest |-> log[i].pkt.dest, clk |-> log[i].clk]]
    IN  /\ IsPrefix(entered, Due)
        /\ pc["trace"] = "done" => sim.m_clk_sim_end >= cfg.end \/ entered = Due
        /\ \A i \in DOMAIN log : log[i].pkt.NI_in_pos < cfg.NIs
=============================================================================
