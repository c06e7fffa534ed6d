----------------------------- MODULE SimControl -----------------------------
(***************************************************************************)
(* The processes that start, measure and end a simulation: process_main,   *)
(* process_control_sim and process_gen_synth_traffic.  The network is an   *)
(* external black box here: a packet handed to it comes out some cycles    *)
(* later.  Simulations end by cycle, the one end condition that the        *)
(* configuration and its options can set.                                  *)
(***************************************************************************)
EXTENDS Csim, Bags

CONSTANTS
  Core,      \* the cores with a generator: a subset of Process
  Waiting,   \* the times that getWaitingTime may return
  Latency    \* the times a packet may spend in the network

VARIABLES
  cfg,      \* g_cfg: set up by parse_options and sim(), then constant
  pc,       \* where the processes stand that do not only loop
  EOS,      \* g_EOS
  sim,      \* g_sim: counters of packets and of the interval being profiled; with
            \* them the routers' energy of the interval, in packets
  flying    \* the times at which packets come out of the network: a bag

ASSUME ProcessesAssumption ==
  /\ {"main", "control", "trace", "profile"} \cup Core \subseteq Process
  /\ {"main", "control", "trace", "profile"} \cap Core = {}
  /\ Waiting \cup Latency \subseteq Nat

simVars == <<cfg, pc, EOS, sim, flying>>

\* Packets only: flits are counted along with them.
SimOut ==
  [m_num_pkt_inj |-> 0, m_num_pkt_ejt |-> 0,
   m_num_pkt_inj_warmup |-> 0, m_num_pkt_ejt_warmup |-> 0,
   m_clk_warmup_end |-> 0, m_clk_sim_end |-> 0, m_warmup_phase |-> TRUE,
   m_pkt_T_t_tab |-> 0,  \* the number of latencies recorded
   m_num_instr_executed |-> 0, m_periodic_instr_executed |-> 0,
   m_periodic_ejt_pkt |-> 0, m_periodic_inj_pkt |-> 0, m_power_tmpl_profile |-> 0]

Profiling == cfg.profile_perf \/ cfg.profile_power

num_cycles_warmup_sim == IF cfg.start = 0 THEN 0 ELSE cfg.start - cfg.skip

\* Mutant of num_cycles_end_sim: the warm-up is not taken off.
EndAfterWarmup == cfg.end - cfg.skip + (IF Profiling THEN Cycle \div 2 ELSE 0)

num_cycles_end_sim ==
  cfg.end - cfg.skip - num_cycles_warmup_sim
    + (IF Profiling THEN Cycle \div 2 ELSE 0)

\* Options give times in whole cycles, and profiles an interval of instructions
\* or cycles.
Whole(t) == t \in Nat /\ t % Cycle = 0
Configured ==
  /\ Whole(cfg.skip) /\ Whole(cfg.start) /\ Whole(cfg.end)
  /\ cfg.interval \in Nat \ {0} /\ (cfg.workload # "CMP" => Whole(cfg.interval))

\* What process_control_sim and the profiler assert before they start; a
\* simulation that is to end as soon as it is warmed up is left out.
Timed == num_cycles_warmup_sim >= 0 /\ cfg.end - cfg.skip - num_cycles_warmup_sim > 0

clk_start_profile == IF cfg.start > 0 THEN cfg.start ELSE cfg.skip

\* process_main creates the processes that the configuration needs: when they
\* go on for the first time, if the cores wait for so long.
FirstHold(p, waiting) ==
  CASE p = "main" -> Never
    [] p = "control" -> cfg.skip + num_cycles_warmup_sim
    [] p = "trace" -> IF cfg.workload = "SYNTH" THEN Never ELSE 0
    [] p = "profile" -> IF Profiling THEN clk_start_profile ELSE Never
    [] p \in Core -> IF cfg.workload = "SYNTH" THEN waiting[p] ELSE Never
    [] OTHER -> Never

SimInit ==
  /\ Configured
  /\ Timed
  /\ \E waiting \in [Core -> Waiting] : wake = [p \in Process |-> FirstHold(p, waiting)]
  /\ clk = 0
  /\ running = Nobody
  /\ pc = [p \in {"main", "control", "trace", "profile"} |-> "start"]
  /\ EOS = FALSE
  /\ sim = SimOut
  /\ flying = EmptyBag

\* SimOut::resetStats; routers, NIs and the workload forget theirs, too.
reset_stats(s) == [s EXCEPT !.m_pkt_T_t_tab = 0]

WarmupEnds ==
  /\ pc["control"] = "start"
  /\ Runs("control")
  /\ sim' = reset_stats([sim EXCEPT !.m_warmup_phase = FALSE,
                                    !.m_clk_warmup_end = clk,
                                    !.m_num_pkt_inj_warmup = sim.m_num_pkt_inj,
                                    !.m_num_pkt_ejt_warmup = sim.m_num_pkt_ejt])
  /\ pc' = [pc EXCEPT !["control"] = "end"]
  /\ hold("control", num_cycles_end_sim)
  /\ UNCHANGED <<clk, cfg, EOS, flying>>

\* The end is declared, and process_main, which waits for g_ev_sim_done, goes on.
Finish(p) ==
  /\ EOS' = TRUE
  /\ sim' = [sim EXCEPT !.m_clk_sim_end = clk]
  /\ wake' = [wake EXCEPT ![p] = Never, !["main"] = clk]
  /\ running' = Nobody

ControlEnds ==
  /\ pc["control"] = "end"
  /\ Runs("control")
  /\ IF EOS THEN Ends("control") /\ UNCHANGED <<EOS, sim>> ELSE Finish("control")
  /\ pc' = [pc EXCEPT !["control"] = "done"]
  /\ UNCHANGED <<clk, cfg, flying>>

\* Packets handed to the network come out some time later.
Forward(n, latency) == flying (+) [t \in {clk + latency} |-> n]

Count(flag) == IF flag THEN 1 ELSE 0

\* genPacket counts the packet for the profile; the end of the simulation is
\* seen only before the next hold.
Generate(c) ==
  /\ cfg.workload = "SYNTH"
  /\ Runs(c)
  /\ sim' = [sim EXCEPT !.m_num_pkt_inj = @ + 1,
                        !.m_periodic_inj_pkt = @ + Count(cfg.profile_perf)]
  /\ \E l \in Latency : flying' = Forward(1, l)
  /\ IF EOS THEN Ends(c) ELSE \E t \in Waiting : hold(c, t)
  /\ UNCHANGED <<clk, cfg, pc, EOS>>

\* NIOutput::assembleFlit with the tail flit of a packet.  The energy is that
\* of the last router, which the packet's flits have just left.
Eject ==
  /\ running = Nobody
  /\ BagIn(clk, flying)
  /\ flying' = flying (-) SetToBag({clk})
  /\ sim' = [sim EXCEPT !.m_num_pkt_ejt = @ + 1, !.m_pkt_T_t_tab = @ + 1,
                        !.m_periodic_ejt_pkt = @ + Count(cfg.profile_perf),
                        !.m_power_tmpl_profile = @ + Count(cfg.profile_power /\ ~ sim.m_warmup_phase)]
  /\ UNCHANGED <<clk, wake, running, cfg, pc, EOS>>

\* Mutant of MainEnds: it goes on only if the network is empty.
MainEndsEmpty ==
  /\ pc["main"] = "start"
  /\ Runs("main")
  /\ BagToSet(flying) = {}
  /\ pc' = [pc EXCEPT !["main"] = "done"]
  /\ Ends("main")
  /\ UNCHANGED <<clk, cfg, EOS, sim, flying>>

\* process_main goes on; sim() prints the results and exits.
MainEnds ==
  /\ pc["main"] = "start"
  /\ Runs("main")
  /\ pc' = [pc EXCEPT !["main"] = "done"]
  /\ Ends("main")
  /\ UNCHANGED <<clk, cfg, EOS, sim, flying>>

Tick ==
  /\ running = Nobody
  /\ Advance(BagToSet(flying))
  /\ UNCHANGED simVars

SimNext == WarmupEnds \/ ControlEnds \/ (\E c \in Core : Generate(c)) \/ Eject \/ MainEnds \/ Tick

\* What print_stats averages over, and divides by.
eff_num_pkt_ejt == sim.m_num_pkt_ejt - sim.m_num_pkt_ejt_warmup
eff_num_cycle == sim.m_clk_sim_end - sim.m_clk_warmup_end

-----------------------------------------------------------------------------
\* The latencies that print_stats averages over are those of the packets that
\* it says were ejected after the warm-up, and the time that it divides by is
\* what the options asked for (less only if a trace ended the simulation).
Measured ==
  pc["main"] = "done" =>
    LET asked == cfg.end - (IF cfg.start = 0 THEN cfg.skip ELSE cfg.start)
    IN  /\ sim.m_pkt_T_t_tab = eff_num_pkt_ejt
        /\ sim.m_clk_sim_end = clk
        /\ \/ eff_num_cycle \div Cycle = asked \div Cycle
           \/ cfg.workload # "SYNTH" /\ sim.m_clk_sim_end <= cfg.end
=============================================================================
