------------------------------ MODULE Profile ------------------------------
(***************************************************************************)
(* The performance profile and the power profile: process_profile_cycle,   *)
(* and for traces of instructions process_profile_instr, print a line of   *)
(* either or both for each interval.                                       *)
(***************************************************************************)
EXTENDS TraceReader

VARIABLES
  last_profile_clk,    \* g_last_profile_clk
  next_profile_instr,
  printed              \* the profile's header and lines: a history

profileVars == <<last_profile_clk, next_profile_instr, printed>>

num_cycles_check == 5 * Cycle

ProfileInit == last_profile_clk = 0 /\ next_profile_instr = 0 /\ printed = <<>>

\* The energy of the interval, that of the routers' operation and that which
\* they use all the time.
NetworkEnergy(num_cycles) == [dynamic |-> sim.m_power_tmpl_profile, static |-> num_cycles]

\* The packets that use energy that is recorded.
PoweredPackets == IF sim.m_warmup_phase THEN 0 ELSE eff_num_pkt_ejt

\* A line has the counters of the interval and the time they are divided by;
\* with it, what had come out of the network by then.
Line ==
  [clk |-> clk, num_cycles |-> clk - last_profile_clk,
   energy |-> NetworkEnergy(clk - last_profile_clk), powered_total |-> PoweredPackets,
   ejt_pkt |-> sim.m_periodic_ejt_pkt, inj_pkt |-> sim.m_periodic_inj_pkt,
   instr |-> sim.m_num_instr_executed - sim.m_periodic_instr_executed,
   instr_total |-> sim.m_num_instr_executed, ejt_total |-> sim.m_num_pkt_ejt]

\* Mutant of perf_reset: the packets that came out go on being counted.
perf_reset_half(s) ==
  [s EXCEPT !.m_periodic_inj_pkt = 0, !.m_periodic_instr_executed = s.m_num_instr_executed]

\* SimOut::resetStatsPeriodic
perf_reset(s) ==
  [s EXCEPT !.m_periodic_ejt_pkt = 0, !.m_periodic_inj_pkt = 0,
            !.m_periodic_instr_executed = s.m_num_instr_executed]

\* The routers get new power models.
power_reset(s) == [s EXCEPT !.m_power_tmpl_profile = 0]

\* Each kind of profile that is asked for forgets its interval.
Reset(s) ==
  LET perf == IF cfg.profile_perf THEN perf_reset(s) ELSE s
  IN  IF cfg.profile_power THEN power_reset(perf) ELSE perf

\* Both processes reset the counters, but not the energy, and print a header;
\* the one for instructions also sets where it starts and the first multiple to
\* stop at.
ProfileStart ==
  /\ pc["profile"] = "start"
  /\ Runs("profile")
  /\ sim' = IF cfg.profile_perf THEN perf_reset(sim) ELSE sim
  /\ printed' = <<Line>>
  /\ pc' = [pc EXCEPT !["profile"] = "loop"]
  /\ IF cfg.workload = "CMP"
     THEN /\ last_profile_clk' = clk
          /\ next_profile_instr' =
               ((sim.m_num_instr_executed + cfg.interval) \div cfg.interval) * cfg.interval
          /\ IF EOS THEN Ends("profile") ELSE GoesOn("profile")
     ELSE /\ UNCHANGED <<last_profile_clk, next_profile_instr>>
          /\ IF EOS THEN Ends("profile") ELSE hold("profile", cfg.interval)
  /\ UNCHANGED <<clk, cfg, EOS, flying, traceVars>>

PrintLine == sim' = Reset(sim) /\ printed' = Append(printed, Line)

ProfileCycle ==
  /\ pc["profile"] = "loop"
  /\ cfg.workload # "CMP"
  /\ Runs("profile")
  /\ PrintLine
  /\ IF EOS THEN Ends("profile") ELSE hold("profile", cfg.interval)
  /\ UNCHANGED <<clk, cfg, pc, EOS, flying, traceVars, last_profile_clk, next_profile_instr>>

\* profile_set_start_clk
ProfileClk == clk

\* The number of instructions is looked at every few cycles.
ProfileInstr ==
  /\ pc["profile"] = "loop"
  /\ cfg.workload = "CMP"
  /\ Runs("profile")
  /\ IF sim.m_num_instr_executed <= next_profile_instr
     THEN hold("profile", num_cycles_check) /\ UNCHANGED <<sim, profileVars>>
     ELSE /\ PrintLine
          /\ last_profile_clk' = ProfileClk
          /\ next_profile_instr' = next_profile_instr + cfg.interval
          /\ IF EOS THEN Ends("profile") ELSE GoesOn("profile")
  /\ UNCHANGED <<clk, cfg, pc, EOS, flying, traceVars>>

ProfileNext == ProfileStart \/ ProfileCycle \/ ProfileInstr

-----------------------------------------------------------------------------
(* The whole simulation: the program exits when sim() has printed the results. *)

simulationVars == <<clk, wake, running, simVars, traceVars, profileVars>>

SimulationInit == SimInit /\ TraceInit /\ ProfileInit

SimulationNext ==
  /\ pc["main"] # "done"
  /\ \/ SimNext /\ UNCHANGED <<traceVars, profileVars>>
     \/ TraceNext /\ UNCHANGED profileVars
     \/ ProfileNext

Simulation == SimulationInit /\ [][SimulationNext]_simulationVars

-----------------------------------------------------------------------------
Lines == 2 .. Len(printed)

\* The intervals follow each other without a gap: the packets of all lines are
\* those that came out since the header, each counted in the line of its time;
\* the instructions likewise, and with them the cycles.  The energy is that of
\* the packets that came out since the warm-up, each again in one line.  When
\* the simulation ends at its time, the last full interval has its line.
Profiled ==
  /\ \A n \in Lines :
       /\ cfg.profile_perf =>
            /\ printed[n].ejt_pkt = printed[n].ejt_total - printed[n - 1].ejt_total
            /\ printed[n].instr = printed[n].instr_total - printed[n - 1].instr_total
       /\ cfg.profile_power =>
            printed[n].energy.dynamic =
              printed[n].powered_total - (IF n = 2 THEN 0 ELSE printed[n - 1].powered_total)
       /\ cfg.workload = "CMP" => printed[n].num_cycles = printed[n].clk - printed[n - 1].clk
  /\ pc["control"] = "done" /\ Profiling /\ cfg.workload # "CMP" =>
       Len(printed) = 1 + (cfg.end - clk_start_profile) \div cfg.interval
=============================================================================
