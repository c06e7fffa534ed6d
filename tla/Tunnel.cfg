CONSTANTS
  Core = {core1, core2}
  Waiting = {2, 4}
  Latency = {2, 4}
  Process = {"main", "control", "trace", "profile", core1, core2, "select", "speedup", "slowdown"}
  core1 = core1
  core2 = core2
  Parts = {"TUNNEL"}
  Workloads = {"SYNTH"}
  Link = {link1, link2}
  link1 = link1
  link2 = link2
  Levels = 3
  sim_clk_start = 20
  link_dvs_interval = 20
  voltage_delay = 6
  freq_delay = 2
  ClkEnd = 80
  wkld_trace_skip_cycles = 20
  UNIT_MEGA = 20
  Flow = {"both", "one", "local"}
  Rate = {0, 1, 2}
  Over <- FlowsOver
  Capacity <- Uses
  highest_voltage_threshold = 4
  Options <- GivenOptions
  MaxOptions = 4
  MAX_PACKET_NUM_DEST = 1024
  NumIn = 2
  NumVC = 2
  OutPC = {"link", "NI"}
  EjectPC = {"NI"}
  LinkLat = 1
  Depth = 2
  Traffic <- ToNI
SPECIFICATION MCSpec
CHECK_DEADLOCK FALSE
INVARIANT TailOwnsVC
