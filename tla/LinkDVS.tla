------------------------------ MODULE LinkDVS ------------------------------
(***************************************************************************)
(* Dynamic voltage scaling of links (LINK_DVS): process_link_dvs_set picks *)
(* a level for each link, and two more processes carry the change out, the *)
(* voltage and the frequency of a link at different times.  Level 0 is the *)
(* highest voltage and frequency.  By its history a link may be found to   *)
(* need any level; with a file of predicted flit rates, the level follows  *)
(* from the rates of the flows over it.                                    *)
(***************************************************************************)
EXTENDS Csim

CONSTANTS
  Link,                        \* the valid links that are not of NIs
  Levels,                      \* MAX_LINK_DVS_LEVELS
  sim_clk_start,
  link_dvs_interval,           \* an even number
  voltage_delay, freq_delay,   \* link_dvs_{voltage,freq}_transit_delay
  wkld_trace_skip_cycles,
  UNIT_MEGA,                   \* the time that a line of predicted rates is for
  Flow, Rate,                  \* pairs of routers, and what the flit rate of one may be
  Over,                        \* of each link, the flows whose path goes over it
  Capacity,                    \* of each level but the highest, the use of a link it allows
  highest_voltage_threshold,
  ClkEnd                       \* the bound: simulations end at this time

VARIABLES
  dvs_voltage, dvs_freq,  \* of each link: the level it is at
  next_level,             \* m_link_dvs_next_level_vec
  speedup_flag,           \* m_link_dvs_speedup_flag_vec
  set,                    \* m_link_dvs_set_speedup and m_link_dvs_set_slowdown
  step,                   \* what the two processes do next: "first" or "second"
  link_dvs_method,        \* constant
  line                    \* the last line read of the predicted rates: its number and rates

dvsVars == <<dvs_voltage, dvs_freq, next_level, speedup_flag, set, step, link_dvs_method, line>>

Level == 0 .. Levels - 1
Change == {"speedup", "slowdown"}

ASSUME LinkProcessesAssumption == {"select"} \cup Change \subseteq Process

\* What sim() asserts.
DelaysFit == link_dvs_interval > voltage_delay + freq_delay

firstChange == sim_clk_start + link_dvs_interval - voltage_delay - freq_delay

\* The delay that comes first: voltage for speeding up, frequency for slowing down.
firstDelay(change) == IF change = "speedup" THEN voltage_delay ELSE freq_delay
secondDelay(change) == IF change = "speedup" THEN freq_delay ELSE voltage_delay

\* A line is skipped for each interval of the trace that is, and one more: that
\* of the time before the first change.
skipped_lines == wkld_trace_skip_cycles \div UNIT_MEGA + 1

\* All links begin at the highest level.
DvsInit ==
  /\ DelaysFit
  /\ clk = 0
  /\ running = Nobody
  /\ wake = [p \in Process |-> CASE p = "select" -> sim_clk_start + link_dvs_interval \div 2
                                 [] p \in Change -> firstChange + firstDelay(p)
                                 [] OTHER -> Never]
  /\ dvs_voltage = [l \in Link |-> 0]
  /\ dvs_freq = [l \in Link |-> 0]
  /\ next_level = [l \in Link |-> 0]
  /\ speedup_flag = [l \in Link |-> "nochange"]
  /\ set = [c \in Change |-> FALSE]
  /\ step = [c \in Change |-> "first"]
  /\ link_dvs_method \in {"HISTORY", "FLIT_RATE_PREDICT"}
  /\ line = [no |-> IF link_dvs_method = "HISTORY" THEN 0 ELSE skipped_lines,
             rate |-> [f \in Flow |-> 0]]

\* The file may have any rates.
read_flit_rate_predict_interval ==
  \E rate \in [Flow -> Rate] : line' = [no |-> line.no + 1, rate |-> rate]

\* What estimate_link_utilz_from_flit_rate_predict says of a link.
predict_link_utilz(rate, l) == MapThenSumSet(LAMBDA f : rate[f], Over[l])

\* The flows within a router count here, too.
use_highest_voltage(rate) == MapThenSumSet(LAMBDA f : rate[f], Flow) > highest_voltage_threshold

\* The levels are gone through until one does not allow for the use.
next_dvs_level(utilz) == Max({v \in Level : \A w \in 1 .. v : Capacity[w] >= utilz})

PredictedLevel(rate, l) ==
  IF use_highest_voltage(rate) THEN 0 ELSE next_dvs_level(predict_link_utilz(rate, l))

Flag(l, level) ==
  IF level = dvs_voltage[l] THEN "nochange"
  ELSE IF level < dvs_freq[l] THEN "speedup" ELSE "slowdown"

\* link_dvs_select_vf and link_dvs_select_vf_predicted_flit_rate: links whose
\* voltage is that of the level picked are left alone, and their last level too.
\* The program stops at its assertion if a link has another voltage than that of
\* the level picked, but the same frequency.
Select ==
  /\ Runs("select")
  /\ IF link_dvs_method = "HISTORY" THEN UNCHANGED line ELSE read_flit_rate_predict_interval
  /\ \E level \in IF link_dvs_method = "HISTORY" THEN [Link -> Level]
                 ELSE {[l \in Link |-> PredictedLevel(line'.rate, l)]} :
       /\ \A l \in Link : level[l] = dvs_freq[l] => level[l] = dvs_voltage[l]
       /\ speedup_flag' = [l \in Link |-> Flag(l, level[l])]
       /\ next_level' = [l \in Link |-> IF speedup_flag'[l] = "nochange" THEN next_level[l] ELSE level[l]]
  /\ set' = [c \in Change |-> TRUE]
  /\ hold("select", link_dvs_interval)
  /\ UNCHANGED <<clk, dvs_voltage, dvs_freq, step, link_dvs_method>>

\* The links to be changed: none if no selection is pending for that process.
ToChange(change) == IF set[change] THEN {l \in Link : speedup_flag[l] = change} ELSE {}

Moved(level, links) == [l \in Link |-> IF l \in links THEN next_level[l] ELSE level[l]]

\* Voltage first, frequency second.
link_dvs_update_voltage_speedup ==
  /\ dvs_voltage' = Moved(dvs_voltage, ToChange("speedup"))
  /\ UNCHANGED <<dvs_freq, set>>

\* The selection is done with if there were links to change.
link_dvs_update_freq_speedup ==
  /\ dvs_freq' = Moved(dvs_freq, ToChange("speedup"))
  /\ set' = [set EXCEPT !["speedup"] = @ /\ ToChange("speedup") = {}]
  /\ UNCHANGED dvs_voltage

\* Frequency first, voltage second.
link_dvs_update_freq_slowdown ==
  /\ dvs_freq' = Moved(dvs_freq, ToChange("slowdown"))
  /\ UNCHANGED <<dvs_voltage, set>>

link_dvs_update_voltage_slowdown ==
  /\ dvs_voltage' = Moved(dvs_voltage, ToChange("slowdown"))
  /\ set' = [set EXCEPT !["slowdown"] = @ /\ ToChange("slowdown") = {}]
  /\ UNCHANGED dvs_freq

\* Mutant of firstUpdate: voltage and frequency change in the same order for both.
voltageFirst(change) ==
  IF change = "speedup" THEN link_dvs_update_voltage_speedup
  ELSE dvs_voltage' = Moved(dvs_voltage, ToChange("slowdown")) /\ UNCHANGED <<dvs_freq, set>>

firstUpdate(change) ==
  IF change = "speedup" THEN link_dvs_update_voltage_speedup ELSE link_dvs_update_freq_slowdown

secondUpdate(change) ==
  IF change = "speedup" THEN link_dvs_update_freq_speedup ELSE link_dvs_update_voltage_slowdown

\* The first of a process's two steps, after its first hold.
ChangeFirst(change) ==
  /\ step[change] = "first"
  /\ Runs(change)
  /\ firstUpdate(change)
  /\ step' = [step EXCEPT ![change] = "second"]
  /\ hold(change, secondDelay(change))
  /\ UNCHANGED <<clk, next_level, speedup_flag, link_dvs_method, line>>

\* From a process's second step to its first step in the next interval.
Rest(change) == link_dvs_interval - voltage_delay - freq_delay + firstDelay(change)

ChangeSecond(change) ==
  /\ step[change] = "second"
  /\ Runs(change)
  /\ secondUpdate(change)
  /\ step' = [step EXCEPT ![change] = "first"]
  /\ hold(change, Rest(change))
  /\ UNCHANGED <<clk, next_level, speedup_flag, link_dvs_method, line>>

DvsTick ==
  /\ clk < ClkEnd
  /\ running = Nobody
  /\ Advance({})
  /\ UNCHANGED dvsVars

DvsNext == Select \/ (\E c \in Change : ChangeFirst(c) \/ ChangeSecond(c)) \/ DvsTick

DvsSpec == DvsInit /\ [][DvsNext]_<<clk, wake, running, dvsVars>>

-----------------------------------------------------------------------------
\* Half an interval is enough for each of the two steps of a change: a change
\* begins after the selection that asked for it, and is done before the next
\* one.  This is more than DelaysFit, which is all that the program asserts.
IntervalFits == 2 * voltage_delay < link_dvs_interval /\ 2 * freq_delay < link_dvs_interval

\* No link ever runs at a frequency higher than its voltage allows, and when
\* the next levels are selected all changes are done: the selection compares a
\* level's frequency with a frequency that goes with the voltage, which it
\* asserts, and nothing of the last selection is carried out after it.  With
\* predicted rates, the levels are then those that the file says for now.
\* This is so where IntervalFits.
Settled ==
  /\ \A l \in Link : dvs_freq[l] >= dvs_voltage[l]
  /\ Runs("select") =>
       \A l \in Link :
         /\ dvs_freq[l] = dvs_voltage[l]
         /\ speedup_flag[l] # "nochange" => dvs_voltage[l] = next_level[l]
         /\ link_dvs_method = "FLIT_RATE_PREDICT" /\ line.no > skipped_lines =>
              /\ line.no = clk \div UNIT_MEGA + 1
              /\ dvs_voltage[l] = PredictedLevel(line.rate, l)

\* What happens where the intervals do not fit.  The second step of a change takes
\* more than half an interval, so its first step is over before the selection that
\* it should follow, and the second alone is carried out: when levels are selected
\* again, each link that was to change runs at a frequency too high for its voltage.
TooLate(change) == 2 * secondDelay(change) > link_dvs_interval

Torn(change) ==
  Runs("select") => \A l \in Link : speedup_flag[l] = change => dvs_freq[l] < dvs_voltage[l]
=============================================================================
