------------------------------ MODULE Occupancy ------------------------------
(***************************************************************************)
(* How full buffers are (FlitQ, a router's input buffers, and the packet   *)
(* buffer of an NIInput): the sums that print_stats divides by the cycles  *)
(* measured.  They are brought up to date when something is written or     *)
(* read, and start anew when the warm-up ends, whatever is in the buffers. *)
(***************************************************************************)
EXTENDS Integers, FiniteSetsExt

CONSTANTS
  NumPC, NumVC,
  Depth,            \* m_depth: slots for each VC
  PktDepth,         \* NIin_pktbuf_depth
  MaxClk, MaxWrites \* bounds: cycles, and writes in all

VARIABLES
  router_buffer_type,  \* constant
  now,                 \* simtime()
  size,                \* m_Q_vec[pc][vc].size()
  m_sum_occupancy, m_last_update_clk, m_max_occupancy, \* of FlitQ, by <<pc, vc>>
  pktQ, extra_pktQ,    \* the sizes of an NI's queues,
  ni,                  \* and its m_sum_occupancy, m_last_update_buf_clk, m_max_occupancy
  writes,              \* bounded
  held                 \* a history: flits * cycles since the statistics were reset

vars == <<router_buffer_type, now, size, m_sum_occupancy, m_last_update_clk, m_max_occupancy,
          pktQ, extra_pktQ, ni, writes, held>>
flitVars == <<size, m_sum_occupancy, m_last_update_clk, m_max_occupancy>>
niVars == <<pktQ, extra_pktQ, ni>>

Queue == (0 .. NumPC - 1) \X (0 .. NumVC - 1)

Init ==
  /\ router_buffer_type \in {"SAMQ", "DAMQ_P", "DAMQ_R"}
  /\ now = 0
  /\ size = [x \in Queue |-> 0]
  /\ m_sum_occupancy = [x \in Queue |-> 0]
  /\ m_last_update_clk = [x \in Queue |-> 0]
  /\ m_max_occupancy = [x \in Queue |-> 0]
  /\ pktQ = 0 /\ extra_pktQ = 0
  /\ ni = [sum |-> 0, last |-> 0, max |-> 0]
  /\ writes = 0
  /\ held = [x \in Queue |-> 0]

\* The queues that share slots with x.
Sharing(x) ==
  CASE router_buffer_type = "SAMQ" -> {x}
    [] router_buffer_type = "DAMQ_P" -> {y \in Queue : y[1] = x[1]}
    [] router_buffer_type = "DAMQ_R" -> Queue

isFull(x) == MapThenSumSet(LAMBDA y : size[y], Sharing(x)) >= Cardinality(Sharing(x)) * Depth

Larger(m, n) == IF m < n THEN n ELSE m

\* What was in the queue since the last update is added up.
Update(x) ==
  /\ m_sum_occupancy' = [m_sum_occupancy EXCEPT ![x] = @ + size[x] * (now - m_last_update_clk[x])]
  /\ m_last_update_clk' = [m_last_update_clk EXCEPT ![x] = now]

write(x) ==
  /\ ~ isFull(x)
  /\ writes < MaxWrites /\ writes' = writes + 1
  /\ Update(x)
  /\ size' = [size EXCEPT ![x] = @ + 1]
  /\ m_max_occupancy' = [m_max_occupancy EXCEPT ![x] = Larger(@, size[x] + 1)]
  /\ UNCHANGED <<router_buffer_type, now, niVars, held>>

read(x) ==
  /\ size[x] > 0
  /\ Update(x)
  /\ size' = [size EXCEPT ![x] = @ - 1]
  /\ UNCHANGED <<router_buffer_type, now, m_max_occupancy, niVars, writes, held>>

\* Packets that find the buffer full go into a queue without a limit.
writePacket ==
  /\ writes < MaxWrites /\ writes' = writes + 1
  /\ IF pktQ < PktDepth
     THEN /\ pktQ' = pktQ + 1
          /\ ni' = [sum |-> ni.sum + pktQ * (now - ni.last), last |-> now, max |-> Larger(ni.max, pktQ + 1)]
          /\ UNCHANGED extra_pktQ
     ELSE extra_pktQ' = extra_pktQ + 1 /\ UNCHANGED <<pktQ, ni>>
  /\ UNCHANGED <<router_buffer_type, now, flitVars, held>>

\* Here the packet is taken out first: the time before counts without it.
readPacket ==
  /\ pktQ > 0
  /\ ni' = [ni EXCEPT !.sum = @ + (pktQ - 1) * (now - ni.last), !.last = now]
  /\ IF extra_pktQ > 0 THEN extra_pktQ' = extra_pktQ - 1 /\ UNCHANGED pktQ
     ELSE pktQ' = pktQ - 1 /\ UNCHANGED extra_pktQ
  /\ UNCHANGED <<router_buffer_type, now, flitVars, writes, held>>

\* The warm-up ends; flits stay where they are.
resetStats ==
  /\ m_sum_occupancy' = [x \in Queue |-> 0]
  /\ m_last_update_clk' = [x \in Queue |-> now]
  /\ m_max_occupancy' = [x \in Queue |-> 0]
  /\ ni' = [sum |-> 0, last |-> now, max |-> 0]
  /\ held' = [x \in Queue |-> 0]
  /\ UNCHANGED <<router_buffer_type, now, size, pktQ, extra_pktQ, writes>>

Tick ==
  /\ now < MaxClk
  /\ now' = now + 1
  /\ held' = [x \in Queue |-> held[x] + size[x]]
  /\ UNCHANGED <<router_buffer_type, flitVars, niVars, writes>>

Next == (\E x \in Queue : write(x) \/ read(x)) \/ writePacket \/ readPacket \/ resetStats \/ Tick

-----------------------------------------------------------------------------
\* A router's average occupancy is that of the time measured, whenever the
\* statistics were reset and whichever queues share slots: all flits that were
\* in the buffer count, for as long as they were there.  Only the time since
\* the last update is missing.
OccupancyMeasured ==
  \A x \in Queue : m_sum_occupancy[x] + size[x] * (now - m_last_update_clk[x]) = held[x]
=============================================================================
