-------------------------------- MODULE Csim --------------------------------
(***************************************************************************)
(* What the simulator's own processes use of the CSIM library: simulated   *)
(* time, hold() and the end of a process.  One process runs at a time, and *)
(* it runs until it holds, waits or ends; which of the processes due at    *)
(* the same time comes next is up to the library.                          *)
(***************************************************************************)
EXTENDS Integers, FiniteSetsExt

CONSTANT Process

VARIABLES
  clk,     \* simtime(), in units of half a cycle
  wake,    \* [Process -> the time at which it goes on]
  running  \* the process that has not given up the processor, if any

Cycle == 2
Never == -1
Nobody == "nobody"

\* p is the process that CSIM resumes, or has resumed.
Runs(p) == wake[p] = clk /\ running \in {p, Nobody}

hold(p, t) == wake' = [wake EXCEPT ![p] = clk + t] /\ running' = Nobody

\* The process ends, or waits for an event.
Ends(p) == wake' = [wake EXCEPT ![p] = Never] /\ running' = Nobody

\* The process goes on without giving up the processor.
GoesOn(p) == running' = p /\ UNCHANGED wake

\* Time advances when nobody is due, to the next process or other moment.
Advance(moments) ==
  LET next == moments \cup ({wake[p] : p \in Process} \ {Never}) IN
  /\ clk \notin next
  /\ next # {}
  /\ clk' = Min(next)
  /\ UNCHANGED <<wake, running>>
=============================================================================
