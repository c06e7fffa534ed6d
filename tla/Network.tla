------------------------------- MODULE Network -------------------------------
(***************************************************************************)
(* A network of pipelined virtual-channel routers, their links and network *)
(* interfaces (NIs), as the simulator runs them: Router.C, FlitQ.C,        *)
(* VCArbFCFS.C, SwArb2Stage.C, NIInput.C, NIOutput.C, sim_process.C.       *)
(*                                                                         *)
(* Every router and NI is a process of the simulator.  A process runs until*)
(* it holds for a cycle or waits for its event, so the running one is the  *)
(* head of `ready'; a process that holds is queued in `held' for the next  *)
(* cycle.  The stages of router_sim() are one step each, except that       *)
(* credits are counted and output VCs allocated one per step.  Only the    *)
(* workload is free: it hands over packets between any two processes.      *)
(*                                                                         *)
(* Time is relative: a flit on a link has an age, a credit on its way back *)
(* a number of cycles to wait.                                             *)
(***************************************************************************)
EXTENDS SwArb2Stage, SequencesExt

CONSTANTS
  NumRouter,     \* routers are 0 .. NumRouter - 1
  NumEPC,        \* ports NumPC - NumEPC .. NumPC - 1 are those of NIs
  Wire,          \* links: [<<router, out_pc>> |-> <<router, in_pc>>]
  LinkLat,       \* m_delay_factor * link_latency of each link
  Depth,         \* m_inbuf_depth
  Rsv,           \* router_num_rsv_credit
  BufferType,    \* router_buffer_type: "SAMQ", "DAMQ_P" or "DAMQ_R"
  SelectOutPC,   \* selectOutPC() as [router -> [destination NI -> out_pc]]
  isOutVCDeadlockFree(_, _, _, _, _, _), \* (out_vc, in_pc, in_vc, out_pc, router, dest)
  NIDepth,       \* NIin_pktbuf_depth
  PerVC,         \* NIin_type: a process per VC ("PER_VC") or per port ("PER_PC")
  SpecSA,        \* router_spec_SA
  LookaheadRC,   \* router_lookahead_RC
  Packet, Src, Dst, NumFlits \* the packets of the workload: NIs and length

INVALID_PC == -2
INVALID_VC == -2
NoPacket == "none"

Router == 0 .. NumRouter - 1
LocalPC == NumPC - NumEPC .. NumPC - 1
NI == Router \X LocalPC
Link == DOMAIN Wire

isEjectChannel(pc) == pc \in LocalPC

\* The processes: of the routers, the input NIs (one per VC of PER_VC) and the
\* output NIs, in the order of their creation.
NIVC == IF PerVC THEN VC ELSE {0}

RouterProc == [n \in 1 .. NumRouter |-> <<0, n - 1>>]

NIinProc ==
  LET perNI == IF PerVC THEN NumVC ELSE 1
  IN  [n \in 1 .. NumRouter * NumEPC * perNI |->
         LET ni == (n - 1) \div perNI
         IN  <<1, ni \div NumEPC, NumPC - NumEPC + (ni % NumEPC), (n - 1) % perNI>>]

NIoutProc ==
  [n \in 1 .. NumRouter * NumEPC |->
     <<2, (n - 1) \div NumEPC, NumPC - NumEPC + ((n - 1) % NumEPC)>>]

NIinProcs == {1} \X Router \X LocalPC \X NIVC
NIoutProcs == {2} \X Router \X LocalPC
Procs == ({0} \X Router) \cup NIinProcs \cup NIoutProcs

NIof(i) == <<i[2], i[3]>>

ASSUME NetworkAssumption ==
  /\ NumRouter \in Nat \ {0}
  /\ NumEPC \in 1 .. NumPC
  /\ Link \subseteq Router \X (PC \ LocalPC)
  /\ \A l \in Link : Wire[l] \in (Router \ {l[1]}) \X (PC \ LocalPC)
  /\ \A k, l \in Link : Wire[k] = Wire[l] => k = l
  /\ LinkLat \in [Link -> Nat \ {0}]
  /\ Depth \in Nat \ {0}
  /\ BufferType \in {"SAMQ", "DAMQ_P", "DAMQ_R"}
  /\ Rsv \in IF BufferType = "SAMQ" THEN {0} ELSE 0 .. Depth
  /\ SelectOutPC \in [Router -> [NI -> PC]]
  /\ \A r \in Router, d \in NI :
       isEjectChannel(SelectOutPC[r][d]) \/ <<r, SelectOutPC[r][d]>> \in Link
  /\ NIDepth \in Nat \ {0}
  /\ {PerVC, SpecSA, LookaheadRC} \subseteq BOOLEAN
  /\ NoPacket \notin Packet
  /\ Src \in [Packet -> NI] /\ Dst \in [Packet -> NI]
  /\ NumFlits \in [Packet -> Nat \ {0}]

VARIABLES
  \* routers and links
  flitQ,     \* flitQ[r][pc][vc]: the input buffers
  inMod,     \* m_in_mod_vec[r][pc][vc]: state I, R, V or S, output PC and VC
  outMod,    \* m_out_mod_vec[r][pc][vc].m_state: "I" free or "V" allocated
  credit,    \* its m_num_credit
  rsv,       \* its m_num_credit_rsv
  deposits,  \* m_credit_deposit_vec[r]
  vaQ,       \* m_reqQ[r] of the VC arbiter
  swReq,     \* m_requesting in m_swReq_vec[r][pc][vc] of the switch arbiter
  vaNow,     \* the request is of this cycle's VA (its req_clk = simtime())
  v1, p1,    \* arbiter states of r, regular (1) and speculative (2)
  xbar,      \* m_waiting_in_vc_vec[r][in_pc]
  outFree,   \* m_outport_free_vec[r][out_pc]
  pipe,      \* m_w_pipeline of each link
  inside,    \* m_num_flits_inside[r]
  fresh,     \* packets whose head entered a router in this cycle
  \* network interfaces
  gen,       \* packets the workload has yet to hand over
  niQ,       \* m_pktQ of each NI
  niExtra,   \* m_extra_pktQ
  niLast,    \* m_last_free_vc
  vcFree,    \* m_vc_free_vec
  niCur,     \* segmentPacket() of a process: packet, router_in_vc, flits written
  niOut,     \* m_NIout_flitQ
  ejected,   \* of each packet, the flits NIs have taken and where, in order
  pktInNet,  \* m_num_pkt_in_network
  \* processes
  ready,     \* processes to run in this cycle, the running one first
  held,      \* processes that hold until the next cycle
  ev,        \* ev[i]: the event process i waits for is set
  stage      \* 0 between processes; the running router's stage of router_sim()

bufVars == <<flitQ, pipe, inside, fresh>>
ctlVars == <<inMod, outMod, vaQ, swReq, vaNow, v1, p1, xbar, outFree>>
creditVars == <<credit, rsv, deposits>>
niInVars == <<gen, niQ, niExtra, niLast, vcFree, niCur>>
niOutVars == <<niOut, ejected, pktInNet>>
schedVars == <<ready, held, ev, stage>>
vars == <<bufVars, ctlVars, creditVars, niInVars, niOutVars, schedVars>>

-----------------------------------------------------------------------------
(* Flits and buffers: a flit is a packet and its position in it. *)

isHead(f) == f.n = 1
isTail(f) == f.n = NumFlits[f.p]

\* What the code visits, in the order it does: of each x, key[x] comes before x.
Ordered(S, key) ==
  [n \in 1 .. Cardinality(S) |->
     CHOOSE x \in S : Cardinality({y \in S : key[y] < key[x]}) = n - 1]

\* The ports of S, which the code visits in ascending order.
InOrder(S) == Ordered(S, [pc \in S |-> pc])

PortSize(r, pc) == SumFunction([vc \in VC |-> Len(flitQ[r][pc][vc])])

\* FlitQ::isFull: a VC, a port or the whole router shares its slots.
isFull(r, pc, vc) ==
  CASE BufferType = "SAMQ"   -> Len(flitQ[r][pc][vc]) >= Depth
    [] BufferType = "DAMQ_P" -> PortSize(r, pc) >= NumVC * Depth
    [] BufferType = "DAMQ_R" -> SumFunction([x \in PC |-> PortSize(r, x)])
                                  >= NumPC * NumVC * Depth

(* Credits: `c' is m_num_credit of a router. *)

\* num_shared_credits: what VC vc of out_pc can draw from.
SharedCredits(r, c, pc, vc) ==
  LET OfPort(x) == SumFunction([w \in VC |-> c[x][w]])
  IN  CASE BufferType = "SAMQ"   -> c[pc][vc]
        [] BufferType = "DAMQ_P" -> OfPort(pc)
        [] BufferType = "DAMQ_R" ->
             SumFunction([x \in {y \in PC : <<r, y>> \in Link} |-> OfPort(x)])

\* Mutant of hasCredit: off by one.
hasCreditZero(r, pc, vc) == SharedCredits(r, credit[r], pc, vc) >= 0

hasCredit(r, pc, vc) ==
  \/ SharedCredits(r, credit[r], pc, vc) >= 1
  \/ BufferType # "SAMQ" /\ rsv[r][pc][vc] >= 1

\* Mutant of decCredit: the credit is not taken.
decCreditNot(r, taken) == UNCHANGED <<credit, rsv>>

\* decCredit for one flit to each port in DOMAIN taken, in ascending order, and
\* VC taken[pc]: the shared credits, what earlier flits left of them, are used up
\* first.  Ejection channels have no credits.
decCredit(r, taken) ==
  LET earlier(pc) == IF BufferType # "DAMQ_R" THEN 0
                     ELSE Cardinality({o \in DOMAIN taken : o < pc})
      shared == {pc \in DOMAIN taken :
                   \/ BufferType = "SAMQ"
                   \/ SharedCredits(r, credit[r], pc, taken[pc]) > earlier(pc)}
      less(count, ports) ==
        [pc \in PC |-> [vc \in VC |->
           IF pc \in ports /\ vc = taken[pc] THEN count[pc][vc] - 1 ELSE count[pc][vc]]]
  IN  /\ credit' = [credit EXCEPT ![r] = less(@, shared)]
      /\ rsv' = [rsv EXCEPT ![r] = less(@, DOMAIN taken \ shared)]

-----------------------------------------------------------------------------
(* Processes of the simulator. *)

Stages == <<"IC", "LT", "ST", "SA">>
          \o (IF LookaheadRC THEN <<"RC">> ELSE <<>>)
          \o <<"VA">>
          \o (IF SpecSA THEN <<"SSA">> ELSE <<>>)
          \o (IF LookaheadRC THEN <<>> ELSE <<"RC">>)

Running(i) == ready # <<>> /\ Head(ready) = i

AtStage(r, s) == Running(<<0, r>>) /\ stage # 0 /\ Stages[stage] = s

Waiting(i) == i \notin Range(ready) \cup Range(held)

\* set() of the events of the processes that wakeup lists: those that wait are
\* made ready, the others will find their event set.
Woken(wakeup) ==
  LET order == InOrder({n \in DOMAIN wakeup : Waiting(wakeup[n])})
  IN  [n \in DOMAIN order |-> wakeup[order[n]]]
Signalled(wakeup) == [i \in Procs |-> ev[i] \/ (i \in Range(wakeup) /\ ~ Waiting(i))]

\* The running process goes on to its stage s, with other processes woken.
GoOn(s, woken) == stage' = s /\ ready' = ready \o woken /\ UNCHANGED held

\* hold(ONE_CYCLE)
HoldOneCycle(woken) ==
  /\ stage' = 0
  /\ ready' = Tail(ready) \o woken
  /\ held' = Append(held, Head(ready))

\* wait() of the running process for its event, which it goes on from if set.
WaitEvent(i) ==
  /\ ev' = [ev EXCEPT ![i] = FALSE]
  /\ stage' = IF ev[i] THEN 1 ELSE 0
  /\ ready' = IF ev[i] THEN ready ELSE Tail(ready)
  /\ UNCHANGED held

\* router_sim() goes on to its next stage, or is done for this cycle.
NextStage(woken) ==
  IF stage < Len(Stages) THEN GoOn(stage + 1, woken) ELSE HoldOneCycle(woken)

\* Mutant of RouterWake: it sleeps with a flit inside.
RouterSleepEarly(r) ==
  /\ Running(<<0, r>>) /\ stage = 0
  /\ IF inside[r] <= 1 /\ deposits[r] = <<>>
     THEN WaitEvent(<<0, r>>)
     ELSE GoOn(1, <<>>) /\ UNCHANGED ev
  /\ vaNow' = [vaNow EXCEPT ![r] = [pc \in PC |-> [vc \in VC |-> FALSE]]]
  /\ UNCHANGED <<bufVars, creditVars, niInVars, niOutVars, inMod, outMod,
                 vaQ, swReq, v1, p1, xbar, outFree>>

\* process_router: sleep while there is nothing inside, else run router_sim().
\* (A router that is woken has a flit: its test may be repeated.)
RouterWake(r) ==
  /\ Running(<<0, r>>) /\ stage = 0
  /\ IF inside[r] = 0 /\ deposits[r] = <<>>
     THEN WaitEvent(<<0, r>>)
     ELSE GoOn(1, <<>>) /\ UNCHANGED ev
  /\ vaNow' = [vaNow EXCEPT ![r] = [pc \in PC |-> [vc \in VC |-> FALSE]]]
  /\ UNCHANGED <<bufVars, creditVars, niInVars, niOutVars, inMod, outMod,
                 vaQ, swReq, v1, p1, xbar, outFree>>

\* All processes of this cycle are done: the clock advances.
Tick ==
  /\ ready = <<>> /\ held # <<>>
  /\ ready' = held /\ held' = <<>>
  /\ fresh' = {}
  /\ pipe' = [l \in Link |-> [k \in DOMAIN pipe[l] |->
                [pipe[l][k] EXCEPT !.age = @ + 1]]]
  /\ deposits' = [r \in Router |-> [k \in DOMAIN deposits[r] |->
                    [deposits[r][k] EXCEPT !.due = IF @ > 0 THEN @ - 1 ELSE 0]]]
  /\ UNCHANGED <<flitQ, inside, ctlVars, credit, rsv, niInVars, niOutVars, ev, stage>>

-----------------------------------------------------------------------------
(* The pipeline stages of a router. *)

\* Mutant of IncCredit: the reserve is not refilled.
IncCreditShared(r) ==
  /\ AtStage(r, "IC")
  /\ IF deposits[r] # <<>> /\ Head(deposits[r]).due = 0
     THEN LET d == Head(deposits[r])
          IN  /\ credit' = [credit EXCEPT ![r][d.pc][d.vc] = @ + 1]
              /\ deposits' = [deposits EXCEPT ![r] = Tail(@)]
              /\ GoOn(stage, <<>>)
     ELSE NextStage(<<>>) /\ UNCHANGED <<credit, deposits>>
  /\ UNCHANGED <<rsv, bufVars, ctlVars, niInVars, niOutVars, ev>>

\* Count the credits that are due, up to the first that is not.
IncCredit(r) ==
  /\ AtStage(r, "IC")
  /\ IF deposits[r] # <<>> /\ Head(deposits[r]).due = 0
     THEN LET d == Head(deposits[r])
              refill == BufferType # "SAMQ" /\ rsv[r][d.pc][d.vc] < Rsv
          IN  /\ credit' = IF refill THEN credit
                           ELSE [credit EXCEPT ![r][d.pc][d.vc] = @ + 1]
              /\ rsv' = IF refill THEN [rsv EXCEPT ![r][d.pc][d.vc] = @ + 1] ELSE rsv
              /\ deposits' = [deposits EXCEPT ![r] = Tail(@)]
              /\ GoOn(stage, <<>>)
     ELSE NextStage(<<>>) /\ UNCHANGED creditVars
  /\ UNCHANGED <<bufVars, ctlVars, niInVars, niOutVars, ev>>

\* Mutant of Crossed: off by one.
CrossedLate(r) ==
  {l \in Link : l[1] = r /\ pipe[l] # <<>> /\ Head(pipe[l]).age > LinkLat[l]}

\* The links of r whose first flit has crossed them.
Crossed(r) ==
  {l \in Link : /\ l[1] = r /\ pipe[l] # <<>>
                /\ LinkLat[l] > 1 => Head(pipe[l]).age >= LinkLat[l]}

\* Link traversal: each link delivers the flit that has crossed it.  Nobody
\* asks whether there is room downstream: the assertion there is RoomDownstream.
StageLT(r) ==
  LET crossed == Crossed(r)
      landed(q, pc, vc) == {l \in crossed : Wire[l] = <<q, pc>> /\ Head(pipe[l]).vc = vc}
      first == {l \in crossed : \A k \in crossed : Wire[k][1] = Wire[l][1] => l[2] <= k[2]}
      wakeup == [o \in {l[2] : l \in {k \in first : inside[Wire[k][1]] = 0}} |->
                   <<0, Wire[<<r, o>>][1]>>]
  IN  /\ AtStage(r, "LT")
      /\ flitQ' = [q \in Router |-> [pc \in PC |-> [vc \in VC |->
                     flitQ[q][pc][vc]
                       \o SetToSeq({Head(pipe[l]).f : l \in landed(q, pc, vc)})]]]
      /\ pipe' = [l \in Link |-> IF l \in crossed THEN Tail(pipe[l]) ELSE pipe[l]]
      /\ inside' = [q \in Router |->
                      inside[q] + Cardinality({l \in crossed : Wire[l][1] = q})
                                - (IF q = r THEN Cardinality(crossed) ELSE 0)]
      /\ fresh' = fresh \cup {Head(pipe[l]).f.p : l \in {k \in crossed : isHead(Head(pipe[k]).f)}}
      /\ ev' = Signalled(wakeup)
      /\ NextStage(Woken(wakeup))
      /\ UNCHANGED <<ctlVars, creditVars, niInVars, niOutVars>>

PrevLink(r, pc) == CHOOSE l \in Link : Wire[l] = <<r, pc>>

\* Switch traversal: the flits granted last cycle leave, to a link or an NI,
\* and the credits for their slots to the upstream routers.  A tail frees the
\* input VC and the output VC.
StageST(r) ==
  LET movers == {i \in PC : xbar[r][i] # INVALID_VC}
      flit(i) == Head(flitQ[r][i][xbar[r][i]])
      mod(i) == inMod[r][i][xbar[r][i]]
      from(o) == {i \in movers : mod(i).pc = o}
      leaving(o) == LET ins == InOrder(from(o))
                    IN  [n \in DOMAIN ins |->
                           [f |-> flit(ins[n]), vc |-> mod(ins[n]).vc, age |-> 0]]
      ejecting(o) == LET ins == InOrder(from(o)) IN [n \in DOMAIN ins |-> flit(ins[n])]
      tails == {i \in movers : isTail(flit(i))}
      creditsOf(q) ==
        LET ins == InOrder({i \in movers : \E l \in Link : Wire[l] = <<r, i>> /\ l[1] = q})
        IN  [n \in DOMAIN ins |->
               LET l == PrevLink(r, ins[n])
               IN  [pc |-> l[2], vc |-> xbar[r][ins[n]], due |-> LinkLat[l]]]
      wakeup == [o \in {o \in LocalPC : niOut[<<r, o>>] = <<>> /\ from(o) # {}} |-> <<2, r, o>>]
  IN  /\ AtStage(r, "ST")
      /\ flitQ' = [flitQ EXCEPT ![r] = [pc \in PC |-> [vc \in VC |->
                     IF xbar[r][pc] = vc THEN Tail(@[pc][vc]) ELSE @[pc][vc]]]]
      /\ deposits' = [q \in Router |-> deposits[q] \o creditsOf(q)]
      /\ pipe' = [l \in Link |-> IF l[1] = r THEN pipe[l] \o leaving(l[2]) ELSE pipe[l]]
      /\ niOut' = [d \in NI |-> IF d[1] = r THEN niOut[d] \o ejecting(d[2]) ELSE niOut[d]]
      /\ inside' = [inside EXCEPT ![r] =
                      @ - Cardinality({i \in movers : isEjectChannel(mod(i).pc)})]
      /\ xbar' = [xbar EXCEPT ![r] = [pc \in PC |-> INVALID_VC]]
      /\ outFree' = [outFree EXCEPT ![r] = [pc \in PC |-> @[pc] \/ from(pc) # {}]]
      /\ inMod' = [inMod EXCEPT ![r] = [pc \in PC |-> [vc \in VC |->
                     IF pc \in tails /\ xbar[r][pc] = vc
                     THEN [st |-> "I", pc |-> INVALID_PC, vc |-> INVALID_VC]
                     ELSE @[pc][vc]]]]
      /\ outMod' = [outMod EXCEPT ![r] = [pc \in PC |-> [vc \in VC |->
                     IF \E i \in tails : mod(i).pc = pc /\ mod(i).vc = vc
                     THEN "I" ELSE @[pc][vc]]]]
      /\ ev' = Signalled(wakeup)
      /\ NextStage(Woken(wakeup))
      /\ UNCHANGED <<fresh, credit, rsv, vaQ, swReq, vaNow, v1, p1,
                     niInVars, ejected, pktInNet>>

\* Mutant of CanGo: the output port is not checked.
CanGoToTakenPort(r, i, out) ==
  /\ xbar[r][i] = INVALID_VC
  /\ isEjectChannel(out.pc) \/ hasCredit(r, out.pc, out.vc)

\* Input port i may send to output port out.pc and VC out.vc: neither port is
\* reserved, and there is a credit.  Ejection channels have no credits.
CanGo(r, i, out) ==
  /\ xbar[r][i] = INVALID_VC
  /\ outFree[r][out.pc]
  /\ isEjectChannel(out.pc) \/ hasCredit(r, out.pc, out.vc)

\* SwArb2Stage::grantGeneric(): of the requests `req' of router r the candidates
\* `cand' compete, with the arbiter states number k.  V:1 selects a VC of each
\* input port before it is known whether that VC can go on; its state advances
\* even if P:1 then turns it down.
Allocate(r, req, cand, k) ==
  LET vcs(i) == {vc \in VC : cand[i][vc]}
      ports == {i \in PC : vcs(i) # {}}
      sel(i) == V1Select(v1[r][k][i], vcs(i))
      mod(i) == inMod[r][i][sel(i)]
      eligible == {i \in ports : CanGo(r, i, mod(i))}
      outs == {mod(i).pc : i \in eligible}
      winner(o) == P1Select(p1[r][k][o], {i \in eligible : mod(i).pc = o})
      granted == {winner(o) : o \in outs}
  IN  /\ v1' = [v1 EXCEPT ![r][k] = [i \in PC |->
                  IF i \in ports THEN V1Next(@[i], sel(i)) ELSE @[i]]]
      /\ p1' = [p1 EXCEPT ![r][k] = [o \in PC |->
                  IF o \in outs THEN P1Next(@[o], winner(o)) ELSE @[o]]]
      /\ \E taken \in {[o \in outs \ LocalPC |-> mod(winner(o)).vc]} : decCredit(r, taken)
      /\ swReq' = [swReq EXCEPT ![r] = [i \in PC |-> [vc \in VC |->
                     req[i][vc] /\ ~ (i \in granted /\ vc = sel(i))]]]
      /\ xbar' = [xbar EXCEPT ![r] = [i \in PC |-> IF i \in granted THEN sel(i) ELSE @[i]]]
      /\ outFree' = [outFree EXCEPT ![r] = [o \in PC |-> @[o] /\ o \notin outs]]
      /\ inMod' = [inMod EXCEPT ![r] = [i \in PC |-> [vc \in VC |->
                     IF i \in granted /\ vc = sel(i) /\ isHead(Head(flitQ[r][i][vc]))
                     THEN [@[i][vc] EXCEPT !.st = "S"] ELSE @[i][vc]]]]

\* Switch arbitration: body flits of packets whose head has won request too.
StageSA(r) ==
  LET body(pc, vc) == /\ flitQ[r][pc][vc] # <<>>
                      /\ ~ isHead(Head(flitQ[r][pc][vc]))
                      /\ inMod[r][pc][vc].st = "S"
      req == [pc \in PC |-> [vc \in VC |-> swReq[r][pc][vc] \/ body(pc, vc)]]
  IN  /\ AtStage(r, "SA")
      /\ Allocate(r, req, req, 1)
      /\ NextStage(<<>>)
      /\ UNCHANGED <<bufVars, outMod, deposits, vaQ, vaNow, niInVars, niOutVars, ev>>

\* Speculative switch arbitration: heads that got their output VC just now.
StageSSA(r) ==
  /\ AtStage(r, "SSA")
  /\ Allocate(r, swReq[r],
              [pc \in PC |-> [vc \in VC |-> swReq[r][pc][vc] /\ vaNow[r][pc][vc]]], 2)
  /\ NextStage(<<>>)
  /\ UNCHANGED <<bufVars, outMod, deposits, vaQ, vaNow, niInVars, niOutVars, ev>>

\* Mutant of FreeVCs: allocated VCs are offered, too.
FreeVCsAll(r, x) ==
  {vc \in VC : isOutVCDeadlockFree(vc, x[1], x[2], inMod[r][x[1]][x[2]].pc, r,
                                   Dst[Head(flitQ[r][x[1]][x[2]]).p])}

\* The output VCs that a request of the VC arbiter may get.
FreeVCs(r, x) ==
  LET out == inMod[r][x[1]][x[2]].pc
      f == Head(flitQ[r][x[1]][x[2]])
  IN  {vc \in VC : /\ outMod[r][out][vc] = "I"
                   /\ isOutVCDeadlockFree(vc, x[1], x[2], out, r, Dst[f.p])}

\* VC allocation: the requests are served in FIFO order, each with the first
\* free output VC; one that finds none stays in the queue.
StageVA(r) ==
  LET served == {k \in DOMAIN vaQ[r] : FreeVCs(r, vaQ[r][k]) # {}}
      k == CHOOSE n \in served : \A m \in served : n <= m
      x == vaQ[r][k]
      out == inMod[r][x[1]][x[2]].pc
      vc == CHOOSE v \in FreeVCs(r, x) : \A w \in FreeVCs(r, x) : v <= w
  IN  /\ AtStage(r, "VA")
      /\ IF served # {}
         THEN /\ inMod' = [inMod EXCEPT ![r][x[1]][x[2]].st = "V",
                                        ![r][x[1]][x[2]].vc = vc]
              /\ outMod' = [outMod EXCEPT ![r][out][vc] = "V"]
              /\ vaQ' = [vaQ EXCEPT ![r] = RemoveAt(@, k)]
              /\ swReq' = [swReq EXCEPT ![r][x[1]][x[2]] = TRUE]
              /\ vaNow' = [vaNow EXCEPT ![r][x[1]][x[2]] = TRUE]
              /\ GoOn(stage, <<>>)
         ELSE NextStage(<<>>) /\ UNCHANGED <<inMod, outMod, vaQ, swReq, vaNow>>
      /\ UNCHANGED <<bufVars, creditVars, v1, p1, xbar, outFree, niInVars,
                     niOutVars, ev>>

\* Routing computation for the heads that did not come in this very cycle.
StageRC(r) ==
  LET front(x) == Head(flitQ[r][x[1]][x[2]])
      routable == {x \in PC \X VC :
                     /\ inMod[r][x[1]][x[2]].st = "I"
                     /\ flitQ[r][x[1]][x[2]] # <<>>
                     /\ isHead(front(x))
                     /\ front(x).p \notin fresh}
      scan == [x \in routable |-> x[1] * NumVC + x[2]]
  IN  /\ AtStage(r, "RC")
      /\ inMod' = [inMod EXCEPT ![r] = [pc \in PC |-> [vc \in VC |->
                     IF <<pc, vc>> \in routable
                     THEN [@[pc][vc] EXCEPT !.st = "R",
                             !.pc = SelectOutPC[r][Dst[front(<<pc, vc>>).p]]]
                     ELSE @[pc][vc]]]]
      /\ vaQ' = [vaQ EXCEPT ![r] = @ \o Ordered(routable, scan)]
      /\ NextStage(<<>>)
      /\ UNCHANGED <<bufVars, creditVars, outMod, swReq, vaNow, v1, p1, xbar,
                     outFree, niInVars, niOutVars, ev>>

-----------------------------------------------------------------------------
(* Network interfaces. *)

netVars == <<ctlVars, creditVars, pipe>>

\* The workload, a process between two others, hands packet p to its NI.  Only
\* the first packet of a queue wakes a process, with PER_VC the one that
\* m_last_free_vc points at.
Generate(p) ==
  LET ni == Src[p]
      full == Len(niQ[ni]) >= NIDepth
      wake == IF niQ[ni] # <<>> \/ full THEN <<>>
              ELSE <<<<1, ni[1], ni[2], IF PerVC THEN niLast[ni] ELSE 0>>>>
  IN  /\ p \in gen /\ stage = 0
      /\ gen' = gen \ {p}
      /\ niQ' = IF full THEN niQ ELSE [niQ EXCEPT ![ni] = Append(@, p)]
      /\ niExtra' = IF full THEN [niExtra EXCEPT ![ni] = Append(@, p)] ELSE niExtra
      /\ niLast' = IF PerVC /\ wake # <<>>
                   THEN [niLast EXCEPT ![ni] = (@ + 1) % NumVC] ELSE niLast
      /\ ev' = Signalled(wake)
      /\ GoOn(0, Woken(wake))
      /\ UNCHANGED <<netVars, flitQ, inside, fresh, vcFree, niCur, niOutVars>>

\* Mutant of NIRead: the queue is not refilled.
NIReadOnly(i) ==
  LET ni == NIof(i)
  IN  /\ Running(i) /\ niCur[i].p = NoPacket
      /\ IF niQ[ni] = <<>>
         THEN WaitEvent(i) /\ UNCHANGED <<niQ, niCur>>
         ELSE /\ niCur' = [niCur EXCEPT ![i].p = Head(niQ[ni])]
              /\ niQ' = [niQ EXCEPT ![ni] = Tail(@)]
              /\ GoOn(1, <<>>) /\ UNCHANGED ev
      /\ UNCHANGED <<netVars, flitQ, inside, fresh, gen, niExtra, niLast, vcFree, niOutVars>>

\* readPacket(): wait for a packet, or take the first one and refill the
\* queue from the extra queue.
NIRead(i) ==
  LET ni == NIof(i)
      refill == niExtra[ni] # <<>>
  IN  /\ Running(i) /\ niCur[i].p = NoPacket
      /\ IF niQ[ni] = <<>>
         THEN WaitEvent(i) /\ UNCHANGED <<niQ, niExtra, niCur>>
         ELSE /\ niCur' = [niCur EXCEPT ![i].p = Head(niQ[ni])]
              /\ niQ' = [niQ EXCEPT ![ni] =
                           Tail(@) \o IF refill THEN <<Head(niExtra[ni])>> ELSE <<>>]
              /\ niExtra' = IF refill THEN [niExtra EXCEPT ![ni] = Tail(@)] ELSE niExtra
              /\ GoOn(1, <<>>) /\ UNCHANGED ev
      /\ UNCHANGED <<netVars, flitQ, inside, fresh, gen, niLast, vcFree, niOutVars>>

\* Mutant of UsableVCs: a VC may be reserved twice.
UsableVCsTwice(i) ==
  {vc \in IF PerVC THEN VC ELSE {i[4]} : ~ isFull(i[2], i[3], vc)}

\* The VCs of the router's port that input NI process i may reserve.
UsableVCs(i) ==
  {vc \in IF PerVC THEN VC ELSE {i[4]} :
     vcFree[NIof(i)][vc] /\ ~ isFull(i[2], i[3], vc)}

\* segmentPacket(): reserve a VC of the router's port, or try again next
\* cycle.  A PER_VC process searches all VCs from the last reserved one on.
NIReserve(i) ==
  LET ni == NIof(i)
      usable == UsableVCs(i)
      vc == First(usable, LAMBDA w : (w - niLast[ni] - 1) % NumVC)
  IN  /\ Running(i) /\ niCur[i].p # NoPacket /\ niCur[i].vc = INVALID_VC
      /\ IF usable = {}
         THEN HoldOneCycle(<<>>) /\ UNCHANGED <<niCur, vcFree, niLast>>
         ELSE /\ niCur' = [niCur EXCEPT ![i].vc = vc]
              /\ vcFree' = [vcFree EXCEPT ![ni][vc] = FALSE]
              /\ niLast' = IF PerVC THEN [niLast EXCEPT ![ni] = vc] ELSE niLast
              /\ GoOn(1, <<>>)
      /\ UNCHANGED <<netVars, flitQ, inside, fresh, gen, niQ, niExtra, niOutVars, ev>>

\* segmentPacket(): one flit per cycle goes into the router's buffer.
NIInject(i) ==
  LET ni == NIof(i)
      r == ni[1]
      cur == niCur[i]
      f == [p |-> cur.p, n |-> cur.n + 1]
      wakeup == IF inside[r] = 0 THEN <<<<0, r>>>> ELSE <<>>
  IN  /\ Running(i) /\ cur.vc # INVALID_VC /\ cur.n < NumFlits[cur.p]
      /\ IF isFull(r, ni[2], cur.vc)
         THEN HoldOneCycle(<<>>) /\ UNCHANGED <<flitQ, inside, fresh, niCur, ev>>
         ELSE /\ flitQ' = [flitQ EXCEPT ![r][ni[2]][cur.vc] = Append(@, f)]
              /\ inside' = [inside EXCEPT ![r] = @ + 1]
              /\ fresh' = IF isHead(f) THEN fresh \cup {f.p} ELSE fresh
              /\ niCur' = [niCur EXCEPT ![i].n = @ + 1]
              /\ ev' = Signalled(wakeup)
              /\ HoldOneCycle(Woken(wakeup))
      /\ UNCHANGED <<netVars, gen, niQ, niExtra, niLast, vcFree, niOutVars>>

\* Mutant of NIFinish: the packet is not counted.
NINotCounted(i) ==
  /\ Running(i) /\ niCur[i].vc # INVALID_VC /\ niCur[i].n = NumFlits[niCur[i].p]
  /\ vcFree' = [vcFree EXCEPT ![NIof(i)][niCur[i].vc] = TRUE]
  /\ niCur' = [niCur EXCEPT ![i] = [p |-> NoPacket, vc |-> INVALID_VC, n |-> 0]]
  /\ GoOn(1, <<>>)
  /\ UNCHANGED <<netVars, flitQ, inside, fresh, gen, niQ, niExtra, niLast, niOutVars, ev>>

\* segmentPacket() ends one cycle after the last flit.
NIFinish(i) ==
  LET cur == niCur[i]
  IN  /\ Running(i) /\ cur.vc # INVALID_VC /\ cur.n = NumFlits[cur.p]
      /\ vcFree' = [vcFree EXCEPT ![NIof(i)][cur.vc] = TRUE]
      /\ pktInNet' = pktInNet + 1
      /\ niCur' = [niCur EXCEPT ![i] = [p |-> NoPacket, vc |-> INVALID_VC, n |-> 0]]
      /\ GoOn(1, <<>>)
      /\ UNCHANGED <<netVars, flitQ, inside, fresh, gen, niQ, niExtra, niLast,
                     niOut, ejected, ev>>

\* process_NI_output: wait for a flit or take it; a tail completes its packet.
NIOutput(i) ==
  LET ni == NIof(i)
      f == Head(niOut[ni])
  IN  /\ Running(i)
      /\ IF niOut[ni] = <<>>
         THEN WaitEvent(i) /\ UNCHANGED niOutVars
         ELSE /\ niOut' = [niOut EXCEPT ![ni] = Tail(@)]
              /\ ejected' = [ejected EXCEPT ![f.p] = Append(@, <<ni, f.n>>)]
              /\ pktInNet' = IF isTail(f) THEN pktInNet - 1 ELSE pktInNet
              /\ GoOn(1, <<>>) /\ UNCHANGED ev
      /\ UNCHANGED <<netVars, flitQ, inside, fresh, niInVars>>

-----------------------------------------------------------------------------

PerVCState(x) == [r \in Router |-> [pc \in PC |-> [vc \in VC |-> x]]]

Init ==
  /\ flitQ = PerVCState(<<>>)
  /\ inMod = PerVCState([st |-> "I", pc |-> INVALID_PC, vc |-> INVALID_VC])
  /\ outMod = PerVCState("I")
  /\ credit = PerVCState(Depth - Rsv)
  /\ rsv = PerVCState(Rsv)
  /\ deposits = [r \in Router |-> <<>>]
  /\ vaQ = [r \in Router |-> <<>>]
  /\ swReq = PerVCState(FALSE)
  /\ vaNow = PerVCState(FALSE)
  /\ v1 = [r \in Router |-> [k \in 1 .. 2 |-> [pc \in PC |-> InitArbiter(NumVC)]]]
  /\ p1 = [r \in Router |-> [k \in 1 .. 2 |-> [pc \in PC |-> InitArbiter(NumPC)]]]
  /\ xbar = [r \in Router |-> [pc \in PC |-> INVALID_VC]]
  /\ outFree = [r \in Router |-> [pc \in PC |-> TRUE]]
  /\ pipe = [l \in Link |-> <<>>]
  /\ inside = [r \in Router |-> 0]
  /\ fresh = {}
  /\ gen = Packet
  /\ niQ = [d \in NI |-> <<>>]
  /\ niExtra = [d \in NI |-> <<>>]
  /\ niLast = [d \in NI |-> 0]
  /\ vcFree = [d \in NI |-> [vc \in VC |-> TRUE]]
  /\ niCur = [i \in NIinProcs |-> [p |-> NoPacket, vc |-> INVALID_VC, n |-> 0]]
  /\ niOut = [d \in NI |-> <<>>]
  /\ ejected = [p \in Packet |-> <<>>]
  /\ pktInNet = 0
  /\ ready = RouterProc \o NIinProc \o NIoutProc
  /\ held = <<>>
  /\ ev = [i \in Procs |-> FALSE]
  /\ stage = 0

RouterStep(r) ==
  \/ RouterWake(r) \/ IncCredit(r) \/ StageLT(r) \/ StageST(r) \/ StageSA(r)
  \/ StageRC(r) \/ StageVA(r) \/ StageSSA(r)

NIStep ==
  \/ \E i \in NIinProcs : NIRead(i) \/ NIReserve(i) \/ NIInject(i) \/ NIFinish(i)
  \/ \E i \in NIoutProcs : NIOutput(i)

\* The simulator's own steps, as opposed to the workload's.
Step == (\E r \in Router : RouterStep(r)) \/ NIStep \/ Tick

\* Every packet has arrived and every process waits.
Finished ==
  /\ ready = <<>> /\ held = <<>> /\ gen = {}
  /\ \A p \in Packet : Len(ejected[p]) = NumFlits[p]
  /\ UNCHANGED vars

Next == Step \/ (\E p \in Packet : Generate(p)) \/ Finished

Spec == Init /\ [][Next]_vars

\* The simulation goes on; whether and when a packet comes is up to the workload.
FairSpec == Spec /\ WF_vars(Step)

-----------------------------------------------------------------------------
(* Properties. *)

\* The input VCs of r that hold output VC vc of port pc.
Holders(r, pc, vc) ==
  {x \in PC \X VC : /\ inMod[r][x[1]][x[2]].st \in {"V", "S"}
                    /\ inMod[r][x[1]][x[2]].pc = pc
                    /\ inMod[r][x[1]][x[2]].vc = vc}

\* An output VC is allocated exactly while one packet holds it: the two sides
\* of the allocation are set in VA and reset by the tail in ST, many cycles
\* and other packets apart.
VCExclusive ==
  \A r \in Router, pc \in PC, vc \in VC :
    /\ outMod[r][pc][vc] = "V" <=> Holders(r, pc, vc) # {}
    /\ \A x, y \in Holders(r, pc, vc) : x = y

\* What stageST takes for granted (its assertions): the flit that switch
\* arbitration granted one cycle ago is still there, its packet still has the
\* switch, and an output port is taken exactly when one flit waits for it.
XbarReady ==
  \A r \in Router :
    LET waiting == {i \in PC : xbar[r][i] # INVALID_VC}
        mod(i) == inMod[r][i][xbar[r][i]]
    IN  /\ \A i \in waiting : flitQ[r][i][xbar[r][i]] # <<>> /\ mod(i).st = "S"
        /\ \A o \in PC : outFree[r][o] <=> \A i \in waiting : mod(i).pc # o
        /\ \A i, j \in waiting : mod(i).pc = mod(j).pc => i = j

\* "# of traversing flits on the link must be less than link latency" when
\* stageST sends one more.
LinkNotOverfull == \A l \in Link : Len(pipe[l]) <= LinkLat[l]

\* The assertion of stageLT, "not full in downstream router's buffer": a flit
\* that has crossed a link finds room, although only the credits say so.
RoomDownstream ==
  \A r \in Router : AtStage(r, "LT") =>
    \A l \in Crossed(r) : ~ isFull(Wire[l][1], Wire[l][2], Head(pipe[l]).vc)

\* In a VC a flit is followed by the next one of its packet, a tail by a head.
Follows(f, g) == IF isTail(f) THEN isHead(g) ELSE g = [f EXCEPT !.n = @ + 1]

\* Wormhole switching keeps packets whole (_DEBUG_CHECK_BUFFER_INTEGRITY): in
\* every VC, with its flits that are still on the link, each flit follows the
\* one before it, and a VC at rest starts with a head.
PacketsWhole ==
  \A r \in Router, pc \in PC, vc \in VC :
    LET q == flitQ[r][pc][vc]
        atRest == inMod[r][pc][vc].st \in {"I", "R", "V"}
    IN  /\ \A k \in 1 .. Len(q) - 1 : Follows(q[k], q[k + 1])
        /\ q # <<>> /\ atRest => isHead(q[1])
        /\ \A l \in Link : Wire[l] = <<r, pc>> =>
             LET flit(k) == pipe[l][k].f
                 coming == {k \in DOMAIN pipe[l] : pipe[l][k].vc = vc}
             IN  /\ \A j, k \in coming :
                      j < k /\ (\A m \in coming : m <= j \/ k <= m) => Follows(flit(j), flit(k))
                 /\ \A k \in coming : (\A m \in coming : k <= m) =>
                      IF q # <<>> THEN Follows(q[Len(q)], flit(k)) ELSE atRest => isHead(flit(k))

\* "Fast simulation": a router sleeps only when no flit is in its buffers or
\* on its links, so the counter that both sides of each link and the NIs
\* update may not miss one.
NoSleepOnWork ==
  \A r \in Router : Waiting(<<0, r>>) =>
    /\ \A pc \in PC, vc \in VC : flitQ[r][pc][vc] = <<>>
    /\ \A l \in Link : l[1] = r => pipe[l] = <<>>

\* No packet is forgotten in an NI: while one is queued, a process of the NI
\* is awake, although only the first packet of a queue sets an event and with
\* PER_VC it may be the event of a process that is busy.
NIAwake ==
  \A d \in NI : niQ[d] # <<>> \/ niExtra[d] # <<>> =>
    \E v \in NIVC : ~ Waiting(<<1, d[1], d[2], v>>)

\* The assertion of assembleFlit: no packet is counted out of the network
\* before it is counted in, which an NI does a cycle after its last flit.
PktInNetCount == pktInNet >= 0
=============================================================================
