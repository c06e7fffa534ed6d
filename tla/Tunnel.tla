------------------------------- MODULE Tunnel -------------------------------
(***************************************************************************)
(* Tunnelling (-ROUTER:TUNNEL): a flit bypasses a router's pipeline if it  *)
(* takes the way of the last packet that VC allocation served at its input *)
(* port.  One router with buffers per VC, stage after stage of each cycle; *)
(* arbiters may serve the requests in any way (Network has theirs), and    *)
(* the routers around it may send flits and return credits at any time.    *)
(***************************************************************************)
EXTENDS Integers, SequencesExt, FiniteSetsExt

CONSTANTS
  NumIn,     \* input ports are 0 .. NumIn - 1
  NumVC,
  OutPC,     \* output ports
  EjectPC,   \* those of NIs
  LinkLat,   \* m_delay_factor * link_latency
  Depth,     \* m_inbuf_depth
  Traffic    \* the packets: [in_pc, in_vc, src, dest, out_pc, flits]

VARIABLES
  router_tunnel_type,  \* constant
  coming,              \* the flit of each input VC that is to come next, if any
  flitQ, in_mod, out_mod, credit, swReq, xbar, fresh,
                       \* as in Network, here by <<PC, VC>> and of one router
  pipe,                \* the links' pipelines
  down,                \* the flits in the downstream buffer of each output VC
  tunnel,              \* m_tunnel_info_vec
  sent,                \* of each output VC, the last flits that left for it: a history
  next_stage           \* the stage that is next, with its port

vars == <<router_tunnel_type, coming, flitQ, in_mod, out_mod, credit, swReq, xbar, fresh,
          pipe, down, tunnel, sent, next_stage>>

VC == 0 .. NumVC - 1
InPC == 0 .. NumIn - 1
InVC == InPC \X VC
OutVC == OutPC \X VC

INVALID_VC == -2
Idle == [st |-> "I", out |-> <<>>]

isHead(f) == f.n = 1
isTail(f) == f.n = Traffic[f.p].flits
isEject(out) == out[1] \in EjectPC

\* The flits of a VC come one packet after the other: the head of the first one
\* behind packet k, and what comes behind flit f.
NoFlit == [p |-> 0, n |-> 0]

HeadBehind(x, k) ==
  LET mine == {j \in DOMAIN Traffic : j > k /\ <<Traffic[j].in_pc, Traffic[j].in_vc>> = x}
  IN  IF mine = {} THEN NoFlit ELSE [p |-> Min(mine), n |-> 1]

FlitBehind(x, f) == IF isTail(f) THEN HeadBehind(x, f.p) ELSE [f EXCEPT !.n = @ + 1]

Init ==
  /\ router_tunnel_type \in {"PER_FLOW", "PER_DEST", "PER_OUTPORT"}
  /\ coming = [x \in InVC |-> HeadBehind(x, 0)]
  /\ flitQ = [x \in InVC |-> <<>>]
  /\ in_mod = [x \in InVC |-> Idle]
  /\ out_mod = [y \in OutVC |-> "I"]
  /\ credit = [y \in OutVC |-> Depth]
  /\ swReq = {}
  /\ xbar = [p \in InPC |-> INVALID_VC]
  /\ fresh = {}
  /\ pipe = [o \in OutPC |-> <<>>]
  /\ down = [y \in OutVC |-> 0]
  /\ tunnel = [p \in InPC |-> [vc |-> INVALID_VC]]
  /\ sent = [y \in OutVC |-> <<>>]
  /\ next_stage = <<"LT", 0>>

NextStage(s) == IF s[2] + 1 < NumIn THEN <<s[1], s[2] + 1>>
            ELSE IF s[1] = "TN" THEN <<"ST", 0>> ELSE <<"SA", 0>>

\* The crossbar's output ports are free that no granted flit is to use.
outport_free(o) == \A p \in InPC : xbar[p] # INVALID_VC => in_mod[<<p, xbar[p]>>].out[1] # o

hasCredit(y) == credit[y] > 0

\* The beginning of a cycle: the flits that have crossed their link arrive
\* downstream, others arrive here, and credits return, at most one at each port.
StageLT ==
  LET aged(o) == [k \in DOMAIN pipe[o] |-> [pipe[o][k] EXCEPT !.age = @ + 1]]
      crossed == {o \in OutPC : pipe[o] # <<>> /\ Head(aged(o)).age >= LinkLat}
      takes(y) == IF y[1] \in crossed /\ Head(pipe[y[1]]).vc = y[2] THEN 1 ELSE 0
      may == {x \in InVC : coming[x] # NoFlit /\ Len(flitQ[x]) < Depth}
  IN  /\ next_stage = <<"LT", 0>>
      /\ \E arrive \in SUBSET may, back \in SUBSET {y \in OutVC : down[y] > 0} :
           /\ \A x, z \in arrive : x[1] = z[1] => x = z
           /\ \A y, z \in back : y[1] = z[1] => y = z
           /\ flitQ' = [x \in InVC |-> IF x \in arrive THEN Append(flitQ[x], coming[x]) ELSE flitQ[x]]
           /\ coming' = [x \in InVC |-> IF x \in arrive THEN FlitBehind(x, coming[x]) ELSE coming[x]]
           /\ fresh' = arrive
           /\ credit' = [y \in OutVC |-> credit[y] + (IF y \in back THEN 1 ELSE 0)]
           /\ down' = [y \in OutVC |-> (down[y] + takes(y)) - (IF y \in back THEN 1 ELSE 0)]
      /\ pipe' = [o \in OutPC |-> IF o \in crossed THEN Tail(aged(o)) ELSE aged(o)]
      /\ next_stage' = <<"TN", 0>>
      /\ UNCHANGED <<router_tunnel_type, in_mod, out_mod, swReq, xbar, tunnel, sent>>

LastTwo(seq) == IF Len(seq) > 2 THEN Tail(seq) ELSE seq

\* A flit leaves: to an NI, or to a link.
Leave(x, y) ==
  LET f == Head(flitQ[x])
  IN  /\ flitQ' = [flitQ EXCEPT ![x] = Tail(@)]
      /\ pipe' = IF isEject(y) THEN pipe
                 ELSE [pipe EXCEPT ![y[1]] = Append(@, [f |-> f, vc |-> y[2], age |-> 0])]
      /\ sent' = [sent EXCEPT ![y] = LastTwo(Append(@, f))]

\* Does a packet belong to the tunnel of its port?
TunnelOf(t, pkt) ==
  CASE router_tunnel_type = "PER_FLOW" -> t.src = pkt.src /\ t.dest = pkt.dest
    [] router_tunnel_type = "PER_DEST" -> t.dest = pkt.dest
    [] router_tunnel_type = "PER_OUTPORT" -> TRUE

\* Mutant of VCReservable: the output VC may be that of another packet.
VCReservableAlways(y) == TRUE

\* Only the VC of a link is reserved for the packet.
VCReservable(y) == isEject(y) \/ out_mod[y] = "I"

\* May the flit at the head of the tunnel's VC bypass the pipeline?
Bypass(p) ==
  LET t == tunnel[p]
      x == <<p, t.vc>>
      f == Head(flitQ[x])
  IN  /\ t.vc # INVALID_VC
      /\ flitQ[x] # <<>>
      /\ IF isHead(f)
         THEN /\ TunnelOf(t, Traffic[f.p])
              /\ in_mod[x].st = "I"
              /\ Traffic[f.p].out_pc = t.out[1]
              /\ VCReservable(t.out)
         ELSE in_mod[x].out = t.out
      /\ hasCredit(t.out)
      /\ xbar[p] = INVALID_VC /\ outport_free(t.out[1])
      /\ isEject(t.out) \/ Len(pipe[t.out[1]]) < LinkLat

\* stageTN at an input port.  A tail's output VC is not freed.
StageTN(p) ==
  /\ next_stage = <<"TN", p>>
  /\ IF Bypass(p)
     THEN LET y == tunnel[p].out
              x == <<p, tunnel[p].vc>>
              f == Head(flitQ[x])
          IN  /\ Leave(x, y)
              /\ credit' = IF isEject(y) THEN credit ELSE [credit EXCEPT ![y] = @ - 1]
              /\ out_mod' = IF isHead(f) /\ ~ isEject(y) THEN [out_mod EXCEPT ![y] = "V"] ELSE out_mod
              /\ in_mod' = [in_mod EXCEPT ![x] = IF isTail(f) THEN Idle ELSE [st |-> "S", out |-> y]]
              /\ swReq' = IF isHead(f) THEN swReq ELSE swReq \ {x}
     ELSE UNCHANGED <<flitQ, pipe, sent, credit, out_mod, in_mod, swReq>>
  /\ next_stage' = NextStage(next_stage)
  /\ UNCHANGED <<router_tunnel_type, coming, xbar, fresh, down, tunnel>>

\* stageST at an input port: the flit that won in the last cycle leaves.
StageST(p) ==
  /\ next_stage = <<"ST", p>>
  /\ IF xbar[p] # INVALID_VC
     THEN LET x == <<p, xbar[p]>>
              y == in_mod[x].out
              tail == isTail(Head(flitQ[x]))
          IN  /\ Leave(x, y)
              /\ in_mod' = IF tail THEN [in_mod EXCEPT ![x] = Idle] ELSE in_mod
              /\ out_mod' = IF tail THEN [out_mod EXCEPT ![y] = "I"] ELSE out_mod
     ELSE UNCHANGED <<flitQ, pipe, sent, in_mod, out_mod>>
  /\ xbar' = [xbar EXCEPT ![p] = INVALID_VC]
  /\ next_stage' = NextStage(next_stage)
  /\ UNCHANGED <<router_tunnel_type, coming, credit, swReq, fresh, down, tunnel>>

\* Body flits request the switch when their head is through; some of the
\* requests are granted, one of each port at most.
StageSA ==
  LET body(x) == flitQ[x] # <<>> /\ ~ isHead(Head(flitQ[x])) /\ in_mod[x].st = "S"
      req == swReq \cup {x \in InVC : body(x)}
      out(x) == in_mod[x].out
      able == {x \in req : isEject(out(x)) \/ hasCredit(out(x))}
  IN  /\ next_stage = <<"SA", 0>>
      /\ \E won \in SUBSET able :
           /\ \A x, z \in won : x = z \/ (x[1] # z[1] /\ out(x)[1] # out(z)[1])
           /\ swReq' = req \ won
           /\ xbar' = [p \in InPC |-> IF \E x \in won : x[1] = p
                                      THEN (CHOOSE x \in won : x[1] = p)[2] ELSE INVALID_VC]
           /\ credit' = [y \in OutVC |->
                credit[y] - (IF ~ isEject(y) /\ (\E x \in won : out(x) = y) THEN 1 ELSE 0)]
           /\ in_mod' = [x \in InVC |-> IF x \in won THEN [in_mod[x] EXCEPT !.st = "S"] ELSE in_mod[x]]
      /\ next_stage' = <<"VA", 0>>
      /\ UNCHANGED <<router_tunnel_type, coming, flitQ, out_mod, fresh, pipe, down, tunnel, sent>>

\* VC allocation serves one request after the other, and makes the packet's way
\* the tunnel of its port.
StageVA ==
  LET free(o) == {vc \in VC : out_mod[<<o, vc>>] = "I"}
      served == {x \in InVC : in_mod[x].st = "R" /\ free(in_mod[x].out[1]) # {}}
  IN  /\ next_stage = <<"VA", 0>>
      /\ IF served # {}
         THEN \E x \in served :
                LET y == <<in_mod[x].out[1], Min(free(in_mod[x].out[1]))>>
                    pkt == Traffic[Head(flitQ[x]).p]
                IN  /\ in_mod' = [in_mod EXCEPT ![x] = [st |-> "V", out |-> y]]
                    /\ out_mod' = [out_mod EXCEPT ![y] = "V"]
                    /\ swReq' = swReq \cup {x}
                    /\ tunnel' = [tunnel EXCEPT ![x[1]] =
                         [vc |-> x[2], out |-> y, src |-> pkt.src, dest |-> pkt.dest]]
                    /\ UNCHANGED next_stage
         ELSE next_stage' = <<"RC", 0>> /\ UNCHANGED <<in_mod, out_mod, swReq, tunnel>>
      /\ UNCHANGED <<router_tunnel_type, coming, flitQ, credit, xbar, fresh, pipe, down, sent>>

\* Routing, of heads that did not arrive in this cycle.
StageRC ==
  LET arrived(x) == x \in fresh /\ Len(flitQ[x]) = 1
      routable(x) == /\ in_mod[x].st = "I" /\ flitQ[x] # <<>> /\ ~ arrived(x)
                     /\ isHead(Head(flitQ[x]))
  IN  /\ next_stage = <<"RC", 0>>
      /\ in_mod' = [x \in InVC |-> IF routable(x)
                                   THEN [st |-> "R", out |-> <<Traffic[Head(flitQ[x]).p].out_pc, INVALID_VC>>]
                                   ELSE in_mod[x]]
      /\ next_stage' = <<"LT", 0>>
      /\ UNCHANGED <<router_tunnel_type, coming, flitQ, out_mod, credit, swReq, xbar, fresh, pipe, down,
                     tunnel, sent>>

Next == StageLT \/ (\E p \in InPC : StageTN(p) \/ StageST(p)) \/ StageSA \/ StageVA \/ StageRC

Spec == Init /\ [][Next]_vars

-----------------------------------------------------------------------------
\* Flits that bypass the pipeline and flits that take it do not mix up packets:
\* an output VC of a link carries one packet whole after the other.
PacketsWhole ==
  \A y \in OutVC : ~ isEject(y) =>
    /\ Len(sent[y]) = 1 => isHead(sent[y][1])
    /\ Len(sent[y]) = 2 => IF isTail(sent[y][1]) THEN isHead(sent[y][2])
                           ELSE sent[y][2] = [sent[y][1] EXCEPT !.n = @ + 1]

\* Every slot downstream has a credit, a flit that is to have it, on its way
\* through crossbar or link, or one that is there, whichever way flits took.
Slots ==
  \A y \in OutVC : ~ isEject(y) =>
    LET granted == {p \in InPC : xbar[p] # INVALID_VC /\ in_mod[<<p, xbar[p]>>].out = y}
        crossing == {k \in DOMAIN pipe[y[1]] : pipe[y[1]][k].vc = y[2]}
    IN  credit[y] + Cardinality(granted) + Cardinality(crossing) + down[y] = Depth

\* A flit that was granted the switch is still there, and the link has room for
\* it, whatever bypassed the pipeline since.
Ready ==
  \A p \in InPC : next_stage = <<"ST", p>> /\ xbar[p] # INVALID_VC =>
    LET x == <<p, xbar[p]>>
        y == in_mod[x].out
    IN  /\ flitQ[x] # <<>>
        /\ in_mod[x].st = "S"
        /\ isEject(y) \/ Len(pipe[y[1]]) < LinkLat

\* Whichever way flits take, router and link can rely on each other.
TunnelSafe == PacketsWhole /\ Slots /\ Ready

\* A tail that takes the pipeline frees an output VC that is allocated (the
\* assertion of stageST).
TailOwnsVC ==
  \A p \in InPC : next_stage = <<"ST", p>> /\ xbar[p] # INVALID_VC =>
    LET x == <<p, xbar[p]>> IN isTail(Head(flitQ[x])) => out_mod[in_mod[x].out] = "V"
=============================================================================
