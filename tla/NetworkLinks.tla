---------------------------- MODULE NetworkLinks ----------------------------
(***************************************************************************)
(* How the links of a Network implement CreditLoop: where the slots of the *)
(* downstream buffer of link l are, VC by VC.                              *)
(***************************************************************************)
EXTENDS Network

\* The credits the upstream router counts for l, its own or the shared pool.
LoopCredit(l) ==
  LET c == credit[l[1]][l[2]]
  IN  IF BufferType = "SAMQ" THEN c
      ELSE [pool \in {"outport"} |-> SumFunction(c)]

LoopRsv(l) == rsv[l[1]][l[2]]

\* Flits that won switch arbitration for VC v of l and wait for stageST.
LoopXbar(l) ==
  LET r == l[1]
      goes(i, v) == /\ xbar[r][i] # INVALID_VC
                    /\ inMod[r][i][xbar[r][i]].pc = l[2]
                    /\ inMod[r][i][xbar[r][i]].vc = v
  IN  [v \in VC |-> Cardinality({i \in PC : goes(i, v)})]

LoopWire(l) == [v \in VC |-> Cardinality({k \in DOMAIN pipe[l] : pipe[l][k].vc = v})]

LoopBuf(l) == [v \in VC |-> Len(flitQ[Wire[l][1]][Wire[l][2]][v])]

LoopBack(l) ==
  LET d == deposits[l[1]]
  IN  [v \in VC |-> Cardinality({k \in DOMAIN d : d[k].pc = l[2] /\ d[k].vc = v})]

LoopAwake(l) == ~ Waiting(<<0, l[1]>>)
=============================================================================
