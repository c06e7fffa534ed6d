-------------------------- MODULE SimulationProofs --------------------------
(***************************************************************************)
(* Proofs about the parts of SimulationMC, each for any values of its      *)
(* constants.  Tunnels: flits that bypass a router's pipeline and flits    *)
(* that take it keep packets whole (PacketsWhole) and credits accounted    *)
(* for (Slots), and what the switch has granted stays possible (Ready), if *)
(* a link takes one cycle.  Whole simulations: Measured and Profiled, for  *)
(* any cores, options and traces.  The scaling of links: Settled, where a  *)
(* change fits into the interval, and Torn where the program lets through  *)
(* delays that do not.  Options and what sim() makes of them: Consistent.  *)
(* Buffer statistics: OccupancyMeasured.                                   *)
(***************************************************************************)
EXTENDS Profile, LinkDVS, Config, Tunnel,
        FiniteSetTheorems, SequenceTheorems, WellFoundedInduction, TLAPS

\* What the code requires of the configuration, and packets of the workload.
TunnelOK ==
  /\ NumIn \in Nat \ {0} /\ NumVC \in Nat \ {0}
  /\ LinkLat \in Nat \ {0} /\ Depth \in Nat \ {0}
  /\ \E n \in Nat : DOMAIN Traffic = 1 .. n
  /\ \A k \in DOMAIN Traffic : Traffic[k].out_pc \in OutPC /\ Traffic[k].flits \in Nat \ {0}

-----------------------------------------------------------------------------
(* The types of the state. *)

Packet == DOMAIN Traffic

Flit == [p : Packet, n : Nat]

InFlight == [f : Flit, vc : VC, age : Nat]

Mod == {Idle} \cup [st : {"R"}, out : OutPC \X {INVALID_VC}] \cup [st : {"V", "S"}, out : OutVC]

Way ==
  {[vc |-> INVALID_VC]}
    \cup [vc : VC, out : OutVC, src : {Traffic[k].src : k \in Packet}, dest : {Traffic[k].dest : k \in Packet}]

Stage == {"LT", "TN", "ST", "SA", "VA", "RC"} \X InPC

\* All variables that the proofs are about have their types.
TypeOK ==
  /\ coming \in [InVC -> Flit \cup {NoFlit}]
  /\ flitQ \in [InVC -> Seq(Flit)]
  /\ in_mod \in [InVC -> Mod]
  /\ out_mod \in [OutVC -> {"I", "V"}]
  /\ credit \in [OutVC -> Int]
  /\ swReq \subseteq InVC
  /\ xbar \in [InPC -> VC \cup {INVALID_VC}]
  /\ pipe \in [OutPC -> Seq(InFlight)]
  /\ down \in [OutVC -> Int]
  /\ tunnel \in [InPC -> Way]
  /\ sent \in [OutVC -> Seq(Flit)]
  /\ next_stage \in Stage

LEMMA Constants ==
  ASSUME TunnelOK
  PROVE  /\ Packet \in SUBSET Nat /\ 0 \notin Packet /\ NoFlit \notin Flit
         /\ 0 \in InPC /\ InPC \in SUBSET Nat /\ VC \in SUBSET Nat /\ INVALID_VC \notin VC
         /\ IsFiniteSet(InPC)
         /\ \A s \in Stage : s[1] \in {"TN", "ST"} => NextStage(s) \in Stage
<1>1. PICK n \in Nat : DOMAIN Traffic = 1 .. n
  BY DEF TunnelOK
<1>2. Packet \in SUBSET Nat /\ 0 \notin Packet
  BY <1>1 DEF Packet
<1>3. NoFlit \notin Flit
  BY <1>2 DEF NoFlit, Flit
<1>4. 0 \in InPC /\ InPC \in SUBSET Nat /\ VC \in SUBSET Nat /\ INVALID_VC \notin VC
  BY DEF TunnelOK, InPC, VC, INVALID_VC
<1>5. IsFiniteSet(InPC)
  BY FS_Interval DEF TunnelOK, InPC
<1>6. ASSUME NEW s \in Stage, s[1] \in {"TN", "ST"}
      PROVE  NextStage(s) \in Stage
  <2>1. s[2] \in InPC /\ (s[2] + 1 < NumIn => s[2] + 1 \in InPC)
    BY DEF Stage, TunnelOK, InPC
  <2> QED
    BY <1>4, <1>6, <2>1 DEF NextStage, Stage
<1> QED
  BY <1>2, <1>3, <1>4, <1>5, <1>6

\* The least of numbers.
LEMMA MinIn ==
  ASSUME NEW S \in SUBSET Nat, S # {}
  PROVE  Min(S) \in S
<1> DEFINE R == {e \in Nat \X Nat : e[1] < e[2]}
<1>1. IsWellFoundedOn(R, Nat)
  BY NatLessThanWellFounded, Zenon DEF OpToRel
<1>2. \A m, n \in Nat : n < m => <<n, m>> \in R
  OBVIOUS
<1> HIDE DEF R
<1>3. \E x \in S : \A y \in S : ~ (<<y, x>> \in R)
  BY <1>1, WFMin, Zenon
<1>4. PICK x \in S : \A y \in S : ~ (<<y, x>> \in R)
  BY <1>3
<1>5. \A y \in S : ~ (y < x)
  BY <1>2, <1>4
<1>6. \A y \in S : x <= y
  BY <1>5
<1> QED
  BY <1>6 DEF Min

\* What comes next is a flit, or nothing.
LEMMA BehindOK ==
  ASSUME TunnelOK, NEW x
  PROVE  /\ \A k : HeadBehind(x, k) \in Flit \cup {NoFlit}
         /\ \A k : HeadBehind(x, k) # NoFlit => isHead(HeadBehind(x, k))
         /\ \A f \in Flit : FlitBehind(x, f) \in Flit \cup {NoFlit}
<1>1. ASSUME NEW k
      PROVE  /\ HeadBehind(x, k) \in Flit \cup {NoFlit}
             /\ HeadBehind(x, k) # NoFlit => isHead(HeadBehind(x, k))
  <2> DEFINE mine == {j \in DOMAIN Traffic : j > k /\ <<Traffic[j].in_pc, Traffic[j].in_vc>> = x}
  <2>1. CASE mine = {}
    BY <2>1 DEF HeadBehind
  <2>2. CASE mine # {}
    <3>1. mine \in SUBSET Packet
      BY DEF Packet
    <3>2. Min(mine) \in Packet
      BY <2>2, <3>1, Constants, MinIn
    <3>3. HeadBehind(x, k) = [p |-> Min(mine), n |-> 1]
      BY <2>2 DEF HeadBehind
    <3> QED
      BY <3>2, <3>3 DEF Flit, isHead
  <2> QED
    BY <2>1, <2>2
<1>2. ASSUME NEW f \in Flit
      PROVE  FlitBehind(x, f) \in Flit \cup {NoFlit}
  BY <1>1 DEF FlitBehind, Flit
<1> QED
  BY <1>1, <1>2

LEMMA TypesOfInit ==
  ASSUME TunnelOK, Init
  PROVE  TypeOK
<1>1. <<"LT", 0>> \in Stage
  BY Constants DEF Stage
<1>2. Depth \in Int
  BY DEF TunnelOK
<1>3. coming \in [InVC -> Flit \cup {NoFlit}]
  BY BehindOK DEF Init
<1>4. in_mod \in [InVC -> Mod] /\ tunnel \in [InPC -> Way]
  BY DEF Init, Mod, Way
<1>5. flitQ \in [InVC -> Seq(Flit)] /\ pipe \in [OutPC -> Seq(InFlight)] /\ sent \in [OutVC -> Seq(Flit)]
  BY DEF Init
<1> QED
  BY <1>1, <1>2, <1>3, <1>4, <1>5 DEF Init, TypeOK

-----------------------------------------------------------------------------
(* The control of the router. *)

Granted(p) == xbar[p] # INVALID_VC

\* What port p was granted the switch for.
Winner(p) == <<p, xbar[p]>>

\* A routed head is still there; a request for the switch is that of a packet
\* with an output VC and a flit; so is a grant, and nothing else is granted the
\* output port or asks for the flit; grants are used up port by port.
ControlInv ==
  /\ \A x \in InVC : in_mod[x].st = "R" => flitQ[x] # <<>>
  /\ \A x \in swReq : in_mod[x].st \in {"V", "S"} /\ flitQ[x] # <<>>
  /\ \A p \in InPC : Granted(p) =>
       /\ in_mod[Winner(p)].st = "S" /\ flitQ[Winner(p)] # <<>> /\ Winner(p) \notin swReq
       /\ \A q \in InPC : Granted(q) /\ in_mod[Winner(q)].out[1] = in_mod[Winner(p)].out[1] => q = p
  /\ next_stage[1] = "ST" => \A p \in InPC : p < next_stage[2] => ~ Granted(p)
  /\ next_stage[1] = "SA" => \A p \in InPC : ~ Granted(p)

LEMMA ModeOf ==
  ASSUME TypeOK, NEW x \in InVC
  PROVE  /\ in_mod[x].st \in {"I", "R", "V", "S"}
         /\ in_mod[x].st \in {"V", "S"} => in_mod[x].out \in OutVC /\ in_mod[x].out[1] \in OutPC
         /\ in_mod[x].st \in {"V", "S"} => in_mod[x] = [st |-> in_mod[x].st, out |-> in_mod[x].out]
         /\ in_mod[x].st = "I" => in_mod[x] = Idle
         /\ in_mod[x].st = "R" => in_mod[x].out \in OutPC \X {INVALID_VC}
<1>1. in_mod[x] \in Mod
  BY DEF TypeOK
<1> QED
  BY <1>1 DEF Mod, Idle, OutVC

LEMMA WinnerOK ==
  ASSUME TypeOK, ControlInv, NEW p \in InPC, Granted(p)
  PROVE  /\ Winner(p) \in InVC /\ xbar[p] \in VC
         /\ in_mod[Winner(p)].out \in OutVC /\ in_mod[Winner(p)].out[1] \in OutPC
         /\ in_mod[Winner(p)] = [st |-> "S", out |-> in_mod[Winner(p)].out]
<1>1. xbar[p] \in VC
  BY DEF Granted, TypeOK
<1>2. Winner(p) \in InVC
  BY <1>1 DEF Winner, InVC
<1>3. in_mod[Winner(p)].st = "S"
  BY DEF ControlInv
<1> QED
  BY <1>1, <1>2, <1>3, ModeOf

LEMMA BypassOK ==
  ASSUME TunnelOK, TypeOK, NEW p \in InPC, Bypass(p)
  PROVE  LET x == <<p, tunnel[p].vc>>
             y == tunnel[p].out
         IN  /\ x \in InVC /\ y \in OutVC /\ y[1] \in OutPC
             /\ flitQ[x] # <<>> /\ Head(flitQ[x]) \in Flit
             /\ ~ Granted(p) /\ outport_free(y[1])
             /\ IF isHead(Head(flitQ[x])) THEN in_mod[x] = Idle /\ VCReservable(y)
                ELSE in_mod[x].out = y /\ in_mod[x].st \in {"V", "S"}
<1> DEFINE x == <<p, tunnel[p].vc>>
           y == tunnel[p].out
<1>1. /\ tunnel[p].vc # INVALID_VC /\ flitQ[x] # <<>>
      /\ IF isHead(Head(flitQ[x])) THEN in_mod[x].st = "I" /\ VCReservable(y) ELSE in_mod[x].out = y
      /\ ~ Granted(p) /\ outport_free(y[1])
  BY DEF Bypass, Granted
<1>2. tunnel[p].vc \in VC /\ y \in OutVC
  <2>1. tunnel[p] \in Way
    BY DEF TypeOK
  <2> QED
    BY <1>1, <2>1 DEF Way
<1>3. x \in InVC
  BY <1>2 DEF InVC
<1>4. y[1] \in OutPC /\ y[2] \in VC
  BY <1>2 DEF OutVC
<1>5. flitQ[x] \in Seq(Flit)
  BY <1>3 DEF TypeOK
<1>6. Head(flitQ[x]) \in Flit
  BY <1>1, <1>5
<1> HIDE DEF x, y
<1>7. in_mod[x].st = "I" => in_mod[x] = Idle
  BY <1>3, ModeOf
<1>8. in_mod[x].out = y => in_mod[x].st \in {"V", "S"}
  <2> SUFFICES ASSUME in_mod[x].out = y, in_mod[x].st \in {"I", "R"}
               PROVE  FALSE
    BY <1>3, ModeOf
  <2>1. CASE in_mod[x].st = "I"
    <3>1. y = <<>>
      BY <1>7, <2>1 DEF Idle
    <3>2. y = <<y[1], y[2]>>
      BY <1>2 DEF OutVC
    <3> QED
      BY <3>1, <3>2
  <2>2. CASE in_mod[x].st = "R"
    <3>1. y \in OutPC \X {INVALID_VC}
      BY <1>3, <2>2, ModeOf
    <3> QED
      BY <1>4, <3>1, Constants
  <2> QED
    BY <2>1, <2>2
<1>9. IF isHead(Head(flitQ[x])) THEN in_mod[x] = Idle /\ VCReservable(y)
      ELSE in_mod[x].out = y /\ in_mod[x].st \in {"V", "S"}
  BY <1>1, <1>7, <1>8
<1> QED
  BY <1>1, <1>2, <1>3, <1>4, <1>6, <1>9 DEF x, y

\* A flit leaves, whichever way.
LEMMA LeaveOK ==
  ASSUME TypeOK, NEW x \in InVC, NEW y \in OutVC, flitQ[x] # <<>>, Leave(x, y)
  PROVE  /\ Head(flitQ[x]) \in Flit
         /\ flitQ' \in [InVC -> Seq(Flit)] /\ flitQ'[x] = Tail(flitQ[x])
         /\ \A z \in InVC : z # x => flitQ'[z] = flitQ[z]
         /\ pipe' \in [OutPC -> Seq(InFlight)]
         /\ \A o \in OutPC : pipe'[o] =
              IF ~ isEject(y) /\ o = y[1]
              THEN Append(pipe[o], [f |-> Head(flitQ[x]), vc |-> y[2], age |-> 0]) ELSE pipe[o]
         /\ sent' \in [OutVC -> Seq(Flit)]
         /\ sent'[y] = LastTwo(Append(sent[y], Head(flitQ[x])))
         /\ \A z \in OutVC : z # y => sent'[z] = sent[z]
<1> DEFINE f == Head(flitQ[x])
           e == [f |-> f, vc |-> y[2], age |-> 0]
<1>1. flitQ[x] \in Seq(Flit) /\ f \in Flit /\ Tail(flitQ[x]) \in Seq(Flit)
  BY DEF TypeOK
<1>2. y[1] \in OutPC /\ y[2] \in VC
  BY DEF OutVC
<1> HIDE DEF f
<1>3. e \in InFlight
  BY <1>1, <1>2 DEF InFlight
<1> HIDE DEF e
<1>4. /\ flitQ' = [flitQ EXCEPT ![x] = Tail(@)]
      /\ pipe' = IF isEject(y) THEN pipe ELSE [pipe EXCEPT ![y[1]] = Append(@, e)]
      /\ sent' = [sent EXCEPT ![y] = LastTwo(Append(@, f))]
  BY DEF Leave, e, f
<1>5. LastTwo(Append(sent[y], f)) \in Seq(Flit)
  <2>1. Append(sent[y], f) \in Seq(Flit) /\ Len(Append(sent[y], f)) \in Nat \ {0}
    BY <1>1 DEF TypeOK
  <2>2. Append(sent[y], f) # <<>>
    BY <2>1
  <2> QED
    BY <2>1, <2>2 DEF LastTwo
<1>6. /\ flitQ' \in [InVC -> Seq(Flit)] /\ flitQ'[x] = Tail(flitQ[x])
      /\ \A z \in InVC : z # x => flitQ'[z] = flitQ[z]
  BY <1>1, <1>4 DEF TypeOK
<1>7. /\ pipe' \in [OutPC -> Seq(InFlight)]
      /\ \A o \in OutPC : pipe'[o] = IF ~ isEject(y) /\ o = y[1] THEN Append(pipe[o], e) ELSE pipe[o]
  BY <1>2, <1>3, <1>4 DEF TypeOK
<1>8. /\ sent' \in [OutVC -> Seq(Flit)] /\ sent'[y] = LastTwo(Append(sent[y], f))
      /\ \A z \in OutVC : z # y => sent'[z] = sent[z]
  BY <1>4, <1>5 DEF TypeOK
<1> QED
  BY <1>1, <1>6, <1>7, <1>8 DEF e, f

\* The links' flits, a cycle later, and the links they have crossed.
Aged(o) == [k \in DOMAIN pipe[o] |-> [pipe[o][k] EXCEPT !.age = @ + 1]]

Crossed == {o \in OutPC : pipe[o] # <<>> /\ Head(Aged(o)).age >= LinkLat}

Takes(y) == IF y[1] \in Crossed /\ Head(pipe[y[1]]).vc = y[2] THEN 1 ELSE 0

\* What the beginning of a cycle brings.
Traversed(arrive, back) ==
  /\ \A x \in arrive : coming[x] \in Flit
  /\ flitQ' = [x \in InVC |-> IF x \in arrive THEN Append(flitQ[x], coming[x]) ELSE flitQ[x]]
  /\ coming' = [x \in InVC |-> IF x \in arrive THEN FlitBehind(x, coming[x]) ELSE coming[x]]
  /\ credit' = [y \in OutVC |-> credit[y] + (IF y \in back THEN 1 ELSE 0)]
  /\ down' = [y \in OutVC |-> (down[y] + Takes(y)) - (IF y \in back THEN 1 ELSE 0)]
  /\ pipe' = [o \in OutPC |-> IF o \in Crossed THEN Tail(Aged(o)) ELSE Aged(o)]
  /\ next_stage = <<"LT", 0>> /\ next_stage' = <<"TN", 0>>
  /\ UNCHANGED <<in_mod, out_mod, swReq, xbar, tunnel, sent>>

LEMMA Traversal ==
  ASSUME TypeOK, StageLT
  PROVE  \E arrive \in SUBSET InVC, back \in SUBSET OutVC : Traversed(arrive, back)
<1> DEFINE may == {x \in InVC : coming[x] # NoFlit /\ Len(flitQ[x]) < Depth}
<1>1. PICK arrive \in SUBSET may, back \in SUBSET {y \in OutVC : down[y] > 0} :
        /\ flitQ' = [x \in InVC |-> IF x \in arrive THEN Append(flitQ[x], coming[x]) ELSE flitQ[x]]
        /\ coming' = [x \in InVC |-> IF x \in arrive THEN FlitBehind(x, coming[x]) ELSE coming[x]]
        /\ credit' = [y \in OutVC |-> credit[y] + (IF y \in back THEN 1 ELSE 0)]
        /\ down' = [y \in OutVC |-> (down[y] + Takes(y)) - (IF y \in back THEN 1 ELSE 0)]
  BY ZenonT(60) DEF StageLT, Takes, Crossed, Aged
<1>2. /\ pipe' = [o \in OutPC |-> IF o \in Crossed THEN Tail(Aged(o)) ELSE Aged(o)]
      /\ next_stage = <<"LT", 0>> /\ next_stage' = <<"TN", 0>>
      /\ UNCHANGED <<in_mod, out_mod, swReq, xbar, tunnel, sent>>
  BY DEF StageLT, Crossed, Aged
<1>3. \A x \in arrive : coming[x] \in Flit
  BY DEF TypeOK
<1>4. arrive \in SUBSET InVC /\ back \in SUBSET OutVC
  OBVIOUS
<1> QED
  BY <1>1, <1>2, <1>3, <1>4 DEF Traversed

LEMMA AgedOK ==
  ASSUME TypeOK, NEW o \in OutPC
  PROVE  /\ Aged(o) \in Seq(InFlight) /\ Len(Aged(o)) = Len(pipe[o]) /\ Len(pipe[o]) \in Nat
         /\ \A k \in 1 .. Len(pipe[o]) :
              /\ pipe[o][k] \in InFlight /\ Aged(o)[k].f = pipe[o][k].f
              /\ Aged(o)[k].vc = pipe[o][k].vc /\ Aged(o)[k].age = pipe[o][k].age + 1
         /\ pipe[o] = <<>> <=> Len(pipe[o]) = 0
         /\ o \in Crossed => pipe[o] # <<>> /\ Tail(Aged(o)) \in Seq(InFlight)
<1>1. pipe[o] \in Seq(InFlight)
  BY DEF TypeOK
<1>2. /\ Len(pipe[o]) \in Nat /\ DOMAIN pipe[o] = 1 .. Len(pipe[o])
      /\ \A k \in 1 .. Len(pipe[o]) : pipe[o][k] \in InFlight
  BY <1>1
<1>3. Aged(o) = [k \in 1 .. Len(pipe[o]) |-> [pipe[o][k] EXCEPT !.age = @ + 1]]
  BY <1>2 DEF Aged
<1>4. \A k \in 1 .. Len(pipe[o]) :
        /\ Aged(o)[k] \in InFlight /\ Aged(o)[k].f = pipe[o][k].f
        /\ Aged(o)[k].vc = pipe[o][k].vc /\ Aged(o)[k].age = pipe[o][k].age + 1
  <2> SUFFICES ASSUME NEW k \in 1 .. Len(pipe[o])
               PROVE  /\ Aged(o)[k] \in InFlight /\ Aged(o)[k].f = pipe[o][k].f
                      /\ Aged(o)[k].vc = pipe[o][k].vc /\ Aged(o)[k].age = pipe[o][k].age + 1
    OBVIOUS
  <2>1. \A e \in InFlight :
          LET a == [e EXCEPT !.age = @ + 1]
          IN  a \in InFlight /\ a.f = e.f /\ a.vc = e.vc /\ a.age = e.age + 1
    BY DEF InFlight
  <2>2. Aged(o)[k] = [pipe[o][k] EXCEPT !.age = @ + 1]
    BY <1>3
  <2>3. pipe[o][k] \in InFlight
    BY <1>2
  <2> QED
    BY <2>1, <2>2, <2>3
<1>5. Aged(o) \in [1 .. Len(pipe[o]) -> InFlight]
  BY <1>3, <1>4
<1>6. Aged(o) \in Seq(InFlight) /\ Len(Aged(o)) = Len(pipe[o])
  BY <1>2, <1>5
<1>7. \A s \in Seq(InFlight) : s = <<>> <=> Len(s) = 0
  BY EmptySeq
<1>8. pipe[o] = <<>> <=> Len(pipe[o]) = 0
  BY <1>1, <1>7
<1>9. o \in Crossed => pipe[o] # <<>> /\ Tail(Aged(o)) \in Seq(InFlight)
  <2> SUFFICES ASSUME o \in Crossed
               PROVE  pipe[o] # <<>> /\ Tail(Aged(o)) \in Seq(InFlight)
    OBVIOUS
  <2>1. pipe[o] # <<>>
    BY DEF Crossed
  <2>2. Aged(o) # <<>>
    BY <1>6, <1>7, <1>8, <2>1
  <2> QED
    BY <1>6, <2>1, <2>2
<1> QED
  BY <1>2, <1>4, <1>6, <1>8, <1>9

LEMMA LTKeeps ==
  ASSUME TunnelOK, TypeOK, ControlInv, StageLT
  PROVE  TypeOK' /\ ControlInv'
<1>1. PICK arrive \in SUBSET InVC, back \in SUBSET OutVC : Traversed(arrive, back)
  BY Traversal
<1> USE <1>1 DEF Traversed
<1>2. flitQ' \in [InVC -> Seq(Flit)] /\ \A x \in InVC : flitQ[x] # <<>> => flitQ'[x] # <<>>
  <2> SUFFICES ASSUME NEW x \in InVC
               PROVE  flitQ'[x] \in Seq(Flit) /\ (flitQ[x] # <<>> => flitQ'[x] # <<>>)
    OBVIOUS
  <2>1. flitQ[x] \in Seq(Flit)
    BY DEF TypeOK
  <2>2. CASE x \in arrive
    <3>1. flitQ'[x] = Append(flitQ[x], coming[x]) /\ coming[x] \in Flit
      BY <2>2
    <3> QED
      BY <2>1, <3>1
  <2>3. CASE x \notin arrive
    BY <2>1, <2>3
  <2> QED
    BY <2>2, <2>3
<1>3. coming' \in [InVC -> Flit \cup {NoFlit}]
  BY BehindOK DEF TypeOK
<1>4. credit' \in [OutVC -> Int] /\ down' \in [OutVC -> Int]
  BY SMTT(30) DEF TypeOK, Takes
<1>5. pipe' \in [OutPC -> Seq(InFlight)]
  BY AgedOK
<1>6. next_stage' \in Stage
  BY Constants DEF Stage
<1>7. TypeOK'
  BY <1>2, <1>3, <1>4, <1>5, <1>6 DEF TypeOK
<1>8. ControlInv'
  <2>1. \A x \in InVC : in_mod'[x].st = "R" => flitQ'[x] # <<>>
    BY <1>2 DEF ControlInv
  <2>2. \A x \in swReq' : in_mod'[x].st \in {"V", "S"} /\ flitQ'[x] # <<>>
    BY <1>2 DEF ControlInv, TypeOK
  <2>3. \A p \in InPC : Granted(p) => Winner(p) \in InVC
    BY WinnerOK
  <2>4. ASSUME NEW p \in InPC, Granted(p)'
        PROVE  /\ in_mod'[Winner(p)'].st = "S" /\ flitQ'[Winner(p)'] # <<>> /\ Winner(p)' \notin swReq'
               /\ \A q \in InPC : Granted(q)' /\ in_mod'[Winner(q)'].out[1] = in_mod'[Winner(p)'].out[1] => q = p
    <3>1. \A q \in InPC : Granted(q)' = Granted(q) /\ Winner(q)' = Winner(q)
      BY DEF Granted, Winner
    <3>2. in_mod' = in_mod /\ swReq' = swReq
      OBVIOUS
    <3> QED
      BY <1>2, <2>3, <2>4, <3>1, <3>2 DEF ControlInv
  <2>5. next_stage'[1] = "TN"
    OBVIOUS
  <2> QED
    BY <2>1, <2>2, <2>4, <2>5 DEF ControlInv
<1> QED
  BY <1>7, <1>8

LEMMA StageAfter ==
  ASSUME TunnelOK, NEW p \in InPC, NEW s \in {"TN", "ST"}, next_stage = <<s, p>>,
         next_stage' = NextStage(next_stage)
  PROVE  /\ next_stage' \in Stage
         /\ s = "TN" => next_stage'[1] = "TN" \/ (next_stage'[1] = "ST" /\ next_stage'[2] = 0)
         /\ s = "ST" => \/ next_stage'[1] = "ST" /\ next_stage'[2] = p + 1
                        \/ next_stage'[1] = "SA" /\ \A q \in InPC : q <= p
<1>1. next_stage \in Stage /\ next_stage[1] = s /\ next_stage[2] = p
  BY DEF Stage
<1>2. next_stage' \in Stage
  BY <1>1, Constants
<1>3. ~ (p + 1 < NumIn) => \A q \in InPC : q <= p
  BY DEF InPC, TunnelOK
<1> QED
  BY <1>1, <1>2, <1>3 DEF NextStage

\* A bypassing flit disturbs no request and no grant.
LEMMA TNKeeps ==
  ASSUME TunnelOK, TypeOK, ControlInv, NEW p \in InPC, StageTN(p)
  PROVE  TypeOK' /\ ControlInv'
<1>1. /\ next_stage' \in Stage
      /\ next_stage'[1] = "TN" \/ (next_stage'[1] = "ST" /\ next_stage'[2] = 0)
  BY StageAfter DEF StageTN
<1>2. UNCHANGED <<coming, xbar, fresh, down, tunnel>>
  BY DEF StageTN
<1>3. \A q \in InPC : Granted(q)' = Granted(q) /\ Winner(q)' = Winner(q)
  BY <1>2 DEF Granted, Winner
<1>4. \A q \in InPC : ~ (q < 0)
  BY DEF InPC
<1>5. CASE ~ Bypass(p)
  <2>1. UNCHANGED <<flitQ, pipe, sent, credit, out_mod, in_mod, swReq>>
    BY <1>5 DEF StageTN
  <2>2. TypeOK'
    BY <1>1, <1>2, <2>1 DEF TypeOK
  <2>3. ControlInv'
    BY <1>1, <1>3, <1>4, <2>1 DEF ControlInv
  <2> QED
    BY <2>2, <2>3
<1>6. CASE Bypass(p)
  <2> DEFINE x == <<p, tunnel[p].vc>>
             y == tunnel[p].out
             f == Head(flitQ[x])
  <2>1. /\ x \in InVC /\ y \in OutVC /\ y[1] \in OutPC /\ flitQ[x] # <<>> /\ f \in Flit
        /\ ~ Granted(p)
        /\ IF isHead(f) THEN in_mod[x] = Idle /\ VCReservable(y)
           ELSE in_mod[x].out = y /\ in_mod[x].st \in {"V", "S"}
    BY <1>6, BypassOK
  <2>2. /\ Leave(x, y)
        /\ credit' = IF isEject(y) THEN credit ELSE [credit EXCEPT ![y] = @ - 1]
        /\ out_mod' = IF isHead(f) /\ ~ isEject(y) THEN [out_mod EXCEPT ![y] = "V"] ELSE out_mod
        /\ in_mod' = [in_mod EXCEPT ![x] = IF isTail(f) THEN Idle ELSE [st |-> "S", out |-> y]]
        /\ swReq' = IF isHead(f) THEN swReq ELSE swReq \ {x}
    BY <1>6 DEF StageTN
  <2>3. x[1] = p
    OBVIOUS
  <2> HIDE DEF x, y
  <2>4. /\ flitQ' \in [InVC -> Seq(Flit)]
        /\ \A z \in InVC : z # x => flitQ'[z] = flitQ[z]
        /\ pipe' \in [OutPC -> Seq(InFlight)]
        /\ sent' \in [OutVC -> Seq(Flit)]
    BY <2>1, <2>2, LeaveOK
  <2>5. /\ in_mod' \in [InVC -> Mod]
        /\ in_mod'[x].st \in {"I", "S"}
        /\ \A z \in InVC : z # x => in_mod'[z] = in_mod[z]
    <3>1. Idle \in Mod /\ [st |-> "S", out |-> y] \in Mod
      BY <2>1 DEF Mod
    <3>2. Idle.st = "I" /\ [st |-> "S", out |-> y].st = "S"
      BY DEF Idle
    <3> DEFINE m == IF isTail(f) THEN Idle ELSE [st |-> "S", out |-> y]
    <3>3. m \in Mod /\ m.st \in {"I", "S"}
      BY <3>1, <3>2
    <3>4. in_mod' = [in_mod EXCEPT ![x] = m]
      BY <2>2
    <3> HIDE DEF m
    <3>5. in_mod \in [InVC -> Mod]
      BY DEF TypeOK
    <3> QED
      BY <2>1, <3>3, <3>4, <3>5
  <2>6. credit' \in [OutVC -> Int] /\ out_mod' \in [OutVC -> {"I", "V"}] /\ swReq' \subseteq InVC
    BY <2>1, <2>2 DEF TypeOK
  <2>7. TypeOK'
    BY <1>1, <1>2, <2>4, <2>5, <2>6 DEF TypeOK
  <2>8. \A z \in swReq' : z \in swReq /\ z # x
    <3>1. isHead(f) => x \notin swReq
      BY <2>1 DEF ControlInv, Idle
    <3> QED
      BY <2>2, <3>1
  <2>9. \A q \in InPC : Granted(q) =>
          Winner(q) \in InVC /\ in_mod'[Winner(q)] = in_mod[Winner(q)] /\ flitQ'[Winner(q)] = flitQ[Winner(q)]
    <3> SUFFICES ASSUME NEW q \in InPC, Granted(q)
                 PROVE  Winner(q) \in InVC /\ Winner(q) # x
      BY <2>4, <2>5
    <3>1. Winner(q)[1] = q
      BY DEF Winner
    <3> QED
      BY <2>1, <2>3, <3>1, WinnerOK
  <2>10. \A z \in InVC : in_mod'[z].st = "R" => flitQ'[z] # <<>>
    BY <2>4, <2>5, ZenonT(60) DEF ControlInv
  <2>11. \A z \in swReq' : in_mod'[z].st \in {"V", "S"} /\ flitQ'[z] # <<>>
    BY <2>4, <2>5, <2>6, <2>8, ZenonT(60) DEF ControlInv
  <2>12. \A q \in InPC : Granted(q)' =>
           /\ in_mod'[Winner(q)'].st = "S" /\ flitQ'[Winner(q)'] # <<>> /\ Winner(q)' \notin swReq'
           /\ \A r \in InPC : Granted(r)' /\ in_mod'[Winner(r)'].out[1] = in_mod'[Winner(q)'].out[1] => r = q
    BY <1>3, <2>8, <2>9 DEF ControlInv
  <2>13. ControlInv'
    BY <1>1, <1>4, <2>10, <2>11, <2>12 DEF ControlInv
  <2> QED
    BY <2>7, <2>13
<1> QED
  BY <1>5, <1>6

\* What the switch has granted at a port is used up.
LEMMA STKeeps ==
  ASSUME TunnelOK, TypeOK, ControlInv, NEW p \in InPC, StageST(p)
  PROVE  TypeOK' /\ ControlInv'
<1>1. /\ next_stage' \in Stage /\ next_stage = <<"ST", p>>
      /\ \/ next_stage'[1] = "ST" /\ next_stage'[2] = p + 1
         \/ next_stage'[1] = "SA" /\ \A q \in InPC : q <= p
  BY StageAfter DEF StageST
<1>2. UNCHANGED <<coming, credit, swReq, fresh, down, tunnel>> /\ xbar' = [xbar EXCEPT ![p] = INVALID_VC]
  BY DEF StageST
<1>3. \A q \in InPC : IF q = p THEN ~ Granted(q)' ELSE Granted(q)' = Granted(q) /\ Winner(q)' = Winner(q)
  BY <1>2 DEF Granted, Winner, TypeOK
<1>4. xbar' \in [InPC -> VC \cup {INVALID_VC}]
  BY <1>2 DEF TypeOK
<1>5. /\ next_stage'[1] = "ST" => \A q \in InPC : q < next_stage'[2] => ~ Granted(q)'
      /\ next_stage'[1] = "SA" => \A q \in InPC : ~ Granted(q)'
  <2>1. \A q \in InPC : q < p => ~ Granted(q)
    BY <1>1 DEF ControlInv
  <2>2. InPC \in SUBSET Nat
    BY Constants
  <2>3. \A q \in InPC : q <= p => ~ Granted(q)'
    BY <1>3, <2>1, <2>2
  <2>4. \A q \in InPC : q < p + 1 => q <= p
    BY <2>2
  <2> QED
    BY <1>1, <2>3, <2>4
<1>6. CASE ~ Granted(p)
  <2>1. UNCHANGED <<flitQ, pipe, sent, in_mod, out_mod>>
    BY <1>6 DEF StageST, Granted
  <2>2. TypeOK'
    BY <1>1, <1>2, <1>4, <2>1 DEF TypeOK
  <2>3. ControlInv'
    BY <1>2, <1>3, <1>5, <2>1 DEF ControlInv
  <2> QED
    BY <2>2, <2>3
<1>7. CASE Granted(p)
  <2> DEFINE x == Winner(p)
             y == in_mod[x].out
  <2>1. x \in InVC /\ y \in OutVC /\ y[1] \in OutPC /\ flitQ[x] # <<>> /\ x \notin swReq /\ x[1] = p
        /\ in_mod[x] = [st |-> "S", out |-> y]
    BY <1>7, WinnerOK DEF ControlInv, Winner
  <2>2. /\ Leave(x, y)
        /\ in_mod' = IF isTail(Head(flitQ[x])) THEN [in_mod EXCEPT ![x] = Idle] ELSE in_mod
        /\ out_mod' = IF isTail(Head(flitQ[x])) THEN [out_mod EXCEPT ![y] = "I"] ELSE out_mod
    BY <1>7 DEF StageST, Granted, Winner
  <2> HIDE DEF x, y
  <2>3. /\ flitQ' \in [InVC -> Seq(Flit)]
        /\ \A z \in InVC : z # x => flitQ'[z] = flitQ[z]
        /\ pipe' \in [OutPC -> Seq(InFlight)]
        /\ sent' \in [OutVC -> Seq(Flit)]
    BY <2>1, <2>2, LeaveOK
  <2>4. /\ in_mod' \in [InVC -> Mod]
        /\ in_mod'[x].st \in {"I", "S"}
        /\ \A z \in InVC : z # x => in_mod'[z] = in_mod[z]
    <3>1. Idle \in Mod /\ Idle.st = "I"
      BY DEF Mod, Idle
    <3>2. in_mod \in [InVC -> Mod] /\ in_mod[x].st = "S"
      BY <2>1 DEF TypeOK
    <3> QED
      BY <2>1, <2>2, <3>1, <3>2
  <2>5. out_mod' \in [OutVC -> {"I", "V"}]
    BY <2>1, <2>2 DEF TypeOK
  <2>6. TypeOK'
    BY <1>1, <1>2, <1>4, <2>3, <2>4, <2>5 DEF TypeOK
  <2>7. \A q \in InPC : Granted(q)' =>
          /\ Granted(q) /\ Winner(q)' = Winner(q) /\ Winner(q) \in InVC
          /\ in_mod'[Winner(q)] = in_mod[Winner(q)] /\ flitQ'[Winner(q)] = flitQ[Winner(q)]
    <3> SUFFICES ASSUME NEW q \in InPC, Granted(q)'
                 PROVE  Granted(q) /\ Winner(q)' = Winner(q) /\ Winner(q) \in InVC /\ Winner(q) # x
      BY <2>3, <2>4
    <3>1. q # p /\ Granted(q) /\ Winner(q)' = Winner(q)
      BY <1>3
    <3>2. Winner(q)[1] = q
      BY DEF Winner
    <3> QED
      BY <2>1, <3>1, <3>2, WinnerOK
  <2>8. \A z \in InVC : in_mod'[z].st = "R" => flitQ'[z] # <<>>
    BY <2>3, <2>4 DEF ControlInv
  <2>9. \A z \in swReq' : in_mod'[z].st \in {"V", "S"} /\ flitQ'[z] # <<>>
    BY <1>2, <2>1, <2>3, <2>4, ZenonT(60) DEF ControlInv, TypeOK
  <2>10. \A q \in InPC : Granted(q)' =>
           /\ in_mod'[Winner(q)'].st = "S" /\ flitQ'[Winner(q)'] # <<>> /\ Winner(q)' \notin swReq'
           /\ \A r \in InPC : Granted(r)' /\ in_mod'[Winner(r)'].out[1] = in_mod'[Winner(q)'].out[1] => r = q
    BY <1>2, <2>7 DEF ControlInv
  <2>11. ControlInv'
    BY <1>5, <2>8, <2>9, <2>10 DEF ControlInv
  <2> QED
    BY <2>6, <2>11
<1> QED
  BY <1>6, <1>7

\* What the switch grants.
Switched(req, won) ==
  /\ \A x \in req : x \in InVC /\ in_mod[x].st \in {"V", "S"} /\ flitQ[x] # <<>>
  /\ won \subseteq req
  /\ \A x, z \in won : x = z \/ (x[1] # z[1] /\ in_mod[x].out[1] # in_mod[z].out[1])
  /\ swReq' = req \ won
  /\ xbar' = [p \in InPC |-> IF \E x \in won : x[1] = p
                             THEN (CHOOSE x \in won : x[1] = p)[2] ELSE INVALID_VC]
  /\ credit' = [y \in OutVC |->
       credit[y] - (IF ~ isEject(y) /\ (\E x \in won : in_mod[x].out = y) THEN 1 ELSE 0)]
  /\ in_mod' = [x \in InVC |-> IF x \in won THEN [in_mod[x] EXCEPT !.st = "S"] ELSE in_mod[x]]
  /\ next_stage = <<"SA", 0>> /\ next_stage' = <<"VA", 0>>
  /\ UNCHANGED <<coming, flitQ, out_mod, pipe, down, tunnel, sent>>

LEMMA Switching ==
  ASSUME TypeOK, ControlInv, StageSA
  PROVE  \E req, won \in SUBSET InVC : Switched(req, won)
<1> DEFINE body(x) == flitQ[x] # <<>> /\ ~ isHead(Head(flitQ[x])) /\ in_mod[x].st = "S"
           req == swReq \cup {x \in InVC : body(x)}
           able == {x \in req : isEject(in_mod[x].out) \/ hasCredit(in_mod[x].out)}
<1>1. PICK won \in SUBSET able :
        /\ \A x, z \in won : x = z \/ (x[1] # z[1] /\ in_mod[x].out[1] # in_mod[z].out[1])
        /\ swReq' = req \ won
        /\ xbar' = [p \in InPC |-> IF \E x \in won : x[1] = p
                                   THEN (CHOOSE x \in won : x[1] = p)[2] ELSE INVALID_VC]
        /\ credit' = [y \in OutVC |->
             credit[y] - (IF ~ isEject(y) /\ (\E x \in won : in_mod[x].out = y) THEN 1 ELSE 0)]
        /\ in_mod' = [x \in InVC |-> IF x \in won THEN [in_mod[x] EXCEPT !.st = "S"] ELSE in_mod[x]]
  BY Zenon DEF StageSA
<1>2. \A x \in req : x \in InVC /\ in_mod[x].st \in {"V", "S"} /\ flitQ[x] # <<>>
  BY DEF ControlInv, TypeOK
<1>3. /\ next_stage = <<"SA", 0>> /\ next_stage' = <<"VA", 0>>
      /\ UNCHANGED <<coming, flitQ, out_mod, pipe, down, tunnel, sent>>
  BY DEF StageSA
<1>4. won \subseteq req
  OBVIOUS
<1> HIDE DEF req, able
<1>5. Switched(req, won)
  BY <1>1, <1>2, <1>3, <1>4 DEF Switched
<1>6. req \in SUBSET InVC /\ won \in SUBSET InVC
  BY <1>2, <1>4
<1> QED
  BY <1>5, <1>6

LEMMA SwitchedOK ==
  ASSUME TunnelOK, TypeOK, NEW req \in SUBSET InVC, NEW won \in SUBSET InVC, Switched(req, won)
  PROVE  /\ \A p \in InPC : Granted(p)' => Winner(p)' \in won
         /\ \A x \in won : x[1] \in InPC /\ Granted(x[1])' /\ Winner(x[1])' = x
         /\ \A x \in InVC : /\ in_mod'[x].st = (IF x \in won THEN "S" ELSE in_mod[x].st)
                            /\ in_mod'[x].out = in_mod[x].out
         /\ in_mod' \in [InVC -> Mod]
         /\ xbar' \in [InPC -> VC \cup {INVALID_VC}]
<1>1. \A x \in InVC : x[1] \in InPC /\ x[2] \in VC /\ x = <<x[1], x[2]>> /\ x[2] # INVALID_VC
  BY Constants DEF InVC
<1>2. ASSUME NEW p \in InPC
      PROVE  /\ xbar'[p] \in VC \cup {INVALID_VC}
             /\ Granted(p)' <=> \E x \in won : x[1] = p
             /\ \A x \in won : x[1] = p => Winner(p)' = x
  <2>1. CASE \E x \in won : x[1] = p
    <3>1. PICK x \in won : x[1] = p
      BY <2>1
    <3>2. \A z \in won : z[1] = p => z = x
      BY <3>1 DEF Switched
    <3>3. (CHOOSE z \in won : z[1] = p) = x
      BY <3>1, <3>2
    <3>4. xbar'[p] = x[2]
      BY <3>1, <3>3 DEF Switched
    <3> QED
      BY <1>1, <3>1, <3>2, <3>4 DEF Granted, Winner
  <2>2. CASE ~ \E x \in won : x[1] = p
    BY <2>2 DEF Switched, Granted
  <2> QED
    BY <2>1, <2>2
<1>3. \A x \in InVC : /\ in_mod'[x] \in Mod
                      /\ in_mod'[x].st = (IF x \in won THEN "S" ELSE in_mod[x].st)
                      /\ in_mod'[x].out = in_mod[x].out
  <2> SUFFICES ASSUME NEW x \in InVC
               PROVE  /\ in_mod'[x] \in Mod
                      /\ in_mod'[x].st = (IF x \in won THEN "S" ELSE in_mod[x].st)
                      /\ in_mod'[x].out = in_mod[x].out
    OBVIOUS
  <2>1. CASE x \in won
    <3>1. in_mod[x].st \in {"V", "S"}
      BY <2>1 DEF Switched
    <3>2. in_mod[x].out \in OutVC /\ in_mod[x] = [st |-> in_mod[x].st, out |-> in_mod[x].out]
      BY <3>1, ModeOf
    <3>3. in_mod'[x] = [in_mod[x] EXCEPT !.st = "S"]
      BY <2>1 DEF Switched
    <3>4. in_mod'[x] = [st |-> "S", out |-> in_mod[x].out]
      BY <3>2, <3>3
    <3> QED
      BY <2>1, <3>2, <3>4 DEF Mod
  <2>2. CASE x \notin won
    <3>1. in_mod'[x] = in_mod[x]
      BY <2>2 DEF Switched
    <3> QED
      BY <2>2, <3>1 DEF TypeOK
  <2> QED
    BY <2>1, <2>2
<1>4. in_mod' \in [InVC -> Mod]
  BY <1>3 DEF Switched
<1>5. xbar' \in [InPC -> VC \cup {INVALID_VC}]
  BY <1>2 DEF Switched
<1> QED
  BY <1>1, <1>2, <1>3, <1>4, <1>5

LEMMA SAKeeps ==
  ASSUME TunnelOK, TypeOK, ControlInv, StageSA
  PROVE  TypeOK' /\ ControlInv'
<1>1. PICK req, won \in SUBSET InVC : Switched(req, won)
  BY Switching
<1>2. /\ \A p \in InPC : Granted(p)' => Winner(p)' \in won
      /\ \A x \in won : Granted(x[1])' /\ Winner(x[1])' = x
      /\ \A x \in InVC : /\ in_mod'[x].st = (IF x \in won THEN "S" ELSE in_mod[x].st)
                         /\ in_mod'[x].out = in_mod[x].out
      /\ in_mod' \in [InVC -> Mod]
      /\ xbar' \in [InPC -> VC \cup {INVALID_VC}]
  BY <1>1, SwitchedOK
<1>3. /\ \A x \in req : x \in InVC /\ in_mod[x].st \in {"V", "S"} /\ flitQ[x] # <<>>
      /\ won \subseteq req /\ swReq' = req \ won
      /\ \A x, z \in won : x = z \/ (x[1] # z[1] /\ in_mod[x].out[1] # in_mod[z].out[1])
      /\ next_stage' = <<"VA", 0>>
      /\ UNCHANGED <<coming, flitQ, out_mod, pipe, down, tunnel, sent>>
  BY <1>1 DEF Switched
<1>4. credit' \in [OutVC -> Int]
  BY <1>1 DEF Switched, TypeOK
<1>5. next_stage' \in Stage
  BY <1>3, Constants DEF Stage
<1>6. TypeOK'
  BY <1>2, <1>3, <1>4, <1>5 DEF TypeOK
<1>7. \A x \in InVC : in_mod'[x].st = "R" => flitQ'[x] # <<>>
  BY <1>2, <1>3 DEF ControlInv
<1>8. \A x \in swReq' : in_mod'[x].st \in {"V", "S"} /\ flitQ'[x] # <<>>
  BY <1>2, <1>3
<1>9. ASSUME NEW p \in InPC, Granted(p)'
      PROVE  /\ in_mod'[Winner(p)'].st = "S" /\ flitQ'[Winner(p)'] # <<>> /\ Winner(p)' \notin swReq'
             /\ \A q \in InPC : Granted(q)' /\ in_mod'[Winner(q)'].out[1] = in_mod'[Winner(p)'].out[1] => q = p
  <2>1. PICK x \in won : x = Winner(p)'
    BY <1>2, <1>9
  <2>2. x[1] = p
    BY <2>1 DEF Winner
  <2>3. in_mod'[x].st = "S" /\ flitQ'[x] # <<>> /\ x \notin swReq'
    BY <1>2, <1>3
  <2>4. ASSUME NEW q \in InPC, Granted(q)', in_mod'[Winner(q)'].out[1] = in_mod'[x].out[1]
        PROVE  q = p
    <3>1. PICK z \in won : z = Winner(q)'
      BY <1>2, <2>4
    <3>2. z[1] = q
      BY <3>1 DEF Winner
    <3>3. in_mod[z].out[1] = in_mod[x].out[1]
      BY <1>2, <2>4, <3>1
    <3> QED
      BY <1>3, <2>2, <3>2, <3>3
  <2> QED
    BY <2>1, <2>3, <2>4
<1>10. ControlInv'
  BY <1>3, <1>7, <1>8, <1>9 DEF ControlInv
<1> QED
  BY <1>6, <1>10

\* VC allocation serves a request, or there is none that it can serve.
Served(x, y) ==
  /\ x \in InVC /\ y \in OutVC /\ in_mod[x].st = "R" /\ out_mod[y] = "I" /\ flitQ[x] # <<>>
  /\ in_mod' = [in_mod EXCEPT ![x] = [st |-> "V", out |-> y]]
  /\ out_mod' = [out_mod EXCEPT ![y] = "V"]
  /\ swReq' = swReq \cup {x}
  /\ next_stage' = next_stage
  /\ tunnel' \in [InPC -> Way]

LEMMA Allocation ==
  ASSUME TunnelOK, TypeOK, ControlInv, StageVA
  PROVE  /\ next_stage = <<"VA", 0>>
         /\ UNCHANGED <<coming, flitQ, credit, xbar, pipe, down, sent>>
         /\ \/ \E x \in InVC, y \in OutVC : Served(x, y)
            \/ next_stage' = <<"RC", 0>> /\ UNCHANGED <<in_mod, out_mod, swReq, tunnel>>
<1> DEFINE free(o) == {vc \in VC : out_mod[<<o, vc>>] = "I"}
           served == {x \in InVC : in_mod[x].st = "R" /\ free(in_mod[x].out[1]) # {}}
<1>1. /\ next_stage = <<"VA", 0>>
      /\ UNCHANGED <<coming, flitQ, credit, xbar, pipe, down, sent>>
  BY DEF StageVA
<1>2. CASE served = {}
  BY <1>1, <1>2 DEF StageVA
<1>3. CASE served # {}
  <2>1. PICK x \in served :
          LET y == <<in_mod[x].out[1], Min(free(in_mod[x].out[1]))>>
              pkt == Traffic[Head(flitQ[x]).p]
          IN  /\ in_mod' = [in_mod EXCEPT ![x] = [st |-> "V", out |-> y]]
              /\ out_mod' = [out_mod EXCEPT ![y] = "V"]
              /\ swReq' = swReq \cup {x}
              /\ tunnel' = [tunnel EXCEPT ![x[1]] =
                   [vc |-> x[2], out |-> y, src |-> pkt.src, dest |-> pkt.dest]]
              /\ UNCHANGED next_stage
    BY <1>3 DEF StageVA
  <2> DEFINE o == in_mod[x].out[1]
             y == <<o, Min(free(o))>>
             pkt == Traffic[Head(flitQ[x]).p]
             t == [vc |-> x[2], out |-> y, src |-> pkt.src, dest |-> pkt.dest]
  <2>2. x \in InVC /\ in_mod[x].st = "R" /\ free(o) # {}
    OBVIOUS
  <2>3. o \in OutPC
    <3>1. in_mod[x].out \in OutPC \X {INVALID_VC}
      BY <2>2, ModeOf
    <3> QED
      BY <3>1
  <2>4. free(o) \in SUBSET Nat
    BY Constants
  <2> HIDE DEF free
  <2>5. Min(free(o)) \in free(o)
    BY <2>2, <2>4, MinIn
  <2>6. y \in OutVC /\ out_mod[y] = "I"
    BY <2>3, <2>5 DEF OutVC, free
  <2>7. flitQ[x] # <<>> /\ flitQ[x] \in Seq(Flit)
    BY <2>2 DEF ControlInv, TypeOK
  <2>8. Head(flitQ[x]) \in Flit
    BY <2>7
  <2>9. Head(flitQ[x]).p \in Packet
    BY <2>8 DEF Flit
  <2>10. x[1] \in InPC /\ x[2] \in VC
    BY <2>2 DEF InVC
  <2> HIDE DEF o, y
  <2>11. t \in Way
    BY <2>6, <2>9, <2>10 DEF Way
  <2>12. tunnel' = [tunnel EXCEPT ![x[1]] = t]
    BY <2>1 DEF y, o
  <2> HIDE DEF t
  <2>13. tunnel' \in [InPC -> Way]
    BY <2>10, <2>11, <2>12 DEF TypeOK
  <2>14. /\ in_mod' = [in_mod EXCEPT ![x] = [st |-> "V", out |-> y]]
         /\ out_mod' = [out_mod EXCEPT ![y] = "V"]
         /\ swReq' = swReq \cup {x}
         /\ next_stage' = next_stage
    BY <2>1 DEF y, o
  <2>15. Served(x, y)
    BY <2>2, <2>6, <2>7, <2>13, <2>14 DEF Served
  <2> QED
    BY <1>1, <2>2, <2>6, <2>15, SMTT(30)
<1> QED
  BY <1>2, <1>3

LEMMA VAKeeps ==
  ASSUME TunnelOK, TypeOK, ControlInv, StageVA
  PROVE  TypeOK' /\ ControlInv'
<1>1. /\ next_stage = <<"VA", 0>>
      /\ UNCHANGED <<coming, flitQ, credit, xbar, pipe, down, sent>>
  BY Allocation
<1>2. \A q \in InPC : Granted(q)' = Granted(q) /\ Winner(q)' = Winner(q)
  BY <1>1 DEF Granted, Winner
<1>3. CASE next_stage' = <<"RC", 0>> /\ UNCHANGED <<in_mod, out_mod, swReq, tunnel>>
  <2>1. next_stage' \in Stage
    BY <1>3, Constants DEF Stage
  <2>2. TypeOK'
    BY <1>1, <1>3, <2>1 DEF TypeOK
  <2>3. ControlInv'
    BY <1>1, <1>2, <1>3 DEF ControlInv
  <2> QED
    BY <2>2, <2>3
<1>4. CASE \E x \in InVC, y \in OutVC : Served(x, y)
  <2>1. PICK x \in InVC, y \in OutVC : Served(x, y)
    BY <1>4
  <2>2. [st |-> "V", out |-> y] \in Mod
    BY DEF Mod
  <2>3. /\ in_mod' \in [InVC -> Mod] /\ in_mod'[x].st = "V"
        /\ \A z \in InVC : z # x => in_mod'[z] = in_mod[z]
    BY <2>1, <2>2 DEF Served, TypeOK
  <2>4. out_mod' \in [OutVC -> {"I", "V"}] /\ swReq' \subseteq InVC /\ tunnel' \in [InPC -> Way]
    BY <2>1 DEF Served, TypeOK
  <2>5. next_stage' \in Stage /\ next_stage'[1] = "VA"
    BY <1>1, <2>1 DEF Served, TypeOK
  <2>6. TypeOK'
    BY <1>1, <2>3, <2>4, <2>5 DEF TypeOK
  <2>7. \A q \in InPC : Granted(q) =>
          Winner(q) \in InVC /\ Winner(q) # x /\ in_mod'[Winner(q)] = in_mod[Winner(q)]
    <3>1. in_mod[x].st = "R"
      BY <2>1 DEF Served
    <3> QED
      BY <2>3, <3>1, WinnerOK DEF ControlInv
  <2>8. \A z \in InVC : in_mod'[z].st = "R" => flitQ'[z] # <<>>
    BY <1>1, <2>3 DEF ControlInv
  <2>9. \A z \in swReq' : in_mod'[z].st \in {"V", "S"} /\ flitQ'[z] # <<>>
    <3>1. swReq' = swReq \cup {x} /\ flitQ[x] # <<>>
      BY <2>1 DEF Served
    <3> QED
      BY <1>1, <2>3, <2>4, <3>1 DEF ControlInv
  <2>10. \A q \in InPC : Granted(q)' =>
           /\ in_mod'[Winner(q)'].st = "S" /\ flitQ'[Winner(q)'] # <<>> /\ Winner(q)' \notin swReq'
           /\ \A r \in InPC : Granted(r)' /\ in_mod'[Winner(r)'].out[1] = in_mod'[Winner(q)'].out[1] => r = q
    <3>1. swReq' = swReq \cup {x}
      BY <2>1 DEF Served
    <3> QED
      BY <1>1, <1>2, <2>7, <3>1 DEF ControlInv
  <2>11. ControlInv'
    BY <2>5, <2>8, <2>9, <2>10 DEF ControlInv
  <2> QED
    BY <2>6, <2>11
<1> QED
  BY <1>3, <1>4, Allocation

LEMMA RCKeeps ==
  ASSUME TunnelOK, TypeOK, ControlInv, StageRC
  PROVE  TypeOK' /\ ControlInv'
<1> DEFINE routable(x) == /\ in_mod[x].st = "I" /\ flitQ[x] # <<>> /\ ~ (x \in fresh /\ Len(flitQ[x]) = 1)
                          /\ isHead(Head(flitQ[x]))
           way(x) == [st |-> "R", out |-> <<Traffic[Head(flitQ[x]).p].out_pc, INVALID_VC>>]
<1>1. /\ in_mod' = [x \in InVC |-> IF routable(x) THEN way(x) ELSE in_mod[x]]
      /\ next_stage' = <<"LT", 0>>
      /\ UNCHANGED <<coming, flitQ, out_mod, credit, swReq, xbar, pipe, down, tunnel, sent>>
  BY Zenon DEF StageRC
<1>2. \A x \in InVC : routable(x) => way(x) \in Mod /\ way(x).st = "R" /\ in_mod[x].st = "I" /\ flitQ[x] # <<>>
  <2> SUFFICES ASSUME NEW x \in InVC, routable(x)
               PROVE  way(x) \in Mod
    BY Zenon
  <2>1. flitQ[x] \in Seq(Flit) /\ flitQ[x] # <<>>
    BY DEF TypeOK
  <2>2. Head(flitQ[x]) \in Flit
    BY <2>1
  <2>3. Head(flitQ[x]).p \in DOMAIN Traffic
    BY <2>2 DEF Flit, Packet
  <2>4. Traffic[Head(flitQ[x]).p].out_pc \in OutPC
    BY <2>3 DEF TunnelOK
  <2> QED
    BY <2>4 DEF Mod
<1> HIDE DEF routable, way
<1>3. \A x \in InVC : in_mod'[x] = IF routable(x) THEN way(x) ELSE in_mod[x]
  BY <1>1
<1>4. in_mod' \in [InVC -> Mod]
  BY <1>1, <1>2 DEF TypeOK
<1>5. next_stage' \in Stage
  BY <1>1, Constants DEF Stage
<1>6. TypeOK'
  BY <1>1, <1>4, <1>5 DEF TypeOK
<1>7. \A q \in InPC : Granted(q)' = Granted(q) /\ Winner(q)' = Winner(q)
  BY <1>1 DEF Granted, Winner
<1>8. \A q \in InPC : Granted(q) => in_mod'[Winner(q)] = in_mod[Winner(q)]
  BY <1>2, <1>3, WinnerOK DEF ControlInv
<1>9. \A x \in InVC : in_mod'[x].st = "R" => flitQ'[x] # <<>>
  BY <1>1, <1>2, <1>3 DEF ControlInv
<1>10. \A x \in swReq' : in_mod'[x].st \in {"V", "S"} /\ flitQ'[x] # <<>>
  BY <1>1, <1>2, <1>3 DEF ControlInv, TypeOK
<1>11. ControlInv'
  BY <1>1, <1>7, <1>8, <1>9, <1>10, SMTT(30) DEF ControlInv
<1> QED
  BY <1>6, <1>11

LEMMA SafeOfInit ==
  ASSUME TunnelOK, Init
  PROVE  ControlInv
<1>1. \A x \in InVC : in_mod[x].st = "I"
  BY DEF Init, Idle
<1>2. \A p \in InPC : ~ Granted(p)
  BY DEF Init, Granted
<1> QED
  BY <1>1, <1>2 DEF Init, ControlInv

LEMMA RouterKeeps ==
  ASSUME TunnelOK, TypeOK, ControlInv, [Next]_vars
  PROVE  TypeOK' /\ ControlInv'
<1>1. CASE UNCHANGED vars
  <2>1. UNCHANGED <<coming, flitQ, in_mod, out_mod, credit, swReq, xbar, pipe, down, tunnel, sent, next_stage>>
    BY <1>1 DEF vars
  <2>2. \A q \in InPC : Granted(q)' = Granted(q) /\ Winner(q)' = Winner(q)
    BY <2>1 DEF Granted, Winner
  <2> QED
    BY <2>1, <2>2 DEF TypeOK, ControlInv
<1>2. CASE Next
  BY <1>2, LTKeeps, TNKeeps, STKeeps, SAKeeps, VAKeeps, RCKeeps DEF Next
<1> QED
  BY <1>1, <1>2

\* Safety of the router's control.
LEMMA Router == TunnelOK /\ Spec => [](TypeOK /\ ControlInv)
<1>1. TunnelOK /\ Init => TypeOK /\ ControlInv
  BY TypesOfInit, SafeOfInit
<1>2. TunnelOK /\ (TypeOK /\ ControlInv) /\ [Next]_vars => (TypeOK /\ ControlInv)'
  BY RouterKeeps
<1>3. TunnelOK => TunnelOK'
  BY DEF TunnelOK
<1> QED
  BY <1>1, <1>2, <1>3, PTL DEF Spec

-----------------------------------------------------------------------------
(* Packets.  What came before: the last flit that left each input VC and the *)
(* last one that came into it.                                              *)

Past == [InVC -> Flit \cup {NoFlit}]

\* A packet has ended with f, or there has been none.
Ended(f) == f = NoFlit \/ isTail(f)

\* Flit g may come after f.
After(f, g) == IF Ended(f) THEN isHead(g) ELSE g.p = f.p /\ g.n = f.n + 1

\* The same flits may come after a and b.
Same(a, b) == a = b \/ (Ended(a) /\ Ended(b))

\* The flits of q come one after the other, after a, and b is the last of them.
InBuffer(a, q, b) ==
  /\ q = <<>> => a = b
  /\ q # <<>> => After(a, q[1]) /\ b = q[Len(q)]
  /\ \A k \in 1 .. Len(q) - 1 : After(q[k], q[k + 1])

\* So do the last two of an output VC.
LastOf(s) == IF s = <<>> THEN NoFlit ELSE s[Len(s)]

InOrder(s) ==
  /\ Len(s) <= 2
  /\ Len(s) = 1 => isHead(s[1])
  /\ Len(s) = 2 => After(s[1], s[2])

Holds(x, y) == in_mod[x].st \in {"V", "S"} /\ in_mod[x].out = y

Stored(left, landed) ==
  \A x \in InVC :
    /\ InBuffer(left[x], flitQ[x], landed[x])
    /\ coming[x] # NoFlit => After(landed[x], coming[x])
    /\ in_mod[x].st \in {"I", "R", "V"} => Ended(left[x])

\* A free output VC is between two packets and nobody's; the one holder of
\* another has sent what it carries, whichever way.
Fed(left) ==
  \A y \in OutVC : ~ isEject(y) =>
    /\ InOrder(sent[y])
    /\ out_mod[y] = "I" => Ended(LastOf(sent[y])) /\ \A x \in InVC : ~ Holds(x, y)
    /\ \A x \in InVC : Holds(x, y) =>
         Same(left[x], LastOf(sent[y])) /\ \A z \in InVC : Holds(z, y) => z = x

\* The inductive invariant: there is such a past.
PacketInv == \E left, landed \in Past : Stored(left, landed) /\ Fed(left)

LEMMA SameAfter ==
  ASSUME NEW a, NEW b, NEW f, Same(a, b), After(a, f)
  PROVE  After(b, f)
BY DEF Same, After

LEMMA BufferGrows ==
  ASSUME NEW a, NEW b, NEW q \in Seq(Flit), NEW f \in Flit, InBuffer(a, q, b), After(b, f)
  PROVE  InBuffer(a, Append(q, f), f)
<1> DEFINE t == Append(q, f)
           n == Len(q)
<1>1. /\ n \in Nat /\ Len(t) = n + 1 /\ t # <<>> /\ t[n + 1] = f
      /\ \A k \in 1 .. n : t[k] = q[k]
      /\ q = <<>> <=> n = 0
  OBVIOUS
<1>2. /\ n = 0 => a = b
      /\ n # 0 => After(a, q[1]) /\ b = q[n]
      /\ \A k \in 1 .. n - 1 : After(q[k], q[k + 1])
  BY <1>1 DEF InBuffer
<1> HIDE DEF t, n
<1>3. After(a, t[1])
  BY <1>1, <1>2
<1>4. \A k \in 1 .. n : After(t[k], t[k + 1])
  BY <1>1, <1>2
<1> QED
  BY <1>1, <1>3, <1>4 DEF InBuffer, t

LEMMA BufferShrinks ==
  ASSUME NEW a, NEW b, NEW q \in Seq(Flit), q # <<>>, InBuffer(a, q, b)
  PROVE  After(a, Head(q)) /\ InBuffer(Head(q), Tail(q), b)
<1> DEFINE t == Tail(q)
           n == Len(q)
<1>1. /\ n \in Nat \ {0} /\ Len(t) = n - 1 /\ Head(q) = q[1]
      /\ \A k \in 1 .. n - 1 : t[k] = q[k + 1]
      /\ t \in Seq(Flit)
  OBVIOUS
<1>2. \A x \in Seq(Flit) : x = <<>> <=> Len(x) = 0
  BY EmptySeq
<1>3. t = <<>> <=> n = 1
  <2> HIDE DEF t, n
  <2> QED
    BY <1>1, <1>2
<1>4. /\ After(a, q[1]) /\ b = q[n]
      /\ \A k \in 1 .. n - 1 : After(q[k], q[k + 1])
  BY DEF InBuffer
<1> HIDE DEF t, n
<1>5. n # 1 => After(q[1], t[1]) /\ b = t[n - 1]
  BY <1>1, <1>4
<1>6. \A k \in 1 .. n - 2 : After(t[k], t[k + 1])
  BY <1>1, <1>4
<1> QED
  BY <1>1, <1>3, <1>4, <1>5, <1>6 DEF InBuffer, t

LEMMA SentGrows ==
  ASSUME NEW s \in Seq(Flit), NEW f \in Flit, InOrder(s), After(LastOf(s), f)
  PROVE  LET t == LastTwo(Append(s, f)) IN InOrder(t) /\ LastOf(t) = f
<1> DEFINE u == Append(s, f)
           t == LastTwo(u)
           n == Len(s)
<1>1. /\ n \in Nat /\ u \in Seq(Flit) /\ Len(u) = n + 1 /\ u # <<>> /\ u[n + 1] = f
      /\ \A k \in 1 .. n : u[k] = s[k]
      /\ s = <<>> <=> n = 0
  OBVIOUS
<1>2. n <= 2
  BY DEF InOrder
<1>3. n > 0 => LastOf(s) = s[n]
  BY <1>1 DEF LastOf
<1>4. n = 0 => isHead(f)
  BY <1>1 DEF LastOf, After, Ended
<1>5. \A x \in Seq(Flit) : x = <<>> <=> Len(x) = 0
  BY EmptySeq
<1> HIDE DEF u, n
<1>6. CASE n < 2
  <2>1. t = u
    BY <1>1, <1>6 DEF LastTwo
  <2>2. LastOf(u) = f
    BY <1>1 DEF LastOf
  <2>3. n = 0 => InOrder(u)
    BY <1>1, <1>4 DEF InOrder
  <2>4. n = 1 => InOrder(u)
    BY <1>1, <1>3 DEF InOrder
  <2> QED
    BY <1>1, <1>6, <2>1, <2>2, <2>3, <2>4 DEF u
<1>7. CASE n = 2
  <2>1. t = Tail(u)
    BY <1>1, <1>7 DEF LastTwo
  <2>2. Len(u) = 3 /\ u[3] = f /\ u[2] = LastOf(s)
    BY <1>1, <1>3, <1>7
  <2> HIDE DEF t
  <2>3. t \in Seq(Flit) /\ Len(t) = 2 /\ t[1] = u[2] /\ t[2] = u[3]
    <3>1. \A q \in Seq(Flit) : q # <<>> =>
            /\ Tail(q) \in Seq(Flit) /\ Len(Tail(q)) = Len(q) - 1
            /\ \A k \in 1 .. Len(q) - 1 : Tail(q)[k] = q[k + 1]
      OBVIOUS
    <3>2. /\ t \in Seq(Flit) /\ Len(t) = 3 - 1
          /\ \A k \in 1 .. 3 - 1 : t[k] = u[k + 1]
      BY <1>1, <2>1, <2>2, <3>1
    <3> QED
      BY <3>2
  <2>4. LastOf(t) = f
    <3>1. Len(t) # 0 /\ t \in Seq(Flit)
      BY <2>3
    <3>2. t # <<>>
      BY <1>5, <3>1, Zenon
    <3> QED
      BY <2>2, <2>3, <3>2 DEF LastOf
  <2>5. InOrder(t)
    BY <2>2, <2>3 DEF InOrder
  <2> QED
    BY <2>4, <2>5 DEF t, u
<1> QED
  BY <1>1, <1>2, <1>6, <1>7

\* Why this keeps packets whole.
LEMMA WholeIsInOrder ==
  ASSUME TunnelOK, TypeOK, PacketInv
  PROVE  PacketsWhole
<1> SUFFICES ASSUME NEW y \in OutVC, ~ isEject(y)
             PROVE  /\ Len(sent[y]) = 1 => isHead(sent[y][1])
                    /\ Len(sent[y]) = 2 => IF isTail(sent[y][1]) THEN isHead(sent[y][2])
                                           ELSE sent[y][2] = [sent[y][1] EXCEPT !.n = @ + 1]
  BY DEF PacketsWhole
<1>1. InOrder(sent[y])
  BY DEF PacketInv, Fed
<1>2. sent[y] \in Seq(Flit)
  BY DEF TypeOK
<1>3. ASSUME Len(sent[y]) = 2
      PROVE  IF isTail(sent[y][1]) THEN isHead(sent[y][2])
             ELSE sent[y][2] = [sent[y][1] EXCEPT !.n = @ + 1]
  <2>1. sent[y][1] \in Flit /\ sent[y][2] \in Flit /\ After(sent[y][1], sent[y][2])
    BY <1>1, <1>2, <1>3 DEF InOrder
  <2> DEFINE f == sent[y][1]
             g == sent[y][2]
  <2>2. f \in Flit /\ g \in Flit /\ After(f, g)
    BY <2>1
  <2> HIDE DEF f, g
  <2>3. isTail(f) => isHead(g)
    BY <2>2 DEF After, Ended
  <2>4. ~ isTail(f) => g.p = f.p /\ g.n = f.n + 1
    BY <2>2, Constants DEF After, Ended
  <2>5. ~ isTail(f) => g = [f EXCEPT !.n = @ + 1]
    BY <2>2, <2>4 DEF Flit
  <2> QED
    BY <2>3, <2>5 DEF f, g
<1> QED
  BY <1>1, <1>3 DEF InOrder

\* A flit that leaves for the output VC of its packet keeps packets whole,
\* whichever way it takes.
LEMMA Onward ==
  ASSUME TunnelOK, TypeOK, TypeOK', NEW x \in InVC, NEW y \in OutVC, flitQ[x] # <<>>, Leave(x, y),
         NEW left \in Past, NEW landed \in Past, Stored(left, landed), Fed(left),
         in_mod' = [in_mod EXCEPT ![x] = IF isTail(Head(flitQ[x])) THEN Idle ELSE [st |-> "S", out |-> y]],
         UNCHANGED coming,
         \A z \in OutVC : z # y => out_mod'[z] = out_mod[z],
         ~ isEject(y) => /\ out_mod'[y] = "I" => isTail(Head(flitQ[x]))
                         /\ \A z \in InVC : Holds(z, y) => z = x
                         /\ After(left[x], Head(flitQ[x])) => After(LastOf(sent[y]), Head(flitQ[x]))
  PROVE  PacketInv'
<1> DEFINE f == Head(flitQ[x])
<1>1. /\ f \in Flit /\ flitQ'[x] = Tail(flitQ[x]) /\ flitQ[x] \in Seq(Flit)
      /\ \A z \in InVC : z # x => flitQ'[z] = flitQ[z]
      /\ sent'[y] = LastTwo(Append(sent[y], f))
      /\ \A z \in OutVC : z # y => sent'[z] = sent[z]
      /\ sent[y] \in Seq(Flit)
  <2>1. flitQ[x] \in Seq(Flit) /\ sent[y] \in Seq(Flit)
    BY DEF TypeOK
  <2> QED
    BY <2>1, LeaveOK, ZenonT(60)
<1>2. After(left[x], f) /\ InBuffer(f, flitQ'[x], landed[x])
  <2>1. InBuffer(left[x], flitQ[x], landed[x])
    BY DEF Stored
  <2> QED
    BY <1>1, <2>1, BufferShrinks
<1>3. ~ isEject(y) => InOrder(sent'[y]) /\ LastOf(sent'[y]) = f
  <2> SUFFICES ASSUME ~ isEject(y)
               PROVE  InOrder(sent'[y]) /\ LastOf(sent'[y]) = f
    OBVIOUS
  <2>1. InOrder(sent[y]) /\ After(LastOf(sent[y]), f)
    BY <1>2 DEF Fed
  <2> HIDE DEF f
  <2> QED
    BY <1>1, <2>1, SentGrows
<1>4. /\ ~ isEject(y) => (out_mod'[y] = "I" => isTail(f))
      /\ ~ isEject(y) => \A z \in InVC : Holds(z, y) => z = x
  OBVIOUS
<1>5. in_mod'[x] = IF isTail(f) THEN Idle ELSE [st |-> "S", out |-> y]
  BY DEF TypeOK
<1>6. \A z \in InVC : z # x => in_mod'[z] = in_mod[z]
  BY DEF TypeOK
<1> HIDE DEF f
<1>7. in_mod'[x].st \in {"I", "R", "V"} => isTail(f)
  BY <1>5
<1>8. \A z \in OutVC : Holds(x, z)' => z = y
  <2>1. Idle.st = "I"
    BY DEF Idle
  <2> QED
    BY <1>5, <2>1 DEF Holds
<1>9. \A v \in InVC, z \in OutVC : v # x => Holds(v, z)' = Holds(v, z)
  BY <1>6 DEF Holds
<1>10. PICK later \in Past : later[x] = f /\ \A z \in InVC : z # x => later[z] = left[z]
  <2>1. [left EXCEPT ![x] = f] \in Past
    BY <1>1 DEF Past
  <2>2. [left EXCEPT ![x] = f][x] = f /\ \A z \in InVC : z # x => [left EXCEPT ![x] = f][z] = left[z]
    BY DEF Past
  <2> QED
    BY <2>1, <2>2
<1>11. Stored(later, landed)'
  <2> SUFFICES ASSUME NEW z \in InVC
               PROVE  /\ InBuffer(later[z], flitQ'[z], landed[z])
                      /\ coming'[z] # NoFlit => After(landed[z], coming'[z])
                      /\ in_mod'[z].st \in {"I", "R", "V"} => Ended(later[z])
    BY DEF Stored
  <2>1. coming'[z] # NoFlit => After(landed[z], coming'[z])
    BY DEF Stored
  <2>2. CASE z = x
    BY <1>2, <1>7, <1>10, <2>1, <2>2 DEF Ended
  <2>3. CASE z # x
    BY <1>1, <1>6, <1>10, <2>1, <2>3 DEF Stored
  <2> QED
    BY <2>2, <2>3
<1>12. Fed(later)'
  <2> SUFFICES ASSUME NEW z \in OutVC, ~ isEject(z)
               PROVE  /\ InOrder(sent'[z])
                      /\ out_mod'[z] = "I" => Ended(LastOf(sent'[z])) /\ \A v \in InVC : ~ Holds(v, z)'
                      /\ \A v \in InVC : Holds(v, z)' =>
                           Same(later[v], LastOf(sent'[z])) /\ \A w \in InVC : Holds(w, z)' => w = v
    BY DEF Fed
  <2>1. CASE z # y
    <3>1. sent'[z] = sent[z] /\ out_mod'[z] = out_mod[z]
      BY <1>1, <2>1
    <3>2. \A v \in InVC : Holds(v, z)' => Holds(v, z) /\ later[v] = left[v]
      BY <1>8, <1>9, <1>10, <2>1
    <3> QED
      BY <3>1, <3>2 DEF Fed
  <2>2. CASE z = y
    <3>1. \A v \in InVC : Holds(v, y)' => v = x
      BY <1>4, <1>9, <2>2
    <3>2. isTail(f) => ~ Holds(x, y)'
      BY <1>5 DEF Holds, Idle
    <3>3. InOrder(sent'[y]) /\ LastOf(sent'[y]) = f
      BY <1>3, <2>2
    <3>4. Same(later[x], f)
      BY <1>10 DEF Same
    <3>5. out_mod'[y] = "I" => Ended(f) /\ \A v \in InVC : ~ Holds(v, y)'
      BY <1>4, <2>2, <3>1, <3>2 DEF Ended
    <3> QED
      BY <2>2, <3>1, <3>3, <3>4, <3>5
  <2> QED
    BY <2>1, <2>2
<1> QED
  BY <1>10, <1>11, <1>12 DEF PacketInv

\* Nothing that packets are made of changes.
LEMMA PacketsStay ==
  ASSUME PacketInv, UNCHANGED <<flitQ, coming, out_mod, in_mod, sent>>
  PROVE  PacketInv'
<1>1. PICK left \in Past, landed \in Past : Stored(left, landed) /\ Fed(left)
  BY DEF PacketInv
<1>2. Stored(left, landed)'
  BY <1>1 DEF Stored
<1>3. \A x, y : Holds(x, y)' = Holds(x, y)
  BY DEF Holds
<1>4. Fed(left)'
  BY <1>1, <1>3 DEF Fed
<1> QED
  BY <1>2, <1>4 DEF PacketInv

LEMMA LTWhole ==
  ASSUME TunnelOK, TypeOK, PacketInv, StageLT
  PROVE  PacketInv'
<1>1. PICK left \in Past, landed \in Past : Stored(left, landed) /\ Fed(left)
  BY DEF PacketInv
<1>2. PICK arrive \in SUBSET InVC, back \in SUBSET OutVC : Traversed(arrive, back)
  BY Traversal
<1>3. UNCHANGED <<in_mod, out_mod, sent>>
  BY <1>2 DEF Traversed
<1>4. \A x \in InVC : /\ flitQ'[x] = IF x \in arrive THEN Append(flitQ[x], coming[x]) ELSE flitQ[x]
                      /\ coming'[x] = IF x \in arrive THEN FlitBehind(x, coming[x]) ELSE coming[x]
                      /\ x \in arrive => coming[x] \in Flit
  BY <1>2 DEF Traversed
<1>5. PICK later \in Past : \A x \in InVC : later[x] = IF x \in arrive THEN coming[x] ELSE landed[x]
  <2>1. [x \in InVC |-> IF x \in arrive THEN coming[x] ELSE landed[x]] \in Past
    BY <1>4 DEF Past
  <2> QED
    BY <2>1
<1>6. Stored(left, later)'
  <2> SUFFICES ASSUME NEW x \in InVC
               PROVE  /\ InBuffer(left[x], flitQ'[x], later[x])
                      /\ coming'[x] # NoFlit => After(later[x], coming'[x])
                      /\ in_mod'[x].st \in {"I", "R", "V"} => Ended(left[x])
    BY DEF Stored
  <2>1. /\ InBuffer(left[x], flitQ[x], landed[x])
        /\ coming[x] # NoFlit => After(landed[x], coming[x])
        /\ in_mod[x].st \in {"I", "R", "V"} => Ended(left[x])
    BY <1>1 DEF Stored
  <2>2. CASE x \notin arrive
    BY <1>3, <1>4, <1>5, <2>1, <2>2
  <2>3. CASE x \in arrive
    <3>1. /\ coming[x] \in Flit /\ coming[x] # NoFlit /\ later[x] = coming[x]
          /\ flitQ'[x] = Append(flitQ[x], coming[x]) /\ coming'[x] = FlitBehind(x, coming[x])
      BY <1>4, <1>5, <2>3, Constants
    <3>2. flitQ[x] \in Seq(Flit)
      BY DEF TypeOK
    <3>3. InBuffer(left[x], flitQ'[x], later[x])
      BY <2>1, <3>1, <3>2, BufferGrows
    <3>4. coming'[x] # NoFlit => After(coming[x], coming'[x])
      <4>1. CASE isTail(coming[x])
        <5>1. coming'[x] = HeadBehind(x, coming[x].p)
          BY <3>1, <4>1 DEF FlitBehind
        <5> QED
          BY <4>1, <5>1, BehindOK DEF After, Ended
      <4>2. CASE ~ isTail(coming[x])
        <5>1. coming'[x] = [coming[x] EXCEPT !.n = @ + 1]
          BY <3>1, <4>2 DEF FlitBehind
        <5>2. coming'[x].p = coming[x].p /\ coming'[x].n = coming[x].n + 1
          BY <3>1, <5>1 DEF Flit
        <5> QED
          BY <3>1, <4>2, <5>2 DEF After, Ended
      <4> QED
        BY <4>1, <4>2
    <3> QED
      BY <1>3, <2>1, <3>1, <3>3, <3>4
  <2> QED
    BY <2>2, <2>3
<1>7. \A x, y : Holds(x, y)' = Holds(x, y)
  BY <1>3 DEF Holds
<1>8. Fed(left)'
  BY <1>1, <1>3, <1>7 DEF Fed
<1> QED
  BY <1>6, <1>8 DEF PacketInv

LEMMA TNWhole ==
  ASSUME TunnelOK, TypeOK, ControlInv, PacketInv, NEW p \in InPC, StageTN(p)
  PROVE  PacketInv'
<1>1. CASE ~ Bypass(p)
  BY <1>1, PacketsStay DEF StageTN
<1>2. CASE Bypass(p)
  <2> DEFINE x == <<p, tunnel[p].vc>>
             y == tunnel[p].out
             f == Head(flitQ[x])
  <2>1. /\ x \in InVC /\ y \in OutVC /\ flitQ[x] # <<>> /\ f \in Flit
        /\ IF isHead(f) THEN in_mod[x] = Idle /\ VCReservable(y)
           ELSE in_mod[x].out = y /\ in_mod[x].st \in {"V", "S"}
    BY <1>2, BypassOK
  <2>2. /\ Leave(x, y) /\ UNCHANGED coming
        /\ out_mod' = IF isHead(f) /\ ~ isEject(y) THEN [out_mod EXCEPT ![y] = "V"] ELSE out_mod
        /\ in_mod' = [in_mod EXCEPT ![x] = IF isTail(f) THEN Idle ELSE [st |-> "S", out |-> y]]
    BY <1>2 DEF StageTN
  <2>3. TypeOK'
    BY TNKeeps
  <2>4. PICK left \in Past, landed \in Past : Stored(left, landed) /\ Fed(left)
    BY DEF PacketInv
  <2>5. in_mod[x].st \in {"I", "R", "V"} => Ended(left[x])
    BY <2>1, <2>4 DEF Stored
  <2> HIDE DEF x, y
  <2>6. \A z \in OutVC : z # y => out_mod'[z] = out_mod[z]
    BY <2>2 DEF TypeOK
  <2>7. ASSUME ~ isEject(y)
        PROVE  /\ out_mod'[y] = "I" => isTail(f)
               /\ \A z \in InVC : Holds(z, y) => z = x
               /\ After(left[x], f) => After(LastOf(sent[y]), f)
    <3>1. CASE isHead(f)
      <4>1. out_mod[y] = "I" /\ out_mod'[y] = "V"
        BY <2>1, <2>2, <2>7, <3>1 DEF VCReservable, TypeOK
      <4>2. Ended(LastOf(sent[y])) /\ \A z \in InVC : ~ Holds(z, y)
        BY <2>1, <2>4, <2>7, <4>1 DEF Fed
      <4> QED
        BY <3>1, <4>1, <4>2 DEF After
    <3>2. CASE ~ isHead(f)
      <4>1. Holds(x, y)
        BY <2>1, <3>2 DEF Holds
      <4>2. /\ out_mod[y] # "I" /\ \A z \in InVC : Holds(z, y) => z = x
            /\ Same(left[x], LastOf(sent[y]))
        BY <2>1, <2>4, <2>7, <4>1 DEF Fed
      <4>3. out_mod' = out_mod
        BY <2>2, <3>2
      <4> QED
        BY <4>2, <4>3, SameAfter
    <3> QED
      BY <3>1, <3>2
  <2> QED
    BY <2>1, <2>2, <2>3, <2>4, <2>6, <2>7, Onward
<1> QED
  BY <1>1, <1>2

LEMMA STWhole ==
  ASSUME TunnelOK, TypeOK, ControlInv, PacketInv, NEW p \in InPC, StageST(p)
  PROVE  PacketInv'
<1>1. CASE ~ Granted(p)
  BY <1>1, PacketsStay DEF StageST, Granted
<1>2. CASE Granted(p)
  <2> DEFINE x == Winner(p)
             y == in_mod[x].out
             f == Head(flitQ[x])
  <2>1. x \in InVC /\ y \in OutVC /\ flitQ[x] # <<>> /\ in_mod[x] = [st |-> "S", out |-> y]
    BY <1>2, WinnerOK DEF ControlInv
  <2>2. /\ Leave(x, y) /\ UNCHANGED coming
        /\ in_mod' = IF isTail(f) THEN [in_mod EXCEPT ![x] = Idle] ELSE in_mod
        /\ out_mod' = IF isTail(f) THEN [out_mod EXCEPT ![y] = "I"] ELSE out_mod
    BY <1>2 DEF StageST, Granted, Winner
  <2>3. TypeOK'
    BY STKeeps
  <2>4. PICK left \in Past, landed \in Past : Stored(left, landed) /\ Fed(left)
    BY DEF PacketInv
  <2>5. Holds(x, y)
    BY <2>1 DEF Holds
  <2>6. PICK out : out = y
    OBVIOUS
  <2> HIDE DEF x, y
  <2>7. \A z \in OutVC : z # out => out_mod'[z] = out_mod[z]
    BY <2>2, <2>6 DEF TypeOK
  <2>8. ASSUME ~ isEject(out)
        PROVE  /\ out_mod'[out] = "I" => isTail(f)
               /\ \A z \in InVC : Holds(z, out) => z = x
               /\ After(left[x], f) => After(LastOf(sent[out]), f)
    <3>1. /\ out_mod[out] # "I" /\ \A z \in InVC : Holds(z, out) => z = x
          /\ Same(left[x], LastOf(sent[out]))
      BY <2>1, <2>4, <2>5, <2>6, <2>8 DEF Fed
    <3>2. ~ isTail(f) => out_mod' = out_mod
      BY <2>2
    <3> QED
      BY <3>1, <3>2, SameAfter
  <2>9. in_mod' = [in_mod EXCEPT ![x] = IF isTail(f) THEN Idle ELSE [st |-> "S", out |-> out]]
    <3>1. [in_mod EXCEPT ![x] = [st |-> "S", out |-> out]] = in_mod
      BY <2>1, <2>6 DEF TypeOK
    <3> QED
      BY <2>2, <3>1
  <2> QED
    BY <2>1, <2>2, <2>3, <2>4, <2>6, <2>7, <2>8, <2>9, Onward, ZenonT(60)
<1> QED
  BY <1>1, <1>2

LEMMA SAWhole ==
  ASSUME TunnelOK, TypeOK, ControlInv, PacketInv, StageSA
  PROVE  PacketInv'
<1>1. PICK left \in Past, landed \in Past : Stored(left, landed) /\ Fed(left)
  BY DEF PacketInv
<1>2. PICK req \in SUBSET InVC, won \in SUBSET InVC : Switched(req, won)
  BY Switching
<1>3. /\ UNCHANGED <<coming, flitQ, out_mod, sent>>
      /\ \A x \in won : in_mod[x].st \in {"V", "S"}
  BY <1>2 DEF Switched
<1>4. \A x \in InVC : in_mod'[x].st = (IF x \in won THEN "S" ELSE in_mod[x].st) /\ in_mod'[x].out = in_mod[x].out
  BY <1>2, SwitchedOK
<1>5. Stored(left, landed)'
  BY <1>1, <1>3, <1>4 DEF Stored
<1>6. \A x \in InVC : \A y : Holds(x, y)' = Holds(x, y)
  BY <1>3, <1>4 DEF Holds
<1>7. Fed(left)'
  BY <1>1, <1>3, <1>6 DEF Fed
<1> QED
  BY <1>5, <1>7 DEF PacketInv

LEMMA VAWhole ==
  ASSUME TunnelOK, TypeOK, ControlInv, PacketInv, StageVA
  PROVE  PacketInv'
<1>1. UNCHANGED <<coming, flitQ, sent>>
  BY Allocation
<1>2. CASE UNCHANGED <<in_mod, out_mod>>
  BY <1>1, <1>2, PacketsStay
<1>3. CASE \E x \in InVC, y \in OutVC : Served(x, y)
  <2>1. PICK x \in InVC, y \in OutVC : Served(x, y)
    BY <1>3
  <2>2. PICK left \in Past, landed \in Past : Stored(left, landed) /\ Fed(left)
    BY DEF PacketInv
  <2>3. /\ in_mod[x].st = "R" /\ in_mod'[x].st = "V" /\ in_mod'[x].out = y
        /\ \A z \in InVC : z # x => in_mod'[z] = in_mod[z]
        /\ out_mod[y] = "I" /\ out_mod'[y] = "V"
        /\ \A z \in OutVC : z # y => out_mod'[z] = out_mod[z]
    BY <2>1 DEF Served, TypeOK
  <2>4. Stored(left, landed)'
    BY <1>1, <2>2, <2>3 DEF Stored
  <2>5. /\ \A v \in InVC, z \in OutVC : v # x => Holds(v, z)' = Holds(v, z)
        /\ \A z \in OutVC : Holds(x, z)' <=> z = y
    BY <2>3 DEF Holds
  <2>6. Fed(left)'
    <3> SUFFICES ASSUME NEW z \in OutVC, ~ isEject(z)
                 PROVE  /\ InOrder(sent'[z])
                        /\ out_mod'[z] = "I" => Ended(LastOf(sent'[z])) /\ \A v \in InVC : ~ Holds(v, z)'
                        /\ \A v \in InVC : Holds(v, z)' =>
                             Same(left[v], LastOf(sent'[z])) /\ \A w \in InVC : Holds(w, z)' => w = v
      BY DEF Fed
    <3>1. CASE z # y
      <4>1. \A v \in InVC : Holds(v, z)' => Holds(v, z)
        BY <2>5, <3>1
      <4> QED
        BY <1>1, <2>2, <2>3, <3>1, <4>1 DEF Fed
    <3>2. CASE z = y
      <4>1. InOrder(sent[z]) /\ Ended(LastOf(sent[z])) /\ \A v \in InVC : ~ Holds(v, z)
        BY <2>2, <2>3, <3>2 DEF Fed
      <4>2. \A v \in InVC : Holds(v, z)' => v = x
        BY <2>5, <4>1
      <4>3. Ended(left[x])
        BY <2>2, <2>3 DEF Stored
      <4>4. Same(left[x], LastOf(sent[z]))
        BY <4>1, <4>3 DEF Same
      <4> QED
        BY <1>1, <2>3, <3>2, <4>1, <4>2, <4>4
    <3> QED
      BY <3>1, <3>2
  <2> QED
    BY <2>4, <2>6 DEF PacketInv
<1> QED
  BY <1>2, <1>3, Allocation

LEMMA RCWhole ==
  ASSUME TunnelOK, TypeOK, ControlInv, PacketInv, StageRC
  PROVE  PacketInv'
<1>1. PICK left \in Past, landed \in Past : Stored(left, landed) /\ Fed(left)
  BY DEF PacketInv
<1>2. UNCHANGED <<coming, flitQ, out_mod, sent>>
  BY DEF StageRC
<1>3. \A x \in InVC : \/ in_mod'[x] = in_mod[x]
                      \/ in_mod[x].st = "I" /\ in_mod'[x].st = "R"
  BY DEF StageRC
<1>4. Stored(left, landed)'
  BY <1>1, <1>2, <1>3 DEF Stored
<1>5. \A x \in InVC : \A y : Holds(x, y)' = Holds(x, y)
  BY <1>3 DEF Holds
<1>6. Fed(left)'
  BY <1>1, <1>2, <1>5 DEF Fed
<1> QED
  BY <1>4, <1>6 DEF PacketInv

LEMMA InitWhole ==
  ASSUME TunnelOK, Init
  PROVE  PacketInv
<1> DEFINE none == [x \in InVC |-> NoFlit]
<1>1. none \in Past
  BY DEF Past
<1>2. Ended(NoFlit)
  BY DEF Ended
<1>3. ASSUME NEW x \in InVC
      PROVE  InBuffer(NoFlit, flitQ[x], NoFlit) /\ (coming[x] # NoFlit => After(NoFlit, coming[x]))
  <2>1. flitQ[x] = <<>> /\ coming[x] = HeadBehind(x, 0)
    BY <1>3 DEF Init
  <2>2. coming[x] # NoFlit => isHead(coming[x])
    BY <2>1, BehindOK
  <2>3. InBuffer(NoFlit, <<>>, NoFlit)
    BY DEF InBuffer
  <2> QED
    BY <1>2, <2>1, <2>2, <2>3 DEF After
<1>4. Stored(none, none)
  BY <1>2, <1>3 DEF Stored
<1>5. \A x \in InVC : \A y : ~ Holds(x, y)
  BY DEF Init, Holds, Idle
<1>6. Fed(none)
  <2>1. InOrder(<<>>) /\ Ended(LastOf(<<>>))
    BY DEF InOrder, LastOf, Ended
  <2> QED
    BY <1>5, <2>1 DEF Fed, Init
<1> QED
  BY <1>1, <1>4, <1>6 DEF PacketInv

LEMMA PacketsStayWhole == TunnelOK /\ Spec => []PacketInv
<1>1. TunnelOK /\ Init => PacketInv
  BY InitWhole
<1>2. TunnelOK /\ TypeOK /\ ControlInv /\ PacketInv /\ [Next]_vars => PacketInv'
  <2> SUFFICES ASSUME TunnelOK, TypeOK, ControlInv, PacketInv, [Next]_vars
               PROVE  PacketInv'
    OBVIOUS
  <2>1. CASE UNCHANGED vars
    BY <2>1, PacketsStay DEF vars
  <2>2. CASE Next
    BY <2>2, LTWhole, TNWhole, STWhole, SAWhole, VAWhole, RCWhole DEF Next
  <2> QED
    BY <2>1, <2>2
<1>3. TunnelOK => TunnelOK'
  BY DEF TunnelOK
<1> QED
  BY <1>1, <1>2, <1>3, Router, PTL DEF Spec

\* Tunnels keep packets whole on each output VC of a link (stageTN and stageST
\* of RouterTunnel.C), for any links, buffers, packets and arbiters.
THEOREM TunnelsKeepPacketsWhole == TunnelOK /\ Spec => []PacketsWhole
<1>1. TunnelOK /\ TypeOK /\ PacketInv => PacketsWhole
  BY WholeIsInOrder
<1>2. TunnelOK => TunnelOK'
  BY DEF TunnelOK
<1> QED
  BY <1>1, <1>2, Router, PacketsStayWhole, PTL

-----------------------------------------------------------------------------
(* Credits. *)

\* The flits of a link's pipeline that are for output VC v of its port.
Crossing(s, v) == {k \in DOMAIN s : s[k].vc = v}

LEMMA CrossingFinite ==
  ASSUME NEW s \in Seq(InFlight), NEW v
  PROVE  IsFiniteSet(Crossing(s, v)) /\ Cardinality(Crossing(s, v)) \in Nat
<1>1. DOMAIN s = 1 .. Len(s) /\ Len(s) \in Nat
  OBVIOUS
<1>2. IsFiniteSet(1 .. Len(s))
  BY <1>1, FS_Interval
<1>3. Crossing(s, v) \in SUBSET (1 .. Len(s))
  BY <1>1 DEF Crossing
<1>4. IsFiniteSet(Crossing(s, v))
  BY <1>2, <1>3, FS_Subset
<1> QED
  BY <1>4, FS_CardinalityType

LEMMA CrossingGrows ==
  ASSUME NEW s \in Seq(InFlight), NEW e \in InFlight, NEW v
  PROVE  Cardinality(Crossing(Append(s, e), v)) =
           Cardinality(Crossing(s, v)) + (IF e.vc = v THEN 1 ELSE 0)
<1> DEFINE t == Append(s, e)
           n == Len(s)
<1>1. /\ n \in Nat /\ DOMAIN s = 1 .. n /\ DOMAIN t = 1 .. n + 1 /\ t[n + 1] = e
      /\ \A k \in 1 .. n : t[k] = s[k]
  OBVIOUS
<1> HIDE DEF t, n
<1>2. Crossing(t, v) = IF e.vc = v THEN Crossing(s, v) \cup {n + 1} ELSE Crossing(s, v)
  <2>1. \A k \in 1 .. n + 1 : k \in 1 .. n \/ k = n + 1
    BY <1>1
  <2>2. n + 1 \in 1 .. n + 1 /\ n + 1 \notin 1 .. n /\ \A k \in 1 .. n : k \in 1 .. n + 1
    BY <1>1
  <2> QED
    BY <1>1, <2>1, <2>2 DEF Crossing
<1>3. n + 1 \notin Crossing(s, v)
  BY <1>1 DEF Crossing
<1>4. IsFiniteSet(Crossing(s, v)) /\ Cardinality(Crossing(s, v)) \in Nat
  BY CrossingFinite
<1>5. Cardinality(Crossing(s, v) \cup {n + 1}) = Cardinality(Crossing(s, v)) + 1
  BY <1>3, <1>4, FS_AddElement
<1> QED
  BY <1>2, <1>4, <1>5 DEF t

LEMMA CrossingShrinks ==
  ASSUME NEW s \in Seq(InFlight), s # <<>>, NEW v
  PROVE  Cardinality(Crossing(Tail(s), v)) =
           Cardinality(Crossing(s, v)) - (IF Head(s).vc = v THEN 1 ELSE 0)
<1> DEFINE t == Tail(s)
           n == Len(s)
           S == Crossing(s, v)
           T == Crossing(t, v)
           f == [k \in T |-> k + 1]
<1>1. /\ n \in Nat \ {0} /\ DOMAIN s = 1 .. n /\ Head(s) = s[1]
      /\ t \in Seq(InFlight) /\ DOMAIN t = 1 .. n - 1
      /\ \A k \in 1 .. n - 1 : t[k] = s[k + 1]
  <2>1. t \in Seq(InFlight) /\ Len(t) = n - 1 /\ n \in Nat \ {0} /\ Head(s) = s[1]
        /\ \A k \in 1 .. n - 1 : t[k] = s[k + 1]
    OBVIOUS
  <2> QED
    BY <2>1
<1> HIDE DEF t, n
<1>2. IsFiniteSet(S) /\ Cardinality(S) \in Nat /\ IsFiniteSet(T) /\ Cardinality(T) \in Nat
  BY <1>1, CrossingFinite
<1>3. IsFiniteSet(S \ {1}) /\ Cardinality(S \ {1}) = IF 1 \in S THEN Cardinality(S) - 1 ELSE Cardinality(S)
  BY <1>2, FS_RemoveElement
<1>4. 1 \in S <=> Head(s).vc = v
  BY <1>1 DEF Crossing
<1>5. T \in SUBSET Nat
  BY <1>1 DEF Crossing
<1>6. \A k \in T : k + 1 \in S \ {1}
  <2> SUFFICES ASSUME NEW k \in T
               PROVE  k + 1 \in S \ {1}
    OBVIOUS
  <2>1. k \in 1 .. n - 1 /\ t[k].vc = v
    BY <1>1 DEF Crossing
  <2>2. k + 1 \in 1 .. n /\ k + 1 # 1 /\ s[k + 1].vc = v
    BY <1>1, <2>1
  <2> QED
    BY <1>1, <2>2 DEF Crossing
<1>7. \A j \in S \ {1} : \E k \in T : k + 1 = j
  <2> SUFFICES ASSUME NEW j \in S \ {1}
               PROVE  j - 1 \in T /\ (j - 1) + 1 = j
    BY Zenon
  <2>1. j \in 1 .. n /\ j # 1 /\ s[j].vc = v
    BY <1>1 DEF Crossing
  <2>2. j - 1 \in 1 .. n - 1 /\ (j - 1) + 1 = j
    BY <1>1, <2>1
  <2>3. t[j - 1].vc = v
    BY <1>1, <2>1, <2>2
  <2> QED
    BY <1>1, <2>2, <2>3 DEF Crossing
<1>8. \A j, k \in T : j + 1 = k + 1 => j = k
  BY <1>5
<1> HIDE DEF S, T
<1>9. f \in Bijection(T, S \ {1})
  <2>1. f \in [T -> S \ {1}] /\ \A k \in T : f[k] = k + 1
    BY <1>6
  <2> HIDE DEF f
  <2>2. \A j, k \in T : f[j] = f[k] => j = k
    BY <1>8, <2>1
  <2>3. \A j \in S \ {1} : \E k \in T : f[k] = j
    BY <1>7, <2>1
  <2> QED
    BY <2>1, <2>2, <2>3 DEF Bijection, Injection, Surjection, IsInjective
<1>10. ExistsBijection(T, S \ {1})
  BY <1>9 DEF ExistsBijection
<1>11. Cardinality(S \ {1}) = Cardinality(T)
  BY <1>2, <1>10, FS_Bijection
<1> QED
  BY <1>2, <1>3, <1>4, <1>11 DEF S, T, t

LEMMA CrossingAges ==
  ASSUME TypeOK, NEW o \in OutPC, NEW v
  PROVE  Crossing(Aged(o), v) = Crossing(pipe[o], v)
<1>1. DOMAIN Aged(o) = DOMAIN pipe[o] /\ DOMAIN pipe[o] = 1 .. Len(pipe[o])
  <2>1. pipe[o] \in Seq(InFlight)
    BY DEF TypeOK
  <2> QED
    BY <2>1 DEF Aged
<1> QED
  BY <1>1, AgedOK DEF Crossing

\* A flit that was granted the switch for output VC y.
Owed(y) == IF \E p \in InPC : Granted(p) /\ in_mod[Winner(p)].out = y THEN 1 ELSE 0

SlotsInv ==
  \A y \in OutVC : ~ isEject(y) =>
    credit[y] + Owed(y) + Cardinality(Crossing(pipe[y[1]], y[2])) + down[y] = Depth

LEMMA OneOwed ==
  ASSUME TunnelOK, ControlInv, NEW y \in OutVC
  PROVE  Cardinality({p \in InPC : Granted(p) /\ in_mod[Winner(p)].out = y}) = Owed(y)
<1> DEFINE S == {p \in InPC : Granted(p) /\ in_mod[Winner(p)].out = y}
<1>1. CASE Owed(y) = 0
  <2>1. S = {}
    BY <1>1 DEF Owed
  <2> QED
    BY <1>1, <2>1, FS_EmptySet
<1>2. CASE Owed(y) = 1
  <2>1. PICK p \in InPC : Granted(p) /\ in_mod[Winner(p)].out = y
    BY <1>2 DEF Owed
  <2>2. \A q \in S : q = p
    BY <2>1 DEF ControlInv
  <2>3. S = {p}
    BY <2>1, <2>2
  <2> HIDE DEF S
  <2>4. Cardinality({p}) = 1
    BY FS_Singleton
  <2>5. Cardinality(S) = 1
    BY <2>3, <2>4
  <2> QED
    BY <1>2, <2>5 DEF S
<1> QED
  BY <1>1, <1>2 DEF Owed

LEMMA SlotsAre ==
  ASSUME TunnelOK, ControlInv
  PROVE  SlotsInv <=> Slots
<1>1. \A y \in OutVC :
        Cardinality({p \in InPC : xbar[p] # INVALID_VC /\ in_mod[<<p, xbar[p]>>].out = y}) = Owed(y)
  BY OneOwed DEF Granted, Winner
<1> QED
  BY <1>1 DEF SlotsInv, Slots, Crossing

LEMMA LeaveCounts ==
  ASSUME TypeOK, NEW x \in InVC, NEW y \in OutVC, flitQ[x] # <<>>, Leave(x, y), NEW z \in OutVC, ~ isEject(z)
  PROVE  /\ Cardinality(Crossing(pipe'[z[1]], z[2])) =
              Cardinality(Crossing(pipe[z[1]], z[2])) + (IF z = y THEN 1 ELSE 0)
         /\ Cardinality(Crossing(pipe[z[1]], z[2])) \in Nat
<1> DEFINE e == [f |-> Head(flitQ[x]), vc |-> y[2], age |-> 0]
<1>1. z[1] \in OutPC /\ z = <<z[1], z[2]>> /\ y = <<y[1], y[2]>> /\ y[2] \in VC
  BY DEF OutVC
<1>2. /\ Head(flitQ[x]) \in Flit
      /\ pipe'[z[1]] = IF ~ isEject(y) /\ z[1] = y[1] THEN Append(pipe[z[1]], e) ELSE pipe[z[1]]
  BY <1>1, LeaveOK
<1>3. e \in InFlight /\ e.vc = y[2]
  BY <1>1, <1>2 DEF InFlight
<1> HIDE DEF e
<1>4. pipe[z[1]] \in Seq(InFlight)
  BY <1>1 DEF TypeOK
<1>5. Cardinality(Crossing(pipe[z[1]], z[2])) \in Nat
  BY <1>4, CrossingFinite
<1>6. CASE z[1] # y[1]
  BY <1>2, <1>5, <1>6
<1>7. CASE z[1] = y[1]
  <2>1. ~ isEject(y)
    BY <1>7 DEF isEject
  <2>2. Cardinality(Crossing(pipe'[z[1]], z[2])) =
          Cardinality(Crossing(pipe[z[1]], z[2])) + (IF y[2] = z[2] THEN 1 ELSE 0)
    BY <1>2, <1>3, <1>4, <1>7, <2>1, CrossingGrows
  <2>3. y[2] = z[2] <=> z = y
    BY <1>1, <1>7
  <2> QED
    BY <1>5, <2>2, <2>3
<1> QED
  BY <1>6, <1>7

LEMMA LTCounts ==
  ASSUME TunnelOK, TypeOK, SlotsInv, StageLT
  PROVE  SlotsInv'
<1>1. PICK arrive \in SUBSET InVC, back \in SUBSET OutVC : Traversed(arrive, back)
  BY Traversal
<1> SUFFICES ASSUME NEW y \in OutVC, ~ isEject(y)
             PROVE  credit'[y] + Owed(y)' + Cardinality(Crossing(pipe'[y[1]], y[2])) + down'[y] = Depth
  BY DEF SlotsInv
<1>2. Owed(y)' = Owed(y) /\ Owed(y) \in {0, 1}
  BY <1>1 DEF Traversed, Owed, Granted, Winner
<1> DEFINE o == y[1]
           b == IF y \in back THEN 1 ELSE 0
<1>3. credit'[y] = credit[y] + b /\ down'[y] = (down[y] + Takes(y)) - b /\ b \in {0, 1} /\ Takes(y) \in {0, 1}
  BY <1>1 DEF Traversed, Takes
<1>4. credit[y] \in Int /\ down[y] \in Int /\ o \in OutPC
  BY DEF TypeOK, OutVC
<1>5. pipe'[o] = IF o \in Crossed THEN Tail(Aged(o)) ELSE Aged(o)
  BY <1>1, <1>4 DEF Traversed
<1>6. Cardinality(Crossing(pipe'[o], y[2])) = Cardinality(Crossing(pipe[o], y[2])) - Takes(y)
      /\ Cardinality(Crossing(pipe[o], y[2])) \in Nat
  <2>1. pipe[o] \in Seq(InFlight) /\ Aged(o) \in Seq(InFlight) /\ Len(Aged(o)) = Len(pipe[o])
    BY <1>4, AgedOK DEF TypeOK
  <2>2. Crossing(Aged(o), y[2]) = Crossing(pipe[o], y[2])
    BY <1>4, CrossingAges
  <2>3. Cardinality(Crossing(pipe[o], y[2])) \in Nat
    BY <2>1, CrossingFinite
  <2>4. CASE o \notin Crossed
    BY <1>5, <2>2, <2>3, <2>4 DEF Takes
  <2>5. CASE o \in Crossed
    <3>1. pipe[o] # <<>>
      BY <2>5 DEF Crossed
    <3>2. \A s \in Seq(InFlight) : s = <<>> <=> Len(s) = 0
      BY EmptySeq
    <3>3. Aged(o) # <<>>
      BY <2>1, <3>1, <3>2
    <3>4. Cardinality(Crossing(Tail(Aged(o)), y[2])) =
            Cardinality(Crossing(Aged(o), y[2])) - (IF Head(Aged(o)).vc = y[2] THEN 1 ELSE 0)
      BY <2>1, <3>3, CrossingShrinks
    <3>5. Head(Aged(o)).vc = Head(pipe[o]).vc
      <4>1. \A s \in Seq(InFlight) : s # <<>> => Head(s) = s[1] /\ 1 \in 1 .. Len(s)
        OBVIOUS
      <4>2. Head(Aged(o)) = Aged(o)[1] /\ Head(pipe[o]) = pipe[o][1] /\ 1 \in 1 .. Len(pipe[o])
        BY <2>1, <3>1, <3>3, <4>1
      <4> QED
        BY <1>4, <4>2, AgedOK
    <3> QED
      BY <1>5, <2>2, <2>3, <2>5, <3>4, <3>5 DEF Takes
  <2> QED
    BY <2>3, <2>4, <2>5
<1>7. credit[y] + Owed(y) + Cardinality(Crossing(pipe[o], y[2])) + down[y] = Depth
  BY DEF SlotsInv
<1> HIDE DEF o, b
<1>8. credit'[y] + Owed(y)' + Cardinality(Crossing(pipe'[o], y[2])) + down'[y] = Depth
  BY <1>2, <1>3, <1>4, <1>6, <1>7
<1> QED
  BY <1>8 DEF o

LEMMA TNCounts ==
  ASSUME TunnelOK, TypeOK, ControlInv, SlotsInv, NEW p \in InPC, StageTN(p)
  PROVE  SlotsInv'
<1>1. UNCHANGED <<xbar, down>>
  BY DEF StageTN
<1>2. \A q \in InPC : Granted(q)' = Granted(q) /\ Winner(q)' = Winner(q)
  BY <1>1 DEF Granted, Winner
<1> SUFFICES ASSUME NEW z \in OutVC, ~ isEject(z)
             PROVE  credit'[z] + Owed(z)' + Cardinality(Crossing(pipe'[z[1]], z[2])) + down'[z] = Depth
  BY DEF SlotsInv
<1>3. credit[z] + Owed(z) + Cardinality(Crossing(pipe[z[1]], z[2])) + down[z] = Depth
  BY DEF SlotsInv
<1>4. CASE ~ Bypass(p)
  <2>1. UNCHANGED <<pipe, credit, in_mod>>
    BY <1>4 DEF StageTN
  <2> QED
    BY <1>1, <1>2, <1>3, <2>1 DEF Owed
<1>5. CASE Bypass(p)
  <2> DEFINE x == <<p, tunnel[p].vc>>
             y == tunnel[p].out
  <2>1. x \in InVC /\ y \in OutVC /\ flitQ[x] # <<>> /\ ~ Granted(p) /\ x[1] = p
    BY <1>5, BypassOK
  <2>2. /\ Leave(x, y)
        /\ credit' = IF isEject(y) THEN credit ELSE [credit EXCEPT ![y] = @ - 1]
        /\ in_mod' = [in_mod EXCEPT ![x] = IF isTail(Head(flitQ[x])) THEN Idle ELSE [st |-> "S", out |-> y]]
    BY <1>5 DEF StageTN
  <2> HIDE DEF x, y
  <2>3. \A q \in InPC : Granted(q) => in_mod'[Winner(q)] = in_mod[Winner(q)]
    <3> SUFFICES ASSUME NEW q \in InPC, Granted(q)
                 PROVE  in_mod'[Winner(q)] = in_mod[Winner(q)]
      OBVIOUS
    <3>1. Winner(q) \in InVC /\ Winner(q)[1] = q
      BY WinnerOK DEF Winner
    <3>2. Winner(q) # x
      BY <2>1, <3>1
    <3> QED
      BY <2>2, <3>1, <3>2 DEF TypeOK
  <2>4. Owed(z)' = Owed(z) /\ Owed(z) \in {0, 1}
    BY <1>2, <2>3 DEF Owed
  <2>5. credit[z] \in Int /\ down[z] \in Int /\ credit'[z] = credit[z] - (IF z = y THEN 1 ELSE 0)
    BY <2>1, <2>2 DEF TypeOK
  <2>6. /\ Cardinality(Crossing(pipe'[z[1]], z[2])) =
             Cardinality(Crossing(pipe[z[1]], z[2])) + (IF z = y THEN 1 ELSE 0)
        /\ Cardinality(Crossing(pipe[z[1]], z[2])) \in Nat
    BY <2>1, <2>2, LeaveCounts
  <2> QED
    BY <1>1, <1>3, <2>4, <2>5, <2>6
<1> QED
  BY <1>4, <1>5

LEMMA STCounts ==
  ASSUME TunnelOK, TypeOK, ControlInv, SlotsInv, NEW p \in InPC, StageST(p)
  PROVE  SlotsInv'
<1>1. UNCHANGED <<credit, down>> /\ xbar' = [xbar EXCEPT ![p] = INVALID_VC]
  BY DEF StageST
<1>2. \A q \in InPC : IF q = p THEN ~ Granted(q)' ELSE Granted(q)' = Granted(q) /\ Winner(q)' = Winner(q)
  BY <1>1 DEF Granted, Winner, TypeOK
<1> SUFFICES ASSUME NEW z \in OutVC, ~ isEject(z)
             PROVE  credit'[z] + Owed(z)' + Cardinality(Crossing(pipe'[z[1]], z[2])) + down'[z] = Depth
  BY DEF SlotsInv
<1>3. credit[z] + Owed(z) + Cardinality(Crossing(pipe[z[1]], z[2])) + down[z] = Depth
  BY DEF SlotsInv
<1>4. CASE ~ Granted(p)
  <2>1. UNCHANGED <<pipe, in_mod>>
    BY <1>4 DEF StageST, Granted
  <2>2. Owed(z)' = Owed(z)
    BY <1>2, <1>4, <2>1 DEF Owed
  <2> QED
    BY <1>1, <1>3, <2>1, <2>2
<1>5. CASE Granted(p)
  <2> DEFINE x == Winner(p)
             y == in_mod[x].out
  <2>1. x \in InVC /\ y \in OutVC /\ flitQ[x] # <<>> /\ x[1] = p
    BY <1>5, WinnerOK DEF ControlInv, Winner
  <2>2. /\ Leave(x, y)
        /\ in_mod' = IF isTail(Head(flitQ[x])) THEN [in_mod EXCEPT ![x] = Idle] ELSE in_mod
    BY <1>5 DEF StageST, Granted, Winner
  <2>3. PICK out : out = y
    OBVIOUS
  <2>4. Granted(p) /\ in_mod[Winner(p)].out = out
    BY <1>5, <2>3
  <2> HIDE DEF x, y
  <2>5. \A q \in InPC : q # p /\ Granted(q) => in_mod'[Winner(q)] = in_mod[Winner(q)]
    <3> SUFFICES ASSUME NEW q \in InPC, q # p, Granted(q)
                 PROVE  in_mod'[Winner(q)] = in_mod[Winner(q)]
      OBVIOUS
    <3>1. Winner(q) \in InVC /\ Winner(q)[1] = q
      BY WinnerOK DEF Winner
    <3>2. Winner(q) # x
      BY <2>1, <3>1
    <3> QED
      BY <2>2, <3>1, <3>2 DEF TypeOK
  <2>6. Owed(z)' = Owed(z) - (IF z = out THEN 1 ELSE 0) /\ Owed(z) \in {0, 1}
    <3>1. CASE z = out
      <4>1. Owed(z) = 1
        BY <2>4, <3>1 DEF Owed
      <4>2. ~ \E q \in InPC : Granted(q)' /\ in_mod'[Winner(q)'].out = z
        <5> SUFFICES ASSUME NEW q \in InPC, Granted(q)', in_mod'[Winner(q)'].out = z
                     PROVE  FALSE
          OBVIOUS
        <5>1. q # p /\ Granted(q) /\ in_mod[Winner(q)].out = z
          BY <1>2, <2>5
        <5> QED
          BY <2>4, <3>1, <5>1 DEF ControlInv
      <4>3. Owed(z)' = 0
        BY <4>2 DEF Owed
      <4> QED
        BY <3>1, <4>1, <4>3
    <3>2. CASE z # out
      <4>1. \A q \in InPC : Granted(q)' /\ in_mod'[Winner(q)'].out = z <=> Granted(q) /\ in_mod[Winner(q)].out = z
        BY <1>2, <2>4, <2>5, <3>2
      <4>2. Owed(z)' = Owed(z)
        BY <4>1 DEF Owed
      <4> QED
        BY <3>2, <4>2 DEF Owed
    <3> QED
      BY <3>1, <3>2
  <2>7. credit[z] \in Int /\ down[z] \in Int
    BY DEF TypeOK
  <2>8. /\ Cardinality(Crossing(pipe'[z[1]], z[2])) =
             Cardinality(Crossing(pipe[z[1]], z[2])) + (IF z = out THEN 1 ELSE 0)
        /\ Cardinality(Crossing(pipe[z[1]], z[2])) \in Nat
    BY <2>1, <2>2, <2>3, LeaveCounts
  <2> QED
    BY <1>1, <1>3, <2>6, <2>7, <2>8
<1> QED
  BY <1>4, <1>5

LEMMA SACounts ==
  ASSUME TunnelOK, TypeOK, ControlInv, SlotsInv, StageSA
  PROVE  SlotsInv'
<1>1. PICK req \in SUBSET InVC, won \in SUBSET InVC : Switched(req, won)
  BY Switching
<1>2. /\ UNCHANGED <<pipe, down>> /\ next_stage = <<"SA", 0>>
      /\ credit' = [y \in OutVC |->
           credit[y] - (IF ~ isEject(y) /\ (\E x \in won : in_mod[x].out = y) THEN 1 ELSE 0)]
  BY <1>1 DEF Switched
<1>3. /\ \A p \in InPC : Granted(p)' => Winner(p)' \in won
      /\ \A x \in won : x[1] \in InPC /\ Granted(x[1])' /\ Winner(x[1])' = x
      /\ \A x \in InVC : in_mod'[x].out = in_mod[x].out
  BY <1>1, SwitchedOK
<1> SUFFICES ASSUME NEW z \in OutVC, ~ isEject(z)
             PROVE  credit'[z] + Owed(z)' + Cardinality(Crossing(pipe'[z[1]], z[2])) + down'[z] = Depth
  BY DEF SlotsInv
<1>4. Owed(z) = 0
  BY <1>2 DEF ControlInv, Owed
<1>5. Owed(z)' = IF \E x \in won : in_mod[x].out = z THEN 1 ELSE 0
  <2>1. ASSUME NEW x \in won, in_mod[x].out = z
        PROVE  \E p \in InPC : Granted(p)' /\ in_mod'[Winner(p)'].out = z
    BY <1>3, <2>1
  <2>2. ASSUME NEW p \in InPC, Granted(p)', in_mod'[Winner(p)'].out = z
        PROVE  \E x \in won : in_mod[x].out = z
    BY <1>3, <2>2
  <2> QED
    BY <2>1, <2>2 DEF Owed
<1>6. credit'[z] = credit[z] - Owed(z)' /\ credit[z] \in Int /\ down[z] \in Int
  BY <1>2, <1>5 DEF TypeOK
<1>7. Cardinality(Crossing(pipe[z[1]], z[2])) \in Nat
  <2>1. pipe[z[1]] \in Seq(InFlight)
    BY DEF TypeOK, OutVC
  <2> QED
    BY <2>1, CrossingFinite
<1>8. credit[z] + Owed(z) + Cardinality(Crossing(pipe[z[1]], z[2])) + down[z] = Depth
  BY DEF SlotsInv
<1>9. Owed(z)' \in {0, 1}
  BY <1>5
<1> QED
  BY <1>2, <1>4, <1>6, <1>7, <1>8, <1>9

LEMMA CountsStay ==
  ASSUME SlotsInv, UNCHANGED <<credit, pipe, down, xbar>>,
         \A p \in InPC : Granted(p) => in_mod'[Winner(p)].out = in_mod[Winner(p)].out
  PROVE  SlotsInv'
<1>1. \A p \in InPC : Granted(p)' = Granted(p) /\ Winner(p)' = Winner(p)
  BY DEF Granted, Winner
<1>2. \A y \in OutVC : Owed(y)' = Owed(y)
  BY <1>1 DEF Owed
<1> QED
  BY <1>2 DEF SlotsInv

LEMMA RestCounts ==
  ASSUME TunnelOK, TypeOK, ControlInv, SlotsInv, StageVA \/ StageRC \/ UNCHANGED vars
  PROVE  SlotsInv'
<1>1. UNCHANGED <<credit, pipe, down, xbar>>
  BY Zenon DEF StageVA, StageRC, vars
<1>2. \A x \in InVC : in_mod[x].st = "S" => in_mod'[x] = in_mod[x]
  <2>1. CASE StageVA
    <3>1. CASE UNCHANGED in_mod
      BY <3>1
    <3>2. CASE \E x \in InVC, y \in OutVC : Served(x, y)
      BY <3>2 DEF Served, TypeOK
    <3> QED
      BY <2>1, <3>1, <3>2, Allocation
  <2>2. CASE StageRC
    BY <2>2 DEF StageRC
  <2>3. CASE UNCHANGED vars
    BY <2>3 DEF vars
  <2> QED
    BY <2>1, <2>2, <2>3
<1>3. \A p \in InPC : Granted(p) => in_mod'[Winner(p)].out = in_mod[Winner(p)].out
  BY <1>2, WinnerOK DEF ControlInv
<1> QED
  BY <1>1, <1>3, CountsStay, SMTT(30)

LEMMA InitCounts ==
  ASSUME TunnelOK, Init
  PROVE  SlotsInv
<1> SUFFICES ASSUME NEW y \in OutVC
             PROVE  credit[y] + Owed(y) + Cardinality(Crossing(pipe[y[1]], y[2])) + down[y] = Depth
  BY DEF SlotsInv
<1>1. credit[y] = Depth /\ down[y] = 0 /\ pipe[y[1]] = <<>>
  BY DEF Init, OutVC
<1>2. Owed(y) = 0
  BY DEF Init, Owed, Granted
<1>3. Crossing(<<>>, y[2]) = {}
  BY DEF Crossing
<1>4. Cardinality(Crossing(pipe[y[1]], y[2])) = 0
  BY <1>1, <1>3, FS_EmptySet
<1> QED
  BY <1>1, <1>2, <1>4 DEF TunnelOK

LEMMA Counts == TunnelOK /\ Spec => []SlotsInv
<1>1. TunnelOK /\ Init => SlotsInv
  BY InitCounts
<1>2. TunnelOK /\ TypeOK /\ ControlInv /\ SlotsInv /\ [Next]_vars => SlotsInv'
  BY LTCounts, TNCounts, STCounts, SACounts, RestCounts DEF Next
<1>3. TunnelOK => TunnelOK'
  BY DEF TunnelOK
<1> QED
  BY <1>1, <1>2, <1>3, Router, PTL DEF Spec

\* Every slot downstream has a credit, a flit on its way to it, or one in it
\* (stageTN, which takes its credit itself, and stageST of RouterTunnel.C).
THEOREM TunnelsKeepCredits == TunnelOK /\ Spec => []Slots
<1>1. TunnelOK /\ ControlInv /\ SlotsInv => Slots
  BY SlotsAre
<1>2. TunnelOK => TunnelOK'
  BY DEF TunnelOK
<1> QED
  BY <1>1, <1>2, Router, Counts, PTL

-----------------------------------------------------------------------------
(* Links of one cycle.  (Flits of two ports can bypass to one link in one    *)
(* cycle, which fills a longer one before the switch's next grant.)          *)

\* A link holds one flit at most, and none when a granted flit is to use it.
LinkInv ==
  /\ \A o \in OutPC : Len(pipe[o]) <= 1
  /\ next_stage[1] \in {"TN", "ST"} =>
       \A p \in InPC : Granted(p) /\ ~ isEject(in_mod[Winner(p)].out) => pipe[in_mod[Winner(p)].out[1]] = <<>>

LEMMA LinkFree ==
  ASSUME TypeOK, NEW o \in OutPC
  PROVE  Len(pipe[o]) \in Nat /\ (pipe[o] = <<>> <=> Len(pipe[o]) = 0)
BY AgedOK

\* A flit goes to a link that is free.
LEMMA LinkFills ==
  ASSUME TypeOK, LinkInv, NEW x \in InVC, NEW y \in OutVC, flitQ[x] # <<>>, Leave(x, y),
         ~ isEject(y) => Len(pipe[y[1]]) < 1
  PROVE  /\ \A o \in OutPC : Len(pipe'[o]) <= 1
         /\ \A o \in OutPC : o # y[1] => pipe'[o] = pipe[o]
         /\ isEject(y) => pipe' = pipe
<1> DEFINE e == [f |-> Head(flitQ[x]), vc |-> y[2], age |-> 0]
<1>1. \A o \in OutPC : pipe'[o] = IF ~ isEject(y) /\ o = y[1] THEN Append(pipe[o], e) ELSE pipe[o]
  BY LeaveOK
<1>2. \A o \in OutPC : pipe[o] \in Seq(InFlight)
  BY DEF TypeOK
<1>3. isEject(y) => pipe' = pipe
  BY DEF Leave
<1>4. ASSUME NEW o \in OutPC
      PROVE  Len(pipe'[o]) <= 1
  <2>1. CASE ~ isEject(y) /\ o = y[1]
    <3>1. pipe[o] \in Seq(InFlight) /\ Len(pipe[o]) < 1 /\ pipe'[o] = Append(pipe[o], e)
      BY <1>1, <1>2, <2>1
    <3> HIDE DEF e
    <3>2. Len(Append(pipe[o], e)) = Len(pipe[o]) + 1 /\ Len(pipe[o]) \in Nat
      BY <3>1
    <3> QED
      BY <3>1, <3>2
  <2>2. CASE ~ (~ isEject(y) /\ o = y[1])
    BY <1>1, <2>2 DEF LinkInv
  <2> QED
    BY <2>1, <2>2
<1> QED
  BY <1>1, <1>3, <1>4

LEMMA LTClears ==
  ASSUME TunnelOK, LinkLat = 1, TypeOK, ControlInv, LinkInv, StageLT
  PROVE  LinkInv'
<1>1. PICK arrive \in SUBSET InVC, back \in SUBSET OutVC : Traversed(arrive, back)
  BY Traversal
<1>2. UNCHANGED <<in_mod, xbar>>
  BY <1>1 DEF Traversed
<1>3. ASSUME NEW o \in OutPC
      PROVE  pipe'[o] = <<>>
  <2>1. pipe'[o] = IF o \in Crossed THEN Tail(Aged(o)) ELSE Aged(o)
    BY <1>1 DEF Traversed
  <2>2. /\ Aged(o) \in Seq(InFlight) /\ Len(Aged(o)) = Len(pipe[o]) /\ Len(pipe[o]) \in Nat
        /\ pipe[o] = <<>> <=> Len(pipe[o]) = 0
    BY AgedOK
  <2>3. \A s \in Seq(InFlight) : s = <<>> <=> Len(s) = 0
    BY EmptySeq
  <2>4. CASE pipe[o] = <<>>
    <3>1. o \notin Crossed
      BY <2>4 DEF Crossed
    <3> QED
      BY <2>1, <2>2, <2>3, <2>4, <3>1
  <2>5. CASE pipe[o] # <<>>
    <3>1. Len(pipe[o]) <= 1
      BY DEF LinkInv
    <3>2. Len(pipe[o]) = 1
      <4>1. Len(pipe[o]) # 0
        BY <2>2, <2>5, Zenon
      <4>2. Len(pipe[o]) \in Nat
        BY <2>2
      <4>3. \A n \in Nat : n <= 1 /\ n # 0 => n = 1
        OBVIOUS
      <4> QED
        BY <3>1, <4>1, <4>2, <4>3, Zenon
    <3>3. Aged(o) # <<>>
      <4>1. Len(Aged(o)) # 0
        BY <2>2, <3>2
      <4> QED
        BY <2>2, <2>3, <4>1, Zenon
    <3>4. Len(pipe[o]) = 1 /\ Aged(o) # <<>>
      BY <3>2, <3>3
    <3>5. Head(Aged(o)) = Aged(o)[1] /\ Tail(Aged(o)) \in Seq(InFlight) /\ Len(Tail(Aged(o))) = Len(Aged(o)) - 1
      BY <2>2, <3>4
    <3>6. pipe[o][1] \in InFlight /\ Aged(o)[1].age = pipe[o][1].age + 1
      BY <3>4, AgedOK
    <3>7. Head(Aged(o)).age >= 1
      BY <3>5, <3>6 DEF InFlight
    <3>8. o \in Crossed
      BY <2>5, <3>7 DEF Crossed
    <3>9. Len(Tail(Aged(o))) = 0
      BY <2>2, <3>4, <3>5
    <3> QED
      BY <2>1, <2>3, <3>5, <3>8, <3>9
  <2> QED
    BY <2>4, <2>5
<1>4. \A p \in InPC : Granted(p)' = Granted(p) /\ Winner(p)' = Winner(p)
  BY <1>2 DEF Granted, Winner
<1>5. \A p \in InPC : Granted(p) => in_mod[Winner(p)].out[1] \in OutPC
  BY WinnerOK
<1>6. Len(<<>>) <= 1
  OBVIOUS
<1> QED
  BY <1>2, <1>3, <1>4, <1>5, <1>6 DEF LinkInv

LEMMA TNLeavesRoom ==
  ASSUME TunnelOK, LinkLat = 1, TypeOK, ControlInv, LinkInv, NEW p \in InPC, StageTN(p)
  PROVE  LinkInv'
<1>1. UNCHANGED xbar /\ next_stage[1] = "TN"
  BY DEF StageTN
<1>2. \A q \in InPC : Granted(q)' = Granted(q) /\ Winner(q)' = Winner(q)
  BY <1>1 DEF Granted, Winner
<1>3. CASE ~ Bypass(p)
  <2>1. UNCHANGED <<pipe, in_mod>>
    BY <1>3 DEF StageTN
  <2> QED
    BY <1>1, <1>2, <2>1 DEF LinkInv
<1>4. CASE Bypass(p)
  <2> DEFINE x == <<p, tunnel[p].vc>>
             y == tunnel[p].out
  <2>1. x \in InVC /\ y \in OutVC /\ flitQ[x] # <<>> /\ ~ Granted(p) /\ x[1] = p /\ outport_free(y[1])
    BY <1>4, BypassOK, SMTT(30)
  <2>2. /\ Leave(x, y)
        /\ in_mod' = [in_mod EXCEPT ![x] = IF isTail(Head(flitQ[x])) THEN Idle ELSE [st |-> "S", out |-> y]]
        /\ ~ isEject(y) => Len(pipe[y[1]]) < 1
    BY <1>4 DEF StageTN, Bypass
  <2> HIDE DEF x, y
  <2>3. /\ \A o \in OutPC : Len(pipe'[o]) <= 1
        /\ \A o \in OutPC : o # y[1] => pipe'[o] = pipe[o]
    BY <2>1, <2>2, LinkFills
  <2>4. ASSUME NEW q \in InPC, Granted(q)
        PROVE  /\ in_mod'[Winner(q)] = in_mod[Winner(q)] /\ in_mod[Winner(q)].out[1] \in OutPC
               /\ in_mod[Winner(q)].out[1] # y[1]
    <3>1. Winner(q) \in InVC /\ Winner(q)[1] = q /\ in_mod[Winner(q)].out[1] \in OutPC
      BY <2>4, WinnerOK DEF Winner
    <3>2. Winner(q) # x
      BY <2>1, <2>4, <3>1
    <3>3. in_mod[Winner(q)].out[1] # y[1]
      BY <2>1, <2>4 DEF outport_free, Granted, Winner
    <3> QED
      BY <2>2, <3>1, <3>2, <3>3 DEF TypeOK
  <2> QED
    BY <1>1, <1>2, <2>3, <2>4 DEF LinkInv
<1> QED
  BY <1>3, <1>4

LEMMA STLeavesRoom ==
  ASSUME TunnelOK, LinkLat = 1, TypeOK, ControlInv, LinkInv, NEW p \in InPC, StageST(p)
  PROVE  LinkInv'
<1>1. xbar' = [xbar EXCEPT ![p] = INVALID_VC] /\ next_stage[1] = "ST"
  BY DEF StageST
<1>2. \A q \in InPC : IF q = p THEN ~ Granted(q)' ELSE Granted(q)' = Granted(q) /\ Winner(q)' = Winner(q)
  BY <1>1 DEF Granted, Winner, TypeOK
<1>3. CASE ~ Granted(p)
  <2>1. UNCHANGED <<pipe, in_mod>>
    BY <1>3 DEF StageST, Granted
  <2> QED
    BY <1>1, <1>2, <2>1 DEF LinkInv
<1>4. CASE Granted(p)
  <2> DEFINE x == Winner(p)
             y == in_mod[x].out
  <2>1. x \in InVC /\ y \in OutVC /\ y[1] \in OutPC /\ flitQ[x] # <<>> /\ x[1] = p
    BY <1>4, WinnerOK DEF ControlInv, Winner
  <2>2. /\ Leave(x, y)
        /\ in_mod' = IF isTail(Head(flitQ[x])) THEN [in_mod EXCEPT ![x] = Idle] ELSE in_mod
    BY <1>4 DEF StageST, Granted, Winner
  <2>3. ~ isEject(y) => pipe[y[1]] = <<>>
    BY <1>1, <1>4 DEF LinkInv
  <2>4. ~ isEject(y) => Len(pipe[y[1]]) < 1
    BY <2>1, <2>3, LinkFree
  <2>5. PICK out : out = y
    OBVIOUS
  <2>6. \A q \in InPC : Granted(q) /\ in_mod[Winner(q)].out[1] = out[1] => q = p
    BY <1>4, <2>5 DEF ControlInv
  <2> HIDE DEF x, y
  <2>7. /\ \A o \in OutPC : Len(pipe'[o]) <= 1
        /\ \A o \in OutPC : o # out[1] => pipe'[o] = pipe[o]
    BY <2>1, <2>2, <2>4, <2>5, LinkFills
  <2>8. ASSUME NEW q \in InPC, Granted(q), q # p
        PROVE  /\ in_mod'[Winner(q)] = in_mod[Winner(q)] /\ in_mod[Winner(q)].out[1] \in OutPC
               /\ in_mod[Winner(q)].out[1] # out[1]
    <3>1. Winner(q) \in InVC /\ Winner(q)[1] = q /\ in_mod[Winner(q)].out[1] \in OutPC
      BY <2>8, WinnerOK DEF Winner
    <3>2. Winner(q) # x
      BY <2>1, <2>8, <3>1
    <3> QED
      BY <2>2, <2>6, <2>8, <3>1, <3>2 DEF TypeOK
  <2> QED
    BY <1>1, <1>2, <2>7, <2>8 DEF LinkInv
<1> QED
  BY <1>3, <1>4

LEMMA RestLeavesRoom ==
  ASSUME LinkInv, StageSA \/ StageVA \/ StageRC
  PROVE  LinkInv'
<1>1. UNCHANGED pipe
  BY ZenonT(60) DEF StageSA, StageVA, StageRC
<1>2. StageSA \/ StageRC => next_stage' \in {<<"VA", 0>>, <<"LT", 0>>}
  BY DEF StageSA, StageRC
<1>3. StageVA => next_stage' \in {<<"VA", 0>>, <<"RC", 0>>}
  <2> DEFINE free(o) == {vc \in VC : out_mod[<<o, vc>>] = "I"}
             served == {x \in InVC : in_mod[x].st = "R" /\ free(in_mod[x].out[1]) # {}}
  <2>1. StageVA /\ served # {} => next_stage' = next_stage /\ next_stage = <<"VA", 0>>
    BY Zenon DEF StageVA
  <2>2. StageVA /\ served = {} => next_stage' = <<"RC", 0>>
    BY Zenon DEF StageVA
  <2> QED
    BY <2>1, <2>2
<1>4. next_stage'[1] \notin {"TN", "ST"}
  BY <1>2, <1>3
<1> QED
  BY <1>1, <1>4 DEF LinkInv

LEMMA Links == TunnelOK /\ LinkLat = 1 /\ Spec => []LinkInv
<1>1. TunnelOK /\ Init => LinkInv
  BY DEF Init, LinkInv, Granted
<1>2. TunnelOK /\ LinkLat = 1 /\ TypeOK /\ ControlInv /\ LinkInv /\ [Next]_vars => LinkInv'
  <2> SUFFICES ASSUME TunnelOK, LinkLat = 1, TypeOK, ControlInv, LinkInv, [Next]_vars
               PROVE  LinkInv'
    OBVIOUS
  <2>1. CASE UNCHANGED vars
    BY <2>1 DEF vars, LinkInv, Granted, Winner
  <2>2. CASE Next
    BY <2>2, LTClears, TNLeavesRoom, STLeavesRoom, RestLeavesRoom DEF Next
  <2> QED
    BY <2>1, <2>2
<1>3. (TunnelOK => TunnelOK') /\ (LinkLat = 1 => (LinkLat = 1)')
  BY DEF TunnelOK
<1> QED
  BY <1>1, <1>2, <1>3, Router, PTL DEF Spec

\* With links of one cycle, what the switch has granted stays possible whatever
\* bypasses the pipeline: the flit is there and the link has room for it (the
\* assertions of stageST, Router.C, and what stageTN checks before it).
THEOREM TunnelsAreSafe == TunnelOK /\ LinkLat = 1 /\ Spec => []TunnelSafe
<1>1. TunnelOK /\ LinkLat = 1 /\ TypeOK /\ ControlInv /\ LinkInv => Ready
  <2> SUFFICES ASSUME TunnelOK, LinkLat = 1, TypeOK, ControlInv, LinkInv,
                      NEW p \in InPC, next_stage = <<"ST", p>>, Granted(p)
               PROVE  /\ flitQ[Winner(p)] # <<>>
                      /\ in_mod[Winner(p)].st = "S"
                      /\ isEject(in_mod[Winner(p)].out) \/ Len(pipe[in_mod[Winner(p)].out[1]]) < LinkLat
    BY DEF Ready, Granted, Winner
  <2>1. flitQ[Winner(p)] # <<>> /\ in_mod[Winner(p)].st = "S"
    BY DEF ControlInv
  <2>2. ~ isEject(in_mod[Winner(p)].out) => pipe[in_mod[Winner(p)].out[1]] = <<>>
    BY DEF LinkInv
  <2>3. in_mod[Winner(p)].out[1] \in OutPC
    BY WinnerOK
  <2>4. ~ isEject(in_mod[Winner(p)].out) => Len(pipe[in_mod[Winner(p)].out[1]]) < 1
    BY <2>2, <2>3, LinkFree
  <2> QED
    BY <2>1, <2>4
<1>2. PacketsWhole /\ Slots /\ Ready => TunnelSafe
  BY DEF TunnelSafe
<1>3. (TunnelOK => TunnelOK') /\ (LinkLat = 1 => (LinkLat = 1)')
  BY DEF TunnelOK
<1> QED
  BY <1>1, <1>2, <1>3, Router, Links, TunnelsKeepPacketsWhole, TunnelsKeepCredits, PTL
-----------------------------------------------------------------------------
\* Every set of numbers has a least one.
LEMMA LeastExists ==
  ASSUME NEW T \in SUBSET Nat, T # {}
  PROVE  \E m \in T : \A n \in T : m <= n
<1> DEFINE Below == {e \in Nat \X Nat : e[1] < e[2]}
<1>1. IsWellFoundedOn(Below, Nat)
  BY NatLessThanWellFounded, Zenon DEF OpToRel
<1>2. \A m, n \in Nat : n < m => <<n, m>> \in Below
  OBVIOUS
<1> HIDE DEF Below
<1>3. PICK m \in T : \A n \in T : ~ (<<n, m>> \in Below)
  BY <1>1, WFMin, Zenon
<1>4. \A n \in T : ~ (n < m)
  BY <1>2, <1>3
<1> QED
  BY <1>4

LEMMA LeastIsMin ==
  ASSUME NEW T \in SUBSET Nat, T # {}
  PROVE  Min(T) \in T /\ \A t \in T : Min(T) <= t
<1>1. \E m \in T : \A n \in T : m <= n
  BY LeastExists
<1> QED
  BY <1>1 DEF Min

-----------------------------------------------------------------------------
(* Whole simulations.  Time: processes and packets are due now or later, and files are read within *)
(* their bounds.                                                               *)

PC == {"main", "control", "trace", "profile"}

\* Nobody is late at that time.
DueFrom(w, now) == w \in [Process -> Nat \cup {Never}] /\ \A p \in Process : w[p] = Never \/ w[p] >= now
OutFrom(bag, now) == \A t \in DOMAIN bag : t \in Nat /\ t >= now

\* Files are open at records that they have.
Reading ==
  /\ file_id \in DOMAIN cfg.files
  /\ fp \in DOMAIN cfg.files
  /\ pos \in 0 .. Len(cfg.files[fp])
  /\ last_pkt_inject_clk \in Int

\* The options do not change; with synthetic traffic the trace process does not
\* run, nor the generators with a trace.
OptionsInv ==
  /\ Configured /\ Timed
  /\ cfg.workload # "SYNTH" => TraceFits /\ Reading
  /\ cfg.workload = "SYNTH" => wake["trace"] = Never

TimeInv ==
  /\ clk \in Nat
  /\ DueFrom(wake, clk)
  /\ OutFrom(flying, clk)
  /\ DOMAIN pc = PC

ClockInv == OptionsInv /\ TimeInv

\* Holding for some time, one is due later; having ended, never.
LEMMA HoldsLater ==
  ASSUME clk \in Nat, DueFrom(wake, clk), NEW p \in Process, NEW t \in Nat, hold(p, t)
  PROVE  DueFrom(wake', clk) /\ wake' = [wake EXCEPT ![p] = clk + t]
BY DEF hold, DueFrom, Never

LEMMA EndsForGood ==
  ASSUME clk \in Nat, DueFrom(wake, clk), NEW p \in Process, Ends(p)
  PROVE  DueFrom(wake', clk) /\ wake' = [wake EXCEPT ![p] = Never]
BY DEF Ends, DueFrom, Never

LEMMA Names ==
  /\ \A p \in PC : p \in Process /\ p \notin Core
  /\ \A p \in Core : p \in Process /\ p \notin PC
BY ProcessesAssumption DEF PC

\* Options are times, and the warm-up ends before the simulation does.
LEMMA Times ==
  ASSUME Configured, Timed
  PROVE  /\ cfg.skip \in Nat /\ cfg.start \in Nat /\ cfg.end \in Nat
         /\ num_cycles_warmup_sim \in Nat
         /\ num_cycles_end_sim \in Nat
         /\ clk_start_profile \in Nat
         /\ clk_start_profile = cfg.skip + num_cycles_warmup_sim
         /\ clk_start_profile < cfg.end
         /\ cfg.skip + num_cycles_warmup_sim + num_cycles_end_sim = cfg.end + (IF Profiling THEN 1 ELSE 0)
<1>1. cfg.skip \in Nat /\ cfg.start \in Nat /\ cfg.end \in Nat
  BY DEF Configured, Whole
<1>2. num_cycles_warmup_sim \in Nat /\ cfg.end - cfg.skip - num_cycles_warmup_sim > 0
  <2>1. num_cycles_warmup_sim \in Int
    BY <1>1 DEF num_cycles_warmup_sim
  <2> QED
    BY <2>1 DEF Timed
<1>3. clk_start_profile = cfg.skip + num_cycles_warmup_sim
  BY <1>1 DEF clk_start_profile, num_cycles_warmup_sim
<1>4. num_cycles_end_sim = cfg.end - cfg.skip - num_cycles_warmup_sim + (IF Profiling THEN 1 ELSE 0)
  BY <1>1, <1>2 DEF num_cycles_end_sim, Cycle
<1> DEFINE half == IF Profiling THEN 1 ELSE 0
<1>5. half \in {0, 1}
  OBVIOUS
<1> HIDE DEF half
<1>6. num_cycles_end_sim = cfg.end - cfg.skip - num_cycles_warmup_sim + half
  BY <1>4 DEF half
<1>7. /\ num_cycles_end_sim \in Nat
      /\ cfg.skip + num_cycles_warmup_sim + num_cycles_end_sim = cfg.end + half
  BY <1>1, <1>2, <1>5, <1>6
<1>8. clk_start_profile \in Nat /\ clk_start_profile < cfg.end
  BY <1>1, <1>2, <1>3
<1>9. cfg.skip + num_cycles_warmup_sim + num_cycles_end_sim = cfg.end + (IF Profiling THEN 1 ELSE 0)
  BY <1>7, Zenon DEF half
<1>10. num_cycles_end_sim \in Nat
  BY <1>7
<1> QED
  BY <1>1, <1>2, <1>3, <1>8, <1>9, <1>10, Zenon

\* The clock starts with everything due.
LEMMA StartClock == SimulationInit => ClockInv
<1> SUFFICES ASSUME SimulationInit PROVE ClockInv
  OBVIOUS
<1> USE DEF SimulationInit, SimInit
<1>1. PICK waiting \in [Core -> Waiting] : wake = [p \in Process |-> FirstHold(p, waiting)]
  OBVIOUS
<1>2. \A p \in Core : waiting[p] \in Nat
  BY ProcessesAssumption
<1>3. \A p \in Process : FirstHold(p, waiting) \in Nat \cup {Never}
  <2>1. \A p \in Core : FirstHold(p, waiting) \in Nat \cup {Never}
    BY <1>2, Names DEF FirstHold, PC
  <2>2. \A p \in PC : FirstHold(p, waiting) \in Nat \cup {Never}
    BY Times, Names DEF FirstHold, PC
  <2>3. \A p \in Process : p \notin Core /\ p \notin PC => FirstHold(p, waiting) = Never
    BY DEF FirstHold, PC
  <2> QED
    BY <2>1, <2>2, <2>3
<1>4. DueFrom(wake, clk)
  BY <1>1, <1>3 DEF DueFrom, Never
<1>5. cfg.workload = "SYNTH" => wake["trace"] = Never
  BY <1>1, Names DEF FirstHold, PC
<1>6. cfg.workload # "SYNTH" => TraceFits /\ Reading
  <2> SUFFICES ASSUME cfg.workload # "SYNTH" PROVE Reading
    BY DEF TraceInit
  <2>1. cfg.files \in Seq(Seq(TraceRecord) \ {<<>>}) /\ cfg.files # <<>>
    BY DEF TraceInit, TraceFits
  <2>2. Len(cfg.files) \in Nat \ {0} /\ DOMAIN cfg.files = 1 .. Len(cfg.files)
    BY <2>1, EmptySeq, LenProperties
  <2>3. cfg.files[1] \in Seq(TraceRecord)
    BY <2>1, <2>2, ElementOfSeq
  <2> QED
    BY <2>2, <2>3, LenProperties DEF TraceInit, Reading
<1>7. OutFrom(flying, clk)
  BY DEF OutFrom, EmptyBag, SetToBag
<1> QED
  BY <1>4, <1>5, <1>6, <1>7 DEF ClockInv, OptionsInv, TimeInv, PC
\* The options stay what they are.
LEMMA OptionsStay ==
  ASSUME Configured, Timed, cfg' = cfg
  PROVE  /\ Configured' /\ Timed'
         /\ cfg.workload # "SYNTH" /\ TraceFits => TraceFits'
<1>1. Configured'
  BY DEF Configured, Whole
<1>2. num_cycles_warmup_sim' = num_cycles_warmup_sim
  BY DEF num_cycles_warmup_sim
<1>3. SkipFile' = SkipFile /\ \A tr : (late(tr)' <=> late(tr))
  BY Zenon DEF SkipFile, late
<1> QED
  BY <1>1, <1>2, <1>3 DEF Timed, TraceFits

\* What is not due yet stays so while no time passes.
LEMMA Carried ==
  ASSUME ClockInv, clk' = clk, cfg' = cfg, DueFrom(wake', clk), OutFrom(flying', clk), DOMAIN pc' = PC,
         cfg.workload # "SYNTH" => Reading', cfg.workload = "SYNTH" => wake'["trace"] = Never
  PROVE  ClockInv'
BY OptionsStay DEF ClockInv, OptionsInv, TimeInv

\* The packets on their way do, too.
LEMMA ForwardsLater ==
  ASSUME OutFrom(flying, clk), clk \in Nat, NEW n, NEW latency \in Latency, flying' = Forward(n, latency)
  PROVE  OutFrom(flying', clk)
<1>1. latency \in Nat
  BY ProcessesAssumption
<1>2. DOMAIN flying' = DOMAIN flying \cup {clk + latency}
  BY DEF Forward, (+)
<1> QED
  BY <1>1, <1>2 DEF OutFrom

\* A process that runs is due.
LEMMA RunsDue ==
  ASSUME ClockInv, NEW p \in Process, Runs(p)
  PROVE  wake[p] = clk /\ clk # Never /\ clk \in Nat
BY DEF ClockInv, TimeInv, Runs, Never

\* Time passes to the first moment at which somebody is due.
LEMMA TickClock ==
  ASSUME ClockInv, Tick, UNCHANGED traceVars
  PROVE  ClockInv'
<1> DEFINE moments == BagToSet(flying) \cup ({wake[p] : p \in Process} \ {Never})
<1>1. /\ clk \in Nat /\ DueFrom(wake, clk) /\ OutFrom(flying, clk)
      /\ clk \notin moments /\ moments # {} /\ clk' = Min(moments)
      /\ wake' = wake /\ flying' = flying /\ pc' = pc /\ cfg' = cfg
  BY DEF ClockInv, TimeInv, Tick, Advance, simVars
<1>2. \A m \in moments : m \in Nat /\ m >= clk
  BY <1>1 DEF DueFrom, OutFrom, BagToSet, Never
<1>3. moments \in SUBSET Nat
  BY <1>2
<1>4. \A p \in Process : wake[p] = Never \/ wake[p] \in moments
  OBVIOUS
<1>5. DOMAIN flying \subseteq moments
  BY DEF BagToSet
<1> HIDE DEF moments
<1>6. clk' \in moments /\ \A m \in moments : m \in Nat /\ m >= clk'
  BY <1>1, <1>2, <1>3, LeastIsMin
<1>7. clk' \in Nat /\ DueFrom(wake', clk') /\ OutFrom(flying', clk')
  BY <1>1, <1>4, <1>5, <1>6 DEF DueFrom, OutFrom
<1>8. cfg.workload # "SYNTH" => Reading'
  BY <1>1 DEF ClockInv, OptionsInv, traceVars, Reading
<1> QED
  BY <1>1, <1>7, <1>8, OptionsStay DEF ClockInv, OptionsInv, TimeInv

LEMMA TickForward ==
  ASSUME ClockInv, Tick, UNCHANGED traceVars
  PROVE  clk' \in Nat /\ clk' >= clk
<1> DEFINE moments == BagToSet(flying) \cup ({wake[p] : p \in Process} \ {Never})
<1>1. clk \in Nat /\ DueFrom(wake, clk) /\ OutFrom(flying, clk) /\ moments # {} /\ clk' = Min(moments)
  BY DEF ClockInv, TimeInv, Tick, Advance
<1>2. \A m \in moments : m \in Nat /\ m >= clk
  BY <1>1 DEF DueFrom, OutFrom, BagToSet, Never
<1> HIDE DEF moments
<1>3. clk' \in moments
  <2>1. moments \in SUBSET Nat
    BY <1>2
  <2> QED
    BY <1>1, <2>1, LeastIsMin
<1> QED
  BY <1>2, <1>3

\* The steps of SimControl.
LEMMA SimNextClock ==
  ASSUME ClockInv, SimNext, UNCHANGED traceVars
  PROVE  ClockInv'
<1> USE Names DEF PC
<1>1. /\ clk \in Nat /\ DueFrom(wake, clk) /\ OutFrom(flying, clk) /\ DOMAIN pc = PC
      /\ Configured /\ Timed
      /\ cfg.workload # "SYNTH" => Reading
      /\ cfg.workload = "SYNTH" => wake["trace"] = Never
      /\ DOMAIN wake = Process
  BY DEF ClockInv, OptionsInv, TimeInv, DueFrom
<1>2. cfg' = cfg => (cfg.workload # "SYNTH" => Reading')
  BY <1>1 DEF traceVars, Reading
<1>3. CASE WarmupEnds
  <2>1. num_cycles_end_sim \in Nat
    BY <1>1, Times
  <2>2. DueFrom(wake', clk) /\ wake' = [wake EXCEPT !["control"] = clk + num_cycles_end_sim]
    BY <1>1, <1>3, <2>1, HoldsLater DEF WarmupEnds
  <2>3. cfg.workload = "SYNTH" => wake'["trace"] = Never
    BY <1>1, <2>2
  <2> QED
    BY <1>1, <1>2, <1>3, <2>2, <2>3, Carried DEF WarmupEnds
<1>4. CASE ControlEnds
  <2>1. CASE EOS
    <3>1. DueFrom(wake', clk) /\ wake' = [wake EXCEPT !["control"] = Never]
      BY <1>1, <1>4, <2>1, EndsForGood DEF ControlEnds
    <3> QED
      BY <1>1, <1>2, <1>4, <3>1, Carried DEF ControlEnds
  <2>2. CASE ~ EOS
    <3>1. wake' = [wake EXCEPT !["control"] = Never, !["main"] = clk]
      BY <1>4, <2>2 DEF ControlEnds, Finish
    <3>2. DueFrom(wake', clk)
      BY <1>1, <3>1 DEF DueFrom, Never
    <3> QED
      BY <1>1, <1>2, <1>4, <3>1, <3>2, Carried DEF ControlEnds
  <2> QED
    BY <2>1, <2>2
<1>5. ASSUME NEW c \in Core, Generate(c) PROVE ClockInv'
  <2>1. c \in Process /\ c # "trace"
    OBVIOUS
  <2>2. OutFrom(flying', clk)
    BY <1>1, <1>5, ForwardsLater DEF Generate
  <2>3. PICK w \in Nat \cup {Never} : DueFrom(wake', clk) /\ wake' = [wake EXCEPT ![c] = w]
    <3>1. CASE EOS
      BY <1>1, <1>5, <2>1, <3>1, EndsForGood DEF Generate
    <3>2. CASE ~ EOS
      <4>1. PICK t \in Waiting : hold(c, t)
        BY <1>5, <3>2 DEF Generate
      <4>2. t \in Nat
        BY ProcessesAssumption
      <4> QED
        BY <1>1, <2>1, <4>1, <4>2, HoldsLater
    <3> QED
      BY <3>1, <3>2
  <2>4. cfg.workload = "SYNTH" => wake'["trace"] = Never
    BY <1>1, <2>1, <2>3
  <2> QED
    BY <1>1, <1>2, <1>5, <2>2, <2>3, <2>4, Carried DEF Generate
<1>6. CASE Eject
  <2>1. OutFrom(flying', clk)
    <3>1. DOMAIN flying' \subseteq DOMAIN flying
      BY <1>6 DEF Eject, (-)
    <3> QED
      BY <1>1, <3>1 DEF OutFrom
  <2> QED
    BY <1>1, <1>2, <1>6, <2>1, Carried DEF Eject
<1>7. CASE MainEnds
  <2>1. DueFrom(wake', clk) /\ wake' = [wake EXCEPT !["main"] = Never]
    BY <1>1, <1>7, EndsForGood DEF MainEnds
  <2>2. cfg.workload = "SYNTH" => wake'["trace"] = Never
    BY <1>1, <2>1
  <2> QED
    BY <1>1, <1>2, <1>7, <2>1, <2>2, Carried DEF MainEnds
<1>8. CASE Tick
  BY <1>8, TickClock
<1> QED
  BY <1>3, <1>4, <1>5, <1>6, <1>7, <1>8 DEF SimNext

\* The files of a trace, and the records in them.
LEMMA FileRecords ==
  ASSUME cfg.workload # "SYNTH", TraceFits
  PROVE  /\ Len(cfg.files) \in Nat \ {0} /\ DOMAIN cfg.files = 1 .. Len(cfg.files)
         /\ \A k \in DOMAIN cfg.files :
              /\ Len(cfg.files[k]) \in Nat \ {0} /\ DOMAIN cfg.files[k] = 1 .. Len(cfg.files[k])
              /\ \A i \in DOMAIN cfg.files[k] : cfg.files[k][i] \in TraceRecord
<1>1. cfg.files \in Seq(Seq(TraceRecord) \ {<<>>}) /\ cfg.files # <<>>
  BY DEF TraceFits
<1>2. Len(cfg.files) \in Nat \ {0} /\ DOMAIN cfg.files = 1 .. Len(cfg.files)
  BY <1>1, EmptySeq, LenProperties
<1>3. ASSUME NEW k \in DOMAIN cfg.files
      PROVE  /\ Len(cfg.files[k]) \in Nat \ {0} /\ DOMAIN cfg.files[k] = 1 .. Len(cfg.files[k])
             /\ \A i \in DOMAIN cfg.files[k] : cfg.files[k][i] \in TraceRecord
  <2>1. cfg.files[k] \in Seq(TraceRecord) /\ cfg.files[k] # <<>>
    BY <1>1, <1>2, <1>3, ElementOfSeq
  <2> QED
    BY <2>1, EmptySeq, LenProperties, ElementOfSeq
<1> QED
  BY <1>2, <1>3

\* Skipping ends in one of the files, at one of its records.
LEMMA SkipsWithin ==
  ASSUME cfg.workload # "SYNTH", TraceFits, cfg.skip # 0
  PROVE  SkipFile \in DOMAIN cfg.files /\ SkipPos \in DOMAIN cfg.files[SkipFile]
<1> DEFINE n == Len(cfg.files)
           begins == {k \in 1 .. n : late(cfg.files[k][1])}
<1>1. n \in Nat \ {0} /\ DOMAIN cfg.files = 1 .. n
  BY FileRecords
<1>2. ~ late(cfg.files[1][1]) /\ late(Last(cfg.files[SkipFile]))
  BY DEF TraceFits
<1> HIDE DEF n
<1>3. \E k \in 1 .. n : /\ \A i \in 1 .. k : ~ late(cfg.files[i][1])
                        /\ k < n => late(cfg.files[k + 1][1])
  <2>1. CASE begins = {}
    BY <1>1, <2>1
  <2>2. CASE begins # {}
    <3>1. begins \in SUBSET Nat
      BY <1>1
    <3>2. PICK m \in begins : \A k \in begins : m <= k
      BY <2>2, <3>1, LeastExists
    <3>3. m \in 1 .. n /\ late(cfg.files[m][1]) /\ m # 1
      BY <1>1, <1>2
    <3>4. m - 1 \in 1 .. n /\ (m - 1) + 1 = m
      BY <1>1, <3>3
    <3>5. \A i \in 1 .. m - 1 : ~ late(cfg.files[i][1])
      BY <1>1, <3>2, <3>3
    <3> QED
      BY <3>3, <3>4, <3>5
  <2> QED
    BY <2>1, <2>2
<1>4. SkipFile \in 1 .. n
  BY <1>3, Zenon DEF SkipFile, n
<1> DEFINE f == cfg.files[SkipFile]
           later == {i \in DOMAIN f : late(f[i])}
<1>5. Len(f) \in Nat \ {0} /\ DOMAIN f = 1 .. Len(f)
  BY <1>1, <1>4, FileRecords
<1>6. Len(f) \in later /\ later \in SUBSET Nat
  BY <1>2, <1>5 DEF Last
<1>7. Min(later) \in later
  BY <1>6, LeastIsMin
<1> QED
  BY <1>1, <1>4, <1>7 DEF SkipPos

\* The steps of TraceReader.
LEMMA TraceNextClock ==
  ASSUME ClockInv, TraceNext
  PROVE  ClockInv'
<1> USE Names DEF PC
<1>1. /\ clk \in Nat /\ DueFrom(wake, clk) /\ OutFrom(flying, clk) /\ DOMAIN pc = PC
      /\ Configured /\ Timed
      /\ DOMAIN wake = Process
  BY DEF ClockInv, OptionsInv, TimeInv, DueFrom
<1>2. Runs("trace") /\ clk' = clk /\ cfg' = cfg /\ DOMAIN pc' = PC
  BY <1>1 DEF TraceNext, TraceSkip, TraceSkipped, TraceRead, TraceInject, Read
<1>3. cfg.workload # "SYNTH" /\ TraceFits /\ Reading
  BY <1>2, RunsDue DEF ClockInv, OptionsInv
<1>4. /\ Len(cfg.files) \in Nat \ {0} /\ DOMAIN cfg.files = 1 .. Len(cfg.files)
      /\ \A k \in DOMAIN cfg.files : Len(cfg.files[k]) \in Nat \ {0}
  BY <1>3, FileRecords
<1>5. last_pkt_inject_clk \in Int
  BY <1>3 DEF Reading
<1>6. CASE TraceSkip
  <2>1. DueFrom(wake', clk)
    BY <1>1, <1>6, Times, HoldsLater DEF TraceSkip
  <2>2. Reading'
    <3>1. CASE cfg.skip = 0
      BY <1>3, <1>6, <3>1 DEF TraceSkip, Reading
    <3>2. CASE cfg.skip # 0
      <4>1. SkipFile \in DOMAIN cfg.files /\ SkipPos \in DOMAIN cfg.files[SkipFile]
        BY <1>3, <3>2, SkipsWithin
      <4>2. SkipPos \in 0 .. Len(cfg.files[SkipFile])
        BY <1>3, <4>1, FileRecords
      <4>3. /\ file_id' = SkipFile /\ fp' = SkipFile /\ pos' = SkipPos
            /\ last_pkt_inject_clk' = last_pkt_inject_clk
        BY <1>6, <3>2 DEF TraceSkip
      <4> QED
        BY <1>2, <1>5, <4>1, <4>2, <4>3 DEF Reading
    <3> QED
      BY <3>1, <3>2
  <2> QED
    BY <1>1, <1>2, <1>3, <1>6, <2>1, <2>2, Carried DEF TraceSkip
<1>7. CASE TraceSkipped
  <2>1. Reading' /\ wake' = wake
    BY <1>1, <1>3, <1>7 DEF TraceSkipped, Reading, GoesOn
  <2> QED
    BY <1>1, <1>2, <1>3, <1>7, <2>1, Carried DEF TraceSkipped
<1>8. CASE TraceRead
  <2>1. ASSUME NEW k \in DOMAIN cfg.files, NEW i \in DOMAIN cfg.files[k], Read(cfg.files[k][i])
        PROVE  DueFrom(wake', clk)
    <3> DEFINE tr == cfg.files[k][i]
    <3>1. tr.cycle \in Nat
      BY <1>3, FileRecords DEF TraceRecord
    <3> HIDE DEF tr
    <3>2. tr.cycle * Cycle \in Nat
      BY <3>1 DEF Cycle
    <3>3. CASE Packets(tr) # <<>> /\ tr.cycle * Cycle > last_pkt_inject_clk
      <4>1. hold("trace", tr.cycle * Cycle - last_pkt_inject_clk)
        BY <2>1, <3>3 DEF Read, tr
      <4> QED
        BY <1>1, <1>5, <3>2, <3>3, <4>1, HoldsLater
    <3>4. CASE ~ (Packets(tr) # <<>> /\ tr.cycle * Cycle > last_pkt_inject_clk)
      BY <1>1, <2>1, <3>4 DEF Read, GoesOn, tr
    <3> QED
      BY <3>3, <3>4
  <2>2. flying' = flying /\ last_pkt_inject_clk' = last_pkt_inject_clk
    BY <1>8 DEF TraceRead
  <2>3. CASE ~ EOS /\ pos < Len(cfg.files[fp])
    <3>1. pos' = pos + 1 /\ fp' = fp /\ file_id' = file_id /\ Read(cfg.files[fp][pos + 1])
      BY <1>8, <2>3 DEF TraceRead
    <3>2. fp \in DOMAIN cfg.files /\ pos + 1 \in 1 .. Len(cfg.files[fp])
      BY <1>3, <1>4, <2>3, SMTT(30) DEF Reading
    <3>3. pos + 1 \in DOMAIN cfg.files[fp]
      BY <1>3, <3>2, FileRecords
    <3>4. DueFrom(wake', clk)
      BY <2>1, <3>1, <3>2, <3>3
    <3>5. Reading'
      BY <1>2, <1>3, <1>4, <2>2, <3>1, <3>2 DEF Reading
    <3> QED
      BY <1>1, <1>2, <1>3, <2>2, <3>4, <3>5, Carried
  <2>4. CASE ~ EOS /\ ~ (pos < Len(cfg.files[fp])) /\ file_id < Len(cfg.files)
    <3>1. pos' = 1 /\ fp' = file_id + 1 /\ file_id' = file_id + 1 /\ Read(cfg.files[file_id + 1][1])
      BY <1>8, <2>4 DEF TraceRead
    <3>2. file_id + 1 \in DOMAIN cfg.files
      BY <1>3, <1>4, <2>4 DEF Reading
    <3>3. 1 \in DOMAIN cfg.files[file_id + 1] /\ 1 \in 0 .. Len(cfg.files[file_id + 1])
      BY <1>3, <3>2, FileRecords
    <3>4. DueFrom(wake', clk)
      BY <2>1, <3>1, <3>2, <3>3
    <3>5. Reading'
      BY <1>2, <1>5, <2>2, <3>1, <3>2, <3>3 DEF Reading
    <3> QED
      BY <1>1, <1>2, <1>3, <2>2, <3>4, <3>5, Carried
  <2>5. CASE EOS \/ (~ (pos < Len(cfg.files[fp])) /\ ~ (file_id < Len(cfg.files)))
    <3>1. /\ UNCHANGED <<file_id, fp, pos>>
          /\ IF EOS THEN Ends("trace") ELSE Finish("trace")
      BY <1>8, <2>5 DEF TraceRead
    <3>2. Reading'
      BY <1>2, <1>3, <2>2, <3>1 DEF Reading
    <3>3. DueFrom(wake', clk)
      <4>1. CASE EOS
        BY <1>1, <3>1, <4>1, EndsForGood
      <4>2. CASE ~ EOS
        <5>1. wake' = [wake EXCEPT !["trace"] = Never, !["main"] = clk]
          BY <3>1, <4>2 DEF Finish
        <5> QED
          BY <1>1, <5>1 DEF DueFrom, Never
      <4> QED
        BY <4>1, <4>2
    <3> QED
      BY <1>1, <1>2, <1>3, <2>2, <3>2, <3>3, Carried
  <2> QED
    BY <2>3, <2>4, <2>5
<1>9. CASE TraceInject
  <2>1. OutFrom(flying', clk)
    BY <1>1, <1>9, ForwardsLater DEF TraceInject
  <2>2. Reading' /\ wake' = wake
    <3>1. InjectClk \in Int
      BY <1>1, <1>5 DEF InjectClk
    <3> QED
      BY <1>3, <1>9, <3>1 DEF TraceInject, Reading, GoesOn
  <2> QED
    BY <1>1, <1>2, <1>3, <1>9, <2>1, <2>2, Carried DEF TraceInject
<1> QED
  BY <1>6, <1>7, <1>8, <1>9 DEF TraceNext

\* The steps of Profile.
LEMMA ProfileNextClock ==
  ASSUME ClockInv, ProfileNext
  PROVE  ClockInv'
<1> USE Names DEF PC
<1>1. /\ clk \in Nat /\ DueFrom(wake, clk) /\ OutFrom(flying, clk) /\ DOMAIN pc = PC
      /\ Configured /\ Timed
      /\ cfg.workload # "SYNTH" => Reading
      /\ cfg.workload = "SYNTH" => wake["trace"] = Never
      /\ DOMAIN wake = Process
  BY DEF ClockInv, OptionsInv, TimeInv, DueFrom
<1>2. clk' = clk /\ cfg' = cfg /\ flying' = flying /\ DOMAIN pc' = PC /\ UNCHANGED traceVars
  BY <1>1 DEF ProfileNext, ProfileStart, ProfileCycle, ProfileInstr
<1>3. cfg.workload # "SYNTH" => Reading'
  BY <1>1, <1>2 DEF traceVars, Reading
<1>4. \/ \E t \in {cfg.interval, num_cycles_check} : hold("profile", t)
      \/ Ends("profile")
      \/ wake' = wake
  BY DEF ProfileNext, ProfileStart, ProfileCycle, ProfileInstr, GoesOn
<1>5. cfg.interval \in Nat /\ num_cycles_check \in Nat
  BY <1>1 DEF Configured, num_cycles_check, Cycle
<1>6. PICK w \in Nat \cup {Never} : \/ DueFrom(wake', clk) /\ wake' = [wake EXCEPT !["profile"] = w]
                                   \/ wake' = wake
  BY <1>1, <1>4, <1>5, HoldsLater, EndsForGood
<1>7. DueFrom(wake', clk) /\ (cfg.workload = "SYNTH" => wake'["trace"] = Never)
  BY <1>1, <1>6
<1> QED
  BY <1>1, <1>2, <1>3, <1>7, Carried

LEMMA NextClock ==
  ASSUME ClockInv, [SimulationNext]_simulationVars
  PROVE  ClockInv'
<1>1. CASE SimulationNext
  BY <1>1, SimNextClock, TraceNextClock, ProfileNextClock DEF SimulationNext
<1>2. CASE UNCHANGED simulationVars
  BY <1>2, Carried DEF simulationVars, simVars, traceVars, ClockInv, TimeInv, OptionsInv, Reading
<1> QED
  BY <1>1, <1>2

-----------------------------------------------------------------------------
(* Warm-up, measurement and end. *)

\* The records of SimOut that this is about.
Outcomes ==
  {"m_num_pkt_inj", "m_num_pkt_ejt", "m_num_pkt_inj_warmup", "m_num_pkt_ejt_warmup", "m_clk_warmup_end",
   "m_clk_sim_end", "m_warmup_phase", "m_pkt_T_t_tab", "m_num_instr_executed", "m_periodic_instr_executed",
   "m_periodic_ejt_pkt", "m_periodic_inj_pkt", "m_power_tmpl_profile"}

WarmupEnd == cfg.skip + num_cycles_warmup_sim
SimEnd == WarmupEnd + num_cycles_end_sim

\* Where main and the control process stand, and when they go on.
Stands ==
  /\ pc["control"] \in {"start", "end", "done"} /\ pc["main"] \in {"start", "done"} /\ EOS \in BOOLEAN
  /\ pc["control"] = "start" => wake["control"] = WarmupEnd
  /\ pc["control"] = "end" => wake["control"] = SimEnd
  /\ pc["control"] = "done" => EOS /\ clk = SimEnd
  /\ ~ EOS => pc["main"] = "start" /\ wake["main"] = Never
  /\ EOS /\ pc["main"] = "start" => wake["main"] = clk
  /\ EOS /\ cfg.workload = "SYNTH" => pc["control"] = "done"

\* What they have put down.
Recorded ==
  /\ DOMAIN sim = Outcomes
  /\ sim.m_num_pkt_ejt \in Int /\ sim.m_num_pkt_ejt_warmup \in Int
  /\ sim.m_pkt_T_t_tab = eff_num_pkt_ejt
  /\ pc["control"] # "start" => sim.m_clk_warmup_end = WarmupEnd
  /\ EOS => sim.m_clk_sim_end = clk

MeasureInv == Stands /\ Recorded

\* A step that changes nothing of it, but may count a packet that has come out.
Apart ==
  /\ DOMAIN sim' = Outcomes
  /\ sim'.m_clk_warmup_end = sim.m_clk_warmup_end
  /\ sim'.m_clk_sim_end = sim.m_clk_sim_end
  /\ sim'.m_num_pkt_ejt_warmup = sim.m_num_pkt_ejt_warmup
  /\ \E n \in {0, 1} : /\ sim'.m_num_pkt_ejt = sim.m_num_pkt_ejt + n
                       /\ sim'.m_pkt_T_t_tab = sim.m_pkt_T_t_tab + n

LEMMA TimesStay ==
  ASSUME cfg' = cfg
  PROVE  /\ WarmupEnd' = WarmupEnd /\ SimEnd' = SimEnd /\ clk_start_profile' = clk_start_profile
         /\ Profiling' <=> Profiling
<1>1. num_cycles_warmup_sim' = num_cycles_warmup_sim /\ (Profiling' <=> Profiling)
  BY DEF num_cycles_warmup_sim, Profiling
<1>2. num_cycles_end_sim' = num_cycles_end_sim
  BY <1>1, Zenon DEF num_cycles_end_sim
<1> QED
  BY <1>1, <1>2 DEF WarmupEnd, SimEnd, clk_start_profile

LEMMA StartControl == SimulationInit => MeasureInv
<1> SUFFICES ASSUME SimulationInit PROVE MeasureInv
  OBVIOUS
<1> USE DEF SimulationInit, SimInit
<1>1. wake["control"] = WarmupEnd /\ wake["main"] = Never
  BY Names DEF FirstHold, PC, WarmupEnd
<1>2. Recorded
  BY DEF SimOut, Outcomes, Recorded, eff_num_pkt_ejt
<1> QED
  BY <1>1, <1>2 DEF MeasureInv, Stands

LEMMA ControlKept ==
  ASSUME MeasureInv, Apart, cfg' = cfg, clk' = clk, EOS' = EOS,
         pc'["control"] = pc["control"], pc'["main"] = pc["main"],
         wake'["control"] = wake["control"], wake'["main"] = wake["main"]
  PROVE  MeasureInv'
<1>1. Stands'
  BY TimesStay DEF MeasureInv, Stands
<1>2. Recorded'
  BY TimesStay DEF MeasureInv, Recorded, Apart, eff_num_pkt_ejt
<1> QED
  BY <1>1, <1>2 DEF MeasureInv

\* Counting of other things.
LEMMA SameApart ==
  ASSUME Recorded, sim' = sim
  PROVE  Apart
BY DEF Recorded, Apart, eff_num_pkt_ejt

LEMMA CountedApart ==
  ASSUME Recorded, NEW tr, sim' = Counted(sim, tr)
  PROVE  Apart
BY DEF Recorded, Apart, eff_num_pkt_ejt, Counted, Outcomes

LEMMA ResetApart ==
  ASSUME Recorded, sim' \in {Reset(sim), perf_reset(sim)}
  PROVE  Apart
<1> USE DEF Recorded, Apart, eff_num_pkt_ejt, perf_reset, Outcomes
<1>1. CASE sim' = perf_reset(sim)
  BY <1>1
<1>2. CASE sim' = Reset(sim)
  BY <1>2 DEF Reset, power_reset
<1> QED
  BY <1>1, <1>2

\* The simulation ends.
LEMMA FinishControl ==
  ASSUME ClockInv, MeasureInv, ~ EOS, NEW p \in {"control", "trace"}, Finish(p), cfg' = cfg, clk' = clk,
         pc' = [pc EXCEPT ![p] = "done"],
         p = "trace" => cfg.workload # "SYNTH",
         p = "control" => clk = SimEnd /\ pc["control"] = "end"
  PROVE  MeasureInv'
<1>1. DOMAIN pc = PC /\ DOMAIN wake = Process
  BY DEF ClockInv, TimeInv, DueFrom
<1>2. /\ pc'["main"] = pc["main"] /\ pc'["control"] = IF p = "control" THEN "done" ELSE pc["control"]
      /\ wake'["main"] = clk /\ wake'["control"] = IF p = "control" THEN Never ELSE wake["control"]
      /\ EOS' = TRUE
  BY <1>1, Names DEF Finish, PC
<1>3. Stands'
  BY <1>2, TimesStay DEF MeasureInv, Stands
<1>4. Recorded'
  BY <1>2, TimesStay DEF MeasureInv, Stands, Recorded, Finish, eff_num_pkt_ejt, Outcomes
<1> QED
  BY <1>3, <1>4 DEF MeasureInv

LEMMA SimNextControl ==
  ASSUME ClockInv, MeasureInv, SimNext, pc["main"] # "done"
  PROVE  MeasureInv'
<1> USE Names DEF PC
<1>1. DOMAIN pc = PC /\ DOMAIN wake = Process /\ clk \in Nat /\ Recorded /\ Stands
  BY DEF ClockInv, TimeInv, DueFrom, MeasureInv
<1>2. CASE WarmupEnds
  <2>1. /\ pc["control"] = "start" /\ clk = WarmupEnd /\ clk' = clk /\ cfg' = cfg /\ EOS' = EOS
        /\ pc'["control"] = "end" /\ pc'["main"] = pc["main"]
        /\ wake'["control"] = clk + num_cycles_end_sim /\ wake'["main"] = wake["main"]
    BY <1>1, <1>2 DEF WarmupEnds, hold, Runs, Stands
  <2>2. Stands'
    BY <1>1, <2>1, TimesStay DEF Stands, SimEnd
  <2>3. Recorded'
    BY <1>1, <1>2, <2>1, TimesStay DEF WarmupEnds, Recorded, reset_stats, eff_num_pkt_ejt, Outcomes
  <2> QED
    BY <2>2, <2>3 DEF MeasureInv
<1>3. CASE ControlEnds
  <2>1. pc["control"] = "end" /\ clk = SimEnd /\ clk' = clk /\ cfg' = cfg /\ pc' = [pc EXCEPT !["control"] = "done"]
    BY <1>1, <1>3 DEF ControlEnds, Runs, Stands
  <2>2. CASE ~ EOS
    <3>1. Finish("control")
      BY <1>3, <2>2 DEF ControlEnds
    <3> QED
      BY <2>1, <2>2, <3>1, FinishControl
  <2>3. CASE EOS
    <3>1. EOS' = EOS /\ sim' = sim /\ wake'["main"] = wake["main"]
          /\ pc'["control"] = "done" /\ pc'["main"] = pc["main"]
      BY <1>1, <1>3, <2>1, <2>3 DEF ControlEnds, Ends
    <3> QED
      BY <1>1, <2>1, <2>3, <3>1, TimesStay DEF MeasureInv, Stands, Recorded, eff_num_pkt_ejt
  <2> QED
    BY <1>1, <2>2, <2>3 DEF Stands
<1>4. ASSUME NEW c \in Core, Generate(c) PROVE MeasureInv'
  <2>1. c \in Process /\ c # "control" /\ c # "main"
    OBVIOUS
  <2>2. wake'["control"] = wake["control"] /\ wake'["main"] = wake["main"]
    BY <1>1, <1>4, <2>1 DEF Generate, hold, Ends
  <2>3. Apart
    BY <1>1, <1>4 DEF Generate, Apart, Recorded, eff_num_pkt_ejt, Outcomes
  <2> QED
    BY <1>4, <2>2, <2>3, ControlKept DEF Generate
<1>5. CASE Eject
  <2>1. Apart
    BY <1>1, <1>5 DEF Eject, Apart, Recorded, eff_num_pkt_ejt, Outcomes
  <2> QED
    BY <1>5, <2>1, ControlKept DEF Eject
<1>6. CASE MainEnds
  <2>1. /\ EOS
        /\ UNCHANGED <<clk, cfg, EOS, sim>> /\ pc'["main"] = "done" /\ pc'["control"] = pc["control"]
        /\ wake'["control"] = wake["control"]
    BY <1>1, <1>6 DEF MainEnds, Ends, Runs, Stands, Never
  <2> QED
    BY <1>1, <2>1, TimesStay DEF MeasureInv, Stands, Recorded, eff_num_pkt_ejt
<1>7. CASE Tick
  <2>1. ~ EOS
    <3> SUFFICES ASSUME EOS PROVE FALSE
      OBVIOUS
    <3>1. wake["main"] = clk /\ clk # Never
      BY <1>1 DEF Stands, Never
    <3>2. clk \in {wake[p] : p \in Process} \ {Never}
      BY <3>1
    <3> QED
      BY <1>7, <3>2 DEF Tick, Advance
  <2>2. wake' = wake /\ UNCHANGED simVars
    BY <1>7 DEF Tick, Advance
  <2> QED
    BY <1>1, <2>1, <2>2, TimesStay DEF MeasureInv, Stands, Recorded, eff_num_pkt_ejt, simVars
<1> QED
  BY <1>2, <1>3, <1>4, <1>5, <1>6, <1>7 DEF SimNext

LEMMA TraceNextControl ==
  ASSUME ClockInv, MeasureInv, TraceNext
  PROVE  MeasureInv'
<1> USE Names DEF PC
<1>1. DOMAIN pc = PC /\ DOMAIN wake = Process /\ Recorded
  BY DEF ClockInv, TimeInv, DueFrom, MeasureInv
<1>2. Runs("trace") /\ clk' = clk /\ cfg' = cfg
      /\ pc'["control"] = pc["control"] /\ pc'["main"] = pc["main"]
  BY <1>1 DEF TraceNext, TraceSkip, TraceSkipped, TraceRead, TraceInject, Read
<1>3. cfg.workload # "SYNTH"
  BY <1>2, RunsDue DEF ClockInv, OptionsInv
<1>4. CASE TraceSkip
  <2>1. Apart
    BY <1>1, <1>4 DEF TraceSkip, Apart, Recorded, eff_num_pkt_ejt, Outcomes
  <2> QED
    BY <1>1, <1>2, <1>4, <2>1, ControlKept DEF TraceSkip, hold
<1>5. CASE TraceSkipped
  BY <1>1, <1>2, <1>5, SameApart, ControlKept DEF TraceSkipped, GoesOn
<1>6. CASE TraceInject
  <2>1. Apart
    BY <1>1, <1>6 DEF TraceInject, Apart, Recorded, eff_num_pkt_ejt, Outcomes
  <2> QED
    BY <1>1, <1>2, <1>6, <2>1, ControlKept DEF TraceInject, GoesOn
<1>7. CASE TraceRead
  <2>1. ASSUME NEW tr, Read(tr) PROVE MeasureInv'
    <3>1. Apart
      BY <1>1, <2>1, CountedApart DEF Read
    <3>2. wake'["control"] = wake["control"] /\ wake'["main"] = wake["main"] /\ EOS' = EOS
      BY <1>1, <2>1 DEF Read, hold, GoesOn
    <3> QED
      BY <1>2, <3>1, <3>2, ControlKept
  <2>2. \/ \E k, i : Read(cfg.files[k][i])
        \/ /\ IF EOS THEN Ends("trace") /\ UNCHANGED <<EOS, sim>> ELSE Finish("trace")
           /\ pc' = [pc EXCEPT !["trace"] = "done"]
    BY <1>7, Zenon DEF TraceRead
  <2>3. CASE EOS /\ Ends("trace") /\ UNCHANGED <<EOS, sim>>
    BY <1>1, <1>2, <2>3, SameApart, ControlKept DEF Ends
  <2>4. CASE ~ EOS /\ Finish("trace") /\ pc' = [pc EXCEPT !["trace"] = "done"]
    BY <1>2, <1>3, <2>4, FinishControl
  <2> QED
    BY <2>1, <2>2, <2>3, <2>4
<1> QED
  BY <1>4, <1>5, <1>6, <1>7 DEF TraceNext

LEMMA ProfileNextControl ==
  ASSUME ClockInv, MeasureInv, ProfileNext
  PROVE  MeasureInv'
<1> USE Names DEF PC
<1>1. DOMAIN pc = PC /\ DOMAIN wake = Process /\ Recorded
  BY DEF ClockInv, TimeInv, DueFrom, MeasureInv
<1>2. UNCHANGED <<clk, cfg, EOS>> /\ pc'["control"] = pc["control"] /\ pc'["main"] = pc["main"]
  BY <1>1 DEF ProfileNext, ProfileStart, ProfileCycle, ProfileInstr
<1>3. wake'["control"] = wake["control"] /\ wake'["main"] = wake["main"]
  BY <1>1 DEF ProfileNext, ProfileStart, ProfileCycle, ProfileInstr, hold, Ends, GoesOn
<1>4. sim' = sim \/ sim' \in {Reset(sim), perf_reset(sim)}
  BY DEF ProfileNext, ProfileStart, ProfileCycle, ProfileInstr, PrintLine
<1> QED
  BY <1>1, <1>2, <1>3, <1>4, SameApart, ResetApart, ControlKept

LEMMA NextControl ==
  ASSUME ClockInv, MeasureInv, [SimulationNext]_simulationVars
  PROVE  MeasureInv'
<1>1. CASE SimulationNext
  BY <1>1, SimNextControl, TraceNextControl, ProfileNextControl DEF SimulationNext
<1>2. CASE UNCHANGED simulationVars
  BY <1>2, SameApart, ControlKept DEF simulationVars, simVars, MeasureInv
<1> QED
  BY <1>1, <1>2

\* Half a cycle more is not another cycle.
LEMMA HalfACycle ==
  ASSUME NEW t \in Nat, t % Cycle = 0, NEW h \in {0, 1}
  PROVE  (t + h) \div Cycle = t \div Cycle
<1>1. h = 0 \/ h = 1
  OBVIOUS
<1> QED
  BY <1>1 DEF Cycle

\* When main goes on, the time measured is what was asked for.
LEMMA MeasuresAsked == ClockInv /\ MeasureInv => Measured
<1> SUFFICES ASSUME ClockInv, MeasureInv, pc["main"] = "done" PROVE Measured
  BY DEF Measured
<1> DEFINE asked == cfg.end - (IF cfg.start = 0 THEN cfg.skip ELSE cfg.start)
           half == IF Profiling THEN 1 ELSE 0
<1>1. /\ EOS /\ sim.m_pkt_T_t_tab = eff_num_pkt_ejt /\ sim.m_clk_sim_end = clk /\ clk \in Nat
      /\ pc["control"] \in {"start", "end", "done"}
      /\ pc["control"] # "start" => sim.m_clk_warmup_end = WarmupEnd
      /\ pc["control"] = "start" => wake["control"] = WarmupEnd
      /\ pc["control"] = "end" => wake["control"] = SimEnd
      /\ pc["control"] = "done" => clk = SimEnd
      /\ cfg.workload = "SYNTH" => pc["control"] = "done"
  BY DEF ClockInv, TimeInv, MeasureInv, Stands, Recorded
<1>2. wake["control"] # Never => wake["control"] >= clk
  BY Names DEF ClockInv, TimeInv, DueFrom, PC
<1>3. /\ cfg.skip \in Nat /\ cfg.start \in Nat /\ cfg.end \in Nat
      /\ WarmupEnd \in Nat /\ WarmupEnd < cfg.end /\ SimEnd = cfg.end + half
  BY Times DEF ClockInv, OptionsInv, WarmupEnd, SimEnd
<1>4. half \in {0, 1}
  OBVIOUS
<1>5. asked = cfg.end - WarmupEnd
  BY <1>3 DEF WarmupEnd, num_cycles_warmup_sim
<1>6. asked % Cycle = 0
  BY DEF ClockInv, OptionsInv, Configured, Whole, Cycle
<1> HIDE DEF half, asked
<1>7. asked \in Nat /\ (asked + half) \div Cycle = asked \div Cycle
  <2>1. asked \in Nat
    BY <1>3, <1>5
  <2> QED
    BY <1>4, <1>6, <2>1, HalfACycle
<1>8. CASE clk <= cfg.end /\ cfg.workload # "SYNTH"
  BY <1>1, <1>8 DEF Measured, asked
<1>9. CASE ~ (clk <= cfg.end /\ cfg.workload # "SYNTH")
  <2>1. clk = SimEnd /\ pc["control"] # "start"
    BY <1>1, <1>2, <1>3, <1>4, <1>9 DEF Never
  <2>2. eff_num_cycle = asked + half
    BY <1>1, <1>3, <1>4, <1>5, <2>1 DEF eff_num_cycle
  <2>3. eff_num_cycle \div Cycle = asked \div Cycle
    BY <1>7, <2>2
  <2> QED
    BY <1>1, <2>3, Zenon DEF Measured, asked
<1> QED
  BY <1>8, <1>9

\* In every simulation, whatever its options and whichever process ends it, the
\* statistics are of the packets and of the time between the end of the warm-up
\* and that of the simulation.
THEOREM SimulationsMeasure == Simulation => []Measured
<1>1. SimulationInit => ClockInv /\ MeasureInv
  BY StartClock, StartControl
<1>2. ClockInv /\ MeasureInv /\ [SimulationNext]_simulationVars => (ClockInv /\ MeasureInv)'
  BY NextClock, NextControl
<1> QED
  BY <1>1, <1>2, MeasuresAsked, PTL DEF Simulation

-----------------------------------------------------------------------------
(* The lines of the profile. *)

Latest == printed[Len(printed)]

\* What Profiled says of one line.
LineRight(n) ==
  /\ cfg.profile_perf =>
       /\ printed[n].ejt_pkt = printed[n].ejt_total - printed[n - 1].ejt_total
       /\ printed[n].instr = printed[n].instr_total - printed[n - 1].instr_total
  /\ cfg.profile_power =>
       printed[n].energy.dynamic =
         printed[n].powered_total - (IF n = 2 THEN 0 ELSE printed[n - 1].powered_total)
  /\ cfg.workload = "CMP" => printed[n].num_cycles = printed[n].clk - printed[n - 1].clk

\* Lines have been printed since the process has started.
Printing ==
  /\ Len(printed) \in Nat /\ DOMAIN printed = 1 .. Len(printed)
  /\ pc["profile"] = "start" <=> printed = <<>>
  /\ printed # <<>> => Len(printed) > 0
  /\ \A n \in DOMAIN printed : printed[n].ejt_total \in Int /\ printed[n].powered_total \in Int

\* What has been counted since the latest line.  Energy is counted since the
\* warm-up, also before the first line, which does not reset it.
CountedSince ==
  /\ sim.m_warmup_phase \in BOOLEAN /\ (pc["control"] = "start" => sim.m_warmup_phase)
  /\ sim.m_periodic_ejt_pkt \in Int /\ sim.m_power_tmpl_profile \in Int
  /\ cfg.profile_power =>
       sim.m_power_tmpl_profile = PoweredPackets - (IF Len(printed) \in {0, 1} THEN 0 ELSE Latest.powered_total)
  /\ printed # <<>> =>
       /\ cfg.profile_perf =>
            /\ sim.m_periodic_ejt_pkt = sim.m_num_pkt_ejt - Latest.ejt_total
            /\ sim.m_periodic_instr_executed = Latest.instr_total
       /\ cfg.workload = "CMP" => last_profile_clk = Latest.clk

LinesInv == Printing /\ CountedSince /\ \A n \in Lines : LineRight(n)

\* A step that prints nothing and counts nothing of that.
Quiet ==
  /\ UNCHANGED <<cfg, printed, last_profile_clk>>
  /\ pc'["profile"] = pc["profile"] /\ (pc'["control"] = "start" => pc["control"] = "start")
  /\ sim'.m_warmup_phase = sim.m_warmup_phase
  /\ sim'.m_num_pkt_ejt = sim.m_num_pkt_ejt /\ sim'.m_num_pkt_ejt_warmup = sim.m_num_pkt_ejt_warmup
  /\ sim'.m_periodic_ejt_pkt = sim.m_periodic_ejt_pkt
  /\ sim'.m_periodic_instr_executed = sim.m_periodic_instr_executed
  /\ sim'.m_power_tmpl_profile = sim.m_power_tmpl_profile

LEMMA StartLines == SimulationInit => LinesInv
<1> SUFFICES ASSUME SimulationInit PROVE LinesInv
  OBVIOUS
<1>1. printed = <<>> /\ pc["profile"] = "start" /\ pc["control"] = "start" /\ sim = SimOut
  BY DEF SimulationInit, SimInit, ProfileInit
<1>2. Len(printed) = 0 /\ DOMAIN printed = {}
  BY <1>1
<1> QED
  BY <1>1, <1>2 DEF LinesInv, Printing, CountedSince, PoweredPackets, Lines, SimOut

\* Nothing printed, the lines stay right.
LEMMA LinesStay ==
  ASSUME LinesInv, UNCHANGED <<cfg, printed>>
  PROVE  \A n \in Lines' : LineRight(n)'
BY DEF LinesInv, Lines, LineRight

LEMMA QuietLines ==
  ASSUME LinesInv, Quiet
  PROVE  LinesInv'
<1>1. \A n \in Lines' : LineRight(n)'
  BY LinesStay DEF Quiet
<1>2. Printing'
  BY DEF LinesInv, Printing, Quiet
<1>3. PoweredPackets' = PoweredPackets /\ Latest' = Latest
  BY DEF Quiet, PoweredPackets, eff_num_pkt_ejt, Latest
<1>4. CountedSince'
  BY <1>3 DEF LinesInv, CountedSince, Quiet
<1> QED
  BY <1>1, <1>2, <1>4 DEF LinesInv

LEMMA SimNextLines ==
  ASSUME ClockInv, MeasureInv, LinesInv, SimNext, UNCHANGED <<traceVars, profileVars>>
  PROVE  LinesInv'
<1> USE Names DEF PC
<1>1. DOMAIN pc = PC /\ Recorded
  BY DEF ClockInv, TimeInv, MeasureInv
<1>2. printed' = printed /\ last_profile_clk' = last_profile_clk /\ Latest' = Latest
  BY DEF profileVars, Latest
<1>3. CASE WarmupEnds
  <2>1. /\ pc["control"] = "start" /\ pc'["profile"] = pc["profile"] /\ pc'["control"] = "end" /\ cfg' = cfg
    BY <1>1, <1>3 DEF WarmupEnds
  <2>2. /\ sim'.m_warmup_phase = FALSE
        /\ sim'.m_num_pkt_ejt = sim.m_num_pkt_ejt /\ sim'.m_num_pkt_ejt_warmup = sim.m_num_pkt_ejt
        /\ sim'.m_periodic_ejt_pkt = sim.m_periodic_ejt_pkt
        /\ sim'.m_periodic_instr_executed = sim.m_periodic_instr_executed
        /\ sim'.m_power_tmpl_profile = sim.m_power_tmpl_profile
    BY <1>1, <1>3 DEF WarmupEnds, Recorded, Outcomes, reset_stats
  <2>3. PoweredPackets = 0 /\ PoweredPackets' = 0
    BY <1>1, <2>1, <2>2 DEF PoweredPackets, eff_num_pkt_ejt, LinesInv, CountedSince, Recorded
  <2>4. CountedSince'
    BY <1>2, <2>1, <2>2, <2>3 DEF LinesInv, CountedSince
  <2>5. Printing'
    BY <1>2, <2>1 DEF LinesInv, Printing
  <2> QED
    BY <1>2, <2>1, <2>4, <2>5, LinesStay DEF LinesInv
<1>4. CASE ControlEnds
  <2>1. Quiet
    BY <1>1, <1>2, <1>4 DEF ControlEnds, Finish, Quiet, Recorded, Outcomes
  <2> QED
    BY <2>1, QuietLines
<1>5. ASSUME NEW c \in Core, Generate(c) PROVE LinesInv'
  <2>1. Quiet
    BY <1>1, <1>2, <1>5 DEF Generate, Quiet, Recorded, Outcomes
  <2> QED
    BY <2>1, QuietLines
<1>6. CASE Eject
  <2>1. pc' = pc /\ cfg' = cfg
    BY <1>6 DEF Eject
  <2>2. /\ sim'.m_warmup_phase = sim.m_warmup_phase
        /\ sim'.m_num_pkt_ejt = sim.m_num_pkt_ejt + 1 /\ sim'.m_num_pkt_ejt_warmup = sim.m_num_pkt_ejt_warmup
        /\ sim'.m_periodic_ejt_pkt = sim.m_periodic_ejt_pkt + Count(cfg.profile_perf)
        /\ sim'.m_periodic_instr_executed = sim.m_periodic_instr_executed
        /\ sim'.m_power_tmpl_profile = sim.m_power_tmpl_profile + Count(cfg.profile_power /\ ~ sim.m_warmup_phase)
    BY <1>1, <1>6 DEF Eject, Recorded, Outcomes
  <2>3. cfg.profile_perf => Count(cfg.profile_perf) = 1
    BY DEF Count
  <2>4. cfg.profile_power => Count(cfg.profile_power /\ ~ sim.m_warmup_phase) = IF sim.m_warmup_phase THEN 0 ELSE 1
    BY DEF Count
  <2>5. Count(cfg.profile_perf) \in Int /\ Count(cfg.profile_power /\ ~ sim.m_warmup_phase) \in Int
    BY DEF Count
  <2>6. /\ PoweredPackets \in Int
        /\ PoweredPackets' = PoweredPackets + (IF sim.m_warmup_phase THEN 0 ELSE 1)
    BY <1>1, <2>2, SMTT(30) DEF PoweredPackets, eff_num_pkt_ejt, LinesInv, CountedSince, Recorded
  <2>7. printed # <<>> => Latest.ejt_total \in Int /\ Latest.powered_total \in Int
    BY DEF LinesInv, Printing, Latest
  <2>8. printed = <<>> => Len(printed) = 0
    OBVIOUS
  <2>9. CountedSince'
    <3>1. sim'.m_periodic_ejt_pkt \in Int /\ sim'.m_power_tmpl_profile \in Int
      BY <2>2, <2>5 DEF LinesInv, CountedSince
    <3>2. ASSUME cfg.profile_power
          PROVE  sim'.m_power_tmpl_profile =
                   PoweredPackets' - (IF Len(printed) \in {0, 1} THEN 0 ELSE Latest.powered_total)
      <4>1. (IF Len(printed) \in {0, 1} THEN 0 ELSE Latest.powered_total) \in Int
        BY <2>7, <2>8
      <4> DEFINE before == IF Len(printed) \in {0, 1} THEN 0 ELSE Latest.powered_total
      <4>2. sim.m_power_tmpl_profile = PoweredPackets - before
        BY <3>2, Zenon DEF LinesInv, CountedSince
      <4>3. sim'.m_power_tmpl_profile = sim.m_power_tmpl_profile + (IF sim.m_warmup_phase THEN 0 ELSE 1)
        BY <2>2, <2>4, <3>2
      <4>4. before \in Int
        BY <4>1
      <4> HIDE DEF before
      <4>5. sim'.m_power_tmpl_profile = PoweredPackets' - before
        BY <2>6, <4>2, <4>3, <4>4
      <4> QED
        BY <4>5 DEF before
    <3>3. ASSUME cfg.profile_perf, printed # <<>>
          PROVE  sim'.m_periodic_ejt_pkt = sim'.m_num_pkt_ejt - Latest.ejt_total
      <4>1. sim.m_periodic_ejt_pkt = sim.m_num_pkt_ejt - Latest.ejt_total
        BY <3>3, Zenon DEF LinesInv, CountedSince
      <4>2. sim.m_num_pkt_ejt \in Int /\ Latest.ejt_total \in Int
        BY <1>1, <2>7, <3>3 DEF Recorded
      <4>3. sim'.m_periodic_ejt_pkt = sim.m_periodic_ejt_pkt + 1
        BY <2>2, <2>3, <3>3
      <4> QED
        BY <2>2, <4>1, <4>2, <4>3
    <3> QED
      BY <1>2, <2>1, <2>2, <3>1, <3>2, <3>3 DEF LinesInv, CountedSince
  <2>10. Printing'
    BY <1>2, <2>1 DEF LinesInv, Printing
  <2> QED
    BY <1>2, <2>1, <2>9, <2>10, LinesStay DEF LinesInv
<1>7. CASE MainEnds \/ Tick
  <2>1. Quiet
    BY <1>1, <1>2, <1>7 DEF MainEnds, Tick, simVars, Quiet
  <2> QED
    BY <2>1, QuietLines
<1> QED
  BY <1>3, <1>4, <1>5, <1>6, <1>7 DEF SimNext

LEMMA TraceNextLines ==
  ASSUME ClockInv, MeasureInv, LinesInv, TraceNext, UNCHANGED profileVars
  PROVE  LinesInv'
<1> USE Names DEF PC
<1>1. DOMAIN pc = PC /\ Recorded
  BY DEF ClockInv, TimeInv, MeasureInv
<1>2. printed' = printed /\ last_profile_clk' = last_profile_clk
  BY DEF profileVars
<1>3. cfg' = cfg /\ pc'["profile"] = pc["profile"] /\ pc'["control"] = pc["control"]
  BY <1>1 DEF TraceNext, TraceSkip, TraceSkipped, TraceRead, TraceInject, Read
<1>4. \/ sim' = sim
      \/ \E n : sim' = [sim EXCEPT !.m_num_instr_executed = n]
      \/ \E n : sim' = [sim EXCEPT !.m_num_pkt_inj = n]
      \/ \E n : sim' = [sim EXCEPT !.m_clk_sim_end = n]
      \/ \E tr : sim' = Counted(sim, tr)
  <2>1. CASE TraceSkip
    BY <2>1 DEF TraceSkip
  <2>2. CASE TraceSkipped
    BY <2>2 DEF TraceSkipped
  <2>3. CASE TraceInject
    BY <2>3, Zenon DEF TraceInject
  <2>4. CASE TraceRead
    BY <2>4, ZenonT(60) DEF TraceRead, Read, Finish
  <2> QED
    BY <2>1, <2>2, <2>3, <2>4 DEF TraceNext
<1>5. Quiet
  BY <1>1, <1>2, <1>3, <1>4, ZenonT(60) DEF Quiet, Recorded, Outcomes, Counted
<1> QED
  BY <1>5, QuietLines

\* What the header and the lines are made of.
LEMMA LineIs ==
  /\ Line.clk = clk /\ Line.num_cycles = clk - last_profile_clk
  /\ Line.energy.dynamic = sim.m_power_tmpl_profile /\ Line.powered_total = PoweredPackets
  /\ Line.ejt_pkt = sim.m_periodic_ejt_pkt /\ Line.ejt_total = sim.m_num_pkt_ejt
  /\ Line.instr = sim.m_num_instr_executed - sim.m_periodic_instr_executed
  /\ Line.instr_total = sim.m_num_instr_executed
BY DEF Line, NetworkEnergy

\* What is reset when a line has been printed.
LEMMA ResetIs ==
  ASSUME Recorded, NEW s, s = Reset(sim)
  PROVE  /\ s.m_warmup_phase = sim.m_warmup_phase
         /\ s.m_num_pkt_ejt = sim.m_num_pkt_ejt /\ s.m_num_pkt_ejt_warmup = sim.m_num_pkt_ejt_warmup
         /\ cfg.profile_perf =>
              s.m_periodic_ejt_pkt = 0 /\ s.m_periodic_instr_executed = sim.m_num_instr_executed
         /\ s.m_periodic_ejt_pkt \in {0, sim.m_periodic_ejt_pkt}
         /\ cfg.profile_power => s.m_power_tmpl_profile = 0
         /\ s.m_power_tmpl_profile \in {0, sim.m_power_tmpl_profile}
BY DEF Recorded, Outcomes, Reset, perf_reset, power_reset

LEMMA StartedLines ==
  ASSUME ClockInv, MeasureInv, LinesInv, ProfileStart
  PROVE  LinesInv'
<1>1. DOMAIN pc = PC /\ Recorded /\ PoweredPackets \in Int
  BY DEF ClockInv, TimeInv, MeasureInv, Recorded, PoweredPackets, eff_num_pkt_ejt
<1>2. /\ printed = <<>> /\ printed' = <<Line>> /\ cfg' = cfg
      /\ pc'["profile"] = "loop" /\ pc'["control"] = pc["control"]
      /\ cfg.workload = "CMP" => last_profile_clk' = clk
      /\ sim' = IF cfg.profile_perf THEN perf_reset(sim) ELSE sim
  BY <1>1 DEF ProfileStart, LinesInv, Printing, PC
<1>3. Len(printed) = 0 /\ Len(printed') = 1 /\ DOMAIN printed' = 1 .. 1 /\ Latest' = Line /\ printed'[1] = Line
  BY <1>2 DEF Latest
<1>4. /\ sim'.m_warmup_phase = sim.m_warmup_phase
      /\ sim'.m_num_pkt_ejt = sim.m_num_pkt_ejt /\ sim'.m_num_pkt_ejt_warmup = sim.m_num_pkt_ejt_warmup
      /\ cfg.profile_perf =>
           sim'.m_periodic_ejt_pkt = 0 /\ sim'.m_periodic_instr_executed = sim.m_num_instr_executed
      /\ sim'.m_periodic_ejt_pkt \in {0, sim.m_periodic_ejt_pkt}
      /\ sim'.m_power_tmpl_profile = sim.m_power_tmpl_profile
  BY <1>1, <1>2 DEF Recorded, Outcomes, perf_reset
<1>5. PoweredPackets' = PoweredPackets
  BY <1>4 DEF PoweredPackets, eff_num_pkt_ejt
<1>6. Printing'
  BY <1>1, <1>2, <1>3, LineIs DEF Printing, Recorded
<1>7. cfg.profile_power => sim'.m_power_tmpl_profile = PoweredPackets' - 0
  BY <1>3, <1>4, <1>5 DEF LinesInv, CountedSince
<1>8. cfg.profile_perf =>
        /\ sim'.m_periodic_ejt_pkt = sim'.m_num_pkt_ejt - Latest'.ejt_total
        /\ sim'.m_periodic_instr_executed = Latest'.instr_total
  BY <1>1, <1>3, <1>4, LineIs DEF Recorded
<1>9. cfg.workload = "CMP" => last_profile_clk' = Latest'.clk
  BY <1>2, <1>3, LineIs
<1>10. CountedSince'
  BY <1>2, <1>3, <1>4, <1>7, <1>8, <1>9 DEF LinesInv, CountedSince
<1>11. Lines' = {}
  BY <1>3 DEF Lines
<1> QED
  BY <1>6, <1>10, <1>11 DEF LinesInv

\* A line that is printed is right, and the next interval begins.
LEMMA PrintedLines ==
  ASSUME ClockInv, MeasureInv, LinesInv, PrintLine, pc["profile"] = "loop", pc' = pc, cfg' = cfg,
         cfg.workload = "CMP" => last_profile_clk' = clk
  PROVE  LinesInv'
<1>0. PICK k : k = Len(printed)
  OBVIOUS
<1>1. DOMAIN pc = PC /\ Recorded /\ PoweredPackets \in Int
  BY DEF ClockInv, TimeInv, MeasureInv, Recorded, PoweredPackets, eff_num_pkt_ejt
<1>2. k \in Nat \ {0} /\ DOMAIN printed = 1 .. k /\ printed # <<>>
  <2>1. printed # <<>> /\ k \in Nat /\ k > 0 /\ DOMAIN printed = 1 .. k
    BY <1>0 DEF LinesInv, Printing
  <2> QED
    BY <2>1
<1>3. printed' = Append(printed, Line) /\ sim' = Reset(sim)
  BY DEF PrintLine
<1>4. /\ Len(printed') = k + 1 /\ DOMAIN printed' = 1 .. k + 1
      /\ printed'[k + 1] = Line /\ \A n \in 1 .. k : printed'[n] = printed[n]
  BY <1>0, <1>2, <1>3
<1>5. Latest = printed[k] /\ Latest' = Line
  BY <1>0, <1>4 DEF Latest
<1>6. /\ sim'.m_warmup_phase = sim.m_warmup_phase
      /\ sim'.m_num_pkt_ejt = sim.m_num_pkt_ejt /\ sim'.m_num_pkt_ejt_warmup = sim.m_num_pkt_ejt_warmup
      /\ cfg.profile_perf =>
           sim'.m_periodic_ejt_pkt = 0 /\ sim'.m_periodic_instr_executed = sim.m_num_instr_executed
      /\ sim'.m_periodic_ejt_pkt \in {0, sim.m_periodic_ejt_pkt}
      /\ cfg.profile_power => sim'.m_power_tmpl_profile = 0
      /\ sim'.m_power_tmpl_profile \in {0, sim.m_power_tmpl_profile}
  BY <1>1, <1>3, ResetIs
<1>7. PoweredPackets' = PoweredPackets
  BY <1>6 DEF PoweredPackets, eff_num_pkt_ejt
<1>8. Printing'
  <2>1. \A n \in DOMAIN printed' : printed'[n].ejt_total \in Int /\ printed'[n].powered_total \in Int
    <3>1. \A n \in 1 .. k : printed[n].ejt_total \in Int /\ printed[n].powered_total \in Int
      BY <1>2 DEF LinesInv, Printing
    <3>2. Line.ejt_total \in Int /\ Line.powered_total \in Int
      BY <1>1, LineIs DEF Recorded
    <3> QED
      BY <1>2, <1>4, <3>1, <3>2
  <2>2. Len(printed') \in Nat /\ Len(printed') > 0 /\ printed' # <<>>
    BY <1>2, <1>4
  <2> QED
    BY <1>4, <2>1, <2>2 DEF Printing
<1>9. CountedSince'
  <2>1. sim'.m_periodic_ejt_pkt \in Int /\ sim'.m_power_tmpl_profile \in Int
    BY <1>6 DEF LinesInv, CountedSince
  <2>2. cfg.profile_power => sim'.m_power_tmpl_profile = PoweredPackets' - Latest'.powered_total
    BY <1>1, <1>5, <1>6, <1>7, LineIs
  <2>3. cfg.profile_perf =>
          /\ sim'.m_periodic_ejt_pkt = sim'.m_num_pkt_ejt - Latest'.ejt_total
          /\ sim'.m_periodic_instr_executed = Latest'.instr_total
    BY <1>1, <1>5, <1>6, LineIs DEF Recorded
  <2>4. cfg.workload = "CMP" => last_profile_clk' = Latest'.clk
    BY <1>5, LineIs
  <2>5. Len(printed') \notin {0, 1}
    BY <1>2, <1>4
  <2> QED
    BY <1>6, <2>1, <2>2, <2>3, <2>4, <2>5 DEF LinesInv, CountedSince
<1>10. \A n \in Lines' : LineRight(n)'
  <2>1. ASSUME NEW n \in 2 .. k PROVE LineRight(n)'
    <3>1. LineRight(n)
      BY <1>0 DEF LinesInv, Lines
    <3>2. printed'[n] = printed[n] /\ printed'[n - 1] = printed[n - 1]
      BY <1>2, <1>4
    <3> QED
      BY <3>1, <3>2 DEF LineRight
  <2>2. LineRight(k + 1)'
    <3>1. printed'[k + 1] = Line /\ printed'[(k + 1) - 1] = Latest
      BY <1>2, <1>4, <1>5
    <3>2. cfg.profile_perf =>
            /\ Line.ejt_pkt = Line.ejt_total - Latest.ejt_total
            /\ Line.instr = Line.instr_total - Latest.instr_total
      BY <1>2, LineIs DEF LinesInv, CountedSince
    <3>3. cfg.profile_power =>
            Line.energy.dynamic = Line.powered_total - (IF k + 1 = 2 THEN 0 ELSE Latest.powered_total)
      <4>1. CASE k = 1
        <5>1. cfg.profile_power => sim.m_power_tmpl_profile = PoweredPackets - 0
          BY <1>0, <4>1 DEF LinesInv, CountedSince
        <5> QED
          BY <4>1, <5>1, LineIs
      <4>2. CASE k # 1
        <5>1. Len(printed) \notin {0, 1} /\ k + 1 # 2
          BY <1>0, <1>2, <4>2
        <5>2. cfg.profile_power => sim.m_power_tmpl_profile = PoweredPackets - Latest.powered_total
          BY <5>1 DEF LinesInv, CountedSince
        <5> QED
          BY <5>1, <5>2, LineIs
      <4> QED
        BY <4>1, <4>2
    <3>4. cfg.workload = "CMP" => Line.num_cycles = Line.clk - Latest.clk
      BY <1>2, LineIs DEF LinesInv, CountedSince
    <3>5. cfg'.profile_perf =>
            /\ printed'[k + 1].ejt_pkt = printed'[k + 1].ejt_total - printed'[(k + 1) - 1].ejt_total
            /\ printed'[k + 1].instr = printed'[k + 1].instr_total - printed'[(k + 1) - 1].instr_total
      BY <3>1, <3>2
    <3>6. cfg'.profile_power =>
            printed'[k + 1].energy.dynamic =
              printed'[k + 1].powered_total - (IF k + 1 = 2 THEN 0 ELSE printed'[(k + 1) - 1].powered_total)
      BY <3>1, <3>3
    <3>7. cfg'.workload = "CMP" =>
            printed'[k + 1].num_cycles = printed'[k + 1].clk - printed'[(k + 1) - 1].clk
      BY <3>1, <3>4
    <3> QED
      BY <3>5, <3>6, <3>7, Zenon DEF LineRight
  <2>3. \A n \in Lines' : n \in 2 .. k \/ n = k + 1
    BY <1>2, <1>4 DEF Lines
  <2> QED
    BY <2>1, <2>2, <2>3
<1> QED
  BY <1>8, <1>9, <1>10 DEF LinesInv

LEMMA ProfileNextLines ==
  ASSUME ClockInv, MeasureInv, LinesInv, ProfileNext
  PROVE  LinesInv'
<1>1. CASE ProfileStart
  BY <1>1, StartedLines
<1>2. CASE ProfileCycle
  BY <1>2, PrintedLines DEF ProfileCycle
<1>3. CASE ProfileInstr
  <2>1. CASE PrintLine /\ last_profile_clk' = ProfileClk
    BY <1>3, <2>1, PrintedLines DEF ProfileInstr, ProfileClk
  <2>2. CASE UNCHANGED <<sim, profileVars>>
    <3>1. Quiet
      BY <1>3, <2>2 DEF ProfileInstr, Quiet, profileVars
    <3> QED
      BY <3>1, QuietLines
  <2> QED
    BY <1>3, <2>1, <2>2 DEF ProfileInstr
<1> QED
  BY <1>1, <1>2, <1>3 DEF ProfileNext

LEMMA NextLines ==
  ASSUME ClockInv, MeasureInv, LinesInv, [SimulationNext]_simulationVars
  PROVE  LinesInv'
<1>1. CASE SimulationNext
  BY <1>1, SimNextLines, TraceNextLines, ProfileNextLines DEF SimulationNext
<1>2. CASE UNCHANGED simulationVars
  <2>1. Quiet
    BY <1>2 DEF simulationVars, simVars, profileVars, Quiet
  <2> QED
    BY <2>1, QuietLines
<1> QED
  BY <1>1, <1>2

-----------------------------------------------------------------------------
(* The number of lines: one for each interval that is over. *)

Moment(n) == clk_start_profile + n * cfg.interval

\* The process has slept until each of the moments so far, and sleeps until the
\* next, or was the last to run.
Pace ==
  /\ pc["profile"] = "start" => wake["profile"] = clk_start_profile
  /\ pc["profile"] # "start" =>
       /\ Moment(Len(printed) - 1) <= clk
       /\ \/ wake["profile"] = Moment(Len(printed))
          \/ EOS /\ wake["profile"] = Never /\ clk = Moment(Len(printed) - 1)

PaceInv == Profiling /\ cfg.workload # "CMP" => Pace

\* Moments are whole cycles, one interval after the other.
LEMMA Moments ==
  ASSUME Configured, Timed, cfg.workload # "CMP", NEW n \in Nat
  PROVE  /\ Moment(n) \in Nat /\ Moment(n) % 2 = 0
         /\ Moment(n + 1) = Moment(n) + cfg.interval
         /\ Moment(0) = clk_start_profile
<1>1. /\ cfg.interval \in Nat \ {0} /\ cfg.interval % 2 = 0
      /\ clk_start_profile \in Nat /\ clk_start_profile % 2 = 0
  BY DEF Configured, Whole, Cycle, clk_start_profile
<1>2. PICK i \in Nat : cfg.interval = 2 * i
  <2>1. cfg.interval = 2 * (cfg.interval \div 2)
    BY <1>1
  <2> QED
    BY <1>1, <2>1
<1>3. PICK s \in Nat : clk_start_profile = 2 * s
  <2>1. clk_start_profile = 2 * (clk_start_profile \div 2)
    BY <1>1
  <2> QED
    BY <1>1, <2>1
<1>4. n * i \in Nat /\ n * (2 * i) = 2 * (n * i)
  OBVIOUS
<1>5. Moment(n) = 2 * (s + n * i)
  BY <1>2, <1>3, <1>4 DEF Moment
<1>6. s + n * i \in Nat
  BY <1>4
<1>7. Moment(n) \in Nat /\ Moment(n) % 2 = 0
  BY <1>5, <1>6
<1>8. (n + 1) * cfg.interval = n * cfg.interval + cfg.interval /\ 0 * cfg.interval = 0
  BY <1>1
<1>9. n * cfg.interval \in Nat
  BY <1>1
<1>10. Moment(n + 1) = Moment(n) + cfg.interval /\ Moment(0) = clk_start_profile
  <2> DEFINE passed == n * cfg.interval
  <2>1. /\ Moment(n) = clk_start_profile + passed
        /\ Moment(n + 1) = clk_start_profile + (passed + cfg.interval)
        /\ Moment(0) = clk_start_profile + 0
    BY <1>8, Zenon DEF Moment
  <2>2. passed \in Nat
    BY <1>9
  <2> HIDE DEF passed
  <2> QED
    BY <1>1, <2>1, <2>2
<1> QED
  BY <1>7, <1>10

LEMMA MomentsStay ==
  ASSUME cfg' = cfg
  PROVE  \A n : Moment(n)' = Moment(n)
BY TimesStay DEF Moment

LEMMA StartPace == SimulationInit => PaceInv
<1> SUFFICES ASSUME SimulationInit, Profiling PROVE Pace
  BY DEF PaceInv
<1> QED
  BY Names DEF SimulationInit, SimInit, FirstHold, PC, Pace

LEMMA PaceKept ==
  ASSUME ClockInv, PaceInv, cfg' = cfg, printed' = printed, pc'["profile"] = pc["profile"],
         wake'["profile"] = wake["profile"], clk' \in Nat, clk' >= clk, EOS => EOS' /\ clk' = clk,
         Len(printed) \in Nat, pc["profile"] # "start" => Len(printed) > 0
  PROVE  PaceInv'
<1> SUFFICES ASSUME Profiling, cfg.workload # "CMP" PROVE Pace'
  BY TimesStay DEF PaceInv
<1>1. Pace /\ clk \in Nat /\ Configured /\ Timed
  BY DEF PaceInv, ClockInv, OptionsInv, TimeInv
<1>2. pc["profile"] = "start" => wake'["profile"] = clk_start_profile'
  BY <1>1, TimesStay DEF Pace
<1>3. ASSUME pc["profile"] # "start"
      PROVE  /\ Moment(Len(printed) - 1) <= clk'
             /\ \/ wake'["profile"] = Moment(Len(printed))
                \/ EOS' /\ wake'["profile"] = Never /\ clk' = Moment(Len(printed) - 1)
  <2>1. Len(printed) - 1 \in Nat
    BY <1>3
  <2>2. Moment(Len(printed) - 1) \in Nat
    BY <1>1, <2>1, Moments
  <2> QED
    BY <1>1, <1>3, <2>2 DEF Pace
<1>4. \A n : Moment(n)' = Moment(n)
  BY MomentsStay
<1>5. Moment(Len(printed) - 1)' = Moment(Len(printed) - 1) /\ Moment(Len(printed))' = Moment(Len(printed))
  BY MomentsStay, TimesStay DEF Moment
<1> QED
  BY <1>2, <1>3, <1>5 DEF Pace

LEMMA ProfileNextPace ==
  ASSUME ClockInv, LinesInv, PaceInv, ProfileNext
  PROVE  PaceInv'
<1> SUFFICES ASSUME Profiling, cfg.workload # "CMP" PROVE Pace'
  BY TimesStay DEF PaceInv, ProfileNext, ProfileStart, ProfileCycle, ProfileInstr
<1> USE Names DEF PC
<1>1. /\ Pace /\ clk \in Nat /\ Configured /\ Timed /\ DOMAIN pc = PC /\ DOMAIN wake = Process
  BY DEF PaceInv, ClockInv, OptionsInv, TimeInv, DueFrom
<1>2. clk' = clk /\ cfg' = cfg /\ EOS' = EOS /\ wake["profile"] = clk /\ clk # Never
  BY RunsDue DEF ProfileNext, ProfileStart, ProfileCycle, ProfileInstr
<1>3. PICK k : k = Len(printed)
  OBVIOUS
<1>4. k \in Nat /\ (pc["profile"] = "start" <=> printed = <<>>)
  BY <1>3 DEF LinesInv, Printing
<1>5. pc'["profile"] = "loop"
  BY <1>1 DEF ProfileNext, ProfileStart, ProfileCycle, ProfileInstr
<1>6. IF EOS THEN Ends("profile") ELSE hold("profile", cfg.interval)
  BY DEF ProfileNext, ProfileStart, ProfileCycle, ProfileInstr
<1>7. cfg.interval \in Nat
  BY <1>1 DEF Configured
<1>8. IF EOS THEN wake'["profile"] = Never ELSE wake'["profile"] = clk + cfg.interval
  BY <1>1, <1>6 DEF Ends, hold
<1>9. Len(printed') = k + 1 /\ clk = Moment(k)
  <2>1. CASE ProfileStart
    <3>1. k = 0 /\ Len(printed') = 1
      BY <1>3, <1>4, <2>1 DEF ProfileStart
    <3>2. clk = clk_start_profile
      BY <1>1, <1>2, <2>1 DEF ProfileStart, Pace
    <3> QED
      BY <1>1, <3>1, <3>2, Moments
  <2>2. CASE ProfileCycle
    <3>1. printed' = Append(printed, Line) /\ pc["profile"] = "loop"
      BY <2>2 DEF ProfileCycle, PrintLine
    <3>2. Len(printed') = k + 1
      BY <1>3, <1>4, <3>1 DEF LinesInv, Printing
    <3>3. wake["profile"] = Moment(Len(printed))
      BY <1>1, <1>2, <3>1 DEF Pace
    <3> QED
      BY <1>2, <1>3, <3>2, <3>3
  <2> QED
    BY <2>1, <2>2 DEF ProfileNext, ProfileInstr
<1>10. Moment(k + 1) = Moment(k) + cfg.interval /\ Moment(k) \in Nat
  BY <1>1, <1>4, Moments
<1>11. /\ Moment(k)' = Moment(k) /\ Moment(k + 1)' = Moment(k + 1)
  BY <1>2, TimesStay DEF Moment
<1>12. (k + 1) - 1 = k
  BY <1>4
<1>13. Moment(Len(printed) - 1)' = Moment(k) /\ Moment(Len(printed))' = Moment(k + 1)
  <2>1. clk_start_profile' = clk_start_profile
    BY <1>2, TimesStay
  <2> QED
    BY <1>2, <1>9, <1>12, <2>1 DEF Moment
<1> QED
  BY <1>1, <1>2, <1>5, <1>8, <1>9, <1>10, <1>13 DEF Pace

LEMMA NextPace ==
  ASSUME ClockInv, MeasureInv, LinesInv, PaceInv, [SimulationNext]_simulationVars
  PROVE  PaceInv'
<1> USE Names DEF PC
<1>1. /\ DOMAIN pc = PC /\ DOMAIN wake = Process /\ clk \in Nat /\ EOS \in BOOLEAN
      /\ Len(printed) \in Nat /\ (pc["profile"] # "start" => Len(printed) > 0)
  BY DEF ClockInv, TimeInv, DueFrom, MeasureInv, Stands, LinesInv, Printing
<1>2. CASE SimNext /\ UNCHANGED <<traceVars, profileVars>> /\ pc["main"] # "done"
  <2>1. printed' = printed /\ cfg' = cfg
    BY <1>2 DEF SimNext, WarmupEnds, ControlEnds, Generate, Eject, MainEnds, Tick, simVars, profileVars
  <2>2. pc'["profile"] = pc["profile"]
    BY <1>1, <1>2 DEF SimNext, WarmupEnds, ControlEnds, Generate, Eject, MainEnds, Tick, simVars
  <2>3. CASE Tick
    <3>1. ~ EOS
      <4> SUFFICES ASSUME EOS PROVE FALSE
        OBVIOUS
      <4>1. wake["main"] = clk /\ clk # Never
        BY <1>1, <1>2 DEF MeasureInv, Stands, Never
      <4>2. clk \in {wake[p] : p \in Process} \ {Never}
        BY <4>1
      <4> QED
        BY <2>3, <4>2 DEF Tick, Advance
    <3>2. wake' = wake
      BY <2>3 DEF Tick, Advance
    <3>3. clk' \in Nat /\ clk' >= clk
      BY <2>3, <1>2, TickForward
    <3> QED
      BY <1>1, <2>1, <2>2, <3>1, <3>2, <3>3, PaceKept
  <2>4. CASE ~ Tick
    <3>1. clk' = clk /\ (EOS => EOS')
      BY <1>2, <2>4 DEF SimNext, WarmupEnds, ControlEnds, Generate, Eject, MainEnds, Finish
    <3>2. wake'["profile"] = wake["profile"]
      BY <1>1, <1>2, <2>4 DEF SimNext, WarmupEnds, ControlEnds, Generate, Eject, MainEnds, Finish, hold, Ends
    <3> QED
      BY <1>1, <2>1, <2>2, <3>1, <3>2, PaceKept
  <2> QED
    BY <2>3, <2>4
<1>3. CASE TraceNext /\ UNCHANGED profileVars
  <2>1. printed' = printed /\ cfg' = cfg /\ clk' = clk /\ pc'["profile"] = pc["profile"]
    BY <1>1, <1>3 DEF profileVars, TraceNext, TraceSkip, TraceSkipped, TraceRead, TraceInject, Read
  <2>2. EOS => EOS'
    BY <1>3 DEF TraceNext, TraceSkip, TraceSkipped, TraceRead, TraceInject, Read
  <2>3. wake'["profile"] = wake["profile"]
    <3>1. \/ \E t : hold("trace", t)
          \/ GoesOn("trace")
          \/ Ends("trace")
          \/ Finish("trace")
      <4>1. CASE TraceRead
        BY <4>1, Zenon DEF TraceRead, Read
      <4> QED
        BY <1>3, <4>1 DEF TraceNext, TraceSkip, TraceSkipped, TraceInject
    <3> QED
      BY <1>1, <3>1 DEF hold, GoesOn, Ends, Finish
  <2> QED
    BY <1>1, <2>1, <2>2, <2>3, PaceKept, SMTT(30)
<1>4. CASE ProfileNext
  BY <1>4, ProfileNextPace
<1>5. CASE UNCHANGED simulationVars
  BY <1>1, <1>5, PaceKept DEF simulationVars, simVars, profileVars
<1> QED
  BY <1>2, <1>3, <1>4, <1>5 DEF SimulationNext

\* The quotient is the number of intervals that are over.
LEMMA IntervalsOver ==
  ASSUME NEW d \in Nat, NEW i \in Nat \ {0}, NEW k \in Nat, k * i <= d, d < k * i + i
  PROVE  d \div i = k
<1> DEFINE q == d \div i
<1>1. q \in Nat /\ q * i <= d /\ d < q * i + i
  OBVIOUS
<1> HIDE DEF q
<1>2. ASSUME q < k PROVE FALSE
  <2>1. (q + 1) * i <= k * i
    BY <1>1, <1>2
  <2>2. (q + 1) * i = q * i + i
    BY <1>1
  <2> QED
    BY <1>1, <2>1, <2>2
<1>3. ASSUME k < q PROVE FALSE
  <2>1. (k + 1) * i <= q * i
    BY <1>1, <1>3
  <2>2. (k + 1) * i = k * i + i
    OBVIOUS
  <2> QED
    BY <1>1, <2>1, <2>2
<1> QED
  BY <1>1, <1>2, <1>3 DEF q

\* When the control process is done, each interval has its line.
LEMMA EnoughLines ==
  ASSUME ClockInv, MeasureInv, LinesInv, PaceInv,
         pc["control"] = "done", Profiling, cfg.workload # "CMP"
  PROVE  Len(printed) = 1 + (cfg.end - clk_start_profile) \div cfg.interval
<1> DEFINE d == cfg.end - clk_start_profile
           i == cfg.interval
<1>1. /\ Pace /\ Configured /\ Timed /\ clk \in Nat /\ clk = SimEnd
      /\ Len(printed) \in Nat /\ (pc["profile"] # "start" => Len(printed) > 0)
  BY DEF PaceInv, ClockInv, OptionsInv, TimeInv, MeasureInv, Stands, LinesInv, Printing
<1>2. clk_start_profile \in Nat /\ cfg.end \in Nat /\ clk_start_profile < cfg.end /\ clk = cfg.end + 1
  BY <1>1, Times DEF SimEnd, WarmupEnd
<1>3. cfg.end % 2 = 0 /\ i \in Nat \ {0}
  BY <1>1 DEF Configured, Whole, Cycle
<1>4. wake["profile"] = Never \/ wake["profile"] >= clk
  BY Names DEF ClockInv, TimeInv, DueFrom, PC
<1>5. pc["profile"] # "start"
  BY <1>1, <1>2, <1>4, SMTT(30) DEF Pace, Never
<1>6. PICK k \in Nat : Len(printed) = k + 1
  <2>1. Len(printed) - 1 \in Nat /\ Len(printed) = (Len(printed) - 1) + 1
    BY <1>1, <1>5
  <2> QED
    BY <2>1, Zenon
<1>7. /\ Moment(k) \in Nat /\ Moment(k) % 2 = 0 /\ Moment(k + 1) = Moment(k) + i
  BY <1>1, Moments
<1>8. Moment(k) <= clk
  <2>1. Len(printed) - 1 = k
    BY <1>6
  <2> QED
    BY <1>1, <1>5, <2>1 DEF Pace
<1>9. Moment(k) <= cfg.end
  BY <1>2, <1>3, <1>7, <1>8
<1>10. cfg.end < Moment(k) + i
  <2>1. Len(printed) - 1 = k
    BY <1>6
  <2>2. wake["profile"] = Moment(k + 1) \/ clk = Moment(k)
    BY <1>1, <1>5, <1>6, <2>1 DEF Pace
  <2>3. wake["profile"] = Moment(k + 1)
    BY <1>2, <1>9, <2>2
  <2>4. Moment(k + 1) >= clk
    BY <1>3, <1>4, <1>7, <2>3 DEF Never
  <2> QED
    BY <1>2, <1>3, <1>7, <2>4
<1>11. Moment(k) = clk_start_profile + k * i /\ k * i \in Nat
  BY <1>3 DEF Moment
<1>12. d \in Nat /\ k * i <= d /\ d < k * i + i
  BY <1>2, <1>3, <1>9, <1>10, <1>11
<1> HIDE DEF d, i
<1>13. d \div i = k
  BY <1>3, <1>12, IntervalsOver
<1> QED
  BY <1>6, <1>13 DEF d, i

\* In every simulation, whatever its options, workload and traces, the profile's
\* intervals follow each other without a gap: packets, instructions, cycles and
\* energy are in one line each, and no full interval lacks its line.
THEOREM ProfilesAddUp == Simulation => []Profiled
<1> DEFINE Inv == ClockInv /\ MeasureInv /\ LinesInv /\ PaceInv
<1>1. SimulationInit => Inv
  BY StartClock, StartControl, StartLines, StartPace
<1>2. Inv /\ [SimulationNext]_simulationVars => Inv'
  BY NextClock, NextControl, NextLines, NextPace
<1>3. Inv => Profiled
  <2> SUFFICES ASSUME Inv PROVE Profiled
    OBVIOUS
  <2>1. \A n \in Lines : LineRight(n)
    BY DEF LinesInv
  <2>2. pc["control"] = "done" /\ Profiling /\ cfg.workload # "CMP" =>
          Len(printed) = 1 + (cfg.end - clk_start_profile) \div cfg.interval
    BY EnoughLines
  <2> HIDE DEF Inv
  <2> QED
    BY <2>1, <2>2, Zenon DEF Profiled, LineRight
<1> QED
  BY <1>1, <1>2, <1>3, PTL DEF Simulation
-----------------------------------------------------------------------------
(* The scaling of links. *)

\* What the configuration has to be.
DvsOK ==
  /\ Levels \in Nat \ {0} /\ sim_clk_start \in Nat
  /\ voltage_delay \in Nat /\ freq_delay \in Nat
  /\ link_dvs_interval \in Nat /\ link_dvs_interval % 2 = 0

\* The file of predicted rates has a line for each interval, from the time at
\* which the trace and the clock start.
FilePaced ==
  /\ UNIT_MEGA = link_dvs_interval /\ wkld_trace_skip_cycles = sim_clk_start
  /\ 2 * (sim_clk_start % UNIT_MEGA) < UNIT_MEGA

Half == link_dvs_interval \div 2

\* Where one of the two processes is between two selections: done, due to begin,
\* or between its two steps.
Done(c) == step[c] = "first" /\ wake[c] = wake["select"] + Half - secondDelay(c)
Begins(c) == step[c] = "first" /\ wake[c] = wake["select"] - Half - secondDelay(c)
Between(c) == step[c] = "second" /\ wake[c] = wake["select"] - Half

LinkProcess == {"select", "speedup", "slowdown"}

LinksDue(w, now) ==
  /\ w \in [Process -> Nat \cup {Never}]
  /\ \A p \in LinkProcess : w[p] \in Nat /\ w[p] >= now

DvsTypes ==
  /\ clk \in Nat /\ LinksDue(wake, clk)
  /\ dvs_voltage \in [Link -> Int] /\ dvs_freq \in [Link -> Int] /\ next_level \in [Link -> Int]
  /\ speedup_flag \in [Link -> {"nochange", "speedup", "slowdown"}]
  /\ set \in [Change -> BOOLEAN]
  /\ step \in [Change -> {"first", "second"}]

\* The half of a change that has been carried out, of each link.
LevelsInv(l) ==
  LET c == speedup_flag[l] IN
  /\ c = "nochange" => dvs_freq[l] = dvs_voltage[l]
  /\ c # "nochange" /\ Done(c) => dvs_freq[l] = dvs_voltage[l] /\ dvs_voltage[l] = next_level[l]
  /\ c # "nochange" /\ Begins(c) => set[c] /\ dvs_freq[l] = dvs_voltage[l]
  /\ c # "nochange" /\ Between(c) => set[c]
  /\ c = "speedup" /\ Begins(c) => next_level[l] < dvs_voltage[l]
  /\ c = "speedup" /\ Between(c) => dvs_voltage[l] = next_level[l] /\ next_level[l] < dvs_freq[l]
  /\ c = "slowdown" /\ Begins(c) => next_level[l] > dvs_voltage[l]
  /\ c = "slowdown" /\ Between(c) => dvs_freq[l] = next_level[l] /\ next_level[l] > dvs_voltage[l]

\* The level that is predicted is the next one, or the one the link has.
Predicted(l, rate) ==
  IF speedup_flag[l] = "nochange" THEN dvs_voltage[l] = PredictedLevel(rate, l)
  ELSE next_level[l] = PredictedLevel(rate, l)

LineInv ==
  link_dvs_method # "HISTORY" =>
    /\ FilePaced
    /\ line.no \in Int
    /\ line.no = wake["select"] \div UNIT_MEGA + 1
    /\ line.no > skipped_lines => \A l \in Link : Predicted(l, line.rate)

DvsInv ==
  /\ IntervalFits
  /\ DvsTypes
  /\ \A c \in Change : Done(c) \/ Begins(c) \/ Between(c)
  /\ \A l \in Link : LevelsInv(l)
  /\ LineInv

\* Each process is done well before the next selection.
LEMMA Delays ==
  ASSUME DvsOK, IntervalFits
  PROVE  /\ Half \in Nat \ {0} /\ link_dvs_interval = Half + Half
         /\ \A c \in Change :
              /\ firstDelay(c) \in Nat /\ secondDelay(c) \in Nat
              /\ secondDelay(c) < Half
              /\ firstDelay(c) + secondDelay(c) = voltage_delay + freq_delay
              /\ Rest(c) = link_dvs_interval - secondDelay(c) /\ Rest(c) \in Nat
<1>1. /\ voltage_delay \in Nat /\ freq_delay \in Nat /\ link_dvs_interval \in Nat
      /\ link_dvs_interval % 2 = 0
      /\ 2 * voltage_delay < link_dvs_interval /\ 2 * freq_delay < link_dvs_interval
  BY DEF DvsOK, IntervalFits
<1>2. Half \in Nat /\ link_dvs_interval = Half + Half
  BY <1>1 DEF Half
<1>3. Half > 0
  BY <1>1, <1>2
<1>4. \A c \in Change : \/ c = "speedup" /\ firstDelay(c) = voltage_delay /\ secondDelay(c) = freq_delay
                        \/ c = "slowdown" /\ firstDelay(c) = freq_delay /\ secondDelay(c) = voltage_delay
  BY DEF Change, firstDelay, secondDelay
<1>5. ASSUME NEW c \in Change
      PROVE  /\ firstDelay(c) \in Nat /\ secondDelay(c) \in Nat
             /\ secondDelay(c) < Half
             /\ firstDelay(c) + secondDelay(c) = voltage_delay + freq_delay
  BY <1>1, <1>2, <1>4
<1>6. ASSUME NEW c \in Change
      PROVE  Rest(c) = link_dvs_interval - secondDelay(c) /\ Rest(c) \in Nat
  BY <1>1, <1>2, <1>5 DEF Rest
<1> QED
  BY <1>2, <1>3, <1>5, <1>6

\* Levels are numbers, predicted or not.
LEMMA LevelsAre ==
  ASSUME DvsOK, NEW rate, NEW l
  PROVE  PredictedLevel(rate, l) \in Level
<1>1. ASSUME NEW utilz
      PROVE  next_dvs_level(utilz) \in Level
  <2> DEFINE fits == {v \in Level : \A w \in 1 .. v : Capacity[w] >= utilz}
             under == {Levels - v : v \in fits}
  <2>1. 0 \in fits /\ \A v \in fits : v \in 0 .. Levels - 1
    BY DEF DvsOK, Level
  <2> HIDE DEF fits
  <2>2. under \in SUBSET Nat /\ under # {}
    BY <2>1 DEF DvsOK
  <2>3. PICK m \in under : \A n \in under : m <= n
    BY <2>2, LeastExists
  <2>4. PICK v \in fits : m = Levels - v
    BY <2>3
  <2>5. \A u \in fits : u <= v
    <3> SUFFICES ASSUME NEW u \in fits PROVE u <= v
      OBVIOUS
    <3>1. Levels - u \in under
      OBVIOUS
    <3>2. Levels - v <= Levels - u
      BY <2>3, <2>4, <3>1
    <3> QED
      BY <2>1, <3>2 DEF DvsOK
  <2>6. Max(fits) \in fits
    BY <2>5, Zenon DEF Max
  <2> QED
    BY <2>1, <2>6, Zenon DEF fits, next_dvs_level
<1>2. 0 \in Level
  BY DEF DvsOK, Level
<1> QED
  BY <1>1, <1>2 DEF PredictedLevel

\* Of the time of a selection, which interval it is in.
LEMMA Intervals ==
  ASSUME NEW i \in Nat \ {0}, NEW s \in Nat
  PROVE  /\ (s + i) \div i = s \div i + 1
         /\ \A h \in Nat : (s % i) + h < i => (s + h) \div i = s \div i
<1>1. s = i * (s \div i) + (s % i) /\ s % i \in 0 .. i - 1 /\ s \div i \in Nat
  OBVIOUS
<1>2. ASSUME NEW q \in Nat, NEW r \in 0 .. i - 1
      PROVE  (i * q + r) \div i = q
  OBVIOUS
<1>3. s + i = i * (s \div i + 1) + (s % i)
  BY <1>1
<1>4. (s + i) \div i = s \div i + 1
  BY <1>1, <1>2, <1>3
<1>5. ASSUME NEW h \in Nat, (s % i) + h < i
      PROVE  (s + h) \div i = s \div i
  <2>1. s + h = i * (s \div i) + ((s % i) + h)
    BY <1>1
  <2>2. (s % i) + h \in 0 .. i - 1
    BY <1>1, <1>5
  <2> QED
    BY <1>1, <1>2, <2>1, <2>2
<1> QED
  BY <1>4, <1>5

\* When levels are selected, the changes of the last selection are done.
LEMMA AllDone ==
  ASSUME DvsOK, DvsInv, Runs("select")
  PROVE  /\ \A c \in Change : Done(c)
         /\ \A l \in Link : dvs_freq[l] = dvs_voltage[l]
         /\ \A l \in Link : speedup_flag[l] # "nochange" => dvs_voltage[l] = next_level[l]
<1>1. Half \in Nat \ {0} /\ \A c \in Change : secondDelay(c) \in Nat
  BY Delays DEF DvsInv
<1>2. ASSUME NEW c \in Change
      PROVE  Done(c)
  <2>1. wake[c] \in Nat /\ wake["select"] \in Nat /\ wake[c] >= wake["select"]
    BY DEF DvsInv, DvsTypes, LinksDue, LinkProcess, Runs, Change
  <2>2. Done(c) \/ Begins(c) \/ Between(c)
    BY DEF DvsInv
  <2> QED
    BY <1>1, <2>1, <2>2 DEF Begins, Between
<1>3. ASSUME NEW l \in Link
      PROVE  /\ dvs_freq[l] = dvs_voltage[l]
             /\ speedup_flag[l] # "nochange" => dvs_voltage[l] = next_level[l]
  <2>1. LevelsInv(l) /\ speedup_flag[l] \in {"nochange", "speedup", "slowdown"}
    BY DEF DvsInv, DvsTypes
  <2>2. speedup_flag[l] # "nochange" => Done(speedup_flag[l])
    BY <1>2, <2>1 DEF Change
  <2> QED
    BY <2>1, <2>2 DEF LevelsInv
<1> QED
  BY <1>2, <1>3

LEMMA InitDvs ==
  ASSUME DvsOK, IntervalFits, link_dvs_method # "HISTORY" => FilePaced, DvsInit
  PROVE  DvsInv
<1>1. IntervalFits
  OBVIOUS
<1>2. /\ Half \in Nat \ {0} /\ link_dvs_interval = Half + Half
      /\ \A c \in Change :
           /\ firstDelay(c) \in Nat /\ secondDelay(c) \in Nat /\ secondDelay(c) < Half
           /\ firstDelay(c) + secondDelay(c) = voltage_delay + freq_delay
  BY <1>1, Delays
<1>3. clk = 0 /\ wake["select"] = sim_clk_start + Half
  BY LinkProcessesAssumption DEF DvsInit, Half, Change
<1>4. ASSUME NEW c \in Change
      PROVE  wake[c] = wake["select"] + Half - secondDelay(c) /\ step[c] = "first"
  <2>1. wake[c] = sim_clk_start + link_dvs_interval - voltage_delay - freq_delay + firstDelay(c)
    BY LinkProcessesAssumption DEF DvsInit, firstChange, Change
  <2>2. step[c] = "first"
    BY DEF DvsInit
  <2> QED
    BY <1>2, <1>3, <2>1, <2>2 DEF DvsOK
<1>5. \A c \in Change : Done(c)
  BY <1>4 DEF Done
<1>6. \A p \in LinkProcess : wake[p] \in Nat
  <2>1. wake["select"] \in Nat
    BY <1>2, <1>3 DEF DvsOK
  <2>2. wake["speedup"] \in Nat /\ wake["slowdown"] \in Nat
    BY <1>2, <1>4, <2>1 DEF Change
  <2> QED
    BY <2>1, <2>2 DEF LinkProcess, Change
<1>7. LinksDue(wake, clk)
  <2>1. wake = [p \in Process |-> CASE p = "select" -> sim_clk_start + link_dvs_interval \div 2
                                    [] p \in Change -> firstChange + firstDelay(p)
                                    [] OTHER -> Never]
    BY DEF DvsInit
  <2>2. DOMAIN wake = Process /\ \A p \in Process : p \notin LinkProcess => wake[p] = Never
    BY <2>1 DEF LinkProcess, Change
  <2>3. wake = [p \in Process |-> wake[p]]
    BY <2>1
  <2>4. \A p \in Process : wake[p] \in Nat \cup {Never}
    BY <1>6, <2>2
  <2>5. wake \in [Process -> Nat \cup {Never}]
    BY <2>3, <2>4, Zenon
  <2>6. \A p \in LinkProcess : wake[p] >= clk
    BY <1>3, <1>6
  <2> QED
    BY <1>6, <2>5, <2>6 DEF LinksDue
<1>8. DvsTypes
  BY <1>3, <1>7 DEF DvsTypes, DvsInit
<1>9. \A l \in Link : LevelsInv(l)
  BY DEF LevelsInv, DvsInit
<1>10. ASSUME link_dvs_method # "HISTORY"
       PROVE  line.no = wake["select"] \div UNIT_MEGA + 1 /\ line.no = skipped_lines /\ line.no \in Int
  <2>1. line.no = wkld_trace_skip_cycles \div UNIT_MEGA + 1 /\ line.no = skipped_lines
    BY <1>10 DEF DvsInit, skipped_lines
  <2>2. /\ UNIT_MEGA = Half + Half /\ wkld_trace_skip_cycles = sim_clk_start
        /\ 2 * (sim_clk_start % UNIT_MEGA) < UNIT_MEGA
    BY <1>2, <1>10 DEF FilePaced
  <2>3. UNIT_MEGA \in Nat \ {0} /\ sim_clk_start \in Nat
    BY <1>2, <2>2 DEF DvsOK
  <2>4. (sim_clk_start % UNIT_MEGA) + Half < UNIT_MEGA
    <3>1. sim_clk_start % UNIT_MEGA \in Nat
      BY <2>3
    <3> QED
      BY <1>2, <2>2, <3>1
  <2>5. (sim_clk_start + Half) \div UNIT_MEGA = sim_clk_start \div UNIT_MEGA
    BY <1>2, <2>3, <2>4, Intervals
  <2> QED
    BY <1>3, <2>1, <2>2, <2>3, <2>5
<1>11. LineInv
  BY <1>10 DEF LineInv
<1> QED
  BY <1>1, <1>5, <1>8, <1>9, <1>11 DEF DvsInv

\* A process holds for a time: the others are due as before.
LEMMA HoldsOnly ==
  ASSUME DvsTypes, NEW p \in LinkProcess, NEW t \in Nat,
         Runs(p), hold(p, t), clk' = clk
  PROVE  /\ LinksDue(wake', clk')
         /\ wake'[p] = wake[p] + t
         /\ \A q \in LinkProcess : q # p => wake'[q] = wake[q]
<1>1. wake' = [wake EXCEPT ![p] = clk + t] /\ wake[p] = clk
  BY DEF hold, Runs
<1>2. wake \in [Process -> Nat \cup {Never}] /\ clk \in Nat /\ p \in Process /\ LinkProcess \subseteq Process
  BY LinkProcessesAssumption DEF DvsTypes, LinksDue, LinkProcess, Change
<1>3. \A q \in LinkProcess : wake[q] \in Nat /\ wake[q] >= clk
  BY DEF DvsTypes, LinksDue
<1> QED
  BY <1>1, <1>2, <1>3 DEF LinksDue

LEMMA NextSelect ==
  ASSUME DvsOK, DvsInv, Select
  PROVE  DvsInv'
<1>1. DvsTypes /\ IntervalFits /\ LineInv
  BY DEF DvsInv
<1>2. Half \in Nat \ {0} /\ link_dvs_interval = Half + Half
  BY <1>1, Delays
<1>3. /\ \A c \in Change : Done(c)
      /\ \A l \in Link : dvs_freq[l] = dvs_voltage[l]
  BY AllDone DEF Select
<1>4. /\ LinksDue(wake', clk')
      /\ wake'["select"] = wake["select"] + link_dvs_interval
      /\ \A q \in LinkProcess : q # "select" => wake'[q] = wake[q]
  <2>1. Runs("select") /\ hold("select", link_dvs_interval) /\ clk' = clk
    BY DEF Select
  <2> QED
    BY <1>1, <2>1, HoldsOnly DEF DvsOK, LinkProcess
<1>5. /\ clk' = clk /\ dvs_voltage' = dvs_voltage /\ dvs_freq' = dvs_freq /\ step' = step
      /\ link_dvs_method' = link_dvs_method
      /\ set' = [c \in Change |-> TRUE]
  BY DEF Select
<1>6. PICK level \in IF link_dvs_method = "HISTORY" THEN [Link -> Level]
                     ELSE {[l \in Link |-> PredictedLevel(line'.rate, l)]} :
        /\ speedup_flag' = [l \in Link |-> Flag(l, level[l])]
        /\ next_level' = [l \in Link |-> IF speedup_flag'[l] = "nochange" THEN next_level[l] ELSE level[l]]
  BY DEF Select
<1>7. \A l \in Link : level[l] \in Int
  <2>1. \A l \in Link : level[l] \in Level
    BY <1>6, LevelsAre
  <2> QED
    BY <2>1 DEF Level, DvsOK
<1>8. \A c \in Change : Begins(c)'
  <2> SUFFICES ASSUME NEW c \in Change PROVE step'[c] = "first" /\ wake'[c] = wake'["select"] - Half - secondDelay(c)
    BY DEF Begins
  <2>1. wake'[c] = wake[c] /\ wake["select"] \in Nat
    BY <1>1, <1>4 DEF Change, DvsTypes, LinksDue, LinkProcess
  <2>2. secondDelay(c) \in Nat
    BY <1>1, Delays
  <2> QED
    BY <1>2, <1>3, <1>4, <1>5, <2>1, <2>2 DEF Done
<1>9. ASSUME NEW l \in Link
      PROVE  /\ speedup_flag'[l] = Flag(l, level[l])
             /\ next_level'[l] = IF speedup_flag'[l] = "nochange" THEN next_level[l] ELSE level[l]
             /\ dvs_freq[l] = dvs_voltage[l] /\ dvs_voltage[l] \in Int /\ next_level[l] \in Int /\ level[l] \in Int
  BY <1>1, <1>3, <1>6, <1>7 DEF DvsTypes
<1>10. DvsTypes'
  <2>1. speedup_flag' \in [Link -> {"nochange", "speedup", "slowdown"}]
    BY <1>6 DEF Flag
  <2>2. next_level' \in [Link -> Int]
    BY <1>6, <1>9
  <2>3. set' \in [Change -> BOOLEAN]
    BY <1>5
  <2> QED
    BY <1>1, <1>4, <1>5, <2>1, <2>2, <2>3 DEF DvsTypes
<1>11. ASSUME NEW l \in Link
       PROVE  LevelsInv(l)'
  <2>1. \A c \in Change : Begins(c)' /\ ~ Done(c)' /\ ~ Between(c)'
    <3> SUFFICES ASSUME NEW c \in Change
                 PROVE  /\ wake'[c] # wake'["select"] + Half - secondDelay(c)
                        /\ step'[c] # "second"
      BY <1>8 DEF Done, Between
    <3>1. secondDelay(c) \in Nat /\ wake'["select"] \in Nat
      BY <1>1, <1>4, Delays DEF LinksDue, LinkProcess
    <3> QED
      BY <1>2, <1>8, <3>1 DEF Begins
  <2>2. \A c \in Change : set'[c]
    BY <1>5
  <2>3. \/ speedup_flag'[l] = "nochange"
        \/ speedup_flag'[l] = "speedup" /\ next_level'[l] < dvs_voltage[l]
        \/ speedup_flag'[l] = "slowdown" /\ next_level'[l] > dvs_voltage[l]
    BY <1>9 DEF Flag
  <2>4. speedup_flag'[l] # "nochange" => speedup_flag'[l] \in Change
    BY <2>3 DEF Change
  <2>5. dvs_freq'[l] = dvs_voltage'[l] /\ dvs_voltage'[l] = dvs_voltage[l]
    BY <1>5, <1>9
  <2> QED
    BY <2>1, <2>2, <2>3, <2>4, <2>5 DEF LevelsInv
<1>12. LineInv'
  <2> SUFFICES ASSUME link_dvs_method # "HISTORY"
               PROVE  /\ FilePaced
                      /\ line'.no \in Int /\ line'.no = wake'["select"] \div UNIT_MEGA + 1
                      /\ \A l \in Link :
                           IF speedup_flag'[l] = "nochange" THEN dvs_voltage'[l] = PredictedLevel(line'.rate, l)
                           ELSE next_level'[l] = PredictedLevel(line'.rate, l)
    BY <1>5 DEF LineInv, FilePaced, Predicted
  <2>1. FilePaced /\ line.no \in Int /\ line.no = wake["select"] \div UNIT_MEGA + 1
    BY <1>1 DEF LineInv
  <2>2. PICK rate : line' = [no |-> line.no + 1, rate |-> rate]
    BY Zenon DEF Select, read_flit_rate_predict_interval
  <2>3. (wake["select"] + UNIT_MEGA) \div UNIT_MEGA = wake["select"] \div UNIT_MEGA + 1
    <3>1. UNIT_MEGA \in Nat \ {0} /\ wake["select"] \in Nat
      BY <1>1, <1>2, <2>1 DEF FilePaced, DvsTypes, LinksDue, LinkProcess
    <3> QED
      BY <3>1, Intervals
  <2>4. line'.no \in Int /\ line'.no = wake'["select"] \div UNIT_MEGA + 1
    BY <1>4, <2>1, <2>2, <2>3 DEF FilePaced
  <2>5. ASSUME NEW l \in Link
        PROVE  IF speedup_flag'[l] = "nochange" THEN dvs_voltage'[l] = PredictedLevel(line'.rate, l)
               ELSE next_level'[l] = PredictedLevel(line'.rate, l)
    <3>1. level[l] = PredictedLevel(line'.rate, l)
      BY <1>6
    <3>2. IF speedup_flag'[l] = "nochange" THEN dvs_voltage'[l] = level[l] ELSE next_level'[l] = level[l]
      BY <1>5, <1>9 DEF Flag
    <3> QED
      BY <3>1, <3>2
  <2> QED
    BY <2>1, <2>4, <2>5
<1>13. \A c \in Change : Done(c)' \/ Begins(c)' \/ Between(c)'
  BY <1>8
<1>14. IntervalFits'
  BY <1>1 DEF IntervalFits
<1> QED
  BY <1>10, <1>11, <1>12, <1>13, <1>14 DEF DvsInv

\* One process takes a step: links that it does not change, and the other
\* process, stay as they are.
LEMMA OneChanges ==
  ASSUME DvsOK, DvsInv, NEW c \in Change, NEW t \in Nat,
         Runs(c), hold(c, t), clk' = clk,
         UNCHANGED <<next_level, speedup_flag, link_dvs_method, line>>,
         step' \in [Change -> {"first", "second"}], set' \in [Change -> BOOLEAN],
         \A d \in Change : d # c => step'[d] = step[d] /\ set'[d] = set[d],
         Done(c)' \/ Begins(c)' \/ Between(c)',
         dvs_voltage' \in [Link -> Int] /\ dvs_freq' \in [Link -> Int],
         \A l \in Link : speedup_flag[l] # c => dvs_voltage'[l] = dvs_voltage[l] /\ dvs_freq'[l] = dvs_freq[l],
         \A l \in Link : speedup_flag[l] = c => LevelsInv(l)'
  PROVE  DvsInv'
<1>1. DvsTypes /\ IntervalFits /\ LineInv
  BY DEF DvsInv
<1>2. c \in LinkProcess /\ c # "select"
  BY DEF Change, LinkProcess
<1>3. /\ LinksDue(wake', clk')
      /\ \A q \in LinkProcess : q # c => wake'[q] = wake[q]
  BY <1>1, <1>2, HoldsOnly
<1>4. DvsTypes'
  BY <1>1, <1>3 DEF DvsTypes
<1>5. \A d \in Change : d # c => /\ (Done(d)' <=> Done(d))
                                     /\ (Begins(d)' <=> Begins(d))
                                     /\ (Between(d)' <=> Between(d))
  <2> SUFFICES ASSUME NEW d \in Change, d # c
               PROVE  step'[d] = step[d] /\ wake'[d] = wake[d] /\ wake'["select"] = wake["select"]
    BY DEF Done, Begins, Between
  <2> QED
    BY <1>2, <1>3 DEF Change, LinkProcess
<1>6. \A d \in Change : Done(d)' \/ Begins(d)' \/ Between(d)'
  <2>1. \A d \in Change : Done(d) \/ Begins(d) \/ Between(d)
    BY DEF DvsInv
  <2> QED
    BY <1>5, <2>1
<1>7. ASSUME NEW l \in Link
      PROVE  LevelsInv(l)'
  <2>1. LevelsInv(l) /\ speedup_flag[l] \in {"nochange", "speedup", "slowdown"}
    BY <1>1 DEF DvsInv, DvsTypes
  <2>2. CASE speedup_flag[l] # c
    <3>1. /\ dvs_voltage'[l] = dvs_voltage[l] /\ dvs_freq'[l] = dvs_freq[l]
          /\ speedup_flag'[l] = speedup_flag[l] /\ next_level'[l] = next_level[l]
      BY <2>2
    <3>2. CASE speedup_flag[l] = "nochange"
      BY <2>1, <3>1, <3>2 DEF LevelsInv
    <3>3. CASE speedup_flag[l] # "nochange"
      <4> PICK d : d = speedup_flag[l]
        OBVIOUS
      <4>1. d \in Change /\ d # "nochange" /\ d # c
        BY <2>1, <2>2, <3>3 DEF Change
      <4>2. /\ set'[d] = set[d]
            /\ (Done(d)' <=> Done(d)) /\ (Begins(d)' <=> Begins(d)) /\ (Between(d)' <=> Between(d))
        BY <4>1, <1>5
      <4> QED
        BY <2>1, <3>1, <4>1, <4>2 DEF LevelsInv
    <3> QED
      BY <3>2, <3>3
  <2> QED
    BY <2>2
<1>8. LineInv'
  <2> SUFFICES ASSUME link_dvs_method # "HISTORY"
               PROVE  /\ FilePaced
                      /\ line.no \in Int
                      /\ line.no = wake'["select"] \div UNIT_MEGA + 1
                      /\ line.no > skipped_lines => \A l \in Link : Predicted(l, line.rate)'
    BY DEF LineInv, FilePaced, skipped_lines
  <2>1. wake'["select"] = wake["select"]
    BY <1>2, <1>3 DEF LinkProcess
  <2>2. ASSUME NEW l \in Link, Predicted(l, line.rate)
        PROVE  Predicted(l, line.rate)'
    <3>1. line' = line /\ speedup_flag' = speedup_flag /\ next_level' = next_level
      OBVIOUS
    <3>2. speedup_flag[l] = "nochange" => dvs_voltage'[l] = dvs_voltage[l]
      BY DEF Change
    <3> QED
      BY <2>2, <3>1, <3>2 DEF Predicted
  <2> QED
    BY <1>1, <2>1, <2>2 DEF LineInv
<1>9. IntervalFits'
  BY <1>1 DEF IntervalFits
<1> QED
  BY <1>4, <1>6, <1>7, <1>8, <1>9 DEF DvsInv

\* What moving some links to their next level gives.
LEMMA Moves ==
  ASSUME DvsTypes, NEW level \in [Link -> Int], NEW c \in Change,
         \A l \in Link : speedup_flag[l] = c => set[c]
  PROVE  /\ Moved(level, ToChange(c)) \in [Link -> Int]
         /\ \A l \in Link :
              Moved(level, ToChange(c))[l] = IF speedup_flag[l] = c THEN next_level[l] ELSE level[l]
  BY DEF DvsTypes, Moved, ToChange

LEMMA NextChangeFirst ==
  ASSUME DvsOK, DvsInv, NEW c \in Change, ChangeFirst(c)
  PROVE  DvsInv'
<1>1. DvsTypes /\ IntervalFits
  BY DEF DvsInv
<1>2. Half \in Nat \ {0} /\ secondDelay(c) \in Nat /\ secondDelay(c) < Half
  BY <1>1, Delays
<1>3. /\ clk' = clk /\ next_level' = next_level /\ speedup_flag' = speedup_flag
      /\ link_dvs_method' = link_dvs_method /\ line' = line
      /\ step[c] = "first" /\ step' = [step EXCEPT ![c] = "second"]
      /\ Runs(c) /\ hold(c, secondDelay(c)) /\ wake[c] = clk
  BY DEF ChangeFirst, Runs
<1>4. set' = set
  BY DEF ChangeFirst, firstUpdate, link_dvs_update_voltage_speedup, link_dvs_update_freq_slowdown
<1>5. c \in LinkProcess /\ c # "select"
  BY DEF Change, LinkProcess
<1>6. wake'[c] = wake[c] + secondDelay(c) /\ wake'["select"] = wake["select"] /\ wake["select"] \in Nat
  BY <1>1, <1>2, <1>3, <1>5, HoldsOnly DEF DvsTypes, LinksDue, LinkProcess
<1>7. Begins(c)
  <2>1. ~ Done(c) /\ ~ Between(c)
    <3>1. wake["select"] >= wake[c]
      BY <1>1, <1>3 DEF DvsTypes, LinksDue, LinkProcess
    <3> QED
      BY <1>2, <1>3, <1>6, <3>1 DEF Done, Between
  <2> QED
    BY <2>1 DEF DvsInv
<1>8. Between(c)' /\ ~ Done(c)' /\ ~ Begins(c)'
  <2>1. step'[c] = "second"
    BY <1>1, <1>3 DEF DvsTypes
  <2>2. wake'[c] = wake'["select"] - Half
    BY <1>2, <1>6, <1>7 DEF Begins
  <2> QED
    BY <2>1, <2>2 DEF Between, Done, Begins
<1>9. \A l \in Link : speedup_flag[l] = c =>
        /\ set[c] /\ dvs_freq[l] = dvs_voltage[l] /\ next_level[l] \in Int /\ dvs_voltage[l] \in Int
        /\ c = "speedup" => next_level[l] < dvs_voltage[l]
        /\ c = "slowdown" => next_level[l] > dvs_voltage[l]
  BY <1>1, <1>7 DEF DvsInv, DvsTypes, LevelsInv, Change
<1>10. /\ dvs_voltage' = IF c = "speedup" THEN Moved(dvs_voltage, ToChange(c)) ELSE dvs_voltage
       /\ dvs_freq' = IF c = "slowdown" THEN Moved(dvs_freq, ToChange(c)) ELSE dvs_freq
  <2>1. CASE c = "speedup"
    BY <2>1 DEF ChangeFirst, firstUpdate, link_dvs_update_voltage_speedup
  <2>2. CASE c = "slowdown"
    BY <2>2 DEF ChangeFirst, firstUpdate, link_dvs_update_freq_slowdown
  <2> QED
    BY <2>1, <2>2 DEF Change
<1>11. /\ dvs_voltage' \in [Link -> Int] /\ dvs_freq' \in [Link -> Int]
       /\ \A l \in Link :
            /\ speedup_flag[l] # c => dvs_voltage'[l] = dvs_voltage[l] /\ dvs_freq'[l] = dvs_freq[l]
            /\ speedup_flag[l] = c /\ c = "speedup" =>
                 dvs_voltage'[l] = next_level[l] /\ dvs_freq'[l] = dvs_freq[l]
            /\ speedup_flag[l] = c /\ c = "slowdown" =>
                 dvs_freq'[l] = next_level[l] /\ dvs_voltage'[l] = dvs_voltage[l]
  BY <1>1, <1>9, <1>10, Moves DEF DvsTypes, Change
<1>12. ASSUME NEW l \in Link, speedup_flag[l] = c
       PROVE  LevelsInv(l)'
  <2>1. speedup_flag'[l] = c /\ c # "nochange" /\ set'[c]
    BY <1>3, <1>4, <1>9, <1>12 DEF Change
  <2>2. /\ c = "speedup" => dvs_voltage'[l] = next_level'[l] /\ next_level'[l] < dvs_freq'[l]
        /\ c = "slowdown" => dvs_freq'[l] = next_level'[l] /\ next_level'[l] > dvs_voltage'[l]
    BY <1>3, <1>9, <1>11, <1>12
  <2> QED
    BY <1>8, <2>1, <2>2 DEF LevelsInv
<1>13. /\ step' \in [Change -> {"first", "second"}] /\ set' \in [Change -> BOOLEAN]
       /\ \A d \in Change : d # c => step'[d] = step[d] /\ set'[d] = set[d]
  BY <1>1, <1>3, <1>4 DEF DvsTypes
<1> QED
  BY <1>2, <1>3, <1>8, <1>11, <1>12, <1>13, OneChanges

LEMMA NextChangeSecond ==
  ASSUME DvsOK, DvsInv, NEW c \in Change, ChangeSecond(c)
  PROVE  DvsInv'
<1>1. DvsTypes /\ IntervalFits
  BY DEF DvsInv
<1>2. /\ Half \in Nat \ {0} /\ link_dvs_interval = Half + Half
      /\ secondDelay(c) \in Nat /\ secondDelay(c) < Half
      /\ Rest(c) = link_dvs_interval - secondDelay(c) /\ Rest(c) \in Nat
  BY <1>1, Delays
<1>3. /\ clk' = clk /\ next_level' = next_level /\ speedup_flag' = speedup_flag
      /\ link_dvs_method' = link_dvs_method /\ line' = line
      /\ step[c] = "second" /\ step' = [step EXCEPT ![c] = "first"]
      /\ Runs(c) /\ hold(c, Rest(c)) /\ wake[c] = clk
  BY DEF ChangeSecond, Runs
<1>4. c \in LinkProcess /\ c # "select"
  BY DEF Change, LinkProcess
<1>5. wake'[c] = wake[c] + Rest(c) /\ wake'["select"] = wake["select"] /\ wake["select"] \in Nat
  BY <1>1, <1>2, <1>3, <1>4, HoldsOnly DEF DvsTypes, LinksDue, LinkProcess
<1>6. Between(c)
  BY <1>3 DEF DvsInv, Done, Begins
<1>7. Done(c)' /\ ~ Between(c)' /\ ~ Begins(c)'
  <2>1. step'[c] = "first"
    BY <1>1, <1>3 DEF DvsTypes
  <2>2. wake'[c] = wake'["select"] + Half - secondDelay(c)
    BY <1>2, <1>5, <1>6 DEF Between
  <2>3. wake'[c] # wake'["select"] - Half - secondDelay(c)
    BY <1>2, <1>5, <2>2
  <2> QED
    BY <2>1, <2>2, <2>3 DEF Between, Done, Begins
<1>8. \A l \in Link : speedup_flag[l] = c =>
        /\ set[c]
        /\ c = "speedup" => dvs_voltage[l] = next_level[l]
        /\ c = "slowdown" => dvs_freq[l] = next_level[l]
  BY <1>1, <1>6 DEF DvsInv, DvsTypes, LevelsInv, Change
<1>9. /\ dvs_freq' = IF c = "speedup" THEN Moved(dvs_freq, ToChange(c)) ELSE dvs_freq
      /\ dvs_voltage' = IF c = "slowdown" THEN Moved(dvs_voltage, ToChange(c)) ELSE dvs_voltage
      /\ set' = [set EXCEPT ![c] = @ /\ ToChange(c) = {}]
  <2>1. CASE c = "speedup"
    BY <2>1 DEF ChangeSecond, secondUpdate, link_dvs_update_freq_speedup
  <2>2. CASE c = "slowdown"
    BY <2>2 DEF ChangeSecond, secondUpdate, link_dvs_update_voltage_slowdown
  <2> QED
    BY <2>1, <2>2 DEF Change
<1>10. /\ dvs_voltage' \in [Link -> Int] /\ dvs_freq' \in [Link -> Int]
       /\ \A l \in Link :
            /\ speedup_flag[l] # c => dvs_voltage'[l] = dvs_voltage[l] /\ dvs_freq'[l] = dvs_freq[l]
            /\ speedup_flag[l] = c /\ c = "speedup" =>
                 dvs_freq'[l] = next_level[l] /\ dvs_voltage'[l] = dvs_voltage[l]
            /\ speedup_flag[l] = c /\ c = "slowdown" =>
                 dvs_voltage'[l] = next_level[l] /\ dvs_freq'[l] = dvs_freq[l]
  BY <1>1, <1>8, <1>9, Moves DEF DvsTypes, Change
<1>11. ASSUME NEW l \in Link, speedup_flag[l] = c
       PROVE  LevelsInv(l)'
  <2>1. speedup_flag'[l] = c /\ c # "nochange"
    BY <1>3, <1>11 DEF Change
  <2>2. dvs_freq'[l] = dvs_voltage'[l] /\ dvs_voltage'[l] = next_level'[l]
    BY <1>3, <1>8, <1>10, <1>11 DEF Change
  <2> QED
    BY <1>7, <2>1, <2>2 DEF LevelsInv
<1>12. /\ step' \in [Change -> {"first", "second"}]
       /\ \A d \in Change : d # c => step'[d] = step[d]
  BY <1>1, <1>3 DEF DvsTypes
<1>13. /\ set' \in [Change -> BOOLEAN]
       /\ \A d \in Change : d # c => set'[d] = set[d]
  BY <1>1, <1>9, Zenon DEF DvsTypes
<1> QED
  BY <1>2, <1>3, <1>7, <1>10, <1>11, <1>12, <1>13, OneChanges

\* Time goes on to the next process that is due.
LEMMA LinksTick ==
  ASSUME DvsTypes, DvsTick
  PROVE  clk' \in Nat /\ LinksDue(wake', clk')
<1>1. wake' = wake
  BY DEF DvsTick, Advance
<1>2. wake \in [Process -> Nat \cup {Never}] /\ \A p \in LinkProcess : wake[p] \in Nat
  BY DEF DvsTypes, LinksDue
<1> DEFINE next == {} \cup ({wake[p] : p \in Process} \ {Never})
<1>3. next \in SUBSET Nat /\ next # {} /\ clk' = Min(next)
  BY <1>2 DEF DvsTick, Advance
<1>4. \A p \in LinkProcess : wake[p] \in next
  BY <1>2, LinkProcessesAssumption DEF Never, LinkProcess, Change
<1> HIDE DEF next
<1>5. \E m \in next : \A n \in next : m <= n
  BY <1>3, LeastExists
<1>6. clk' \in Nat /\ \A n \in next : clk' <= n
  BY <1>3, <1>5 DEF Min
<1> QED
  BY <1>1, <1>2, <1>4, <1>6 DEF LinksDue

LEMMA NextTickDvs ==
  ASSUME DvsOK, DvsInv, DvsTick
  PROVE  DvsInv'
<1>1. wake' = wake /\ UNCHANGED dvsVars
  BY DEF DvsTick, Advance
<1>2. clk' \in Nat /\ LinksDue(wake', clk')
  BY LinksTick DEF DvsInv
<1>3. /\ dvs_voltage' = dvs_voltage /\ dvs_freq' = dvs_freq /\ next_level' = next_level
      /\ speedup_flag' = speedup_flag /\ set' = set /\ step' = step
      /\ link_dvs_method' = link_dvs_method /\ line' = line
  BY <1>1 DEF dvsVars
<1>4. DvsTypes'
  BY <1>1, <1>2, <1>3 DEF DvsInv, DvsTypes
<1>5. \A c \in Change : Done(c)' \/ Begins(c)' \/ Between(c)'
  BY <1>1, <1>3 DEF DvsInv, Done, Begins, Between
<1>6. \A l \in Link : LevelsInv(l)'
  BY <1>1, <1>3 DEF DvsInv, LevelsInv, Done, Begins, Between
<1>7. LineInv'
  BY <1>1, <1>3 DEF DvsInv, LineInv, FilePaced, Predicted
<1>8. IntervalFits'
  BY DEF DvsInv, IntervalFits
<1> QED
  BY <1>4, <1>5, <1>6, <1>7, <1>8 DEF DvsInv

LEMMA DvsSettles ==
  ASSUME DvsOK, DvsInv
  PROVE  Settled
<1>1. ASSUME NEW l \in Link
      PROVE  dvs_freq[l] >= dvs_voltage[l]
  <2>1. /\ LevelsInv(l) /\ speedup_flag[l] \in {"nochange", "speedup", "slowdown"}
        /\ dvs_freq[l] \in Int /\ dvs_voltage[l] \in Int /\ next_level[l] \in Int
    BY DEF DvsInv, DvsTypes
  <2>2. speedup_flag[l] # "nochange" =>
          Done(speedup_flag[l]) \/ Begins(speedup_flag[l]) \/ Between(speedup_flag[l])
    BY <2>1 DEF DvsInv, Change
  <2> QED
    BY <2>1, <2>2 DEF LevelsInv
<1>2. ASSUME Runs("select")
      PROVE  \A l \in Link :
               /\ dvs_freq[l] = dvs_voltage[l]
               /\ speedup_flag[l] # "nochange" => dvs_voltage[l] = next_level[l]
               /\ link_dvs_method = "FLIT_RATE_PREDICT" /\ line.no > skipped_lines =>
                    /\ line.no = clk \div UNIT_MEGA + 1
                    /\ dvs_voltage[l] = PredictedLevel(line.rate, l)
  <2>1. /\ \A l \in Link : dvs_freq[l] = dvs_voltage[l]
        /\ \A l \in Link : speedup_flag[l] # "nochange" => dvs_voltage[l] = next_level[l]
    BY <1>2, AllDone
  <2>2. LineInv /\ clk = wake["select"]
    BY <1>2 DEF DvsInv, Runs
  <2> QED
    BY <2>1, <2>2 DEF LineInv, Predicted
<1> QED
  BY <1>1, <1>2 DEF Settled

\* Links that change their voltage and frequency never run at a frequency too
\* high for their voltage, and all changes are done when levels are selected
\* again (process_link_dvs_set and the two link_dvs_update processes), for any
\* links and levels, if each delay is less than half the interval; with predicted
\* rates, the levels are those that the line for this interval asks for, if the
\* file has a line for each interval.  LateChangesTear says what longer delays do.
THEOREM LinksSettle ==
  DvsOK /\ IntervalFits /\ (link_dvs_method # "HISTORY" => FilePaced) /\ DvsSpec => []Settled
<1>1. DvsOK /\ IntervalFits /\ (link_dvs_method # "HISTORY" => FilePaced) /\ DvsInit => DvsInv
  BY InitDvs
<1>2. ASSUME DvsOK, DvsInv, [DvsNext]_<<clk, wake, running, dvsVars>>
      PROVE  DvsInv'
  <2>1. CASE Select
    BY <1>2, <2>1, NextSelect
  <2>2. ASSUME NEW c \in Change, ChangeFirst(c) \/ ChangeSecond(c)
        PROVE  DvsInv'
    BY <1>2, <2>2, NextChangeFirst, NextChangeSecond, SMTT(30)
  <2>3. CASE DvsTick
    BY <1>2, <2>3, NextTickDvs
  <2>4. CASE UNCHANGED <<clk, wake, running, dvsVars>>
    <3>1. /\ clk' = clk /\ wake' = wake
          /\ dvs_voltage' = dvs_voltage /\ dvs_freq' = dvs_freq /\ next_level' = next_level
          /\ speedup_flag' = speedup_flag /\ set' = set /\ step' = step
          /\ link_dvs_method' = link_dvs_method /\ line' = line
      BY <2>4 DEF dvsVars
    <3> QED
      BY <1>2, <3>1 DEF DvsInv, DvsTypes, LevelsInv, Done, Begins, Between, LineInv, FilePaced, Predicted,
                        IntervalFits
  <2> QED
    BY <1>2, <2>1, <2>2, <2>3, <2>4 DEF DvsNext
<1>3. DvsOK /\ DvsInv => Settled
  BY DvsSettles
<1>4. DvsOK => DvsOK'
  BY DEF DvsOK
<1> QED
  BY <1>1, <1>2, <1>3, <1>4, PTL DEF DvsSpec

-----------------------------------------------------------------------------
(* Delays that the program accepts, but one is more than half an interval. *)

\* The process has taken its first step before the selection to come.
Early(c) == step[c] = "second" /\ wake[c] = wake["select"] + Half

\* Of the two changes, c is late; then the other one is not.
TornInv(c, l) ==
  LET d == speedup_flag[l] IN
  /\ d = "nochange" => dvs_freq[l] <= dvs_voltage[l]
  /\ d \in Change \ {c} /\ Done(d) => dvs_freq[l] = dvs_voltage[l]
  /\ d \in Change \ {c} /\ Begins(d) => set[d]
  /\ d \in Change \ {c} /\ Between(d) =>
       set[d] /\ (IF d = "speedup" THEN dvs_voltage[l] ELSE dvs_freq[l]) = next_level[l]
  /\ d = c /\ (Done(c) \/ Early(c)) => ~ set[c] /\ dvs_freq[l] < dvs_voltage[l]
  /\ d = c /\ Between(c) => set[c]
  /\ d = c /\ Between(c) /\ c = "speedup" => next_level[l] < dvs_voltage[l]
  /\ d = c /\ Between(c) /\ c = "slowdown" => dvs_freq[l] < next_level[l]

LateInv(c) ==
  /\ DvsTypes
  /\ Done(c) \/ Early(c) \/ Between(c)
  /\ \A d \in Change \ {c} : Done(d) \/ Begins(d) \/ Between(d)
  /\ \A l \in Link : TornInv(c, l)

Delayed(c) == c \in Change /\ DelaysFit /\ TooLate(c)

\* Where the delays leave the processes' steps.
LEMMA LateDelays ==
  ASSUME DvsOK, NEW c, Delayed(c)
  PROVE  /\ Half \in Nat \ {0} /\ link_dvs_interval = Half + Half
         /\ Half < secondDelay(c) /\ secondDelay(c) < Half + Half
         /\ \A d \in Change :
              /\ firstDelay(d) \in Nat /\ secondDelay(d) \in Nat
              /\ d # c => secondDelay(d) < Half
              /\ firstDelay(d) + secondDelay(d) = voltage_delay + freq_delay
              /\ Rest(d) = link_dvs_interval - secondDelay(d) /\ Rest(d) \in Nat
<1>1. /\ voltage_delay \in Nat /\ freq_delay \in Nat /\ link_dvs_interval \in Nat
      /\ link_dvs_interval % 2 = 0 /\ link_dvs_interval > voltage_delay + freq_delay
      /\ c \in Change /\ 2 * secondDelay(c) > link_dvs_interval
  BY DEF DvsOK, Delayed, DelaysFit, TooLate
<1>2. Half \in Nat /\ link_dvs_interval = Half + Half
  BY <1>1 DEF Half
<1>3. \A d \in Change : \/ d = "speedup" /\ firstDelay(d) = voltage_delay /\ secondDelay(d) = freq_delay
                        \/ d = "slowdown" /\ firstDelay(d) = freq_delay /\ secondDelay(d) = voltage_delay
  BY DEF Change, firstDelay, secondDelay
<1>4. Half < secondDelay(c) /\ secondDelay(c) < Half + Half /\ Half > 0
  BY <1>1, <1>2, <1>3
<1>5. ASSUME NEW d \in Change
      PROVE  /\ firstDelay(d) \in Nat /\ secondDelay(d) \in Nat
             /\ firstDelay(d) + secondDelay(d) = voltage_delay + freq_delay
             /\ Rest(d) = link_dvs_interval - secondDelay(d) /\ Rest(d) \in Nat
  BY <1>1, <1>3 DEF Rest
<1>6. ASSUME NEW d \in Change, d # c
      PROVE  secondDelay(d) < Half
  BY <1>1, <1>2, <1>3, <1>4, <1>6
<1> QED
  BY <1>2, <1>4, <1>5, <1>6

\* When levels are selected, the late process has yet to take a step that follows
\* this selection, and the other has none left.
LEMMA LateSelects ==
  ASSUME DvsOK, NEW c, Delayed(c), LateInv(c), Runs("select")
  PROVE  /\ Early(c) /\ \A d \in Change \ {c} : Done(d)
         /\ \A l \in Link : dvs_freq[l] <= dvs_voltage[l]
         /\ \A l \in Link : speedup_flag[l] = c => dvs_freq[l] < dvs_voltage[l]
<1>1. /\ Half \in Nat \ {0} /\ Half < secondDelay(c)
      /\ \A d \in Change : secondDelay(d) \in Nat
  BY LateDelays
<1>2. c \in Change
  BY DEF Delayed
<1>3. wake["select"] \in Nat /\ \A d \in Change : wake[d] \in Nat /\ wake[d] >= wake["select"]
  BY DEF LateInv, DvsTypes, LinksDue, LinkProcess, Runs, Change
<1>4. Early(c)
  <2>1. ~ Done(c) /\ ~ Between(c)
    BY <1>1, <1>2, <1>3 DEF Done, Between
  <2> QED
    BY <2>1 DEF LateInv
<1>5. ASSUME NEW d \in Change \ {c}
      PROVE  Done(d)
  <2>1. ~ Begins(d) /\ ~ Between(d)
    BY <1>1, <1>3 DEF Begins, Between
  <2> QED
    BY <2>1 DEF LateInv
<1>6. ASSUME NEW l \in Link
      PROVE  /\ dvs_freq[l] <= dvs_voltage[l]
             /\ speedup_flag[l] = c => dvs_freq[l] < dvs_voltage[l]
  <2>1. /\ TornInv(c, l) /\ speedup_flag[l] \in {"nochange", "speedup", "slowdown"}
        /\ dvs_freq[l] \in Int /\ dvs_voltage[l] \in Int
    BY DEF LateInv, DvsTypes
  <2> PICK d : d = speedup_flag[l]
    OBVIOUS
  <2>2. CASE d = "nochange"
    BY <1>2, <2>1, <2>2 DEF TornInv, Change
  <2>3. CASE d = c
    BY <1>4, <2>1, <2>3 DEF TornInv
  <2>4. CASE d \in Change \ {c}
    BY <1>5, <2>1, <2>4 DEF TornInv
  <2> QED
    BY <1>2, <2>1, <2>2, <2>3, <2>4 DEF Change
<1> QED
  BY <1>4, <1>5, <1>6

LEMMA LateInit ==
  ASSUME DvsOK, NEW c, Delayed(c), DvsInit
  PROVE  LateInv(c)
<1>1. /\ Half \in Nat \ {0} /\ link_dvs_interval = Half + Half
      /\ Half < secondDelay(c) /\ secondDelay(c) < Half + Half
      /\ \A d \in Change :
           /\ firstDelay(d) \in Nat /\ secondDelay(d) \in Nat
           /\ firstDelay(d) + secondDelay(d) = voltage_delay + freq_delay
           /\ d # c => secondDelay(d) < Half
  BY LateDelays
<1>2. clk = 0 /\ wake["select"] = sim_clk_start + Half
  BY LinkProcessesAssumption DEF DvsInit, Half, Change
<1>3. ASSUME NEW d \in Change
      PROVE  wake[d] = wake["select"] + Half - secondDelay(d) /\ step[d] = "first"
  <2>1. wake[d] = sim_clk_start + link_dvs_interval - voltage_delay - freq_delay + firstDelay(d)
    BY LinkProcessesAssumption DEF DvsInit, firstChange, Change
  <2>2. step[d] = "first"
    BY DEF DvsInit
  <2> QED
    BY <1>1, <1>2, <2>1, <2>2 DEF DvsOK
<1>4. \A d \in Change : Done(d)
  BY <1>3 DEF Done
<1>5. \A p \in LinkProcess : wake[p] \in Nat
  <2>1. wake["select"] \in Nat /\ wake["select"] >= Half
    BY <1>1, <1>2 DEF DvsOK
  <2>2. \A d \in Change : wake[d] \in Nat
    <3> SUFFICES ASSUME NEW d \in Change PROVE wake[d] \in Nat
      OBVIOUS
    <3>1. secondDelay(d) < Half + Half
      BY <1>1
    <3> QED
      BY <1>1, <1>3, <2>1, <3>1
  <2> QED
    BY <2>1, <2>2 DEF LinkProcess, Change
<1>6. LinksDue(wake, clk)
  <2>1. wake = [p \in Process |-> CASE p = "select" -> sim_clk_start + link_dvs_interval \div 2
                                    [] p \in Change -> firstChange + firstDelay(p)
                                    [] OTHER -> Never]
    BY DEF DvsInit
  <2>2. DOMAIN wake = Process /\ \A p \in Process : p \notin LinkProcess => wake[p] = Never
    BY <2>1 DEF LinkProcess, Change
  <2>3. wake = [p \in Process |-> wake[p]]
    BY <2>1
  <2>4. \A p \in Process : wake[p] \in Nat \cup {Never}
    BY <1>5, <2>2
  <2>5. wake \in [Process -> Nat \cup {Never}]
    BY <2>3, <2>4, Zenon
  <2>6. \A p \in LinkProcess : wake[p] >= clk
    BY <1>2, <1>5
  <2> QED
    BY <1>5, <2>5, <2>6 DEF LinksDue
<1>7. DvsTypes
  BY <1>2, <1>6 DEF DvsTypes, DvsInit
<1>8. \A l \in Link : TornInv(c, l)
  <2>1. \A l \in Link : speedup_flag[l] = "nochange" /\ dvs_freq[l] = 0 /\ dvs_voltage[l] = 0
    BY DEF DvsInit
  <2>2. c # "nochange" /\ "nochange" \notin Change
    BY DEF Delayed, Change
  <2> QED
    BY <2>1, <2>2 DEF TornInv
<1> QED
  BY <1>4, <1>7, <1>8 DEF LateInv, Delayed

LEMMA LateSelect ==
  ASSUME DvsOK, NEW c, Delayed(c), LateInv(c), Select
  PROVE  LateInv(c)'
<1>1. DvsTypes /\ c \in Change
  BY DEF LateInv, Delayed
<1>2. /\ Half \in Nat \ {0} /\ link_dvs_interval = Half + Half
      /\ \A d \in Change : secondDelay(d) \in Nat
  BY LateDelays
<1>3. /\ Early(c) /\ \A d \in Change \ {c} : Done(d)
      /\ \A l \in Link : dvs_freq[l] <= dvs_voltage[l]
  BY LateSelects DEF Select
<1>4. /\ LinksDue(wake', clk')
      /\ wake'["select"] = wake["select"] + link_dvs_interval
      /\ \A q \in LinkProcess : q # "select" => wake'[q] = wake[q]
  <2>1. Runs("select") /\ hold("select", link_dvs_interval) /\ clk' = clk
    BY DEF Select
  <2> QED
    BY <1>1, <2>1, HoldsOnly DEF DvsOK, LinkProcess
<1>5. /\ clk' = clk /\ dvs_voltage' = dvs_voltage /\ dvs_freq' = dvs_freq /\ step' = step
      /\ set' = [d \in Change |-> TRUE]
  BY DEF Select
<1>6. PICK level \in IF link_dvs_method = "HISTORY" THEN [Link -> Level]
                     ELSE {[l \in Link |-> PredictedLevel(line'.rate, l)]} :
        /\ \A l \in Link : level[l] = dvs_freq[l] => level[l] = dvs_voltage[l]
        /\ speedup_flag' = [l \in Link |-> Flag(l, level[l])]
        /\ next_level' = [l \in Link |-> IF speedup_flag'[l] = "nochange" THEN next_level[l] ELSE level[l]]
  BY DEF Select
<1>7. \A l \in Link : level[l] \in Int
  <2>1. \A l \in Link : level[l] \in Level
    BY <1>6, LevelsAre
  <2> QED
    BY <2>1 DEF Level, DvsOK
<1>8. wake["select"] \in Nat /\ \A d \in Change : wake'[d] = wake[d] /\ wake[d] \in Nat
  BY <1>1, <1>4 DEF DvsTypes, LinksDue, LinkProcess, Change
<1>9. Between(c)' /\ ~ Done(c)' /\ ~ Early(c)'
  BY <1>1, <1>2, <1>3, <1>4, <1>5, <1>8 DEF Between, Done, Early
<1>10. \A d \in Change \ {c} : Begins(d)' /\ ~ Done(d)' /\ ~ Between(d)'
  <2> SUFFICES ASSUME NEW d \in Change \ {c}
               PROVE  /\ step'[d] = "first"
                      /\ wake'[d] = wake'["select"] - Half - secondDelay(d)
                      /\ wake'[d] # wake'["select"] + Half - secondDelay(d)
    BY DEF Begins, Done, Between
  <2>1. step[d] = "first" /\ wake[d] = wake["select"] + Half - secondDelay(d)
    BY <1>3 DEF Done
  <2> QED
    BY <1>2, <1>4, <1>5, <1>8, <2>1
<1>11. ASSUME NEW l \in Link
       PROVE  /\ speedup_flag'[l] = Flag(l, level[l])
              /\ next_level'[l] = IF speedup_flag'[l] = "nochange" THEN next_level[l] ELSE level[l]
              /\ dvs_freq[l] <= dvs_voltage[l] /\ level[l] \in Int
              /\ dvs_freq[l] \in Int /\ dvs_voltage[l] \in Int /\ next_level[l] \in Int
              /\ level[l] = dvs_freq[l] => level[l] = dvs_voltage[l]
  BY <1>1, <1>3, <1>6, <1>7 DEF DvsTypes
<1>12. DvsTypes'
  <2>1. speedup_flag' \in [Link -> {"nochange", "speedup", "slowdown"}]
    BY <1>6 DEF Flag
  <2>2. next_level' \in [Link -> Int]
    BY <1>6, <1>11
  <2>3. set' \in [Change -> BOOLEAN]
    BY <1>5
  <2> QED
    BY <1>1, <1>4, <1>5, <2>1, <2>2, <2>3 DEF DvsTypes
<1>13. ASSUME NEW l \in Link
       PROVE  TornInv(c, l)'
  <2>1. \A d \in Change : set'[d]
    BY <1>5
  <2>2. \/ speedup_flag'[l] = "nochange"
        \/ speedup_flag'[l] = "speedup" /\ next_level'[l] < dvs_voltage[l]
        \/ speedup_flag'[l] = "slowdown" /\ dvs_freq[l] < next_level'[l]
    BY <1>11 DEF Flag
  <2>3. dvs_freq'[l] = dvs_freq[l] /\ dvs_voltage'[l] = dvs_voltage[l] /\ dvs_freq[l] <= dvs_voltage[l]
    BY <1>5, <1>11
  <2>4. speedup_flag'[l] # "nochange" => speedup_flag'[l] \in Change
    BY <2>2 DEF Change
  <2> QED
    BY <1>1, <1>9, <1>10, <2>1, <2>2, <2>3, <2>4 DEF TornInv, Change
<1> QED
  BY <1>9, <1>10, <1>12, <1>13 DEF LateInv

\* One of the two processes takes a step, as in OneChanges.
LEMMA LateOne ==
  ASSUME DvsOK, NEW c, Delayed(c), LateInv(c), NEW p \in Change, NEW t \in Nat,
         Runs(p), hold(p, t), clk' = clk, UNCHANGED <<next_level, speedup_flag>>,
         step' \in [Change -> {"first", "second"}], set' \in [Change -> BOOLEAN],
         \A d \in Change : d # p => step'[d] = step[d] /\ set'[d] = set[d],
         p = c => Done(p)' \/ Early(p)' \/ Between(p)',
         p # c => Done(p)' \/ Begins(p)' \/ Between(p)',
         dvs_voltage' \in [Link -> Int] /\ dvs_freq' \in [Link -> Int],
         \A l \in Link : speedup_flag[l] # p => dvs_voltage'[l] = dvs_voltage[l] /\ dvs_freq'[l] = dvs_freq[l],
         \A l \in Link : speedup_flag[l] = p => TornInv(c, l)'
  PROVE  LateInv(c)'
<1>1. DvsTypes /\ c \in Change
  BY DEF LateInv, Delayed
<1>2. p \in LinkProcess /\ p # "select"
  BY DEF Change, LinkProcess
<1>3. /\ LinksDue(wake', clk')
      /\ \A q \in LinkProcess : q # p => wake'[q] = wake[q]
  BY <1>1, <1>2, HoldsOnly
<1>4. DvsTypes'
  BY <1>1, <1>3 DEF DvsTypes
<1>5. \A d \in Change : d # p => /\ (Done(d)' <=> Done(d))
                                     /\ (Begins(d)' <=> Begins(d))
                                     /\ (Between(d)' <=> Between(d))
                                     /\ (Early(d)' <=> Early(d))
  <2> SUFFICES ASSUME NEW d \in Change, d # p
               PROVE  step'[d] = step[d] /\ wake'[d] = wake[d] /\ wake'["select"] = wake["select"]
    BY DEF Done, Begins, Between, Early
  <2> QED
    BY <1>2, <1>3 DEF Change, LinkProcess
<1>6. Done(c)' \/ Early(c)' \/ Between(c)'
  <2>1. Done(c) \/ Early(c) \/ Between(c)
    BY DEF LateInv
  <2> QED
    BY <1>1, <1>5, <2>1, Zenon
<1>7. \A d \in Change \ {c} : Done(d)' \/ Begins(d)' \/ Between(d)'
  <2>1. \A d \in Change \ {c} : Done(d) \/ Begins(d) \/ Between(d)
    BY DEF LateInv
  <2> QED
    BY <1>5, <2>1, Zenon
<1>8. ASSUME NEW l \in Link
      PROVE  TornInv(c, l)'
  <2>1. TornInv(c, l) /\ speedup_flag[l] \in {"nochange", "speedup", "slowdown"}
    BY <1>1 DEF LateInv, DvsTypes
  <2>2. CASE speedup_flag[l] # p
    <3>1. /\ dvs_voltage'[l] = dvs_voltage[l] /\ dvs_freq'[l] = dvs_freq[l]
          /\ speedup_flag'[l] = speedup_flag[l] /\ next_level'[l] = next_level[l]
      BY <2>2
    <3> PICK d : d = speedup_flag[l]
      OBVIOUS
    <3>2. "nochange" \notin Change /\ (d = "nochange" \/ d \in Change \ {c} \/ d = c)
      BY <2>1 DEF Change
    <3>3. CASE d = "nochange"
      BY <1>1, <2>1, <3>1, <3>2, <3>3 DEF TornInv
    <3>4. CASE d \in Change
      <4>1. /\ set'[d] = set[d] /\ (Done(d)' <=> Done(d)) /\ (Begins(d)' <=> Begins(d))
            /\ (Between(d)' <=> Between(d)) /\ (Early(d)' <=> Early(d))
        BY <1>5, <2>2, <3>4
      <4> QED
        BY <2>1, <3>1, <3>2, <3>4, <4>1 DEF TornInv
    <3> QED
      BY <1>1, <3>2, <3>3, <3>4
  <2> QED
    BY <2>2
<1> QED
  BY <1>4, <1>6, <1>7, <1>8 DEF LateInv

LEMMA LateFirst ==
  ASSUME DvsOK, NEW c, Delayed(c), LateInv(c), NEW p \in Change, ChangeFirst(p)
  PROVE  LateInv(c)'
<1>1. DvsTypes /\ c \in Change
  BY DEF LateInv, Delayed
<1>2. /\ Half \in Nat \ {0} /\ secondDelay(p) \in Nat
      /\ p # c => secondDelay(p) < Half
  BY LateDelays
<1>3. /\ clk' = clk /\ next_level' = next_level /\ speedup_flag' = speedup_flag
      /\ step[p] = "first" /\ step' = [step EXCEPT ![p] = "second"]
      /\ Runs(p) /\ hold(p, secondDelay(p)) /\ wake[p] = clk
  BY DEF ChangeFirst, Runs
<1>4. set' = set
  BY DEF ChangeFirst, firstUpdate, link_dvs_update_voltage_speedup, link_dvs_update_freq_slowdown
<1>5. p \in LinkProcess /\ p # "select"
  BY DEF Change, LinkProcess
<1>6. /\ wake'[p] = wake[p] + secondDelay(p) /\ wake'["select"] = wake["select"]
      /\ wake["select"] \in Nat /\ wake[p] \in Nat /\ wake["select"] >= wake[p]
  BY <1>1, <1>2, <1>3, <1>5, HoldsOnly DEF DvsTypes, LinksDue, LinkProcess
<1>7. step'[p] = "second"
  BY <1>1, <1>3 DEF DvsTypes
<1>8. /\ step' \in [Change -> {"first", "second"}] /\ set' \in [Change -> BOOLEAN]
      /\ \A d \in Change : d # p => step'[d] = step[d] /\ set'[d] = set[d]
  BY <1>1, <1>3, <1>4 DEF DvsTypes
<1>9. /\ dvs_voltage' = IF p = "speedup" THEN Moved(dvs_voltage, ToChange(p)) ELSE dvs_voltage
      /\ dvs_freq' = IF p = "slowdown" THEN Moved(dvs_freq, ToChange(p)) ELSE dvs_freq
  <2>1. CASE p = "speedup"
    BY <2>1 DEF ChangeFirst, firstUpdate, link_dvs_update_voltage_speedup
  <2>2. CASE p = "slowdown"
    BY <2>2 DEF ChangeFirst, firstUpdate, link_dvs_update_freq_slowdown
  <2> QED
    BY <2>1, <2>2 DEF Change
\* The late process takes it on time for the next selection, with nothing to change.
<1>10. CASE p = c
  <2>1. Done(c)
    BY <1>3, <1>10 DEF LateInv, Early, Between
  <2>2. Early(c)' /\ ~ Done(c)' /\ ~ Between(c)'
    BY <1>2, <1>6, <1>7, <1>10, <2>1 DEF Done, Early, Between
  <2>3. \A l \in Link : speedup_flag[l] = c => ~ set[c] /\ dvs_freq[l] < dvs_voltage[l]
    BY <2>1 DEF LateInv, TornInv
  <2>4. ToChange(c) = {}
    BY <2>3 DEF ToChange
  <2>5. dvs_voltage' = dvs_voltage /\ dvs_freq' = dvs_freq
    BY <1>1, <1>9, <1>10, <2>4 DEF Moved, DvsTypes
  <2>6. ASSUME NEW l \in Link, speedup_flag[l] = c
        PROVE  TornInv(c, l)'
    <3>1. speedup_flag'[l] = c /\ c # "nochange" /\ ~ set'[c] /\ dvs_freq'[l] < dvs_voltage'[l]
      BY <1>1, <1>3, <1>4, <2>3, <2>5, <2>6 DEF Change
    <3> QED
      BY <2>2, <3>1 DEF TornInv
  <2>7. dvs_voltage' \in [Link -> Int] /\ dvs_freq' \in [Link -> Int]
    BY <1>1, <2>5 DEF DvsTypes
  <2> QED
    BY <1>2, <1>3, <1>8, <1>10, <2>2, <2>5, <2>6, <2>7, LateOne
<1>11. CASE p # c
  <2>1. Begins(p)
    <3>1. ~ Done(p) /\ ~ Between(p)
      BY <1>2, <1>3, <1>6, <1>11 DEF Done, Between
    <3> QED
      BY <1>11, <3>1 DEF LateInv
  <2>2. Between(p)' /\ ~ Done(p)' /\ ~ Begins(p)'
    BY <1>2, <1>6, <1>7, <2>1 DEF Begins, Between, Done
  <2>3. \A l \in Link : speedup_flag[l] = p => set[p]
    BY <1>11, <2>1 DEF LateInv, TornInv
  <2>4. /\ dvs_voltage' \in [Link -> Int] /\ dvs_freq' \in [Link -> Int]
        /\ \A l \in Link :
             /\ speedup_flag[l] # p => dvs_voltage'[l] = dvs_voltage[l] /\ dvs_freq'[l] = dvs_freq[l]
             /\ speedup_flag[l] = p /\ p = "speedup" => dvs_voltage'[l] = next_level[l]
             /\ speedup_flag[l] = p /\ p = "slowdown" => dvs_freq'[l] = next_level[l]
    BY <1>1, <1>9, <2>3, Moves DEF DvsTypes, Change
  <2>5. ASSUME NEW l \in Link, speedup_flag[l] = p
        PROVE  TornInv(c, l)'
    <3>1. speedup_flag'[l] = p /\ p # "nochange" /\ set'[p]
      BY <1>3, <1>4, <2>3, <2>5 DEF Change
    <3>2. (IF p = "speedup" THEN dvs_voltage'[l] ELSE dvs_freq'[l]) = next_level'[l]
      BY <1>3, <2>4, <2>5 DEF Change
    <3> QED
      BY <1>11, <2>2, <3>1, <3>2 DEF TornInv
  <2> QED
    BY <1>2, <1>3, <1>8, <1>11, <2>2, <2>4, <2>5, LateOne
<1> QED
  BY <1>10, <1>11

LEMMA LateSecond ==
  ASSUME DvsOK, NEW c, Delayed(c), LateInv(c), NEW p \in Change, ChangeSecond(p)
  PROVE  LateInv(c)'
<1>1. DvsTypes /\ c \in Change
  BY DEF LateInv, Delayed
<1>2. /\ Half \in Nat \ {0} /\ link_dvs_interval = Half + Half /\ secondDelay(p) \in Nat
      /\ Rest(p) = link_dvs_interval - secondDelay(p) /\ Rest(p) \in Nat
  BY LateDelays
<1>3. /\ clk' = clk /\ next_level' = next_level /\ speedup_flag' = speedup_flag
      /\ step[p] = "second" /\ step' = [step EXCEPT ![p] = "first"]
      /\ Runs(p) /\ hold(p, Rest(p)) /\ wake[p] = clk
  BY DEF ChangeSecond, Runs
<1>4. p \in LinkProcess /\ p # "select"
  BY DEF Change, LinkProcess
<1>5. /\ wake'[p] = wake[p] + Rest(p) /\ wake'["select"] = wake["select"]
      /\ wake["select"] \in Nat /\ wake[p] \in Nat /\ wake["select"] >= wake[p]
  BY <1>1, <1>2, <1>3, <1>4, HoldsOnly DEF DvsTypes, LinksDue, LinkProcess
<1>6. Between(p)
  <2>1. ~ Done(p) /\ ~ Begins(p)
    BY <1>3 DEF Done, Begins
  <2>2. ~ Early(p)
    BY <1>2, <1>5 DEF Early
  <2> QED
    BY <2>1, <2>2 DEF LateInv
<1>7. Done(p)' /\ ~ Between(p)' /\ ~ Begins(p)' /\ ~ Early(p)'
  <2>1. step'[p] = "first"
    BY <1>1, <1>3 DEF DvsTypes
  <2>2. wake'[p] = wake'["select"] + Half - secondDelay(p)
    BY <1>2, <1>5, <1>6 DEF Between
  <2>3. wake'[p] # wake'["select"] - Half - secondDelay(p)
    BY <1>2, <1>5, <2>2
  <2> QED
    BY <2>1, <2>2, <2>3 DEF Between, Done, Begins, Early
<1>8. /\ dvs_freq' = IF p = "speedup" THEN Moved(dvs_freq, ToChange(p)) ELSE dvs_freq
      /\ dvs_voltage' = IF p = "slowdown" THEN Moved(dvs_voltage, ToChange(p)) ELSE dvs_voltage
      /\ set' = [set EXCEPT ![p] = @ /\ ToChange(p) = {}]
  <2>1. CASE p = "speedup"
    BY <2>1 DEF ChangeSecond, secondUpdate, link_dvs_update_freq_speedup
  <2>2. CASE p = "slowdown"
    BY <2>2 DEF ChangeSecond, secondUpdate, link_dvs_update_voltage_slowdown
  <2> QED
    BY <2>1, <2>2 DEF Change
<1>9. \A l \in Link : speedup_flag[l] = p => set[p]
  BY <1>6 DEF LateInv, TornInv
<1>10. /\ dvs_voltage' \in [Link -> Int] /\ dvs_freq' \in [Link -> Int]
       /\ \A l \in Link :
            /\ speedup_flag[l] # p => dvs_voltage'[l] = dvs_voltage[l] /\ dvs_freq'[l] = dvs_freq[l]
            /\ speedup_flag[l] = p /\ p = "speedup" =>
                 dvs_freq'[l] = next_level[l] /\ dvs_voltage'[l] = dvs_voltage[l]
            /\ speedup_flag[l] = p /\ p = "slowdown" =>
                 dvs_voltage'[l] = next_level[l] /\ dvs_freq'[l] = dvs_freq[l]
  BY <1>1, <1>8, <1>9, Moves DEF DvsTypes, Change
<1>11. /\ step' \in [Change -> {"first", "second"}]
       /\ \A d \in Change : d # p => step'[d] = step[d]
  BY <1>1, <1>3 DEF DvsTypes
<1>12. /\ set' \in [Change -> BOOLEAN]
       /\ \A d \in Change : d # p => set'[d] = set[d]
  BY <1>1, <1>8, Zenon DEF DvsTypes
<1>13. ASSUME NEW l \in Link, speedup_flag[l] = p
       PROVE  TornInv(c, l)'
  <2>1. speedup_flag'[l] = p /\ p # "nochange" /\ p \in {"speedup", "slowdown"}
    BY <1>3, <1>13 DEF Change
  <2>2. CASE p = c
    <3>1. TornInv(c, l) /\ Between(c)
      BY <1>6, <2>2 DEF LateInv
    <3>2. /\ c = "speedup" => next_level[l] < dvs_voltage[l]
          /\ c = "slowdown" => dvs_freq[l] < next_level[l]
      BY <1>13, <2>2, <3>1 DEF TornInv
    <3>3. dvs_freq'[l] < dvs_voltage'[l]
      BY <1>10, <1>13, <2>1, <2>2, <3>2
    <3>4. ~ set'[c]
      <4>1. l \in ToChange(p)
        BY <1>9, <1>13 DEF ToChange
      <4>2. set'[p] = (set[p] /\ ToChange(p) = {})
        BY <1>1, <1>8, Zenon DEF DvsTypes
      <4> QED
        BY <2>2, <4>1, <4>2
    <3> QED
      BY <1>7, <2>1, <2>2, <3>3, <3>4 DEF TornInv
  <2>3. CASE p # c
    <3>1. TornInv(c, l) /\ Between(p)
      BY <1>6 DEF LateInv
    <3>2. (IF p = "speedup" THEN dvs_voltage[l] ELSE dvs_freq[l]) = next_level[l]
      BY <1>13, <2>3, <3>1 DEF TornInv
    <3>3. dvs_freq'[l] = dvs_voltage'[l]
      BY <1>10, <1>13, <2>1, <3>2
    <3> QED
      BY <1>7, <2>1, <2>3, <3>3 DEF TornInv
  <2> QED
    BY <2>2, <2>3
<1> QED
  BY <1>2, <1>3, <1>7, <1>10, <1>11, <1>12, <1>13, LateOne

\* Time, or nothing, goes on.
LEMMA LateStays ==
  ASSUME NEW c, LateInv(c), DvsTypes', wake' = wake,
         UNCHANGED <<dvs_voltage, dvs_freq, next_level, speedup_flag, set, step>>
  PROVE  LateInv(c)'
<1>1. \A d \in Change : /\ (Done(d)' <=> Done(d)) /\ (Begins(d)' <=> Begins(d))
                        /\ (Between(d)' <=> Between(d))
  BY DEF Done, Begins, Between
<1>2. (Done(c)' <=> Done(c)) /\ (Early(c)' <=> Early(c)) /\ (Between(c)' <=> Between(c))
  BY DEF Done, Between, Early
<1>3. ASSUME NEW l \in Link
      PROVE  TornInv(c, l)'
  <2>1. TornInv(c, l)
    BY DEF LateInv
  <2>2. /\ dvs_voltage'[l] = dvs_voltage[l] /\ dvs_freq'[l] = dvs_freq[l]
        /\ speedup_flag'[l] = speedup_flag[l] /\ next_level'[l] = next_level[l] /\ set' = set
    OBVIOUS
  <2> QED
    BY <1>1, <1>2, <2>1, <2>2 DEF TornInv
<1> QED
  BY <1>1, <1>2, <1>3 DEF LateInv

LEMMA LateTick ==
  ASSUME DvsOK, NEW c, LateInv(c), DvsTick
  PROVE  LateInv(c)'
<1>1. DvsTypes
  BY DEF LateInv
<1>2. wake' = wake /\ UNCHANGED dvsVars
  BY DEF DvsTick, Advance
<1>3. /\ UNCHANGED <<dvs_voltage, dvs_freq, next_level, speedup_flag, set, step>>
      /\ link_dvs_method' = link_dvs_method /\ line' = line
  BY <1>2 DEF dvsVars
<1>4. DvsTypes'
  BY <1>1, <1>2, <1>3, LinksTick DEF DvsTypes
<1> QED
  BY <1>2, <1>3, <1>4, LateStays

\* The converse of LinksSettle, for delays that the program accepts.  If the second
\* step of speeding up (slowing down) takes more than half an interval, it is carried
\* out without the first step of its own selection: each link that was to speed up
\* (slow down) runs at a frequency too high for its voltage when levels are selected
\* next, whatever the links, the levels and the order of the processes.  What
\* main.C:348 asserts is too little for what LinkDVSer.C:113 asserts.
THEOREM LateChangesTear ==
  ASSUME NEW c
  PROVE  DvsOK /\ Delayed(c) /\ DvsSpec => []Torn(c)
<1>1. DvsOK /\ Delayed(c) /\ DvsInit => LateInv(c)
  BY LateInit
<1>2. ASSUME DvsOK, Delayed(c), LateInv(c), [DvsNext]_<<clk, wake, running, dvsVars>>
      PROVE  LateInv(c)'
  <2>1. CASE Select
    BY <1>2, <2>1, LateSelect
  <2>2. ASSUME NEW p \in Change, ChangeFirst(p)
        PROVE  LateInv(c)'
    BY <1>2, <2>2, LateFirst
  <2>3. ASSUME NEW p \in Change, ChangeSecond(p)
        PROVE  LateInv(c)'
    BY <1>2, <2>3, LateSecond
  <2>4. CASE DvsTick
    BY <1>2, <2>4, LateTick
  <2>5. CASE UNCHANGED <<clk, wake, running, dvsVars>>
    <3>1. /\ wake' = wake /\ clk' = clk /\ link_dvs_method' = link_dvs_method /\ line' = line
          /\ UNCHANGED <<dvs_voltage, dvs_freq, next_level, speedup_flag, set, step>>
      BY <2>5 DEF dvsVars
    <3>2. DvsTypes'
      BY <1>2, <3>1 DEF LateInv, DvsTypes
    <3> QED
      BY <1>2, <3>1, <3>2, LateStays
  <2> QED
    BY <1>2, <2>1, <2>2, <2>3, <2>4, <2>5 DEF DvsNext
<1>3. DvsOK /\ Delayed(c) /\ LateInv(c) => Torn(c)
  BY LateSelects DEF Torn
<1>4. (DvsOK => DvsOK') /\ (Delayed(c) => Delayed(c)')
  BY DEF DvsOK, Delayed, DelaysFit, TooLate, secondDelay
<1> QED
  BY <1>1, <1>2, <1>3, <1>4, PTL DEF DvsSpec

-----------------------------------------------------------------------------
(* The configuration. *)

Fields ==
  {"core_num", "core_num_NIs", "core_num_tile_tiledCMP", "core_num_mem_tiledCMP", "net_routing", "net_topology",
   "net_fattree_way", "router_num", "wkld_type", "router_inbuf_depth", "router_num_pc", "router_num_vc",
   "router_buffer_type", "router_num_rsv_credit", "NI_port_mux", "link_width", "flit_sz_byte", "sim_clk_start",
   "sim_clk_end", "wkld_trace_skip_cycles", "profile_interval_cycle", "profile_perf", "cam_data_enable",
   "cam_data_blk_byte", "cam_data_num_interleaved_tab"}

\* What the options leave true whatever they are: the fields, values that later
\* phases distinguish, and the credits that buffers reserve.
Parsed(c) ==
  /\ DOMAIN c = Fields
  /\ c.wkld_type \in Workload /\ c.net_topology \in Topology
  /\ c.core_num \in Int /\ c.core_num_NIs \in Int /\ c.core_num_tile_tiledCMP \in Int
  /\ c.link_width \in Int /\ c.flit_sz_byte \in Int /\ c.cam_data_blk_byte \in Int
  /\ c.router_buffer_type # "SAMQ" => c.router_num_rsv_credit = 1

\* What customising the network for a workload makes of it.
Customised(c) ==
  /\ c.wkld_type = "SYNTH" => c.router_num = 16
  /\ c.wkld_type \in {"CMP", "VALUE"} =>
       /\ c.router_num = c.core_num_tile_tiledCMP
       /\ c.core_num = c.core_num_tile_tiledCMP
       /\ c.router_num_pc = 4 + c.core_num_NIs
  /\ c.wkld_type = "SNUCA" => c.core_num = 272 /\ c.router_num = 64

\* The topology is one for the workload.
Suits(c) ==
  /\ (c.wkld_type = "SNUCA") <=> (c.net_topology = "SNUCA")
  /\ c.wkld_type \in {"CMP", "VALUE"} /\ c.net_topology \in {"MESH", "TORUS", "HMESH"} =>
       /\ c.router_num = c.core_num_tile_tiledCMP
       /\ c.core_num = c.router_num
       /\ c.router_num_pc - c.core_num_NIs = (IF c.net_topology = "HMESH" THEN 8 ELSE 4)

Compressed(c) ==
  c.cam_data_enable =>
    /\ c.wkld_type \in {"VALUE", "SNUCA"}
    /\ c.cam_data_num_interleaved_tab > 1 => c.flit_sz_byte > c.cam_data_blk_byte

Later == {"routing", "compression", "pools", "run"}

ConfigInv ==
  /\ stage \in {"options", "workload", "topology", "stopped"} \cup Later
  /\ Parsed(g_cfg)
  /\ stage \in {"options", "workload"} => g_cfg.router_num = 16
  /\ stage = "topology" => Customised(g_cfg)
  /\ stage \in Later => Suits(g_cfg)
  /\ stage \in {"pools", "run"} => Compressed(g_cfg)

\* d is c but for the fields in F.
Only(c, d, F) == DOMAIN d = Fields /\ \A f \in Fields \ F : d[f] = c[f]

\* d is c with v in the field f.
SetTo(c, f, v, d) == d = [c EXCEPT ![f] = v]

LEMMA OneField ==
  ASSUME NEW c, DOMAIN c = Fields, NEW f \in Fields, NEW v, NEW d, SetTo(c, f, v, d)
  PROVE  Only(c, d, {f}) /\ d[f] = v
BY DEF Only, SetTo

\* The fields that an option may set, and to what.
Settable(f, v) ==
  /\ f \in Fields \ {"router_num", "router_buffer_type", "router_num_rsv_credit"}
  /\ f = "wkld_type" => v \in Workload
  /\ f = "net_topology" => v \in Topology
  /\ f \in {"core_num", "core_num_NIs", "core_num_tile_tiledCMP", "link_width", "flit_sz_byte",
             "cam_data_blk_byte"} => v \in Int

LEMMA FieldSet ==
  ASSUME NEW c, Parsed(c), NEW f, NEW v, Settable(f, v), NEW d, SetTo(c, f, v, d)
  PROVE  Parsed(d) /\ d.router_num = c.router_num
<1>1. Only(c, d, {f}) /\ d[f] = v
  BY OneField DEF Parsed, Settable
<1>2. DOMAIN d = Fields /\ d["router_num"] = c["router_num"]
  BY <1>1 DEF Only, Settable, Fields
<1>3. d["wkld_type"] \in Workload /\ d["net_topology"] \in Topology
  BY <1>1 DEF Only, Settable, Parsed, Fields
<1>4. /\ d["core_num"] \in Int /\ d["core_num_NIs"] \in Int /\ d["core_num_tile_tiledCMP"] \in Int
      /\ d["link_width"] \in Int /\ d["flit_sz_byte"] \in Int /\ d["cam_data_blk_byte"] \in Int
  BY <1>1 DEF Only, Settable, Parsed, Fields
<1>5. d["router_buffer_type"] # "SAMQ" => d["router_num_rsv_credit"] = 1
  BY <1>1 DEF Only, Settable, Parsed, Fields
<1> QED
  BY <1>2, <1>3, <1>4, <1>5 DEF Parsed

\* An option changes its fields only, none of which is the number of routers.
LEMMA ParsedOption ==
  ASSUME NEW c, Parsed(c), NEW o \in Option, NEW d, d = parse_option(c, o[1], o[2], o[3])
  PROVE  Parsed(d) /\ d.router_num = c.router_num
<1>1. \/ \E f, v : Settable(f, v) /\ d = [c EXCEPT ![f] = v]
      \/ o[1] = "ROUTER" /\ o[2] = "BUFFER"
  <2>1. CASE o[1] = "WKLD"
    <3>1. d = parse_wkld(c, o[2], o[3])
      BY <2>1 DEF parse_option
    <3>2. \/ o[2] = "TYPE" /\ o[3] \in Workload
          \/ o[2] \in {"TRACE:SKIP_MCYCLES", "TRACE:SKIP_KCYCLES"}
      BY <2>1 DEF Option
    <3>3. \/ o[3] \in Workload /\ d = [c EXCEPT !["wkld_type"] = o[3]]
          \/ \E n : d = [c EXCEPT !["wkld_trace_skip_cycles"] = n]
      BY <3>1, <3>2 DEF parse_wkld
    <3>4. Settable("wkld_type", o[3]) \/ o[3] \notin Workload
      BY DEF Settable, Fields
    <3>5. \A n : Settable("wkld_trace_skip_cycles", n)
      BY DEF Settable, Fields
    <3> QED
      BY <3>3, <3>4, <3>5
  <2>2. CASE o[1] = "NET"
    <3>1. d = parse_net(c, o[2], o[3])
      BY <2>2 DEF parse_option
    <3>2. \/ o[2] = "TOPOLOGY" /\ o[3] \in Topology
          \/ o[2] = "ROUTING"
          \/ o[2] \in {"CORE_NUM", "CORE_TILE_NUM"} /\ o[3] \in Int
      BY <2>2 DEF Option
    <3>3. \E f \in {"net_topology", "net_routing", "core_num", "core_num_tile_tiledCMP"} :
            /\ d = [c EXCEPT ![f] = o[3]]
            /\ f = "net_topology" => o[3] \in Topology
            /\ f \in {"core_num", "core_num_tile_tiledCMP"} => o[3] \in Int
      BY <3>1, <3>2 DEF parse_net
    <3> QED
      BY <3>3 DEF Settable, Fields
  <2>3. CASE o[1] \in {"NI", "CORE", "ROUTER"}
    <3>1. d = parse_router(c, o[2], o[3])
      BY <2>3 DEF parse_option
    <3>2. \/ o[2] = "NUM_NI" /\ o[3] \in Int
          \/ o[2] \in {"PORT_MUX", "PC", "VC", "INBUF_DEPTH"}
          \/ o[1] = "ROUTER" /\ o[2] = "BUFFER"
      BY <2>3 DEF Option
    <3>3. \/ o[1] = "ROUTER" /\ o[2] = "BUFFER"
          \/ \E f \in {"core_num_NIs", "NI_port_mux", "router_num_pc", "router_num_vc", "router_inbuf_depth"} :
               /\ d = [c EXCEPT ![f] = o[3]]
               /\ f = "core_num_NIs" => o[3] \in Int
      BY <3>1, <3>2 DEF parse_router
    <3> QED
      BY <3>3, ZenonT(60) DEF Settable, Fields
  <2>4. CASE o[1] = "LINK"
    <3>1. d = [c EXCEPT !["link_width"] = o[3]] /\ o[3] \in Int
      BY <2>4 DEF parse_option, parse_link, Option
    <3> QED
      BY <3>1 DEF Settable, Fields
  <2>5. CASE o[1] = "SIM"
    <3>1. d = parse_sim(c, o[2], o[3])
      BY <2>5 DEF parse_option
    <3>2. o[2] \in {"PERF_PFILE", "WARM_CYCLE", "END_CYCLE"}
      BY <2>5 DEF Option
    <3>3. \E f \in {"profile_perf", "sim_clk_start", "sim_clk_end"} : \E v : d = [c EXCEPT ![f] = v]
      BY <3>1, <3>2 DEF parse_sim
    <3> QED
      BY <3>3 DEF Settable, Fields
  <2>6. CASE o[1] = "CAM"
    <3>1. d = parse_cam(c, o[2], o[3])
      BY <2>6 DEF parse_option
    <3>2. o[2] \in {"DATA_ENABLE", "DATA_BLK_BYTE", "INTERLEAVE_TAB"} /\ (o[2] = "DATA_BLK_BYTE" => o[3] \in Int)
      BY <2>6 DEF Option
    <3>3. \E f \in {"cam_data_enable", "cam_data_blk_byte", "cam_data_num_interleaved_tab"} :
            d = [c EXCEPT ![f] = o[3]] /\ (f = "cam_data_blk_byte" => o[3] \in Int)
      BY <3>1, <3>2 DEF parse_cam
    <3> QED
      BY <3>3 DEF Settable, Fields
  <2>7. o[1] \in {"WKLD", "NET", "NI", "CORE", "ROUTER", "LINK", "SIM", "CAM"}
    BY DEF Option
  <2> QED
    BY <2>1, <2>2, <2>3, <2>4, <2>5, <2>6, <2>7
<1>2. CASE \E f, v : Settable(f, v) /\ d = [c EXCEPT ![f] = v]
  <2>1. PICK f, v : Settable(f, v) /\ d = [c EXCEPT ![f] = v]
    BY <1>2
  <2>2. SetTo(c, f, v, d)
    BY <2>1 DEF SetTo
  <2> QED
    BY <2>1, <2>2, FieldSet
<1>3. CASE o[1] = "ROUTER" /\ o[2] = "BUFFER"
  <2> DEFINE n == IF o[3] = "SAMQ" THEN c["router_num_rsv_credit"] ELSE 1
             e == [c EXCEPT !["router_buffer_type"] = o[3]]
  <2>1. d = [e EXCEPT !["router_num_rsv_credit"] = n]
    <3>1. d = parse_router(c, o[2], o[3])
      BY <1>3 DEF parse_option
    <3>2. e["router_num_rsv_credit"] = c["router_num_rsv_credit"]
      BY DEF Parsed, Fields
    <3> QED
      BY <1>3, <3>1, <3>2 DEF parse_router
  <2>2. DOMAIN c = Fields /\ "router_buffer_type" \in Fields /\ "router_num_rsv_credit" \in Fields
    BY DEF Parsed, Fields
  <2>3. /\ SetTo(c, "router_buffer_type", o[3], e)
        /\ SetTo(e, "router_num_rsv_credit", n, d)
    BY <2>1, Zenon DEF SetTo
  <2> HIDE DEF e, n
  <2>4. /\ Only(c, e, {"router_buffer_type"}) /\ e["router_buffer_type"] = o[3]
        /\ DOMAIN e = Fields
    BY <2>2, <2>3, OneField DEF Only
  <2>5. Only(e, d, {"router_num_rsv_credit"}) /\ d["router_num_rsv_credit"] = n
    BY <2>2, <2>3, <2>4, OneField
  <2>6. Only(c, d, {"router_buffer_type", "router_num_rsv_credit"}) /\ d["router_buffer_type"] = o[3]
    BY <2>2, <2>4, <2>5 DEF Only
  <2>7. DOMAIN d = Fields /\ d["router_num"] = c["router_num"]
    BY <2>6 DEF Only, Fields
  <2>8. d["wkld_type"] \in Workload /\ d["net_topology"] \in Topology
    BY <2>6 DEF Only, Parsed, Fields
  <2>9. /\ d["core_num"] \in Int /\ d["core_num_NIs"] \in Int /\ d["core_num_tile_tiledCMP"] \in Int
        /\ d["link_width"] \in Int /\ d["flit_sz_byte"] \in Int /\ d["cam_data_blk_byte"] \in Int
    BY <2>6 DEF Only, Parsed, Fields
  <2>10. d["router_buffer_type"] # "SAMQ" => d["router_num_rsv_credit"] = 1
    BY <2>5, <2>6 DEF n
  <2> QED
    BY <2>7, <2>8, <2>9, <2>10 DEF Parsed
<1> QED
  BY <1>1, <1>2, <1>3

\* A network of tiles: a router and a core for each, and the ports of its NIs.
LEMMA TiledNetwork ==
  ASSUME NEW c, DOMAIN c = Fields, NEW d, d = config_tiledCMP_network(c)
  PROVE  /\ Only(c, d, {"router_num_pc", "router_num", "core_num"})
         /\ d["router_num_pc"] = 4 + c["core_num_NIs"]
         /\ d["router_num"] = c["core_num_tile_tiledCMP"] /\ d["core_num"] = c["core_num_tile_tiledCMP"]
<1> DEFINE a == [c EXCEPT !["router_num_pc"] = 4 + c["core_num_NIs"]]
           b == [a EXCEPT !["router_num"] = c["core_num_tile_tiledCMP"]]
<1>1. d = [b EXCEPT !["core_num"] = c["core_num_tile_tiledCMP"]]
  BY DEF config_tiledCMP_network
<1>2. /\ "router_num_pc" \in Fields /\ "router_num" \in Fields /\ "core_num" \in Fields
      /\ "core_num_NIs" \in Fields /\ "core_num_tile_tiledCMP" \in Fields
  BY DEF Fields
<1>3. /\ SetTo(c, "router_num_pc", 4 + c["core_num_NIs"], a)
      /\ SetTo(a, "router_num", c["core_num_tile_tiledCMP"], b)
      /\ SetTo(b, "core_num", c["core_num_tile_tiledCMP"], d)
  BY <1>1, Zenon DEF SetTo
<1> HIDE DEF a, b
<1>4. /\ Only(c, a, {"router_num_pc"}) /\ a["router_num_pc"] = 4 + c["core_num_NIs"]
      /\ DOMAIN a = Fields
  BY <1>2, <1>3, OneField DEF Only
<1>5. /\ Only(a, b, {"router_num"}) /\ b["router_num"] = c["core_num_tile_tiledCMP"]
      /\ DOMAIN b = Fields
  BY <1>2, <1>3, <1>4, OneField DEF Only
<1>6. Only(b, d, {"core_num"}) /\ d["core_num"] = c["core_num_tile_tiledCMP"]
  BY <1>2, <1>3, <1>5, OneField
<1> QED
  BY <1>2, <1>4, <1>5, <1>6 DEF Only

\* Options are read: none changes the number of routers.
LEMMA CustomisedFor ==
  ASSUME NEW c, Parsed(c), c.router_num = 16, NEW d, d = customised(c)
  PROVE  Parsed(d) /\ Customised(d)
<1>1. DOMAIN c = Fields /\ c["wkld_type"] \in Workload
  BY DEF Parsed
<1>2. CASE c["wkld_type"] = "SYNTH"
  <2>1. d = c
    BY <1>2 DEF customised
  <2> QED
    BY <1>2, <2>1 DEF Customised
<1>3. ASSUME NEW e, DOMAIN e = Fields,
             Only(c, e, {"NI_port_mux", "profile_interval_cycle", "cam_data_num_interleaved_tab",
                         "core_num_NIs", "core_num_tile_tiledCMP", "core_num_mem_tiledCMP"}),
             e["core_num_NIs"] \in Int, e["core_num_tile_tiledCMP"] \in Int,
             c["wkld_type"] \in {"CMP", "VALUE"}, d = config_tiledCMP_network(e)
      PROVE  Parsed(d) /\ Customised(d)
  <2>1. /\ Only(e, d, {"router_num_pc", "router_num", "core_num"})
        /\ d["router_num_pc"] = 4 + e["core_num_NIs"]
        /\ d["router_num"] = e["core_num_tile_tiledCMP"] /\ d["core_num"] = e["core_num_tile_tiledCMP"]
    BY <1>3, TiledNetwork
  <2>2. /\ DOMAIN d = Fields
        /\ d["wkld_type"] = c["wkld_type"] /\ d["net_topology"] = c["net_topology"]
        /\ d["link_width"] = c["link_width"] /\ d["flit_sz_byte"] = c["flit_sz_byte"]
        /\ d["cam_data_blk_byte"] = c["cam_data_blk_byte"]
        /\ d["router_buffer_type"] = c["router_buffer_type"]
        /\ d["router_num_rsv_credit"] = c["router_num_rsv_credit"]
        /\ d["core_num_NIs"] = e["core_num_NIs"] /\ d["core_num_tile_tiledCMP"] = e["core_num_tile_tiledCMP"]
    BY <1>3, <2>1 DEF Only, Fields
  <2>3. Parsed(d)
    BY <1>3, <2>1, <2>2 DEF Parsed
  <2>4. Customised(d)
    BY <1>3, <2>1, <2>2 DEF Customised
  <2> QED
    BY <2>3, <2>4
<1>4. CASE c["wkld_type"] = "CMP"
  <2> DEFINE n == (c["core_num_tile_tiledCMP"] # 16)
             a == [c EXCEPT !["NI_port_mux"] = n]
             e == [a EXCEPT !["profile_interval_cycle"] = FALSE]
  <2>1. d = config_tiledCMP_network(e)
    BY <1>4 DEF customised
  <2>2. "NI_port_mux" \in Fields /\ "profile_interval_cycle" \in Fields
    BY DEF Fields
  <2>3. SetTo(c, "NI_port_mux", n, a) /\ SetTo(a, "profile_interval_cycle", FALSE, e)
    BY DEF SetTo
  <2> HIDE DEF a, e, n
  <2>4. Only(c, a, {"NI_port_mux"}) /\ DOMAIN a = Fields
    BY <1>1, <2>2, <2>3, OneField DEF Only
  <2>5. Only(a, e, {"profile_interval_cycle"})
    BY <2>2, <2>3, <2>4, OneField
  <2>6. DOMAIN e = Fields /\ Only(c, e, {"NI_port_mux", "profile_interval_cycle", "cam_data_num_interleaved_tab",
                                         "core_num_NIs", "core_num_tile_tiledCMP", "core_num_mem_tiledCMP"})
    BY <2>4, <2>5 DEF Only
  <2>7. e["core_num_NIs"] \in Int /\ e["core_num_tile_tiledCMP"] \in Int
    BY <2>4, <2>5 DEF Only, Parsed, Fields
  <2> QED
    BY <1>3, <1>4, <2>1, <2>6, <2>7
<1>5. CASE c["wkld_type"] = "VALUE"
  <2> DEFINE e == [c EXCEPT !.NI_port_mux = TRUE, !.cam_data_num_interleaved_tab = 8, !.core_num_NIs = 2,
                            !.core_num_tile_tiledCMP = 16, !.core_num_mem_tiledCMP = 16]
  <2>1. d = config_tiledCMP_network(e)
    BY <1>5 DEF customised
  <2>2. DOMAIN e = Fields
    BY <1>1
  <2>3. e["core_num_NIs"] = 2 /\ e["core_num_tile_tiledCMP"] = 16
    BY <1>1 DEF Fields
  <2>4. ASSUME NEW f \in Fields \ {"NI_port_mux", "profile_interval_cycle", "cam_data_num_interleaved_tab",
                                     "core_num_NIs", "core_num_tile_tiledCMP", "core_num_mem_tiledCMP"}
        PROVE  e[f] = c[f]
    BY <1>1
  <2> HIDE DEF e
  <2>5. Only(c, e, {"NI_port_mux", "profile_interval_cycle", "cam_data_num_interleaved_tab",
                    "core_num_NIs", "core_num_tile_tiledCMP", "core_num_mem_tiledCMP"})
    BY <2>2, <2>4 DEF Only
  <2> QED
    BY <1>3, <1>5, <2>1, <2>2, <2>3, <2>5
<1>6. CASE c["wkld_type"] = "SNUCA"
  <2> DEFINE e == [c EXCEPT !.cam_data_num_interleaved_tab = 16]
  <2>1. d = [e EXCEPT !.core_num = 256 + 8 + 8, !.router_num = 64]
    BY <1>6 DEF customised, config_snucaCMP_network
  <2>2. /\ DOMAIN d = Fields
        /\ \A f \in Fields \ {"cam_data_num_interleaved_tab", "core_num", "router_num"} : d[f] = c[f]
    <3>1. DOMAIN e = Fields /\ \A f \in Fields \ {"cam_data_num_interleaved_tab"} : e[f] = c[f]
      BY <1>1
    <3> HIDE DEF e
    <3> QED
      BY <2>1, <3>1, ZenonT(60)
  <2>3. d["core_num"] = 272 /\ d["router_num"] = 64
    BY <1>1, <2>1 DEF Fields
  <2> HIDE DEF e
  <2>4. /\ d["wkld_type"] = c["wkld_type"] /\ d["net_topology"] = c["net_topology"]
        /\ d["link_width"] = c["link_width"] /\ d["flit_sz_byte"] = c["flit_sz_byte"]
        /\ d["cam_data_blk_byte"] = c["cam_data_blk_byte"]
        /\ d["router_buffer_type"] = c["router_buffer_type"]
        /\ d["router_num_rsv_credit"] = c["router_num_rsv_credit"]
        /\ d["core_num_NIs"] = c["core_num_NIs"] /\ d["core_num_tile_tiledCMP"] = c["core_num_tile_tiledCMP"]
    BY <2>2 DEF Fields
  <2>5. Parsed(d)
    BY <2>2, <2>3, <2>4 DEF Parsed
  <2>6. Customised(d)
    BY <1>6, <2>3, <2>4 DEF Customised
  <2> QED
    BY <2>5, <2>6
<1> QED
  BY <1>1, <1>2, <1>4, <1>5, <1>6 DEF Workload

\* The cores of an S-NUCA machine are no square and no power of two.
LEMMA SnucaCores == ~ Square(272) /\ ~ is_power2(272)
<1>1. ASSUME NEW k \in 0 .. 272
      PROVE  k * k # 272
  <2>1. CASE k <= 16
    <3>1. k * k <= 16 * k
      BY <2>1
    <3> QED
      BY <2>1, <3>1
  <2>2. CASE k >= 17
    <3>1. k * k >= 17 * k
      BY <2>2
    <3> QED
      BY <2>2, <3>1
  <2> QED
    BY <2>1, <2>2
<1> QED
  BY <1>1 DEF Square, is_power2

LEMMA BuiltFor ==
  ASSUME NEW c, Parsed(c), Customised(c), Buildable(c), NEW d, d = built(c)
  PROVE  Parsed(d) /\ Suits(d)
<1>1. /\ DOMAIN c = Fields /\ c["wkld_type"] \in Workload /\ c["net_topology"] \in Topology
      /\ c["core_num"] \in Int /\ c["core_num_NIs"] \in Int
  BY DEF Parsed
<1>2. (c["net_topology"] = "SNUCA") <=> (c["wkld_type"] = "SNUCA")
  <2>1. CASE c["net_topology"] \in {"MESH", "TORUS", "HMESH"}
    <3>1. c["core_num"] # 272
      BY <2>1, SnucaCores, ZenonT(60) DEF Buildable
    <3> QED
      BY <2>1, <3>1 DEF Customised
  <2>2. CASE c["net_topology"] = "FTREE"
    <3>1. c["core_num"] # 272
      BY <2>2, SnucaCores, ZenonT(60) DEF Buildable
    <3> QED
      BY <2>2, <3>1 DEF Customised
  <2>3. CASE c["net_topology"] = "FLBFLY"
    <3>1. c["core_num"] = 64
      BY <2>3, Zenon DEF Buildable
    <3> QED
      BY <2>3, <3>1 DEF Customised
  <2>4. CASE c["net_topology"] = "SNUCA"
    <3>1. c["core_num"] = 8 + 256 + 8 /\ c["router_num"] = 256 \div 4
      BY <2>4, Zenon DEF Buildable
    <3> QED
      BY <1>1, <2>4, <3>1 DEF Customised, Workload
  <2> QED
    BY <1>1, <2>1, <2>2, <2>3, <2>4 DEF Topology
<1>3. Only(c, d, {"router_num", "router_num_pc"})
  <2>1. CASE c["net_topology"] = "SNUCA"
    BY <1>1, <2>1 DEF built, Only
  <2>2. CASE c["net_topology"] = "HMESH"
    <3> DEFINE n == c["core_num"]
               p == 2 * 4 + c["core_num_NIs"]
    <3>1. d = [c EXCEPT !["router_num"] = n, !["router_num_pc"] = p]
      BY <2>2 DEF built
    <3> HIDE DEF n, p
    <3> QED
      BY <1>1, <3>1 DEF Only
  <2>3. CASE c["net_topology"] \in Topology \ {"SNUCA", "HMESH"}
    <3>1. \E n : d = [c EXCEPT !["router_num"] = n]
      BY <2>3 DEF built, Topology
    <3> QED
      BY <1>1, <3>1 DEF Only
  <2> QED
    BY <1>1, <2>1, <2>2, <2>3
<1>4. /\ DOMAIN d = Fields
      /\ d["wkld_type"] = c["wkld_type"] /\ d["net_topology"] = c["net_topology"]
      /\ d["link_width"] = c["link_width"] /\ d["flit_sz_byte"] = c["flit_sz_byte"]
      /\ d["cam_data_blk_byte"] = c["cam_data_blk_byte"]
      /\ d["router_buffer_type"] = c["router_buffer_type"]
      /\ d["router_num_rsv_credit"] = c["router_num_rsv_credit"]
      /\ d["core_num"] = c["core_num"]
      /\ d["core_num_NIs"] = c["core_num_NIs"] /\ d["core_num_tile_tiledCMP"] = c["core_num_tile_tiledCMP"]
  BY <1>3 DEF Only, Fields
<1>5. Parsed(d)
  BY <1>4 DEF Parsed
<1>6. c["net_topology"] \in {"MESH", "TORUS"} =>
        d["router_num"] = c["core_num"] /\ d["router_num_pc"] = c["router_num_pc"]
  BY <1>1 DEF built, Fields
<1>7. c["net_topology"] = "HMESH" =>
        d["router_num"] = c["core_num"] /\ d["router_num_pc"] = 8 + c["core_num_NIs"]
  BY <1>1 DEF built, Fields
<1>8. Suits(d)
  BY <1>1, <1>2, <1>4, <1>6, <1>7 DEF Suits, Customised
<1> QED
  BY <1>5, <1>8

LEMMA InitConfig ==
  ASSUME ConfigInit
  PROVE  ConfigInv
<1>1. g_cfg = config_sim /\ stage = "options"
  BY DEF ConfigInit
<1>2. DOMAIN config_sim = Fields
  BY DEF config_sim, Fields
<1>3. /\ config_sim["wkld_type"] = "SYNTH" /\ config_sim["net_topology"] = "MESH"
      /\ config_sim["core_num"] = 16 /\ config_sim["core_num_NIs"] = 1
      /\ config_sim["core_num_tile_tiledCMP"] = 64 /\ config_sim["router_buffer_type"] = "SAMQ"
      /\ config_sim["router_num"] = 16 /\ config_sim["link_width"] = 128
      /\ config_sim["flit_sz_byte"] = 0 /\ config_sim["cam_data_blk_byte"] = 8
  BY DEF config_sim
<1>4. Parsed(config_sim)
  BY <1>2, <1>3 DEF Parsed, Workload, Topology
<1> QED
  BY <1>1, <1>3, <1>4 DEF ConfigInv, Later

LEMMA NextConfig ==
  ASSUME ConfigInv, [ConfigNext]_configVars
  PROVE  ConfigInv'
<1>1. Parsed(g_cfg) /\ DOMAIN g_cfg = Fields
  BY DEF ConfigInv, Parsed
<1>2. CASE parse_options
  <2>1. PICK o \in Options : g_cfg' = parse_option(g_cfg, o[1], o[2], o[3])
    BY <1>2 DEF parse_options
  <2>2. stage = "options" /\ stage' \in {"options", "stopped"}
    BY <1>2 DEF parse_options
  <2>3. o \in Option
    BY OptionsAssumption
  <2>4. Parsed(g_cfg') /\ g_cfg'.router_num = g_cfg.router_num
    BY <1>1, <2>1, <2>3, ParsedOption
  <2> QED
    BY <2>2, <2>4 DEF ConfigInv, Later
\* A phase that stops leaves the configuration as it is.
<1>3. ASSUME stage' = "stopped", g_cfg' = g_cfg
      PROVE  ConfigInv'
  BY <1>1, <1>3 DEF ConfigInv, Later
<1>4. CASE FlitSize
  <2> DEFINE v == g_cfg.link_width \div BITS_IN_BYTE
  <2>1. stage = "options"
    BY <1>4 DEF FlitSize, Phase
  <2>2. CASE stage' = "workload" /\ g_cfg' = [g_cfg EXCEPT !["flit_sz_byte"] = v]
    <3>1. v \in Int
      BY <1>1 DEF Parsed, BITS_IN_BYTE
    <3>2. Settable("flit_sz_byte", v) /\ SetTo(g_cfg, "flit_sz_byte", v, g_cfg')
      BY <2>2, <3>1 DEF Settable, SetTo, Fields
    <3>3. Parsed(g_cfg') /\ g_cfg'.router_num = g_cfg.router_num
      BY <1>1, <3>2, FieldSet
    <3> QED
      BY <2>1, <2>2, <3>3 DEF ConfigInv, Later
  <2> QED
    BY <1>3, <1>4, <2>2 DEF FlitSize, Phase
<1>5. CASE Customise
  <2>1. stage = "workload" /\ g_cfg.router_num = 16
    BY <1>5 DEF Customise, Phase, ConfigInv
  <2>2. CASE stage' = "topology" /\ g_cfg' = customised(g_cfg)
    <3>1. Parsed(g_cfg') /\ Customised(g_cfg')
      BY <1>1, <2>1, <2>2, CustomisedFor
    <3> QED
      BY <2>2, <3>1 DEF ConfigInv, Later
  <2> QED
    BY <1>3, <1>5, <2>2 DEF Customise, Phase
<1>6. CASE BuildTopology
  <2>1. stage = "topology" /\ Customised(g_cfg)
    BY <1>6 DEF BuildTopology, Phase, ConfigInv
  <2>2. CASE Buildable(g_cfg) /\ stage' = "routing" /\ g_cfg' = built(g_cfg)
    <3>1. Parsed(g_cfg') /\ Suits(g_cfg')
      BY <1>1, <2>1, <2>2, BuiltFor
    <3> QED
      BY <2>2, <3>1 DEF ConfigInv, Later
  <2> QED
    BY <1>3, <1>6, <2>2 DEF BuildTopology, Phase
<1>7. CASE ChooseRouting
  <2>1. stage = "routing" /\ Suits(g_cfg)
    BY <1>7 DEF ChooseRouting, Phase, ConfigInv, Later
  <2>2. CASE stage' = "compression" /\ g_cfg' = g_cfg
    BY <1>1, <2>1, <2>2 DEF ConfigInv, Later
  <2> QED
    BY <1>3, <1>7, <2>2 DEF ChooseRouting, Phase
<1>8. CASE Compression
  <2>1. stage = "compression" /\ Suits(g_cfg)
    BY <1>8 DEF Compression, Phase, ConfigInv, Later
  <2>2. CASE /\ g_cfg.cam_data_enable => containData(g_cfg)
             /\ stage' = "pools"
             /\ g_cfg' = IF g_cfg.cam_data_enable /\ g_cfg.flit_sz_byte <= g_cfg.cam_data_blk_byte
                         THEN [g_cfg EXCEPT !["cam_data_num_interleaved_tab"] = 1] ELSE g_cfg
    <3>1. Only(g_cfg, g_cfg', {"cam_data_num_interleaved_tab"})
      BY <1>1, <2>2 DEF Only
    <3>2. /\ DOMAIN g_cfg' = Fields
          /\ g_cfg'["wkld_type"] = g_cfg["wkld_type"] /\ g_cfg'["net_topology"] = g_cfg["net_topology"]
          /\ g_cfg'["router_buffer_type"] = g_cfg["router_buffer_type"]
          /\ g_cfg'["router_num_rsv_credit"] = g_cfg["router_num_rsv_credit"]
          /\ g_cfg'["core_num"] = g_cfg["core_num"]
          /\ g_cfg'["core_num_NIs"] = g_cfg["core_num_NIs"]
          /\ g_cfg'["core_num_tile_tiledCMP"] = g_cfg["core_num_tile_tiledCMP"]
          /\ g_cfg'["router_num"] = g_cfg["router_num"] /\ g_cfg'["router_num_pc"] = g_cfg["router_num_pc"]
          /\ g_cfg'["cam_data_enable"] = g_cfg["cam_data_enable"]
          /\ g_cfg'["flit_sz_byte"] = g_cfg["flit_sz_byte"] /\ g_cfg'["link_width"] = g_cfg["link_width"]
          /\ g_cfg'["cam_data_blk_byte"] = g_cfg["cam_data_blk_byte"]
      BY <3>1 DEF Only, Fields
    <3>3. Parsed(g_cfg') /\ Suits(g_cfg')
      BY <1>1, <2>1, <3>2 DEF Parsed, Suits
    <3>4. g_cfg["cam_data_enable"] =>
            /\ g_cfg["wkld_type"] \in {"VALUE", "SNUCA"}
            /\ g_cfg'["cam_data_num_interleaved_tab"] > 1 => ~ (g_cfg["flit_sz_byte"] <= g_cfg["cam_data_blk_byte"])
      BY <1>1, <2>2 DEF containData, Fields
    <3>5. Compressed(g_cfg')
      BY <1>1, <3>2, <3>4 DEF Compressed, Parsed
    <3> QED
      BY <2>2, <3>3, <3>5 DEF ConfigInv, Later
  <2> QED
    BY <1>3, <1>8, <2>2 DEF Compression, Phase
<1>9. CASE Pools
  <2>1. stage = "pools" /\ Suits(g_cfg) /\ Compressed(g_cfg)
    BY <1>9 DEF Pools, Phase, ConfigInv, Later
  <2>2. CASE stage' = "run" /\ g_cfg' = g_cfg
    BY <1>1, <2>1, <2>2 DEF ConfigInv, Later
  <2> QED
    BY <1>3, <1>9, <2>2 DEF Pools, Phase
<1>10. CASE UNCHANGED configVars
  BY <1>10 DEF configVars, ConfigInv
<1> QED
  BY <1>2, <1>4, <1>5, <1>6, <1>7, <1>8, <1>9, <1>10 DEF ConfigNext

\* Whatever options there are, and in whatever order they are given, a simulation
\* that starts has the network that its workload needs, credits for the buffers
\* that share them, and compression only where there is data (sim() in main.C,
\* with the assertions of the parts it sets up).
THEOREM ConfigurationsAreConsistent == ConfigSpec => []Consistent
<1>1. ConfigInit => ConfigInv
  BY InitConfig
<1>2. ConfigInv /\ [ConfigNext]_configVars => ConfigInv'
  BY NextConfig
<1>3. ConfigInv => Consistent
  BY DEF ConfigInv, Consistent, Parsed, Suits, Compressed, Later
<1> QED
  BY <1>1, <1>2, <1>3, PTL DEF ConfigSpec
-----------------------------------------------------------------------------
(* Buffer statistics (Occupancy). *)

CONSTANTS NumPC, PktDepth, MaxClk, MaxWrites
VARIABLES router_buffer_type, now, size, m_sum_occupancy, m_last_update_clk, m_max_occupancy,
          pktQ, extra_pktQ, ni, writes, held

Queues == INSTANCE Occupancy

OccupancyInv ==
  /\ now \in Nat
  /\ size \in [Queues!Queue -> Nat]
  /\ m_sum_occupancy \in [Queues!Queue -> Nat]
  /\ m_last_update_clk \in [Queues!Queue -> Nat] /\ \A x \in Queues!Queue : m_last_update_clk[x] <= now
  /\ held \in [Queues!Queue -> Nat]
  /\ Queues!OccupancyMeasured

\* What is written now was not there before: it adds nothing to the sum for the
\* time that is over.
LEMMA UpdateAdds ==
  ASSUME OccupancyInv, NEW x \in Queues!Queue, Queues!Update(x), NEW n \in Nat,
         size' = [size EXCEPT ![x] = n], UNCHANGED <<now, held>>
  PROVE  OccupancyInv'
<1> USE DEF OccupancyInv
<1>1. now' \in Nat /\ size' \in [Queues!Queue -> Nat] /\ held' \in [Queues!Queue -> Nat]
  OBVIOUS
<1>2. /\ m_last_update_clk' = [m_last_update_clk EXCEPT ![x] = now]
      /\ m_sum_occupancy' = [m_sum_occupancy EXCEPT ![x] = @ + size[x] * (now - m_last_update_clk[x])]
  BY DEF Queues!Update
<1>3. m_last_update_clk' \in [Queues!Queue -> Nat] /\ \A y \in Queues!Queue : m_last_update_clk'[y] <= now'
  BY <1>2
<1>4. size[x] * (now - m_last_update_clk[x]) \in Nat
  <2>1. now - m_last_update_clk[x] \in Nat
    OBVIOUS
  <2> QED
    BY <2>1
<1>5. m_sum_occupancy' \in [Queues!Queue -> Nat]
  BY <1>2, <1>4
<1>6. ASSUME NEW y \in Queues!Queue
      PROVE  m_sum_occupancy'[y] + size'[y] * (now' - m_last_update_clk'[y]) = held'[y]
  <2>0. m_sum_occupancy[y] + size[y] * (now - m_last_update_clk[y]) = held[y]
    BY DEF Queues!OccupancyMeasured
  <2>1. CASE y = x
    <3>1. m_last_update_clk'[y] = now /\ m_sum_occupancy'[y] = held[y] /\ size'[y] = n
      BY <1>2, <2>0, <2>1
    <3>2. n * (now - now) = 0
      OBVIOUS
    <3> QED
      BY <3>1, <3>2
  <2>2. CASE y # x
    BY <1>2, <2>0, <2>2
  <2> QED
    BY <2>1, <2>2
<1>7. Queues!OccupancyMeasured'
  BY <1>6 DEF Queues!OccupancyMeasured
<1> QED
  BY <1>1, <1>3, <1>5, <1>7

\* The sum that a router's average occupancy is divided from is that of the
\* flits in the buffer in each cycle since the statistics were reset, for any
\* ports, VCs and depth and each way of sharing slots.
THEOREM OccupancyIsMeasured ==
  Queues!Init /\ [][Queues!Next]_Queues!vars => []Queues!OccupancyMeasured
<1>1. Queues!Init => OccupancyInv
  BY DEF Queues!Init, OccupancyInv, Queues!OccupancyMeasured
<1>2. ASSUME OccupancyInv, [Queues!Next]_Queues!vars
      PROVE  OccupancyInv'
  <2>1. CASE \E x \in Queues!Queue : Queues!write(x)
    <3>1. PICK x \in Queues!Queue : Queues!write(x)
      BY <2>1
    <3>2. size[x] + 1 \in Nat
      BY <1>2 DEF OccupancyInv
    <3>3. size' = [size EXCEPT ![x] = size[x] + 1] /\ Queues!Update(x) /\ UNCHANGED <<now, held>>
      BY <3>1 DEF Queues!write
    <3> QED
      BY <1>2, <3>2, <3>3, UpdateAdds
  <2>2. CASE \E x \in Queues!Queue : Queues!read(x)
    <3>1. PICK x \in Queues!Queue : Queues!read(x)
      BY <2>2
    <3>2. size[x] - 1 \in Nat
      BY <1>2, <3>1 DEF OccupancyInv, Queues!read
    <3> QED
      BY <1>2, <3>1, <3>2, UpdateAdds DEF Queues!read, OccupancyInv
  <2>3. CASE Queues!resetStats
    <3>1. \A x \in Queues!Queue : size[x] * (now - now) = 0
      BY <1>2 DEF OccupancyInv
    <3> QED
      BY <1>2, <2>3, <3>1 DEF Queues!resetStats, OccupancyInv, Queues!OccupancyMeasured
  <2>4. CASE Queues!Tick
    <3> USE DEF OccupancyInv
    <3>1. /\ now' = now + 1 /\ held' = [x \in Queues!Queue |-> held[x] + size[x]]
          /\ UNCHANGED <<size, m_sum_occupancy, m_last_update_clk>>
      BY <2>4 DEF Queues!Tick, Queues!flitVars
    <3>2. ASSUME NEW x \in Queues!Queue
          PROVE  m_sum_occupancy'[x] + size'[x] * (now' - m_last_update_clk'[x]) = held'[x]
      <4>1. m_sum_occupancy[x] + size[x] * (now - m_last_update_clk[x]) = held[x]
        BY <1>2 DEF Queues!OccupancyMeasured
      <4> DEFINE s == size[x]
                 t == now - m_last_update_clk[x]
      <4>2. s \in Nat /\ t \in Nat /\ (now + 1) - m_last_update_clk[x] = t + 1
        BY <1>2
      <4> HIDE DEF s, t
      <4>3. s * (t + 1) = s * t + s
        BY <4>2
      <4>4. m_sum_occupancy[x] \in Nat /\ held[x] \in Nat /\ s * t \in Nat
        BY <1>2, <4>2
      <4>5. m_sum_occupancy[x] + s * t = held[x]
        BY <4>1 DEF s, t
      <4>6. m_sum_occupancy[x] + s * (t + 1) = held[x] + s
        BY <4>2, <4>3, <4>4, <4>5
      <4>7. m_sum_occupancy[x] + size[x] * ((now + 1) - m_last_update_clk[x]) = held[x] + size[x]
        BY <4>2, <4>6 DEF s
      <4> QED
        BY <3>1, <4>7
    <3>3. \A x \in Queues!Queue : m_last_update_clk'[x] <= now'
      BY <1>2, <3>1
    <3> QED
      BY <1>2, <3>1, <3>2, <3>3 DEF Queues!OccupancyMeasured
  <2>5. CASE Queues!writePacket \/ Queues!readPacket
    BY <1>2, <2>5 DEF Queues!writePacket, Queues!readPacket, Queues!flitVars, OccupancyInv, Queues!OccupancyMeasured
  <2>6. CASE UNCHANGED Queues!vars
    BY <1>2, <2>6 DEF Queues!vars, OccupancyInv, Queues!OccupancyMeasured
  <2> QED
    BY <1>2, <2>1, <2>2, <2>3, <2>4, <2>5, <2>6 DEF Queues!Next
<1>3. OccupancyInv => Queues!OccupancyMeasured
  BY DEF OccupancyInv
<1> QED
  BY <1>1, <1>2, <1>3, PTL
=============================================================================
