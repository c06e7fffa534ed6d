---------------------------- MODULE NetworkProofs ----------------------------
(***************************************************************************)
(* Proofs about the network of routers, for any topology, buffers, VCs and *)
(* packets: an output VC has one holder (VCExclusive), what stageST()      *)
(* takes for granted is so (XbarReady), no process sleeps while it has     *)
(* work (NIAwake, NoSleepOnWork), and links are never overfull             *)
(* (LinkNotOverfull).                                                      *)
(***************************************************************************)
EXTENDS Network, ArbiterProofs, FiniteSetTheorems, SequenceTheorems

-----------------------------------------------------------------------------
(* Sets of numbers in order. *)

\* Ports, VCs, routers and links are finitely many.
LEMMA Finite ==
  /\ NumPC \in Nat \ {0} /\ NumVC \in Nat \ {0}
  /\ PC \in SUBSET Int /\ VC \in SUBSET Int /\ LocalPC \in SUBSET PC
  /\ IsFiniteSet(PC) /\ IsFiniteSet(VC) /\ IsFiniteSet(Router)
  /\ IsFiniteSet(Link)
<1>0. ASSUME NEW n \in Nat
      PROVE  IsFiniteSet(0 .. n - 1)
  <2>1. 0 \in Int /\ n - 1 \in Int
    OBVIOUS
  <2> QED
    BY <2>1, FS_Interval
<1> USE SwArbAssumption, NetworkAssumption DEF PC, VC, Router, LocalPC
<1>1. IsFiniteSet(PC) /\ IsFiniteSet(VC) /\ IsFiniteSet(Router)
  BY <1>0
<1>2. IsFiniteSet(PC \ LocalPC)
  BY <1>1, FS_Difference
<1>3. IsFiniteSet(Router \X (PC \ LocalPC))
  BY <1>1, <1>2, FS_Product
<1>4. Link \in SUBSET (Router \X (PC \ LocalPC))
  OBVIOUS
<1>5. IsFiniteSet(Link)
  BY <1>3, <1>4, FS_Subset
<1> QED
  BY <1>1, <1>5

\* No two links lead to the same port.
LEMMA WiresApart ==
  \A k, l \in Link : Wire[k] = Wire[l] => k = l
BY NetworkAssumption, Zenon

\* Packets have flits.
LEMMA LengthsKnown ==
  \A p \in Packet : NumFlits[p] \in Nat \ {0}
<1>1. NumFlits \in [Packet -> Nat \ {0}]
  BY NetworkAssumption, Zenon
<1> QED
  BY <1>1, Zenon

\* Ordered(S, key) lists every element of S once, if their keys differ.
LEMMA OrderedLists ==
  ASSUME NEW S, IsFiniteSet(S), NEW key \in [S -> Int],
         \A x, y \in S : key[x] = key[y] => x = y
  PROVE  /\ Cardinality(S) \in Nat
         /\ Ordered(S, key) \in [1 .. Cardinality(S) -> S]
         /\ Ordered(S, key) \in Seq(S)
         /\ Len(Ordered(S, key)) = Cardinality(S)
         /\ \A x \in S : \E n \in 1 .. Cardinality(S) : Ordered(S, key)[n] = x
         /\ \A m, n \in 1 .. Cardinality(S) : Ordered(S, key)[m] = Ordered(S, key)[n] => m = n
<1> DEFINE c == Cardinality(S)
           below == [x \in S |-> Cardinality({y \in S : key[y] < key[x]})]
           rank == [x \in S |-> below[x] + 1]
<1>1. c \in Nat
  BY FS_CardinalityType
<1>2. \A x \in S : below[x] \in 0 .. c - 1
  <2> SUFFICES ASSUME NEW x \in S
               PROVE  Cardinality({y \in S : key[y] < key[x]}) \in 0 .. c - 1
    OBVIOUS
  <2> DEFINE B == {y \in S : key[y] < key[x]}
  <2>1. x \notin B /\ B \in SUBSET S
    OBVIOUS
  <2> HIDE DEF B
  <2>2. IsFiniteSet(B) /\ Cardinality(B) <= c /\ Cardinality(B) # c
    BY <2>1, FS_Subset
  <2>3. Cardinality(B) \in Nat
    BY <2>2, FS_CardinalityType
  <2>4. Cardinality(B) \in 0 .. c - 1
    BY <1>1, <2>2, <2>3
  <2> QED
    BY <2>4 DEF B
<1>3. ASSUME NEW x \in S, NEW y \in S, key[x] < key[y]
      PROVE  below[x] < below[y]
  <2> DEFINE Bx == {z \in S : key[z] < key[x]}
             By == {z \in S : key[z] < key[y]}
  <2>1. Bx \in SUBSET By /\ By \in SUBSET S /\ x \in By /\ x \notin Bx
    BY <1>3
  <2>2. below[x] = Cardinality(Bx) /\ below[y] = Cardinality(By)
    OBVIOUS
  <2> HIDE DEF Bx, By
  <2>3. IsFiniteSet(By)
    BY <2>1, FS_Subset
  <2>4. /\ Cardinality(Bx) <= Cardinality(By)
        /\ Cardinality(Bx) # Cardinality(By)
    BY <2>1, <2>3, FS_Subset
  <2>5. below[x] \in Int /\ below[y] \in Int
    BY <1>1, <1>2
  <2> HIDE DEF below
  <2> QED
    BY <2>2, <2>4, <2>5
<1>4. \A n \in 1 .. c : (\E x \in S : below[x] = n - 1) =>
        Ordered(S, key)[n] \in S /\ below[Ordered(S, key)[n]] = n - 1
  <2> SUFFICES ASSUME NEW n \in 1 .. c, \E x \in S : below[x] = n - 1
               PROVE  Ordered(S, key)[n] \in S /\ below[Ordered(S, key)[n]] = n - 1
    OBVIOUS
  <2> DEFINE o == Ordered(S, key)[n]
  <2>1. o = CHOOSE x \in S : Cardinality({y \in S : key[y] < key[x]}) = n - 1
    BY DEF Ordered
  <2>2. PICK x \in S : Cardinality({y \in S : key[y] < key[x]}) = n - 1
    OBVIOUS
  <2> HIDE DEF o
  <2>3. o \in S /\ Cardinality({y \in S : key[y] < key[o]}) = n - 1
    BY <2>1, <2>2, ZenonT(60)
  <2>4. o \in S /\ below[o] = n - 1
    BY <2>3
  <2> QED
    BY <2>4 DEF o
<1> HIDE DEF below
<1>5. rank \in [S -> 1 .. c]
  BY <1>1, <1>2
<1>6. \A x, y \in S : rank[x] = rank[y] => x = y
  <2> SUFFICES ASSUME NEW x \in S, NEW y \in S, rank[x] = rank[y]
               PROVE  x = y
    OBVIOUS
  <2>1. below[x] = below[y]
    BY <1>1, <1>2
  <2>2. ~ (key[x] < key[y]) /\ ~ (key[y] < key[x])
    BY <1>1, <1>2, <1>3, <2>1
  <2>3. key[x] \in Int /\ key[y] \in Int
    OBVIOUS
  <2> QED
    BY <2>2, <2>3
<1>7. rank \in Injection(S, 1 .. c)
  <2> HIDE DEF rank
  <2> QED
    BY <1>5, <1>6 DEF Injection, IsInjective
<1>8. IsFiniteSet(1 .. c) /\ Cardinality(1 .. c) = c
  BY <1>1, FS_Interval
<1>9. \A n \in 1 .. c : \E x \in S : rank[x] = n
  <2> HIDE DEF rank
  <2>1. rank \in Surjection(S, 1 .. c)
    BY <1>7, <1>8, FS_Injection
  <2> QED
    BY <2>1 DEF Surjection
<1>10. \A n \in 1 .. c : \E x \in S : below[x] = n - 1
  <2> SUFFICES ASSUME NEW n \in 1 .. c
               PROVE  \E x \in S : below[x] = n - 1
    OBVIOUS
  <2>1. PICK x \in S : rank[x] = n
    BY <1>9
  <2>2. below[x] = n - 1
    BY <1>1, <1>2, <2>1
  <2> QED
    BY <2>2
<1>11. \A n \in 1 .. c : Ordered(S, key)[n] \in S /\ below[Ordered(S, key)[n]] = n - 1
  BY <1>4, <1>10
<1>12. Ordered(S, key) \in [1 .. c -> S]
  BY <1>11 DEF Ordered
<1>13. \A n \in 1 .. c : rank[Ordered(S, key)[n]] = n
  BY <1>1, <1>11
<1> HIDE DEF rank
<1>14. \A x \in S : \E n \in 1 .. c : Ordered(S, key)[n] = x
  BY <1>5, <1>6, <1>11, <1>13
<1>15. \A m, n \in 1 .. c : Ordered(S, key)[m] = Ordered(S, key)[n] => m = n
  BY <1>13
<1>16. Ordered(S, key) \in Seq(S) /\ Len(Ordered(S, key)) = c
  BY <1>1, <1>12
<1> QED
  BY <1>1, <1>12, <1>14, <1>15, <1>16

\* The same of ports or of other numbers.
LEMMA InOrderLists ==
  ASSUME NEW S \in SUBSET Int, IsFiniteSet(S)
  PROVE  /\ Cardinality(S) \in Nat
         /\ InOrder(S) \in [1 .. Cardinality(S) -> S]
         /\ InOrder(S) \in Seq(S)
         /\ Len(InOrder(S)) = Cardinality(S)
         /\ DOMAIN InOrder(S) = 1 .. Cardinality(S)
         /\ \A x \in S : \E n \in 1 .. Cardinality(S) : InOrder(S)[n] = x
         /\ \A m, n \in 1 .. Cardinality(S) : InOrder(S)[m] = InOrder(S)[n] => m = n
<1> DEFINE key == [x \in S |-> x]
<1>1. key \in [S -> Int] /\ \A x, y \in S : key[x] = key[y] => x = y
  OBVIOUS
<1>2. InOrder(S) = Ordered(S, key)
  BY DEF InOrder
<1> HIDE DEF key
<1>3. /\ Cardinality(S) \in Nat
      /\ Ordered(S, key) \in [1 .. Cardinality(S) -> S]
      /\ Ordered(S, key) \in Seq(S)
      /\ Len(Ordered(S, key)) = Cardinality(S)
      /\ \A x \in S : \E n \in 1 .. Cardinality(S) : Ordered(S, key)[n] = x
      /\ \A m, n \in 1 .. Cardinality(S) : Ordered(S, key)[m] = Ordered(S, key)[n] => m = n
  BY <1>1, OrderedLists
<1> QED
  BY <1>2, <1>3
-----------------------------------------------------------------------------
(* The types of the state. *)

Flit == [p : Packet, n : Nat]

InFlight == [f : Flit, vc : VC, age : Nat]

Deposit == [pc : PC, vc : VC, due : Nat]

Mod == [st : {"I", "R", "V", "S"}, pc : PC \cup {INVALID_PC}, vc : VC \cup {INVALID_VC}]

BuffersOK ==
  /\ flitQ \in [Router -> [PC -> [VC -> Seq(Flit)]]]
  /\ pipe \in [Link -> Seq(InFlight)]
  /\ inside \in [Router -> Int]
  /\ fresh \subseteq Packet

ControlOK ==
  /\ inMod \in [Router -> [PC -> [VC -> Mod]]]
  /\ outMod \in [Router -> [PC -> [VC -> {"I", "V"}]]]
  /\ vaQ \in [Router -> Seq(PC \X VC)]
  /\ swReq \in [Router -> [PC -> [VC -> BOOLEAN]]]
  /\ vaNow \in [Router -> [PC -> [VC -> BOOLEAN]]]
  /\ v1 \in [Router -> [1 .. 2 -> [PC -> Arbiter(NumVC)]]]
  /\ p1 \in [Router -> [1 .. 2 -> [PC -> Arbiter(NumPC)]]]
  /\ xbar \in [Router -> [PC -> VC \cup {INVALID_VC}]]
  /\ outFree \in [Router -> [PC -> BOOLEAN]]

CreditsOK ==
  /\ credit \in [Router -> [PC -> [VC -> Int]]]
  /\ rsv \in [Router -> [PC -> [VC -> Int]]]
  /\ deposits \in [Router -> Seq(Deposit)]

InterfacesOK ==
  /\ gen \subseteq Packet
  /\ niQ \in [NI -> Seq(Packet)] /\ niExtra \in [NI -> Seq(Packet)]
  /\ niLast \in [NI -> VC]
  /\ vcFree \in [NI -> [VC -> BOOLEAN]]
  /\ niCur \in [NIinProcs -> [p : Packet \cup {NoPacket}, vc : VC \cup {INVALID_VC}, n : Nat]]
  /\ \A i \in NIinProcs : niCur[i].vc # INVALID_VC => niCur[i].p \in Packet
  /\ niOut \in [NI -> Seq(Flit)]
  /\ ejected \in [Packet -> Seq(NI \X Nat)]
  /\ pktInNet \in Int

SchedulerOK ==
  /\ ready \in Seq(Procs) /\ held \in Seq(Procs)
  /\ ev \in [Procs -> BOOLEAN]
  /\ stage \in 0 .. Len(Stages)
  /\ stage # 0 => ready # <<>>

\* All variables have their types.
TypeOK ==
  BuffersOK /\ ControlOK /\ CreditsOK /\ InterfacesOK /\ SchedulerOK

-----------------------------------------------------------------------------
(* The inductive invariant of a router's control. *)

\* An input VC in state R, V or S has an output port, that of a link or an NI, one
\* in state V or S an output VC.
Routed ==
  \A r \in Router, pc \in PC, vc \in VC :
    LET m == inMod[r][pc][vc]
    IN  /\ m.st \in {"R", "V", "S"} =>
             m.pc \in PC /\ (isEjectChannel(m.pc) \/ <<r, m.pc>> \in Link)
        /\ m.st \in {"V", "S"} => m.vc \in VC

\* The head of a packet stays at the front of its input VC until the packet has
\* the switch.
HeadWaits ==
  \A r \in Router, pc \in PC, vc \in VC :
    inMod[r][pc][vc].st \in {"R", "V"} =>
      flitQ[r][pc][vc] # <<>> /\ isHead(Head(flitQ[r][pc][vc]))

\* The VC arbiter has at most one request of an input VC, and only routed ones.
QueuedOnce ==
  \A r \in Router :
    /\ \A k \in DOMAIN vaQ[r] : inMod[r][vaQ[r][k][1]][vaQ[r][k][2]].st = "R"
    /\ \A k, l \in DOMAIN vaQ[r] : vaQ[r][k] = vaQ[r][l] => k = l

\* An input VC that requests the switch has an output VC and a flit to send.
RequestsReady ==
  \A r \in Router, pc \in PC, vc \in VC :
    swReq[r][pc][vc] => inMod[r][pc][vc].st \in {"V", "S"} /\ flitQ[r][pc][vc] # <<>>

\* A flit that was granted the switch does not ask for it again, and all have
\* left when the next are granted.
GrantedOnce ==
  \A r \in Router, i \in PC : xbar[r][i] # INVALID_VC =>
    ~ swReq[r][i][xbar[r][i]] /\ ~ AtStage(r, "SA")

ControlInv ==
  Routed /\ HeadWaits /\ QueuedOnce /\ RequestsReady /\ GrantedOnce /\ VCExclusive /\ XbarReady

-----------------------------------------------------------------------------
(* The processes that wake up, and the stages of a router. *)

\* The processes that an event makes ready.
LEMMA WokenReady ==
  ASSUME NEW wakeup, DOMAIN wakeup \in SUBSET Int, IsFiniteSet(DOMAIN wakeup),
         \A n \in DOMAIN wakeup : wakeup[n] \in Procs
  PROVE  /\ Woken(wakeup) \in Seq(Procs)
         /\ \A n \in DOMAIN wakeup : Waiting(wakeup[n]) => wakeup[n] \in Range(Woken(wakeup))
<1> DEFINE S == {n \in DOMAIN wakeup : Waiting(wakeup[n])}
           c == Cardinality(S)
           order == InOrder(S)
<1>1. S \in SUBSET Int /\ IsFiniteSet(S) /\ S \in SUBSET DOMAIN wakeup
  BY FS_Subset
<1>2. Woken(wakeup) = [n \in DOMAIN order |-> wakeup[order[n]]]
  BY DEF Woken
<1>3. \A n \in DOMAIN wakeup : Waiting(wakeup[n]) => n \in S
  OBVIOUS
<1> HIDE DEF S
<1>4. /\ c \in Nat /\ order \in [1 .. c -> S] /\ DOMAIN order = 1 .. c
      /\ \A x \in S : \E n \in 1 .. c : order[n] = x
  BY <1>1, InOrderLists
<1> HIDE DEF c, order
<1>5. Woken(wakeup) \in [1 .. c -> Procs]
  BY <1>1, <1>2, <1>4, ZenonT(60)
<1>6. Woken(wakeup) \in Seq(Procs)
  BY <1>4, <1>5
<1>7. ASSUME NEW n \in DOMAIN wakeup, Waiting(wakeup[n])
      PROVE  wakeup[n] \in Range(Woken(wakeup))
  <2>1. PICK k \in 1 .. c : order[k] = n
    BY <1>3, <1>4, <1>7
  <2>2. Woken(wakeup)[k] = wakeup[n] /\ k \in DOMAIN Woken(wakeup)
    BY <1>2, <1>4, <2>1
  <2> QED
    BY <2>2 DEF Range
<1> QED
  BY <1>6, <1>7

\* What a router does in each stage.
LEMMA StagesKnown ==
  /\ Len(Stages) \in Nat \ {0}
  /\ DOMAIN Stages = 1 .. Len(Stages)
  /\ Stages[1] = "IC"
  /\ \A s \in 1 .. Len(Stages) : Stages[s] = "SA" => s = 4
  /\ Len(Stages) >= 4 /\ Stages[3] = "ST"
  /\ \A s \in 1 .. Len(Stages) : Stages[s] = "ST" => s = 3
<1> DEFINE start == <<"IC", "LT", "ST", "SA">>
<1>1. CASE LookaheadRC /\ SpecSA
  <2>1. Stages = start \o <<"RC">> \o <<"VA">> \o <<"SSA">> \o <<>>
    BY <1>1 DEF Stages
  <2> QED
    BY <2>1
<1>2. CASE LookaheadRC /\ ~ SpecSA
  <2>1. Stages = start \o <<"RC">> \o <<"VA">> \o <<>> \o <<>>
    BY <1>2 DEF Stages
  <2> QED
    BY <2>1
<1>3. CASE ~ LookaheadRC /\ SpecSA
  <2>1. Stages = start \o <<>> \o <<"VA">> \o <<"SSA">> \o <<"RC">>
    BY <1>3 DEF Stages
  <2> QED
    BY <2>1
<1>4. CASE ~ LookaheadRC /\ ~ SpecSA
  <2>1. Stages = start \o <<>> \o <<"VA">> \o <<>> \o <<"RC">>
    BY <1>4 DEF Stages
  <2> QED
    BY <2>1
<1> QED
  BY <1>1, <1>2, <1>3, <1>4

\* The running process goes on, holds or waits.
LEMMA ProcessesKept ==
  ASSUME SchedulerOK, NEW woken \in Seq(Procs), ready # <<>>, ev' \in [Procs -> BOOLEAN],
         \/ \E s \in 0 .. Len(Stages) : GoOn(s, woken)
         \/ HoldOneCycle(woken)
         \/ NextStage(woken)
  PROVE  SchedulerOK'
<1> USE StagesKnown DEF SchedulerOK
<1>1. ASSUME NEW s \in 0 .. Len(Stages), GoOn(s, woken)
      PROVE  SchedulerOK'
  BY <1>1 DEF GoOn
<1>2. ASSUME HoldOneCycle(woken)
      PROVE  SchedulerOK'
  BY <1>2 DEF HoldOneCycle
<1>3. stage < Len(Stages) => stage + 1 \in 0 .. Len(Stages)
  OBVIOUS
<1> QED
  BY <1>1, <1>2, <1>3 DEF NextStage

\* ... as it does when it waits for its event.
LEMMA WaitKept ==
  ASSUME SchedulerOK, NEW i \in Procs, Running(i), WaitEvent(i)
  PROVE  SchedulerOK'
BY StagesKnown DEF SchedulerOK, WaitEvent, Running

\* The event of a process is set, or not.
LEMMA SignalledKept ==
  ASSUME SchedulerOK, NEW wakeup
  PROVE  Signalled(wakeup) \in [Procs -> BOOLEAN]
BY DEF SchedulerOK, Signalled

-----------------------------------------------------------------------------
(* Every step keeps the types: first the steps of processes and the clock. *)

LEMMA Quotient ==
  ASSUME NEW m \in Nat, NEW d \in Nat \ {0}, NEW k \in 0 .. m * d - 1
  PROVE  k \div d \in 0 .. m - 1 /\ k % d \in 0 .. d - 1
OBVIOUS

\* All processes are ready at the start.
LEMMA InitialProcesses ==
  /\ RouterProc \in Seq(Procs) /\ NIinProc \in Seq(Procs) /\ NIoutProc \in Seq(Procs)
  /\ RouterProc \o NIinProc \o NIoutProc \in Seq(Procs)
<1> DEFINE perNI == IF PerVC THEN NumVC ELSE 1
           nis == NumRouter * NumEPC
<1>1. /\ NumRouter \in Nat /\ NumEPC \in Nat \ {0} /\ NumPC \in Nat /\ NumVC \in Nat \ {0}
  BY SwArbAssumption, NetworkAssumption
<1>2. /\ perNI \in Nat \ {0} /\ nis \in Nat
      /\ NIVC = 0 .. perNI - 1
  <2>1. CASE PerVC
    BY <1>1, <2>1 DEF NIVC, VC
  <2>2. CASE ~ PerVC
    <3>1. {0} = 0 .. 1 - 1
      OBVIOUS
    <3> QED
      BY <1>1, <2>2, <3>1 DEF NIVC
  <2> QED
    BY <2>1, <2>2
<1>3. ASSUME NEW ni \in 0 .. nis - 1
      PROVE  /\ ni \div NumEPC \in Router
             /\ NumPC - NumEPC + (ni % NumEPC) \in LocalPC
  <2>1. ni \div NumEPC \in 0 .. NumRouter - 1 /\ ni % NumEPC \in 0 .. NumEPC - 1
    BY <1>1, Quotient
  <2> HIDE DEF nis
  <2>2. \A e \in 0 .. NumEPC - 1 : NumPC - NumEPC + e \in LocalPC
    BY <1>1 DEF LocalPC
  <2> QED
    BY <2>1, <2>2 DEF Router
<1>4. RouterProc \in Seq(Procs)
  BY <1>1 DEF RouterProc, Procs, Router
<1>5. NIinProc \in Seq(Procs)
  <2> DEFINE ni(n) == (n - 1) \div perNI
             proc(n) == <<1, ni(n) \div NumEPC, NumPC - NumEPC + (ni(n) % NumEPC), (n - 1) % perNI>>
  <2>1. NIinProc = [n \in 1 .. nis * perNI |-> proc(n)]
    BY DEF NIinProc
  <2> HIDE DEF perNI, nis
  <2>2. nis * perNI \in Nat
    BY <1>2
  <2>3. ASSUME NEW k \in 1 .. nis * perNI
        PROVE  proc(k) \in Procs
    <3>1. k - 1 \in 0 .. nis * perNI - 1
      BY <2>2
    <3>2. ni(k) \in 0 .. nis - 1 /\ (k - 1) % perNI \in 0 .. perNI - 1
      BY <1>2, <3>1, Quotient
    <3> QED
      BY <1>2, <1>3, <3>2 DEF NIinProcs, Procs
  <2> HIDE DEF proc
  <2> QED
    BY <2>1, <2>2, <2>3
<1>6. NIoutProc \in Seq(Procs)
  <2> DEFINE proc(n) == <<2, (n - 1) \div NumEPC, NumPC - NumEPC + ((n - 1) % NumEPC)>>
  <2>1. NIoutProc = [n \in 1 .. nis |-> proc(n)]
    BY DEF NIoutProc
  <2> HIDE DEF nis
  <2>2. ASSUME NEW k \in 1 .. nis
        PROVE  proc(k) \in Procs
    <3>1. k - 1 \in 0 .. nis - 1
      BY <1>2
    <3> QED
      BY <1>3, <3>1 DEF NIoutProcs, Procs
  <2> HIDE DEF proc
  <2> QED
    BY <1>2, <2>1, <2>2
<1> QED
  BY <1>4, <1>5, <1>6

LEMMA TypesOfInit ==
  Init => TypeOK
<1> SUFFICES ASSUME Init
             PROVE  TypeOK
  OBVIOUS
<1> USE SwArbAssumption, NetworkAssumption DEF Init, PerVCState
<1>1. BuffersOK
  BY DEF BuffersOK
<1>2. ControlOK
  <2>1. InitArbiter(NumVC) \in Arbiter(NumVC) /\ InitArbiter(NumPC) \in Arbiter(NumPC)
    BY InitialArbiter
  <2> QED
    BY <2>1 DEF ControlOK, Mod
<1>3. CreditsOK
  <2>1. Depth - Rsv \in Int /\ Rsv \in Int
    OBVIOUS
  <2> QED
    BY <2>1 DEF CreditsOK
<1>4. InterfacesOK
  BY DEF InterfacesOK, VC
<1>5. SchedulerOK
  BY InitialProcesses, StagesKnown DEF SchedulerOK
<1> QED
  BY <1>1, <1>2, <1>3, <1>4, <1>5 DEF TypeOK

LEMMA TypesOfRouterWake ==
  ASSUME TypeOK, NEW r \in Router, RouterWake(r)
  PROVE  TypeOK'
<1> USE DEF TypeOK, RouterWake, ctlVars
<1>1. BuffersOK' /\ CreditsOK' /\ InterfacesOK'
  BY DEF BuffersOK, CreditsOK, InterfacesOK, bufVars, creditVars, niInVars, niOutVars
<1>2. ControlOK'
  BY DEF ControlOK
<1>3. SchedulerOK'
  <2>1. <<0, r>> \in Procs
    BY DEF Procs
  <2>2. CASE inside[r] = 0 /\ deposits[r] = <<>>
    BY <2>1, <2>2, WaitKept
  <2>3. CASE ~ (inside[r] = 0 /\ deposits[r] = <<>>)
    <3>1. 1 \in 0 .. Len(Stages) /\ <<>> \in Seq(Procs) /\ ready # <<>>
      BY StagesKnown DEF Running
    <3> QED
      BY <2>3, <3>1, ProcessesKept, Zenon DEF SchedulerOK
  <2> QED
    BY <2>2, <2>3
<1> QED
  BY <1>1, <1>2, <1>3

LEMMA TypesOfIncCredit ==
  ASSUME TypeOK, NEW r \in Router, IncCredit(r)
  PROVE  TypeOK'
<1> USE DEF TypeOK, IncCredit
<1>1. BuffersOK' /\ ControlOK' /\ InterfacesOK'
  BY Zenon DEF BuffersOK, ControlOK, InterfacesOK, bufVars, ctlVars, niInVars, niOutVars
<1>2. CASE deposits[r] # <<>> /\ Head(deposits[r]).due = 0
  <2>1. Head(deposits[r]) \in Deposit /\ Tail(deposits[r]) \in Seq(Deposit)
    <3>1. deposits[r] \in Seq(Deposit) /\ deposits[r] # <<>>
      BY <1>2, Zenon DEF CreditsOK
    <3> HIDE DEF TypeOK, IncCredit
    <3> QED
      BY <3>1, HeadTailProperties
  <2>2. Head(deposits[r]).pc \in PC /\ Head(deposits[r]).vc \in VC
    BY <2>1, Zenon DEF Deposit
  <2>3. CreditsOK'
    <3> DEFINE d == Head(deposits[r])
               more(c) == [c EXCEPT ![r][d.pc][d.vc] = @ + 1]
    <3>1. ASSUME NEW c \in [Router -> [PC -> [VC -> Int]]]
          PROVE  more(c) \in [Router -> [PC -> [VC -> Int]]]
      <4> HIDE DEF TypeOK, IncCredit, d
      <4> QED
        BY <2>2 DEF d
    <3>2. credit' \in {credit, more(credit)} /\ rsv' \in {rsv, more(rsv)}
      BY <1>2, Zenon
    <3>3. deposits' \in [Router -> Seq(Deposit)]
      BY <1>2, <2>1, Zenon DEF CreditsOK
    <3> HIDE DEF more
    <3>4. /\ more(credit) \in [Router -> [PC -> [VC -> Int]]]
          /\ more(rsv) \in [Router -> [PC -> [VC -> Int]]]
      BY <3>1, Zenon DEF CreditsOK
    <3> QED
      BY <3>2, <3>3, <3>4, Zenon DEF CreditsOK
  <2>4. SchedulerOK'
    <3>1. stage \in 0 .. Len(Stages) /\ <<>> \in Seq(Procs) /\ ready # <<>>
      <4>1. stage \in 0 .. Len(Stages) /\ ready # <<>>
        BY Zenon DEF SchedulerOK, AtStage, Running
      <4> HIDE DEF TypeOK, IncCredit
      <4> QED
        BY <4>1
    <3> QED
      BY <1>2, <3>1, ProcessesKept, Zenon DEF SchedulerOK
  <2> QED
    BY <1>1, <2>3, <2>4, Zenon
<1>3. CASE ~ (deposits[r] # <<>> /\ Head(deposits[r]).due = 0)
  <2>1. <<>> \in Seq(Procs) /\ ready # <<>>
    <3>1. ready # <<>>
      BY Zenon DEF AtStage, Running
    <3> HIDE DEF TypeOK, IncCredit
    <3> QED
      BY <3>1
  <2>2. SchedulerOK'
    BY <1>3, <2>1, ProcessesKept, Zenon DEF SchedulerOK
  <2>3. CreditsOK'
    BY <1>3, Zenon DEF CreditsOK, creditVars
  <2> QED
    BY <1>1, <2>2, <2>3, Zenon
<1> QED
  BY <1>2, <1>3, Zenon

LEMMA TypesOfTick ==
  ASSUME TypeOK, Tick
  PROVE  TypeOK'
<1> USE DEF TypeOK, Tick
<1>1. ControlOK' /\ InterfacesOK' /\ SchedulerOK'
  BY DEF ControlOK, InterfacesOK, SchedulerOK, ctlVars, niInVars, niOutVars
<1>2. BuffersOK'
  <2>1. ASSUME NEW l \in Link
        PROVE  [k \in DOMAIN pipe[l] |-> [pipe[l][k] EXCEPT !.age = @ + 1]] \in Seq(InFlight)
    <3>1. pipe[l] \in Seq(InFlight)
      BY DEF BuffersOK
    <3>2. /\ Len(pipe[l]) \in Nat /\ DOMAIN pipe[l] = 1 .. Len(pipe[l])
          /\ \A k \in 1 .. Len(pipe[l]) : pipe[l][k] \in InFlight
      BY <3>1
    <3>3. \A e \in InFlight : [e EXCEPT !.age = @ + 1] \in InFlight
      BY DEF InFlight
    <3> QED
      BY <3>2, <3>3
  <2> QED
    BY <2>1 DEF BuffersOK
<1>3. CreditsOK'
  <2>1. ASSUME NEW r \in Router
        PROVE  [k \in DOMAIN deposits[r] |->
                  [deposits[r][k] EXCEPT !.due = IF @ > 0 THEN @ - 1 ELSE 0]] \in Seq(Deposit)
    <3>1. deposits[r] \in Seq(Deposit)
      BY DEF CreditsOK
    <3>2. /\ Len(deposits[r]) \in Nat /\ DOMAIN deposits[r] = 1 .. Len(deposits[r])
          /\ \A k \in 1 .. Len(deposits[r]) : deposits[r][k] \in Deposit
      BY <3>1
    <3>3. \A d \in Deposit : [d EXCEPT !.due = IF @ > 0 THEN @ - 1 ELSE 0] \in Deposit
      BY DEF Deposit
    <3> QED
      BY <3>2, <3>3
  <2> QED
    BY <2>1 DEF CreditsOK
<1> QED
  BY <1>1, <1>2, <1>3

\* The first number of a set in the order of a port's VCs after `last'.
LEMMA NextVC ==
  ASSUME NEW S \in SUBSET VC, S # {}, NEW last \in VC
  PROVE  First(S, LAMBDA w : (w - last - 1) % NumVC) \in S
<1> DEFINE order == [w \in S |-> (w - last - 1) % NumVC]
<1>1. \A w \in VC : (w - last - 1) % NumVC \in Nat
  BY SwArbAssumption DEF VC
<1>2. order \in [S -> Nat] /\ S \in SUBSET Nat
  BY <1>1 DEF VC
<1>3. \E x \in S : \A y \in S : order[x] < order[y] \/ (order[x] = order[y] /\ x <= y)
  BY <1>2, FirstExists
<1>4. \E x \in S : \A y \in S :
        \/ (x - last - 1) % NumVC < (y - last - 1) % NumVC
        \/ (x - last - 1) % NumVC = (y - last - 1) % NumVC /\ x <= y
  BY <1>3
<1> QED
  BY <1>4 DEF First

\* A list of one process, or of none.
LEMMA OneProcess ==
  ASSUME NEW i
  PROVE  /\ DOMAIN <<i>> \in SUBSET Int /\ IsFiniteSet(DOMAIN <<i>>)
         /\ DOMAIN <<>> \in SUBSET Int /\ IsFiniteSet(DOMAIN <<>>)
<1>1. DOMAIN <<i>> = {1} /\ DOMAIN <<>> = {}
  OBVIOUS
<1>2. IsFiniteSet({1}) /\ IsFiniteSet({})
  BY FS_EmptySet, FS_Singleton
<1> QED
  BY <1>1, <1>2

LEMMA TypesOfGenerate ==
  ASSUME TypeOK, NEW p \in Packet, Generate(p)
  PROVE  TypeOK'
<1> DEFINE ni == Src[p]
           i == <<1, ni[1], ni[2], IF PerVC THEN niLast[ni] ELSE 0>>
           wake == IF niQ[ni] # <<>> \/ Len(niQ[ni]) >= NIDepth THEN <<>> ELSE <<i>>
<1> USE DEF TypeOK
<1>1. ni \in NI /\ i \in Procs
  BY NetworkAssumption DEF InterfacesOK, NI, Procs, NIinProcs, NIVC
<1>2. BuffersOK' /\ ControlOK' /\ CreditsOK'
  BY DEF Generate, netVars, BuffersOK, ControlOK, CreditsOK, ctlVars, creditVars
<1>3. InterfacesOK'
  <2>1. \A v \in VC : (v + 1) % NumVC \in VC
    BY SwArbAssumption DEF VC
  <2>2. niLast' \in [NI -> VC]
    BY <1>1, <2>1 DEF Generate, InterfacesOK
  <2>3. gen' \subseteq Packet /\ niQ' \in [NI -> Seq(Packet)] /\ niExtra' \in [NI -> Seq(Packet)]
    <3>1. \A q \in [NI -> Seq(Packet)] : [q EXCEPT ![ni] = Append(@, p)] \in [NI -> Seq(Packet)]
      BY <1>1
    <3>2. gen' = gen \ {p} /\ niQ' \in {niQ, [niQ EXCEPT ![ni] = Append(@, p)]}
      BY DEF Generate
    <3>3. niExtra' \in {niExtra, [niExtra EXCEPT ![ni] = Append(@, p)]}
      BY DEF Generate
    <3>4. niQ \in [NI -> Seq(Packet)] /\ niExtra \in [NI -> Seq(Packet)]
      BY DEF InterfacesOK
    <3>5. niQ' \in [NI -> Seq(Packet)]
      BY <3>1, <3>2, <3>4, ZenonT(60)
    <3>6. niExtra' \in [NI -> Seq(Packet)]
      BY <3>1, <3>3, <3>4, ZenonT(60)
    <3> QED
      BY <3>2, <3>5, <3>6 DEF InterfacesOK
  <2> QED
    BY <2>2, <2>3, Zenon DEF Generate, InterfacesOK, niOutVars
<1>4. SchedulerOK'
  <2>1. GoOn(0, Woken(wake)) /\ ev' = Signalled(wake)
    BY DEF Generate
  <2>2. DOMAIN wake \in SUBSET Int /\ IsFiniteSet(DOMAIN wake)
    BY OneProcess
  <2>3. \A n \in DOMAIN wake : wake[n] \in Procs
    BY <1>1, SMTT(30)
  <2> HIDE DEF wake
  <2>4. Woken(wake) \in Seq(Procs)
    BY <2>2, <2>3, WokenReady
  <2>5. /\ ready' \in Seq(Procs) /\ held' \in Seq(Procs) /\ stage' \in 0 .. Len(Stages)
        /\ stage' = 0
    BY <2>1, <2>4, StagesKnown DEF SchedulerOK, GoOn
  <2> QED
    BY <2>1, <2>5, SignalledKept DEF SchedulerOK
<1> QED
  BY <1>2, <1>3, <1>4

\* The parts of the state that the processes of NIs leave alone.
LEMMA TypesOfNIRead ==
  ASSUME TypeOK, NEW i \in NIinProcs, NIRead(i)
  PROVE  TypeOK'
<1> USE DEF TypeOK
<1>1. NIof(i) \in NI /\ i \in Procs
  BY DEF NIof, NIinProcs, NI, Procs
<1>2. BuffersOK' /\ ControlOK' /\ CreditsOK'
  BY DEF NIRead, netVars, BuffersOK, ControlOK, CreditsOK, ctlVars, creditVars
<1>3. CASE niQ[NIof(i)] = <<>>
  <2>1. WaitEvent(i) /\ Running(i) /\ UNCHANGED <<niQ, niExtra, niCur>>
    BY <1>3 DEF NIRead
  <2>2. SchedulerOK'
    BY <1>1, <2>1, WaitKept
  <2>3. InterfacesOK'
    BY <2>1 DEF NIRead, InterfacesOK, niOutVars
  <2> QED
    BY <1>2, <2>2, <2>3
<1>4. CASE niQ[NIof(i)] # <<>>
  <2>1. GoOn(1, <<>>) /\ UNCHANGED ev /\ ready # <<>>
    BY <1>4 DEF NIRead, Running
  <2>2. SchedulerOK'
    <3>1. 1 \in 0 .. Len(Stages) /\ <<>> \in Seq(Procs)
      BY StagesKnown
    <3> QED
      BY <2>1, <3>1, ProcessesKept, Zenon DEF SchedulerOK
  <2>3. niCur' = [niCur EXCEPT ![i].p = Head(niQ[NIof(i)])] /\ Head(niQ[NIof(i)]) \in Packet
    <3>1. niQ[NIof(i)] \in Seq(Packet) /\ niQ[NIof(i)] # <<>>
      BY <1>1, <1>4, Zenon DEF NIRead, InterfacesOK
    <3>2. niCur' = [niCur EXCEPT ![i].p = Head(niQ[NIof(i)])]
      BY <1>4, Zenon DEF NIRead
    <3> HIDE DEF TypeOK
    <3> QED
      BY <3>1, <3>2, HeadTailProperties
  <2>4. niQ' \in [NI -> Seq(Packet)] /\ niExtra' \in [NI -> Seq(Packet)]
    <3> DEFINE d == NIof(i)
    <3>1. Tail(niQ[d]) \in Seq(Packet)
      BY <1>1, <1>4 DEF InterfacesOK
    <3>2. CASE niExtra[d] = <<>>
      <4>1. niQ' = [niQ EXCEPT ![d] = Tail(@) \o <<>>] /\ niExtra' = niExtra
        BY <1>4, <3>2 DEF NIRead
      <4> QED
        BY <1>1, <3>1, <4>1 DEF InterfacesOK
    <3>3. CASE niExtra[d] # <<>>
      <4>1. /\ niQ' = [niQ EXCEPT ![d] = Tail(@) \o <<Head(niExtra[d])>>]
            /\ niExtra' = [niExtra EXCEPT ![d] = Tail(@)]
        BY <1>4, <3>3 DEF NIRead
      <4>2. Head(niExtra[d]) \in Packet /\ Tail(niExtra[d]) \in Seq(Packet)
        BY <1>1, <3>3 DEF InterfacesOK
      <4> QED
        BY <1>1, <3>1, <4>1, <4>2, SMTT(30) DEF InterfacesOK
    <3> QED
      BY <3>2, <3>3
  <2>5. /\ niCur' \in [NIinProcs -> [p : Packet \cup {NoPacket}, vc : VC \cup {INVALID_VC}, n : Nat]]
        /\ \A j \in NIinProcs : niCur'[j].vc # INVALID_VC => niCur'[j].p \in Packet
    BY <2>3, ZenonT(60) DEF InterfacesOK
  <2> QED
    BY <1>2, <2>2, <2>4, <2>5 DEF NIRead, InterfacesOK, niOutVars
<1> QED
  BY <1>3, <1>4

LEMMA TypesOfNIReserve ==
  ASSUME TypeOK, NEW i \in NIinProcs, NIReserve(i)
  PROVE  TypeOK'
<1> DEFINE ni == NIof(i)
           usable == UsableVCs(i)
           vc == First(usable, LAMBDA w : (w - niLast[ni] - 1) % NumVC)
<1> USE DEF TypeOK
<1>1. ni \in NI /\ niLast[ni] \in VC /\ ready # <<>>
  BY Zenon DEF NIof, NIinProcs, NI, NIReserve, Running, InterfacesOK
<1>2. BuffersOK' /\ ControlOK' /\ CreditsOK'
  BY Zenon DEF NIReserve, netVars, BuffersOK, ControlOK, CreditsOK, ctlVars, creditVars
<1>3. usable \in SUBSET VC
  <2>1. i[4] \in NIVC
    BY DEF NIinProcs
  <2> QED
    BY <2>1, SwArbAssumption DEF UsableVCs, NIVC, VC
<1>4. 1 \in 0 .. Len(Stages) /\ <<>> \in Seq(Procs)
  BY StagesKnown
<1>5. CASE usable = {}
  <2>1. HoldOneCycle(<<>>) /\ UNCHANGED <<niCur, vcFree, niLast>>
    BY <1>5, Zenon DEF NIReserve
  <2>2. SchedulerOK'
    BY <1>1, <1>4, <2>1, ProcessesKept, Zenon DEF NIReserve, SchedulerOK
  <2> QED
    BY <1>2, <2>1, <2>2, Zenon DEF NIReserve, InterfacesOK, niOutVars
<1>6. CASE usable # {}
  <2>1. /\ niCur' = [niCur EXCEPT ![i].vc = vc]
        /\ vcFree' = [vcFree EXCEPT ![ni][vc] = FALSE]
        /\ niLast' = IF PerVC THEN [niLast EXCEPT ![ni] = vc] ELSE niLast
        /\ GoOn(1, <<>>) /\ niCur[i].p # NoPacket
    BY <1>6, Zenon DEF NIReserve
  <2>2. vc \in VC
    BY <1>1, <1>3, <1>6, NextVC, Zenon
  <2> HIDE DEF vc
  <2>3. SchedulerOK'
    BY <1>1, <1>4, <2>1, ProcessesKept, Zenon DEF NIReserve, SchedulerOK
  <2>4. /\ niCur' \in [NIinProcs -> [p : Packet \cup {NoPacket}, vc : VC \cup {INVALID_VC}, n : Nat]]
        /\ \A j \in NIinProcs : niCur'[j].vc # INVALID_VC => niCur'[j].p \in Packet
    BY <2>1, <2>2, ZenonT(60) DEF InterfacesOK
  <2>5. vcFree' \in [NI -> [VC -> BOOLEAN]] /\ niLast' \in [NI -> VC]
    BY <1>1, <2>1, <2>2 DEF InterfacesOK
  <2> QED
    BY <1>2, <2>3, <2>4, <2>5, Zenon DEF NIReserve, InterfacesOK, niOutVars
<1> QED
  BY <1>5, <1>6

LEMMA TypesOfNIInject ==
  ASSUME TypeOK, NEW i \in NIinProcs, NIInject(i)
  PROVE  TypeOK'
<1> DEFINE ni == NIof(i)
           r == ni[1]
           cur == niCur[i]
           f == [p |-> cur.p, n |-> cur.n + 1]
           wakeup == IF inside[r] = 0 THEN <<<<0, r>>>> ELSE <<>>
<1>1. r \in Router /\ ni[2] \in PC /\ <<0, r>> \in Procs /\ ready # <<>>
  <2>1. r \in Router /\ ni[2] \in LocalPC
    BY DEF NIof, NIinProcs
  <2>2. <<0, r>> \in Procs
    BY <2>1 DEF Procs
  <2>3. ready # <<>>
    BY Zenon DEF NIInject, Running
  <2> QED
    BY <2>1, <2>2, <2>3, Finite
<1>2. cur.vc \in VC /\ cur.p \in Packet /\ cur.n \in Nat /\ f \in Flit
  <2>1. cur \in [p : Packet \cup {NoPacket}, vc : VC \cup {INVALID_VC}, n : Nat]
    BY DEF TypeOK, InterfacesOK
  <2>2. cur.vc # INVALID_VC /\ cur.p \in Packet
    BY Zenon DEF NIInject, TypeOK, InterfacesOK
  <2> HIDE DEF cur
  <2> QED
    BY <2>1, <2>2 DEF Flit
<1> USE DEF TypeOK
<1>3. ControlOK' /\ CreditsOK'
  BY Zenon DEF NIInject, netVars, ControlOK, CreditsOK, ctlVars, creditVars
<1>4. CASE isFull(r, ni[2], cur.vc)
  <2>1. HoldOneCycle(<<>>) /\ UNCHANGED <<flitQ, inside, fresh, niCur, ev>>
    BY <1>4 DEF NIInject
  <2>2. SchedulerOK'
    <3>1. <<>> \in Seq(Procs)
      OBVIOUS
    <3> QED
      BY <1>1, <2>1, <3>1, ProcessesKept DEF SchedulerOK
  <2> QED
    BY <1>3, <2>1, <2>2, Zenon DEF NIInject, netVars, BuffersOK, InterfacesOK, niOutVars
<1>5. CASE ~ isFull(r, ni[2], cur.vc)
  <2>1. /\ flitQ' = [flitQ EXCEPT ![r][ni[2]][cur.vc] = Append(@, f)]
        /\ inside' = [inside EXCEPT ![r] = @ + 1]
        /\ fresh' = IF isHead(f) THEN fresh \cup {f.p} ELSE fresh
        /\ niCur' = [niCur EXCEPT ![i].n = @ + 1]
        /\ ev' = Signalled(wakeup)
        /\ HoldOneCycle(Woken(wakeup))
    BY <1>5, Zenon DEF NIInject
  <2> HIDE DEF r, cur, f
  <2>2. BuffersOK'
    <3>1. flitQ' \in [Router -> [PC -> [VC -> Seq(Flit)]]]
      BY <1>1, <1>2, <2>1 DEF BuffersOK
    <3>2. f.p \in Packet
      BY <1>2 DEF f
    <3>3. inside' \in [Router -> Int] /\ fresh' \subseteq Packet
      BY <1>1, <2>1, <3>2, SMTT(30) DEF BuffersOK
    <3> QED
      BY <3>1, <3>3, Zenon DEF NIInject, netVars, BuffersOK
  <2>3. SchedulerOK'
    <3>1. DOMAIN wakeup \in SUBSET Int /\ IsFiniteSet(DOMAIN wakeup)
      BY OneProcess
    <3>2. \A n \in DOMAIN wakeup : wakeup[n] \in Procs
      BY <1>1
    <3> HIDE DEF wakeup
    <3>3. Woken(wakeup) \in Seq(Procs)
      BY <3>1, <3>2, WokenReady
    <3> QED
      BY <1>1, <2>1, <3>3, ProcessesKept, SignalledKept DEF SchedulerOK
  <2>4. /\ niCur' \in [NIinProcs -> [p : Packet \cup {NoPacket}, vc : VC \cup {INVALID_VC}, n : Nat]]
        /\ \A j \in NIinProcs : niCur'[j].vc # INVALID_VC => niCur'[j].p \in Packet
    <3> DEFINE T == [p : Packet \cup {NoPacket}, vc : VC \cup {INVALID_VC}, n : Nat]
    <3>1. \A c \in T : /\ [c EXCEPT !.n = @ + 1] \in T
                       /\ [c EXCEPT !.n = @ + 1].p = c.p /\ [c EXCEPT !.n = @ + 1].vc = c.vc
      OBVIOUS
    <3> HIDE DEF T
    <3>2. niCur \in [NIinProcs -> T]
      BY DEF InterfacesOK, T
    <3>3. \A j \in NIinProcs : /\ niCur'[j] \in T
                               /\ niCur'[j].p = niCur[j].p /\ niCur'[j].vc = niCur[j].vc
      BY <2>1, <3>1, <3>2
    <3>4. niCur' \in [NIinProcs -> T]
      BY <2>1, <3>2, <3>3
    <3> QED
      BY <3>3, <3>4 DEF InterfacesOK, T
  <2> QED
    BY <1>3, <2>2, <2>3, <2>4, Zenon DEF NIInject, InterfacesOK, niOutVars
<1> QED
  BY <1>4, <1>5

LEMMA TypesOfNIFinish ==
  ASSUME TypeOK, NEW i \in NIinProcs, NIFinish(i)
  PROVE  TypeOK'
<1> USE DEF TypeOK
<1>1. BuffersOK' /\ ControlOK' /\ CreditsOK'
  BY DEF NIFinish, netVars, BuffersOK, ControlOK, CreditsOK, ctlVars, creditVars
<1>2. SchedulerOK'
  <2>1. 1 \in 0 .. Len(Stages) /\ <<>> \in Seq(Procs) /\ ready # <<>>
    BY StagesKnown DEF NIFinish, Running
  <2> QED
    BY <2>1, ProcessesKept DEF NIFinish, SchedulerOK
<1>3. InterfacesOK'
  <2>1. NIof(i) \in NI /\ niCur[i].vc \in VC
    BY DEF NIof, NIinProcs, NI, NIFinish, InterfacesOK
  <2>2. vcFree' \in [NI -> [VC -> BOOLEAN]] /\ pktInNet' \in Int
    BY <2>1 DEF NIFinish, InterfacesOK
  <2>3. /\ niCur' \in [NIinProcs -> [p : Packet \cup {NoPacket}, vc : VC \cup {INVALID_VC}, n : Nat]]
        /\ \A j \in NIinProcs : niCur'[j].vc # INVALID_VC => niCur'[j].p \in Packet
    BY DEF NIFinish, InterfacesOK
  <2> QED
    BY <2>2, <2>3 DEF NIFinish, InterfacesOK
<1> QED
  BY <1>1, <1>2, <1>3

LEMMA TypesOfNIOutput ==
  ASSUME TypeOK, NEW i \in NIoutProcs, NIOutput(i)
  PROVE  TypeOK'
<1> USE DEF TypeOK
<1>1. NIof(i) \in NI /\ i \in Procs /\ ready # <<>>
  BY ZenonT(60) DEF NIof, NIoutProcs, NI, Procs, NIOutput, Running
<1>2. BuffersOK' /\ ControlOK' /\ CreditsOK'
  BY DEF NIOutput, netVars, BuffersOK, ControlOK, CreditsOK, ctlVars, creditVars
<1>3. CASE niOut[NIof(i)] = <<>>
  <2>1. WaitEvent(i) /\ Running(i) /\ UNCHANGED niOutVars
    BY <1>3 DEF NIOutput
  <2>2. SchedulerOK'
    BY <1>1, <2>1, WaitKept, SMTT(30)
  <2> QED
    BY <1>2, <2>1, <2>2, Zenon DEF NIOutput, InterfacesOK, niOutVars, niInVars
<1>4. CASE niOut[NIof(i)] # <<>>
  <2> DEFINE f == Head(niOut[NIof(i)])
  <2>1. /\ niOut' = [niOut EXCEPT ![NIof(i)] = Tail(@)]
        /\ ejected' = [ejected EXCEPT ![f.p] = Append(@, <<NIof(i), f.n>>)]
        /\ pktInNet' = IF isTail(f) THEN pktInNet - 1 ELSE pktInNet
        /\ GoOn(1, <<>>) /\ UNCHANGED ev
    BY <1>4, Zenon DEF NIOutput
  <2>2. f \in Flit /\ Tail(niOut[NIof(i)]) \in Seq(Flit)
    BY <1>1, <1>4 DEF InterfacesOK
  <2> HIDE DEF f
  <2>3. f.p \in Packet /\ f.n \in Nat
    BY <2>2 DEF Flit
  <2>4. SchedulerOK'
    <3>1. 1 \in 0 .. Len(Stages) /\ <<>> \in Seq(Procs)
      BY StagesKnown
    <3> QED
      BY <1>1, <2>1, <3>1, ProcessesKept DEF SchedulerOK
  <2>5. niOut' \in [NI -> Seq(Flit)]
    BY <1>1, <2>1, <2>2 DEF InterfacesOK
  <2>6. ejected' \in [Packet -> Seq(NI \X Nat)]
    <3>1. <<NIof(i), f.n>> \in NI \X Nat
      BY <1>1, <2>3
    <3> HIDE DEF NI
    <3> QED
      BY <2>1, <2>3, <3>1 DEF InterfacesOK
  <2>7. pktInNet' \in Int
    BY <2>1 DEF InterfacesOK
  <2> QED
    BY <1>2, <2>4, <2>5, <2>6, <2>7 DEF NIOutput, InterfacesOK, niInVars
<1> QED
  BY <1>3, <1>4

-----------------------------------------------------------------------------
(* The stages of a router: what each does to the buffers and the control.  *)

\* A number is made of its quotient and remainder in one way only.
LEMMA Division ==
  ASSUME NEW k \in Nat \ {0}, NEW q \in Int, NEW m \in 0 .. k - 1
  PROVE  (q * k + m) % k = m /\ (q * k + m) \div k = q
OBVIOUS

\* The order in which the input VCs are scanned.
LEMMA ScanLists ==
  ASSUME NEW S \in SUBSET (PC \X VC)
  PROVE  LET o == Ordered(S, [x \in S |-> x[1] * NumVC + x[2]])
         IN  /\ o \in Seq(PC \X VC)
             /\ \A n \in 1 .. Len(o) : o[n] \in S
             /\ \A m, n \in 1 .. Len(o) : o[m] = o[n] => m = n
<1> DEFINE key == [x \in S |-> x[1] * NumVC + x[2]]
<1>1. IsFiniteSet(S)
  BY Finite, FS_Product, FS_Subset
<1>2. key \in [S -> Int]
  BY Finite DEF PC, VC
<1>3. \A x, y \in S : key[x] = key[y] => x = y
  <2> SUFFICES ASSUME NEW x \in S, NEW y \in S, key[x] = key[y]
               PROVE  x = y
    OBVIOUS
  <2>1. /\ x = <<x[1], x[2]>> /\ y = <<y[1], y[2]>>
        /\ x[1] \in Int /\ y[1] \in Int
        /\ x[2] \in 0 .. NumVC - 1 /\ y[2] \in 0 .. NumVC - 1
        /\ x[1] * NumVC + x[2] = y[1] * NumVC + y[2]
    BY DEF PC, VC
  <2>2. ASSUME NEW a \in Int, NEW b \in Int, NEW u \in 0 .. NumVC - 1, NEW w \in 0 .. NumVC - 1,
               a * NumVC + u = b * NumVC + w
        PROVE  a = b /\ u = w
    BY <2>2, SwArbAssumption, Division
  <2> QED
    BY <2>1, <2>2
<1> HIDE DEF key
<1>4. Ordered(S, key) \in Seq(S) /\ \A m, n \in 1 .. Cardinality(S) : Ordered(S, key)[m] = Ordered(S, key)[n] => m = n
  BY <1>1, <1>2, <1>3, OrderedLists
<1>5. Len(Ordered(S, key)) = Cardinality(S)
  BY <1>1, <1>2, <1>3, OrderedLists
<1> QED
  BY <1>4, <1>5 DEF key

\* A stage keeps the scheduler's types.
LEMMA StageKept ==
  ASSUME TypeOK, NEW r, NEW s, AtStage(r, s), NEW woken \in Seq(Procs), NextStage(woken),
         NEW wakeup, ev' \in {ev, Signalled(wakeup)}
  PROVE  SchedulerOK'
<1>1. ready # <<>> /\ SchedulerOK
  BY DEF AtStage, Running, TypeOK
<1>2. ev' \in [Procs -> BOOLEAN]
  BY <1>1, SignalledKept DEF SchedulerOK
<1> QED
  BY <1>1, <1>2, ProcessesKept

\* Only stageST is followed by stageSA.
LEMMA AfterStage ==
  ASSUME TypeOK, NEW r, NEW s, AtStage(r, s), s # "ST", NEW woken \in Seq(Procs),
         NextStage(woken), NEW q, AtStage(q, "SA")'
  PROVE  FALSE
<1>1. stage' \in 0 .. Len(Stages) /\ stage' # 0 /\ Stages[stage'] = "SA"
  <2>1. stage' \in 0 .. Len(Stages)
    BY StagesKnown, SMTT(30) DEF TypeOK, SchedulerOK, NextStage, GoOn, HoldOneCycle
  <2> QED
    BY <2>1 DEF AtStage
<1>2. stage' = 4
  BY <1>1, StagesKnown
<1>3. stage' = stage + 1 /\ stage \in 0 .. Len(Stages)
  BY <1>2 DEF NextStage, GoOn, HoldOneCycle, TypeOK, SchedulerOK
<1>4. stage = 3
  BY <1>2, <1>3, SMTT(30)
<1> QED
  BY <1>4, StagesKnown DEF AtStage

\* What keeps the flits that wait in the switch ready.
LEMMA XbarKept ==
  ASSUME XbarReady, UNCHANGED <<xbar, outFree>>,
         ASSUME NEW q \in Router, NEW i \in PC, xbar[q][i] # INVALID_VC
         PROVE  /\ inMod'[q][i][xbar[q][i]] = inMod[q][i][xbar[q][i]]
                /\ flitQ'[q][i][xbar[q][i]] # <<>>
  PROVE  XbarReady'
<1> SUFFICES ASSUME NEW q \in Router
             PROVE  LET waiting == {i \in PC : xbar[q][i] # INVALID_VC}
                        mod(i) == inMod'[q][i][xbar[q][i]]
                    IN  /\ \A i \in waiting : flitQ'[q][i][xbar[q][i]] # <<>> /\ mod(i).st = "S"
                        /\ \A o \in PC : outFree[q][o] <=> \A i \in waiting : mod(i).pc # o
                        /\ \A i, j \in waiting : mod(i).pc = mod(j).pc => i = j
  BY SMTT(30) DEF XbarReady
<1> DEFINE waiting == {i \in PC : xbar[q][i] # INVALID_VC}
           old(i) == inMod[q][i][xbar[q][i]]
           mod(i) == inMod'[q][i][xbar[q][i]]
<1>1. /\ \A i \in waiting : old(i).st = "S"
      /\ \A o \in PC : outFree[q][o] <=> \A i \in waiting : old(i).pc # o
      /\ \A i, j \in waiting : old(i).pc = old(j).pc => i = j
  BY DEF XbarReady
<1>2. \A i \in waiting : mod(i) = old(i) /\ flitQ'[q][i][xbar[q][i]] # <<>>
  OBVIOUS
<1> HIDE DEF mod, old, waiting
<1>3. /\ \A i \in waiting : flitQ'[q][i][xbar[q][i]] # <<>> /\ mod(i).st = "S"
      /\ \A o \in PC : outFree[q][o] <=> \A i \in waiting : mod(i).pc # o
      /\ \A i, j \in waiting : mod(i).pc = mod(j).pc => i = j
  BY <1>1, <1>2
<1> QED
  BY <1>3, SMTT(30) DEF mod, waiting

\* What keeps the output VCs of input VCs.
LEMMA HoldersKept ==
  ASSUME VCExclusive, UNCHANGED outMod,
         ASSUME NEW q \in Router, NEW pc \in PC, NEW vc \in VC,
                \/ inMod[q][pc][vc].st \in {"V", "S"}
                \/ inMod'[q][pc][vc].st \in {"V", "S"}
         PROVE  inMod'[q][pc][vc] = inMod[q][pc][vc]
  PROVE  VCExclusive'
<1>1. ASSUME NEW q \in Router, NEW pc \in PC, NEW vc \in VC
      PROVE  Holders(q, pc, vc)' = Holders(q, pc, vc)
  <2>1. ASSUME NEW x \in PC \X VC,
               \/ inMod[q][x[1]][x[2]].st \in {"V", "S"}
               \/ inMod'[q][x[1]][x[2]].st \in {"V", "S"}
        PROVE  inMod'[q][x[1]][x[2]] = inMod[q][x[1]][x[2]]
    BY <2>1
  <2> QED
    BY <2>1, Zenon DEF Holders
<1> QED
  BY <1>1 DEF VCExclusive

\* No two elements of s are the same; s and t share none; u has no others.
Once(s) == \A k, l \in DOMAIN s : s[k] = s[l] => k = l
NoneShared(s, t) == \A k \in DOMAIN s, l \in DOMAIN t : s[k] # t[l]
ComesFrom(u, s, t) ==
  \A k \in DOMAIN u : (\E m \in DOMAIN s : u[k] = s[m]) \/ (\E m \in DOMAIN t : u[k] = t[m])

\* Two lists of different things make one.
LEMMA DistinctConcat ==
  ASSUME NEW S, NEW s \in Seq(S), NEW t \in Seq(S),
         Once(s), Once(t), NoneShared(s, t)
  PROVE  ComesFrom(s \o t, s, t) /\ Once(s \o t)
<1> USE DEF Once, NoneShared, ComesFrom
<1> DEFINE u == s \o t
           a == Len(s)
<1>1. /\ DOMAIN u = 1 .. a + Len(t) /\ DOMAIN s = 1 .. a /\ DOMAIN t = 1 .. Len(t)
      /\ a \in Nat /\ Len(t) \in Nat
      /\ \A k \in 1 .. a + Len(t) : u[k] = IF k <= a THEN s[k] ELSE t[k - a]
  OBVIOUS
<1> HIDE DEF u, a
<1>2. ASSUME NEW k \in DOMAIN u
      PROVE  \/ k \in DOMAIN s /\ u[k] = s[k]
             \/ k - a \in DOMAIN t /\ u[k] = t[k - a]
  BY <1>1
<1>3. \A k, l \in DOMAIN u : u[k] = u[l] => k = l
  BY <1>1, <1>2
<1>4. \A k \in DOMAIN u : (\E m \in DOMAIN s : u[k] = s[m]) \/ (\E m \in DOMAIN t : u[k] = t[m])
  BY <1>2
<1> QED
  BY <1>3, <1>4 DEF u

\* Routing computation: heads ask the VC arbiter.
LEMMA RoutingComputation ==
  ASSUME TypeOK, ControlInv, NEW r \in Router, StageRC(r)
  PROVE  TypeOK' /\ ControlInv'
<1> DEFINE front(x) == Head(flitQ[r][x[1]][x[2]])
           routable == {x \in PC \X VC :
                          /\ inMod[r][x[1]][x[2]].st = "I"
                          /\ flitQ[r][x[1]][x[2]] # <<>>
                          /\ isHead(front(x))
                          /\ front(x).p \notin fresh}
           scan == [x \in routable |-> x[1] * NumVC + x[2]]
           new == Ordered(routable, scan)
           out(x) == SelectOutPC[r][Dst[front(x).p]]
           mod(pc, vc) == IF <<pc, vc>> \in routable
                          THEN [inMod[r][pc][vc] EXCEPT !.st = "R", !.pc = out(<<pc, vc>>)]
                          ELSE inMod[r][pc][vc]
           mods == [pc \in PC |-> [vc \in VC |-> mod(pc, vc)]]
<1>1. inMod' = [inMod EXCEPT ![r] = mods]
  BY Zenon DEF StageRC
<1>2. vaQ' = [vaQ EXCEPT ![r] = @ \o new] /\ NextStage(<<>>) /\ AtStage(r, "RC")
  BY Zenon DEF StageRC
<1>3. UNCHANGED <<bufVars, creditVars, outMod, swReq, vaNow, v1, p1, xbar,
                  outFree, niInVars, niOutVars, ev>>
  BY Zenon DEF StageRC
<1>4. /\ new \in Seq(PC \X VC)
      /\ \A n \in 1 .. Len(new) : new[n] \in routable
      /\ \A m, n \in 1 .. Len(new) : new[m] = new[n] => m = n
  <2>1. routable \in SUBSET (PC \X VC)
    OBVIOUS
  <2> QED
    BY <2>1, ScanLists, Zenon
<1>5. ASSUME NEW pc \in PC, NEW vc \in VC, <<pc, vc>> \in routable
      PROVE  /\ inMod[r][pc][vc].st = "I" /\ flitQ[r][pc][vc] # <<>>
             /\ isHead(Head(flitQ[r][pc][vc]))
             /\ out(<<pc, vc>>) \in PC
             /\ isEjectChannel(out(<<pc, vc>>)) \/ <<r, out(<<pc, vc>>)>> \in Link
  <2>1. /\ inMod[r][pc][vc].st = "I" /\ flitQ[r][pc][vc] # <<>>
        /\ isHead(Head(flitQ[r][pc][vc]))
    BY <1>5
  <2>2. Head(flitQ[r][pc][vc]) \in Flit
    BY <2>1 DEF TypeOK, BuffersOK
  <2>3. Dst[Head(flitQ[r][pc][vc]).p] \in NI
    BY <2>2, NetworkAssumption DEF Flit
  <2>4. out(<<pc, vc>>) = SelectOutPC[r][Dst[Head(flitQ[r][pc][vc]).p]]
    OBVIOUS
  <2> HIDE DEF out
  <2>5. ASSUME NEW d \in NI
        PROVE  /\ SelectOutPC[r][d] \in PC
               /\ isEjectChannel(SelectOutPC[r][d]) \/ <<r, SelectOutPC[r][d]>> \in Link
    BY NetworkAssumption
  <2> QED
    BY <2>1, <2>3, <2>4, <2>5, Zenon
<1> HIDE DEF new, scan, routable, out
<1>6. ASSUME NEW pc \in PC, NEW vc \in VC
      PROVE  /\ mod(pc, vc) \in Mod
             /\ <<pc, vc>> \notin routable => mod(pc, vc) = inMod[r][pc][vc]
             /\ <<pc, vc>> \in routable =>
                  mod(pc, vc).st = "R" /\ mod(pc, vc).pc = out(<<pc, vc>>)
  <2>1. inMod[r][pc][vc] \in Mod
    BY DEF TypeOK, ControlOK
  <2>2. CASE <<pc, vc>> \in routable
    <3>1. out(<<pc, vc>>) \in PC
      BY <1>5, <2>2
    <3> QED
      BY <2>1, <2>2, <3>1 DEF Mod
  <2>3. CASE <<pc, vc>> \notin routable
    BY <2>1, <2>3
  <2> QED
    BY <2>2, <2>3
<1>7. /\ mods \in [PC -> [VC -> Mod]]
      /\ \A pc \in PC, vc \in VC : mods[pc][vc] = mod(pc, vc)
  <2> HIDE DEF mod
  <2> QED
    BY <1>6
<1> HIDE DEF mod, mods
<1>8. /\ inMod' \in [Router -> [PC -> [VC -> Mod]]]
      /\ \A q \in Router \ {r} : inMod'[q] = inMod[q]
      /\ inMod'[r] = mods
  BY <1>1, <1>7, SMTT(30) DEF TypeOK, ControlOK
<1>9. TypeOK'
  <2>1. vaQ' \in [Router -> Seq(PC \X VC)]
    BY <1>2, <1>4 DEF TypeOK, ControlOK
  <2>2. SchedulerOK'
    <3>1. <<>> \in Seq(Procs) /\ ev' = ev
      BY <1>3
    <3> QED
      BY <1>2, <3>1, StageKept
  <2> QED
    BY <1>3, <1>8, <2>1, <2>2 DEF TypeOK, BuffersOK, ControlOK, CreditsOK, InterfacesOK,
       bufVars, creditVars, niInVars, niOutVars
<1>10. UNCHANGED <<flitQ, outMod, swReq, xbar, outFree>>
  BY <1>3 DEF bufVars
<1>11. ASSUME NEW q \in Router, NEW pc \in PC, NEW vc \in VC
       PROVE  \/ inMod'[q][pc][vc] = inMod[q][pc][vc]
              \/ /\ q = r /\ inMod[q][pc][vc].st = "I"
                 /\ inMod'[q][pc][vc].st = "R" /\ inMod'[q][pc][vc].pc \in PC
                 /\ isEjectChannel(inMod'[q][pc][vc].pc) \/ <<r, inMod'[q][pc][vc].pc>> \in Link
                 /\ flitQ[q][pc][vc] # <<>> /\ isHead(Head(flitQ[q][pc][vc]))
  <2>1. CASE q = r /\ <<pc, vc>> \in routable
    BY <1>5, <1>6, <1>7, <1>8, <2>1
  <2>2. CASE ~ (q = r /\ <<pc, vc>> \in routable)
    BY <1>6, <1>7, <1>8, <2>2
  <2> QED
    BY <2>1, <2>2
<1>12. ASSUME NEW q \in Router, NEW pc \in PC, NEW vc \in VC,
              inMod[q][pc][vc].st # "I" \/ inMod'[q][pc][vc].st # "R"
       PROVE  inMod'[q][pc][vc] = inMod[q][pc][vc]
  BY <1>11, <1>12, ZenonT(60)
<1>13. Routed'
  <2> SUFFICES ASSUME NEW q \in Router, NEW pc \in PC, NEW vc \in VC
               PROVE  LET m == inMod'[q][pc][vc]
                      IN  /\ m.st \in {"R", "V", "S"} =>
                               m.pc \in PC /\ (isEjectChannel(m.pc) \/ <<q, m.pc>> \in Link)
                          /\ m.st \in {"V", "S"} => m.vc \in VC
    BY Zenon DEF Routed, isEjectChannel
  <2>1. CASE inMod'[q][pc][vc] = inMod[q][pc][vc]
    <3>1. LET m == inMod[q][pc][vc]
          IN  /\ m.st \in {"R", "V", "S"} =>
                   m.pc \in PC /\ (isEjectChannel(m.pc) \/ <<q, m.pc>> \in Link)
              /\ m.st \in {"V", "S"} => m.vc \in VC
      BY DEF ControlInv, Routed
    <3> QED
      BY <2>1, <3>1
  <2>2. CASE inMod'[q][pc][vc] # inMod[q][pc][vc]
    <3>1. /\ q = r /\ inMod'[q][pc][vc].st = "R" /\ inMod'[q][pc][vc].pc \in PC
          /\ isEjectChannel(inMod'[q][pc][vc].pc) \/ <<r, inMod'[q][pc][vc].pc>> \in Link
      BY <1>11, <2>2
    <3> QED
      BY <3>1
  <2> QED
    BY <2>1, <2>2
<1>14. HeadWaits'
  <2> SUFFICES ASSUME NEW q \in Router, NEW pc \in PC, NEW vc \in VC,
                      inMod'[q][pc][vc].st \in {"R", "V"}
               PROVE  flitQ[q][pc][vc] # <<>> /\ isHead(Head(flitQ[q][pc][vc]))
    BY <1>10 DEF HeadWaits, isHead
  <2>1. CASE inMod'[q][pc][vc] = inMod[q][pc][vc]
    BY <2>1 DEF ControlInv, HeadWaits
  <2>2. CASE inMod'[q][pc][vc] # inMod[q][pc][vc]
    BY <1>11, <2>2, ZenonT(60)
  <2> QED
    BY <2>1, <2>2
<1>15. RequestsReady'
  <2> SUFFICES ASSUME NEW q \in Router, NEW pc \in PC, NEW vc \in VC, swReq[q][pc][vc]
               PROVE  inMod'[q][pc][vc].st \in {"V", "S"} /\ flitQ[q][pc][vc] # <<>>
    BY <1>10 DEF RequestsReady
  <2>1. inMod[q][pc][vc].st \in {"V", "S"} /\ flitQ[q][pc][vc] # <<>>
    BY DEF ControlInv, RequestsReady
  <2>2. inMod'[q][pc][vc] = inMod[q][pc][vc]
    BY <1>12, <2>1
  <2> QED
    BY <2>1, <2>2
<1>16. XbarReady'
  <2>1. ASSUME NEW q \in Router, NEW i \in PC, xbar[q][i] # INVALID_VC
        PROVE  /\ inMod'[q][i][xbar[q][i]] = inMod[q][i][xbar[q][i]]
               /\ flitQ'[q][i][xbar[q][i]] # <<>>
    <3>1. /\ xbar[q][i] \in VC /\ inMod[q][i][xbar[q][i]].st = "S"
          /\ flitQ[q][i][xbar[q][i]] # <<>>
      BY <2>1 DEF ControlInv, XbarReady, TypeOK, ControlOK
    <3> QED
      BY <1>10, <1>12, <3>1, SMTT(30)
  <2> QED
    BY <1>10, <2>1, XbarKept, Zenon DEF ControlInv
<1>17. VCExclusive'
  <2>1. ASSUME NEW q \in Router, NEW pc \in PC, NEW vc \in VC,
               \/ inMod[q][pc][vc].st \in {"V", "S"}
               \/ inMod'[q][pc][vc].st \in {"V", "S"}
        PROVE  inMod'[q][pc][vc] = inMod[q][pc][vc]
    BY <1>12, <2>1, SMTT(30)
  <2> QED
    BY <1>10, <2>1, HoldersKept, Zenon DEF ControlInv
<1>18. QueuedOnce'
  <2>1. /\ vaQ'[r] = vaQ[r] \o new /\ vaQ[r] \in Seq(PC \X VC)
        /\ \A q \in Router \ {r} : vaQ'[q] = vaQ[q]
    BY <1>2 DEF TypeOK, ControlOK
  <2>2. ASSUME NEW q \in Router, NEW k \in DOMAIN vaQ[q]
        PROVE  /\ inMod[q][vaQ[q][k][1]][vaQ[q][k][2]].st = "R"
               /\ inMod'[q][vaQ[q][k][1]][vaQ[q][k][2]].st = "R"
    <3>1. vaQ[q][k] \in PC \X VC
      BY SMTT(30) DEF TypeOK, ControlOK
    <3>2. inMod[q][vaQ[q][k][1]][vaQ[q][k][2]].st = "R"
      BY SMTT(30) DEF ControlInv, QueuedOnce
    <3> QED
      BY <1>12, <3>1, <3>2, Zenon
  <2>3. \A q \in Router : \A k, l \in DOMAIN vaQ[q] : vaQ[q][k] = vaQ[q][l] => k = l
    BY DEF ControlInv, QueuedOnce
  <2>4. ASSUME NEW n \in DOMAIN new
        PROVE  /\ inMod[r][new[n][1]][new[n][2]].st = "I"
               /\ inMod'[r][new[n][1]][new[n][2]].st = "R"
    <3>1. n \in 1 .. Len(new) /\ new[n] \in PC \X VC
      BY <1>4
    <3>2. new[n] \in routable
      BY <1>4, <3>1
    <3>3. PICK pc \in PC, vc \in VC : new[n] = <<pc, vc>>
      BY <3>1
    <3>4. new[n][1] = pc /\ new[n][2] = vc /\ <<pc, vc>> \in routable
      BY <3>2, <3>3
    <3>5. inMod[r][pc][vc].st = "I"
      BY <1>5, <3>4
    <3>6. inMod'[r][pc][vc].st = "R"
      BY <1>6, <1>7, <1>8, <3>4
    <3> QED
      BY <3>4, <3>5, <3>6
  <2>5. \A k, l \in DOMAIN new : new[k] = new[l] => k = l
    BY <1>4
  <2>6. \A k \in DOMAIN vaQ[r], l \in DOMAIN new : vaQ[r][k] # new[l]
    BY <2>2, <2>4, Zenon
  <2>7. /\ \A k \in DOMAIN vaQ'[r] : \/ \E m \in DOMAIN vaQ[r] : vaQ'[r][k] = vaQ[r][m]
                                     \/ \E m \in DOMAIN new : vaQ'[r][k] = new[m]
        /\ \A k, l \in DOMAIN vaQ'[r] : vaQ'[r][k] = vaQ'[r][l] => k = l
    <3>1. new \in Seq(PC \X VC) /\ \A k, l \in DOMAIN vaQ[r] : vaQ[r][k] = vaQ[r][l] => k = l
      BY <1>4, <2>3
    <3> DEFINE s == vaQ[r]
    <3>2. s \in Seq(PC \X VC)
      BY <2>1
    <3>3. /\ \A k, l \in DOMAIN s : s[k] = s[l] => k = l
          /\ \A k \in DOMAIN s, l \in DOMAIN new : s[k] # new[l]
      BY <2>6, <3>1
    <3> HIDE DEF s
    <3> HIDE DEF new
    <3>4. Once(s) /\ Once(new) /\ NoneShared(s, new)
      BY <2>5, <3>3, Zenon DEF Once, NoneShared
    <3>5. ComesFrom(s \o new, s, new) /\ Once(s \o new)
      BY <3>1, <3>2, <3>4, DistinctConcat
    <3>6. vaQ'[r] = s \o new
      BY <2>1, Zenon DEF s
    <3> QED
      BY <3>5, <3>6, ZenonT(60) DEF ComesFrom, Once, s
  <2>8. ASSUME NEW q \in Router
        PROVE  /\ \A k \in DOMAIN vaQ'[q] : inMod'[q][vaQ'[q][k][1]][vaQ'[q][k][2]].st = "R"
               /\ \A k, l \in DOMAIN vaQ'[q] : vaQ'[q][k] = vaQ'[q][l] => k = l
    <3>1. CASE q = r
      <4> HIDE DEF new
      <4>1. ASSUME NEW k \in DOMAIN vaQ'[r]
            PROVE  inMod'[r][vaQ'[r][k][1]][vaQ'[r][k][2]].st = "R"
        <5>1. CASE \E m \in DOMAIN vaQ[r] : vaQ'[r][k] = vaQ[r][m]
          BY <2>2, <5>1, ZenonT(60)
        <5>2. CASE \E m \in DOMAIN new : vaQ'[r][k] = new[m]
          BY <2>4, <5>2, Zenon
        <5> QED
          BY <2>7, <5>1, <5>2, Zenon
      <4> QED
        BY <2>7, <3>1, <4>1, Zenon
    <3>2. CASE q # r
      <4>1. vaQ'[q] = vaQ[q]
        BY <2>1, <3>2
      <4> QED
        BY <2>2, <2>3, <4>1, ZenonT(60)
    <3> QED
      BY <3>1, <3>2, Zenon
  <2> QED
    BY <2>8 DEF QueuedOnce
<1>19. GrantedOnce'
  <2> SUFFICES ASSUME NEW q \in Router, NEW i \in PC, xbar[q][i] # INVALID_VC
               PROVE  ~ swReq[q][i][xbar[q][i]] /\ ~ AtStage(q, "SA")'
    BY <1>10 DEF GrantedOnce
  <2>1. ~ swReq[q][i][xbar[q][i]]
    BY DEF ControlInv, GrantedOnce
  <2>2. ~ AtStage(q, "SA")'
    <3>1. <<>> \in Seq(Procs) /\ "RC" # "ST"
      OBVIOUS
    <3> QED
      BY <1>2, <3>1, AfterStage
  <2> QED
    BY <2>1, <2>2
<1> QED
  BY <1>9, <1>13, <1>14, <1>15, <1>16, <1>17, <1>18, <1>19 DEF ControlInv

\* A step that leaves the control alone and every VC its first flit.
LEMMA ControlKept ==
  ASSUME ControlInv, UNCHANGED <<inMod, outMod, vaQ, swReq, xbar, outFree>>,
         \A q \in Router, pc \in PC, vc \in VC : flitQ[q][pc][vc] # <<>> =>
           flitQ'[q][pc][vc] # <<>> /\ Head(flitQ'[q][pc][vc]) = Head(flitQ[q][pc][vc]),
         \A q \in Router : ~ AtStage(q, "SA")',
         TypeOK
  PROVE  ControlInv'
<1>1. Routed' /\ QueuedOnce'
  <2>1. Routed /\ QueuedOnce
    BY Zenon DEF ControlInv
  <2>2. Routed'
    BY <2>1, ZenonT(60) DEF Routed, isEjectChannel
  <2>3. QueuedOnce'
    BY <2>1, ZenonT(60) DEF QueuedOnce
  <2> QED
    BY <2>2, <2>3
<1>2. HeadWaits'
  BY SMTT(30) DEF ControlInv, HeadWaits, isHead
<1>3. RequestsReady'
  BY DEF ControlInv, RequestsReady
<1>4. GrantedOnce'
  BY SMTT(30) DEF ControlInv, GrantedOnce
<1>5. VCExclusive'
  BY DEF ControlInv, VCExclusive, Holders
<1>6. XbarReady'
  <2>1. ASSUME NEW q \in Router, NEW i \in PC, xbar[q][i] # INVALID_VC
        PROVE  /\ inMod'[q][i][xbar[q][i]] = inMod[q][i][xbar[q][i]]
               /\ flitQ'[q][i][xbar[q][i]] # <<>>
    <3>1. xbar[q][i] \in VC /\ flitQ[q][i][xbar[q][i]] # <<>>
      BY <2>1 DEF ControlInv, XbarReady, TypeOK, ControlOK
    <3> QED
      BY <3>1
  <2> QED
    BY <2>1, XbarKept, Zenon DEF ControlInv
<1> QED
  BY <1>1, <1>2, <1>3, <1>4, <1>5, <1>6 DEF ControlInv

\* A list without one of its elements.
LEMMA Removed ==
  ASSUME NEW S, NEW s \in Seq(S), NEW k \in DOMAIN s
  PROVE  /\ RemoveAt(s, k) \in Seq(S)
         /\ \A n \in DOMAIN RemoveAt(s, k) :
              LET m == IF n < k THEN n ELSE n + 1
              IN  m \in DOMAIN s /\ m # k /\ RemoveAt(s, k)[n] = s[m]
<1> DEFINE a == SubSeq(s, 1, k - 1)
           b == SubSeq(s, k + 1, Len(s))
<1>1. Len(s) \in Nat /\ DOMAIN s = 1 .. Len(s) /\ k \in 1 .. Len(s)
  OBVIOUS
<1>2. /\ a \in Seq(S) /\ Len(a) = k - 1
      /\ \A n \in 1 .. k - 1 : a[n] = s[n]
  BY <1>1
<1>3. /\ b \in Seq(S) /\ Len(b) = Len(s) - k
      /\ \A n \in 1 .. Len(s) - k : b[n] = s[n + k]
  <2>1. k + 1 \in Int /\ Len(s) \in Int /\ \A n \in k + 1 .. Len(s) : s[n] \in S
    BY <1>1
  <2>2. /\ b \in Seq(S)
        /\ Len(b) = IF k + 1 <= Len(s) THEN (Len(s) - (k + 1)) + 1 ELSE 0
        /\ \A n \in 1 .. (Len(s) - (k + 1)) + 1 : b[n] = s[((k + 1) + n) - 1]
    <3> HIDE DEF b
    <3>1. b = SubSeq(s, k + 1, Len(s))
      BY DEF b
    <3> QED
      BY <2>1, <3>1, SubSeqProperties, SMTT(30)
  <2> HIDE DEF b
  <2>3. Len(b) = Len(s) - k /\ (Len(s) - (k + 1)) + 1 = Len(s) - k
    BY <1>1, <2>2
  <2>4. ASSUME NEW n \in 1 .. Len(s) - k
        PROVE  b[n] = s[n + k]
    <3>1. ((k + 1) + n) - 1 = n + k
      BY <1>1
    <3>2. n \in 1 .. (Len(s) - (k + 1)) + 1
      BY <2>3
    <3> QED
      BY <2>2, <3>1, <3>2, Zenon
  <2> QED
    BY <2>2, <2>3, <2>4
<1> HIDE DEF a, b
<1> DEFINE c == a \o b
<1>4. c \in Seq(S) /\ Len(c) = Len(a) + Len(b) /\ DOMAIN c = 1 .. Len(a) + Len(b)
  <2>1. a \in Seq(S) /\ b \in Seq(S)
    BY <1>2, <1>3
  <2>2. c \in Seq(S) /\ Len(c) = Len(a) + Len(b)
    BY <2>1
  <2> HIDE DEF c
  <2>3. DOMAIN c = 1 .. Len(c)
    BY <2>2
  <2> QED
    BY <2>2, <2>3
<1>5. \A n \in 1 .. Len(a) + Len(b) : c[n] = IF n <= Len(a) THEN a[n] ELSE b[n - Len(a)]
  <2>1. a \in Seq(S) /\ b \in Seq(S)
    BY <1>2, <1>3
  <2> QED
    BY <2>1, ConcatProperties
<1>6. RemoveAt(s, k) = c
  BY DEF RemoveAt, a, b
<1> HIDE DEF c
<1>7. DOMAIN c = 1 .. Len(s) - 1
  <2>1. Len(a) + Len(b) = Len(s) - 1
    BY <1>1, <1>2, <1>3
  <2> QED
    BY <1>4, <2>1
<1>8. ASSUME NEW n \in 1 .. Len(s) - 1
      PROVE  LET m == IF n < k THEN n ELSE n + 1
             IN  m \in 1 .. Len(s) /\ m # k /\ c[n] = s[m]
  <2>1. CASE n < k
    <3>1. n \in 1 .. k - 1 /\ n \in 1 .. Len(a) + Len(b) /\ n <= Len(a)
      BY <1>1, <1>2, <1>3, <2>1, SMTT(30)
    <3>2. c[n] = s[n]
      BY <1>2, <1>5, <3>1
    <3> QED
      BY <1>1, <2>1, <3>2
  <2>2. CASE ~ (n < k)
    <3>1. /\ n - (k - 1) \in 1 .. Len(s) - k /\ n \in 1 .. Len(a) + Len(b)
          /\ ~ (n <= Len(a)) /\ n - Len(a) = n - (k - 1)
      <4>1. Len(a) = k - 1 /\ Len(b) = Len(s) - k
        BY <1>2, <1>3
      <4>2. /\ n - (k - 1) \in 1 .. Len(s) - k /\ n \in 1 .. (k - 1) + (Len(s) - k)
            /\ ~ (n <= k - 1)
        BY <1>1, <2>2
      <4> QED
        BY <4>1, <4>2, Zenon
    <3>2. c[n] = b[n - (k - 1)]
      BY <1>5, <3>1, Zenon
    <3>3. (n - (k - 1)) + k = n + 1
      BY <1>1
    <3>4. b[n - (k - 1)] = s[n + 1]
      BY <1>3, <3>1, <3>3, Zenon
    <3>5. n + 1 \in 1 .. Len(s) /\ n + 1 # k
      BY <1>1, <2>2
    <3> QED
      BY <2>2, <3>2, <3>4, <3>5
  <2> QED
    BY <2>1, <2>2
<1> QED
  BY <1>1, <1>4, <1>6, <1>7, <1>8

\* VC allocation: a routed head gets an output VC that nobody holds, and then
\* asks for the switch.
LEMMA VCAllocation ==
  ASSUME TypeOK, ControlInv, NEW r \in Router, StageVA(r)
  PROVE  TypeOK' /\ ControlInv'
<1> DEFINE served == {k \in DOMAIN vaQ[r] : FreeVCs(r, vaQ[r][k]) # {}}
           k == CHOOSE n \in served : \A m \in served : n <= m
           x == vaQ[r][k]
           out == inMod[r][x[1]][x[2]].pc
           vc == CHOOSE v \in FreeVCs(r, x) : \A w \in FreeVCs(r, x) : v <= w
<1>1. /\ AtStage(r, "VA")
      /\ UNCHANGED <<flitQ, pipe, inside, fresh, credit, rsv, deposits, v1, p1, xbar, outFree,
                     niInVars, niOutVars, ev>>
  BY Zenon DEF StageVA, bufVars, creditVars
<1>2. <<>> \in Seq(Procs) /\ ready # <<>> /\ SchedulerOK
  BY <1>1 DEF AtStage, Running, TypeOK
<1>3. CASE served = {}
  <2>1. NextStage(<<>>) /\ UNCHANGED <<inMod, outMod, vaQ, swReq, vaNow>>
    BY <1>3, Zenon DEF StageVA
  <2>2. SchedulerOK'
    BY <1>1, <1>2, <2>1, StageKept
  <2>3. TypeOK'
    BY <1>1, <2>1, <2>2 DEF TypeOK, BuffersOK, ControlOK, CreditsOK, InterfacesOK,
       niInVars, niOutVars
  <2>4. ASSUME NEW q \in Router
        PROVE  ~ AtStage(q, "SA")'
    <3>1. "VA" # "ST"
      OBVIOUS
    <3> QED
      BY <1>1, <1>2, <2>1, <3>1, AfterStage
  <2>5. \A q \in Router, pc \in PC, w \in VC : flitQ[q][pc][w] # <<>> =>
          flitQ'[q][pc][w] # <<>> /\ Head(flitQ'[q][pc][w]) = Head(flitQ[q][pc][w])
    BY <1>1
  <2>6. UNCHANGED <<inMod, outMod, vaQ, swReq, xbar, outFree>>
    BY <1>1, <2>1
  <2> QED
    BY <2>3, <2>4, <2>5, <2>6, ControlKept
<1>4. CASE served # {}
  <2>1. inMod' = [inMod EXCEPT ![r][x[1]][x[2]].st = "V", ![r][x[1]][x[2]].vc = vc]
    BY <1>4, Zenon DEF StageVA
  <2>2. outMod' = [outMod EXCEPT ![r][out][vc] = "V"] /\ vaQ' = [vaQ EXCEPT ![r] = RemoveAt(@, k)]
    BY <1>4, Zenon DEF StageVA
  <2>3. /\ swReq' = [swReq EXCEPT ![r][x[1]][x[2]] = TRUE]
        /\ vaNow' = [vaNow EXCEPT ![r][x[1]][x[2]] = TRUE]
        /\ GoOn(stage, <<>>)
    BY <1>4, Zenon DEF StageVA
  <2>4. vaQ[r] \in Seq(PC \X VC) /\ DOMAIN vaQ[r] = 1 .. Len(vaQ[r])
    BY DEF TypeOK, ControlOK
  <2>5. k \in DOMAIN vaQ[r] /\ FreeVCs(r, x) # {}
    <3>1. served \in SUBSET Nat
      BY <2>4
    <3>2. \E n \in served : \A m \in served : n <= m
      BY <1>4, <3>1, LeastExists
    <3>3. k \in served
      BY <3>2
    <3> QED
      BY <3>3
  <2> HIDE DEF k
  <2>6. PICK i \in PC, v \in VC : x = <<i, v>>
    BY <2>4, <2>5
  <2>7. x[1] = i /\ x[2] = v
    BY <2>6
  <2>8. vc \in VC /\ outMod[r][out][vc] = "I"
    <3>1. VC \in SUBSET Nat
      BY DEF VC
    <3> HIDE DEF x
    <3>2. \E n \in FreeVCs(r, x) : \A m \in FreeVCs(r, x) : n <= m
      <4>1. FreeVCs(r, x) \in SUBSET VC
        BY Zenon DEF FreeVCs
      <4> QED
        BY <2>5, <3>1, <4>1, LeastExists, Zenon
    <3>3. vc \in FreeVCs(r, x)
      BY <3>2
    <3> QED
      BY <3>3, Zenon DEF FreeVCs
  <2>9. inMod[r][i][v].st = "R"
    BY <2>5, <2>7, Zenon DEF ControlInv, QueuedOnce
  <2>10. out \in PC /\ out = inMod[r][i][v].pc
    BY <2>7, <2>9 DEF ControlInv, Routed
  <2> HIDE DEF vc, out, x, served
  <2>11. inMod \in [Router -> [PC -> [VC -> Mod]]] /\ outMod \in [Router -> [PC -> [VC -> {"I", "V"}]]]
    BY DEF TypeOK, ControlOK
  <2>12. /\ inMod' \in [Router -> [PC -> [VC -> Mod]]]
         /\ inMod'[r][i][v].st = "V" /\ inMod'[r][i][v].vc = vc /\ inMod'[r][i][v].pc = out
         /\ \A q \in Router, pc \in PC, w \in VC :
              ~ (q = r /\ pc = i /\ w = v) => inMod'[q][pc][w] = inMod[q][pc][w]
    <3> DEFINE m == [inMod[r][i][v] EXCEPT !.st = "V", !.vc = vc]
    <3>1. m \in Mod /\ m.st = "V" /\ m.vc = vc /\ m.pc = out
      <4>1. inMod[r][i][v] \in Mod
        BY <2>11
      <4> QED
        BY <2>8, <2>10, <4>1 DEF Mod
    <3> DEFINE g == [inMod EXCEPT ![r][i][v].st = "V"]
    <3>2. /\ g \in [Router -> [PC -> [VC -> Mod]]]
          /\ g[r][i][v] = [inMod[r][i][v] EXCEPT !.st = "V"]
          /\ \A q \in Router, pc \in PC, w \in VC :
               ~ (q = r /\ pc = i /\ w = v) => g[q][pc][w] = inMod[q][pc][w]
      <4> DEFINE e == [inMod[r][i][v] EXCEPT !.st = "V"]
      <4>1. e \in Mod /\ g = [inMod EXCEPT ![r][i][v] = e]
        <5>1. inMod[r][i][v] \in Mod
          BY <2>11
        <5> QED
          BY <5>1 DEF Mod
      <4> HIDE DEF e, g
      <4>2. g \in [Router -> [PC -> [VC -> Mod]]] /\ g[r][i][v] = e
        BY <2>11, <4>1
      <4>3. ASSUME NEW q \in Router, NEW pc \in PC, NEW w \in VC, ~ (q = r /\ pc = i /\ w = v)
            PROVE  g[q][pc][w] = inMod[q][pc][w]
        BY <2>11, <4>1, <4>3
      <4> QED
        BY <4>2, <4>3 DEF e
    <3>3. inMod' = [g EXCEPT ![r][i][v] = m]
      <4>1. inMod' = [g EXCEPT ![r][i][v].vc = vc]
        BY <2>1, <2>7
      <4> HIDE DEF g
      <4>2. [g[r][i][v] EXCEPT !.vc = vc] = m
        BY <2>11, <3>2 DEF Mod
      <4> QED
        BY <3>2, <4>1, <4>2
    <3> HIDE DEF m, g
    <3>4. inMod' \in [Router -> [PC -> [VC -> Mod]]] /\ inMod'[r][i][v] = m
      BY <3>1, <3>2, <3>3
    <3>5. ASSUME NEW q \in Router, NEW pc \in PC, NEW w \in VC, ~ (q = r /\ pc = i /\ w = v)
          PROVE  inMod'[q][pc][w] = inMod[q][pc][w]
      BY <3>2, <3>3, <3>5, SMTT(30)
    <3> QED
      BY <3>1, <3>4, <3>5
  <2>13. /\ outMod' \in [Router -> [PC -> [VC -> {"I", "V"}]]]
         /\ outMod'[r][out][vc] = "V"
         /\ \A q \in Router, pc \in PC, w \in VC :
              ~ (q = r /\ pc = out /\ w = vc) => outMod'[q][pc][w] = outMod[q][pc][w]
    BY <2>2, <2>8, <2>10, <2>11
  <2>14. /\ swReq' \in [Router -> [PC -> [VC -> BOOLEAN]]]
         /\ vaNow' \in [Router -> [PC -> [VC -> BOOLEAN]]]
         /\ \A q \in Router, pc \in PC, w \in VC :
              ~ (q = r /\ pc = i /\ w = v) => swReq'[q][pc][w] = swReq[q][pc][w]
    <3>1. swReq' = [swReq EXCEPT ![r][i][v] = TRUE] /\ swReq \in [Router -> [PC -> [VC -> BOOLEAN]]]
      BY <2>3, <2>7 DEF TypeOK, ControlOK
    <3>2. vaNow' = [vaNow EXCEPT ![r][i][v] = TRUE] /\ vaNow \in [Router -> [PC -> [VC -> BOOLEAN]]]
      BY <2>3, <2>7 DEF TypeOK, ControlOK
    <3>3. swReq' \in [Router -> [PC -> [VC -> BOOLEAN]]]
      BY <3>1
    <3>4. vaNow' \in [Router -> [PC -> [VC -> BOOLEAN]]]
      BY <3>2
    <3>5. ASSUME NEW q \in Router, NEW pc \in PC, NEW w \in VC, ~ (q = r /\ pc = i /\ w = v)
          PROVE  swReq'[q][pc][w] = swReq[q][pc][w]
      <4>1. CASE q # r \/ pc # i
        BY <3>1, <4>1
      <4>2. CASE q = r /\ pc = i /\ w # v
        BY <3>1, <4>2
      <4> QED
        BY <3>5, <4>1, <4>2
    <3> QED
      BY <3>3, <3>4, <3>5
  <2>15. /\ vaQ' \in [Router -> Seq(PC \X VC)]
         /\ \A q \in Router \ {r} : vaQ'[q] = vaQ[q]
         /\ vaQ'[r] = RemoveAt(vaQ[r], k)
         /\ \A n \in DOMAIN vaQ'[r] :
              LET m == IF n < k THEN n ELSE n + 1
              IN  m \in DOMAIN vaQ[r] /\ m # k /\ vaQ'[r][n] = vaQ[r][m]
    <3> DEFINE s == vaQ[r]
    <3>1. s \in Seq(PC \X VC) /\ k \in DOMAIN s
      BY <2>4, <2>5
    <3> HIDE DEF s
    <3>2. /\ RemoveAt(s, k) \in Seq(PC \X VC)
          /\ \A n \in DOMAIN RemoveAt(s, k) :
               LET m == IF n < k THEN n ELSE n + 1
               IN  m \in DOMAIN s /\ m # k /\ RemoveAt(s, k)[n] = s[m]
      BY <3>1, Removed
    <3>3. vaQ' = [vaQ EXCEPT ![r] = RemoveAt(s, k)]
      BY <2>2 DEF s
    <3>4. vaQ'[r] = RemoveAt(s, k)
      BY <3>3 DEF TypeOK, ControlOK
    <3>5. vaQ' \in [Router -> Seq(PC \X VC)] /\ \A q \in Router \ {r} : vaQ'[q] = vaQ[q]
      BY <3>2, <3>3 DEF TypeOK, ControlOK
    <3> QED
      BY <3>2, <3>4, <3>5 DEF s
  <2>16. SchedulerOK'
    <3>1. stage \in 0 .. Len(Stages) /\ ev' \in [Procs -> BOOLEAN]
      BY <1>1, <1>2 DEF SchedulerOK
    <3> QED
      BY <1>2, <2>3, <3>1, ProcessesKept
  <2>17. TypeOK'
    BY <1>1, <2>12, <2>13, <2>14, <2>15, <2>16 DEF TypeOK, BuffersOK, ControlOK, CreditsOK,
       InterfacesOK, niInVars, niOutVars
  <2>18. Routed'
    <3> SUFFICES ASSUME NEW q \in Router, NEW pc \in PC, NEW w \in VC
                 PROVE  LET m == inMod'[q][pc][w]
                        IN  /\ m.st \in {"R", "V", "S"} =>
                                 m.pc \in PC /\ (isEjectChannel(m.pc) \/ <<q, m.pc>> \in Link)
                            /\ m.st \in {"V", "S"} => m.vc \in VC
      BY Zenon DEF Routed, isEjectChannel
    <3>1. CASE ~ (q = r /\ pc = i /\ w = v)
      <4>1. inMod'[q][pc][w] = inMod[q][pc][w]
        BY <2>12, <3>1
      <4> QED
        BY <4>1 DEF ControlInv, Routed
    <3>2. CASE q = r /\ pc = i /\ w = v
      <4>1. out \in PC /\ (isEjectChannel(out) \/ <<r, out>> \in Link)
        BY <2>9, <2>10 DEF ControlInv, Routed
      <4> QED
        BY <2>8, <2>12, <3>2, <4>1
    <3> QED
      BY <3>1, <3>2
  <2>19. HeadWaits'
    <3> SUFFICES ASSUME NEW q \in Router, NEW pc \in PC, NEW w \in VC,
                        inMod'[q][pc][w].st \in {"R", "V"}
                 PROVE  flitQ[q][pc][w] # <<>> /\ isHead(Head(flitQ[q][pc][w]))
      BY <1>1 DEF HeadWaits, isHead
    <3>1. inMod[q][pc][w].st \in {"R", "V"}
      BY <2>9, <2>12, SMTT(30)
    <3> QED
      BY <3>1 DEF ControlInv, HeadWaits
  <2>20. QueuedOnce'
    <3>1. ASSUME NEW q \in Router, NEW n \in DOMAIN vaQ[q], ~ (q = r /\ n = k)
          PROVE  inMod'[q][vaQ[q][n][1]][vaQ[q][n][2]].st = "R"
      <4>1. PICK a \in PC, b \in VC : vaQ[q][n] = <<a, b>>
        BY DEF TypeOK, ControlOK
      <4>2. inMod[q][a][b].st = "R"
        BY <4>1 DEF ControlInv, QueuedOnce
      <4>3. ~ (q = r /\ a = i /\ b = v)
        <5>1. CASE q = r
          <6>1. vaQ[r][n] # vaQ[r][k]
            BY <2>5, <3>1, <5>1 DEF ControlInv, QueuedOnce
          <6> QED
            BY <2>6, <4>1, <5>1, <6>1, SMTT(30) DEF x
        <5> QED
          BY <5>1
      <4>4. inMod'[q][a][b] = inMod[q][a][b]
        BY <2>12, <4>3
      <4> QED
        BY <4>1, <4>2, <4>4
    <3>2. \A q \in Router : \A n, l \in DOMAIN vaQ[q] : vaQ[q][n] = vaQ[q][l] => n = l
      BY ZenonT(60) DEF ControlInv, QueuedOnce
    <3>3. ASSUME NEW q \in Router
          PROVE  /\ \A n \in DOMAIN vaQ'[q] : inMod'[q][vaQ'[q][n][1]][vaQ'[q][n][2]].st = "R"
                 /\ \A n, l \in DOMAIN vaQ'[q] : vaQ'[q][n] = vaQ'[q][l] => n = l
      <4>1. CASE q # r
        <5>1. vaQ'[q] = vaQ[q]
          BY <2>15, <4>1, SMTT(30)
        <5> QED
          BY <3>1, <3>2, <4>1, <5>1
      <4>2. CASE q = r
        <5>1. ASSUME NEW n \in DOMAIN vaQ'[r]
              PROVE  inMod'[r][vaQ'[r][n][1]][vaQ'[r][n][2]].st = "R"
          <6>1. PICK m \in DOMAIN vaQ[r] : m # k /\ vaQ'[r][n] = vaQ[r][m]
            BY <2>15
          <6> QED
            BY <3>1, <6>1
        <5>2. ASSUME NEW n \in DOMAIN vaQ'[r], NEW l \in DOMAIN vaQ'[r], vaQ'[r][n] = vaQ'[r][l]
              PROVE  n = l
          <6>1. LET m == IF n < k THEN n ELSE n + 1
                IN  m \in DOMAIN vaQ[r] /\ m # k /\ vaQ'[r][n] = vaQ[r][m]
            BY <2>15
          <6>2. LET m == IF l < k THEN l ELSE l + 1
                IN  m \in DOMAIN vaQ[r] /\ m # k /\ vaQ'[r][l] = vaQ[r][m]
            BY <2>15
          <6>3. (IF n < k THEN n ELSE n + 1) = (IF l < k THEN l ELSE l + 1)
            BY <3>2, <5>2, <6>1, <6>2
          <6>4. n \in Nat /\ l \in Nat /\ k \in Nat
            BY <2>4, <2>5, <2>15, SMTT(30)
          <6> QED
            BY <6>3, <6>4
        <5> QED
          BY <4>2, <5>1, <5>2, SMTT(30)
      <4> QED
        BY <4>1, <4>2, SMTT(30)
    <3> QED
      BY <3>3 DEF QueuedOnce
  <2>21. RequestsReady'
    <3> SUFFICES ASSUME NEW q \in Router, NEW pc \in PC, NEW w \in VC, swReq'[q][pc][w]
                 PROVE  inMod'[q][pc][w].st \in {"V", "S"} /\ flitQ[q][pc][w] # <<>>
      BY <1>1 DEF RequestsReady
    <3>1. CASE ~ (q = r /\ pc = i /\ w = v)
      <4>1. swReq[q][pc][w] /\ inMod'[q][pc][w] = inMod[q][pc][w]
        BY <2>12, <2>14, <3>1
      <4> QED
        BY <4>1 DEF ControlInv, RequestsReady
    <3>2. CASE q = r /\ pc = i /\ w = v
      BY <2>9, <2>12, <3>2 DEF ControlInv, HeadWaits
    <3> QED
      BY <3>1, <3>2
  <2>22. ASSUME NEW q \in Router, NEW a \in PC, xbar[q][a] # INVALID_VC
         PROVE  /\ xbar[q][a] \in VC
                /\ ~ (q = r /\ a = i /\ xbar[q][a] = v)
                /\ inMod'[q][a][xbar[q][a]] = inMod[q][a][xbar[q][a]]
                /\ flitQ'[q][a][xbar[q][a]] # <<>>
    <3>1. xbar[q][a] \in VC /\ inMod[q][a][xbar[q][a]].st = "S" /\ flitQ[q][a][xbar[q][a]] # <<>>
      BY <2>22 DEF TypeOK, ControlOK, ControlInv, XbarReady
    <3>2. ~ (q = r /\ a = i /\ xbar[q][a] = v)
      BY <2>9, <3>1
    <3> QED
      BY <1>1, <2>12, <3>1, <3>2, SMTT(30)
  <2>23. GrantedOnce'
    <3> SUFFICES ASSUME NEW q \in Router, NEW a \in PC, xbar[q][a] # INVALID_VC
                 PROVE  ~ swReq'[q][a][xbar[q][a]] /\ ~ AtStage(q, "SA")'
      BY <1>1 DEF GrantedOnce
    <3>1. ~ swReq[q][a][xbar[q][a]] /\ xbar[q][a] \in VC
      BY <2>22 DEF ControlInv, GrantedOnce
    <3>2. ~ swReq'[q][a][xbar[q][a]]
      BY <2>14, <2>22, <3>1, SMTT(30)
    <3>3. ~ AtStage(q, "SA")'
      BY <1>1, <2>3 DEF AtStage, GoOn
    <3> QED
      BY <3>2, <3>3
  <2>24. XbarReady'
    <3>1. ASSUME NEW q \in Router, NEW a \in PC, xbar[q][a] # INVALID_VC
          PROVE  /\ inMod'[q][a][xbar[q][a]] = inMod[q][a][xbar[q][a]]
                 /\ flitQ'[q][a][xbar[q][a]] # <<>>
      BY <2>22, <3>1
    <3> QED
      BY <1>1, <3>1, XbarKept, Zenon DEF ControlInv
  <2>25. VCExclusive'
    <3>1. ASSUME NEW q \in Router, NEW pc \in PC, NEW w \in VC
          PROVE  /\ outMod'[q][pc][w] = "V" <=> Holders(q, pc, w)' # {}
                 /\ \A y, z \in Holders(q, pc, w)' : y = z
      <4>1. /\ outMod[q][pc][w] = "V" <=> Holders(q, pc, w) # {}
            /\ \A y, z \in Holders(q, pc, w) : y = z
        BY SMTT(30) DEF ControlInv, VCExclusive
      <4>2. ASSUME NEW y \in PC \X VC, ~ (q = r /\ y = <<i, v>>)
            PROVE  y \in Holders(q, pc, w)' <=> y \in Holders(q, pc, w)
        <5>1. ~ (q = r /\ y[1] = i /\ y[2] = v)
          BY <4>2
        <5>2. inMod'[q][y[1]][y[2]] = inMod[q][y[1]][y[2]]
          BY <2>12, <5>1
        <5> QED
          BY <5>2 DEF Holders
      <4>3. <<i, v>> \notin Holders(r, pc, w)
        BY <2>9 DEF Holders
      <4>4. q = r => (<<i, v>> \in Holders(q, pc, w)' <=> pc = out /\ w = vc)
        BY <2>12, SMTT(30) DEF Holders
      <4>5. Holders(q, pc, w) \in SUBSET (PC \X VC) /\ Holders(q, pc, w)' \in SUBSET (PC \X VC)
        BY DEF Holders
      <4>6. CASE ~ (q = r /\ pc = out /\ w = vc)
        <5>1. Holders(q, pc, w)' = Holders(q, pc, w)
          BY <4>2, <4>3, <4>4, <4>5, <4>6
        <5>2. outMod'[q][pc][w] = outMod[q][pc][w]
          BY <2>13, <4>6
        <5> QED
          BY <4>1, <5>1, <5>2
      <4>7. CASE q = r /\ pc = out /\ w = vc
        <5>1. Holders(q, pc, w) = {}
          BY <2>8, <4>1, <4>7
        <5>2. Holders(q, pc, w)' = {<<i, v>>}
          BY <4>2, <4>4, <4>5, <4>7, <5>1
        <5> QED
          BY <2>13, <4>7, <5>2
      <4> QED
        BY <4>6, <4>7
    <3> QED
      BY <3>1 DEF VCExclusive
  <2> QED
    BY <2>17, <2>18, <2>19, <2>20, <2>21, <2>23, <2>24, <2>25 DEF ControlInv
<1> QED
  BY <1>3, <1>4

\* Lists of nothing and of one thing.
LEMMA ShortLists ==
  ASSUME NEW x
  PROVE  SetToSeq({}) = <<>> /\ SetToSeq({x}) = <<x>>
<1>1. SetToSeq({}) = <<>>
  <2>1. Cardinality({}) = 0
    BY FS_EmptySet
  <2>2. <<>> \in [1 .. 0 -> {}] /\ IsInjective(<<>>)
    BY DEF IsInjective
  <2>3. \A f \in [1 .. 0 -> {}] : f = <<>>
    OBVIOUS
  <2>4. \E f \in [1 .. Cardinality({}) -> {}] : IsInjective(f)
    BY <2>1, <2>2
  <2>5. SetToSeq({}) \in [1 .. Cardinality({}) -> {}]
    BY <2>4 DEF SetToSeq
  <2> QED
    BY <2>1, <2>3, <2>5
<1>2. SetToSeq({x}) = <<x>>
  <2> DEFINE one == [n \in 1 .. 1 |-> x]
             s == SetToSeq({x})
  <2>1. Cardinality({x}) = 1
    BY FS_Singleton
  <2>2. one \in [1 .. 1 -> {x}] /\ IsInjective(one)
    BY DEF IsInjective
  <2>3. \E f \in [1 .. Cardinality({x}) -> {x}] : IsInjective(f)
    BY <2>1, <2>2
  <2>4. s \in [1 .. Cardinality({x}) -> {x}]
    BY <2>3 DEF SetToSeq
  <2> HIDE DEF s
  <2>5. s \in [1 .. 1 -> {x}]
    BY <2>1, <2>4
  <2>6. s \in Seq({x}) /\ Len(s) = 1 /\ s[1] = x
    <3>1. s[1] = x /\ DOMAIN s = 1 .. 1
      BY <2>5
    <3>2. s \in Seq({x})
      <4>1. \A n \in Nat : \A t \in [1 .. n -> {x}] : t \in Seq({x})
        OBVIOUS
      <4> QED
        BY <2>5, <4>1
    <3>3. DOMAIN s = 1 .. Len(s) /\ Len(s) \in Nat
      BY <3>2
    <3> QED
      BY <3>1, <3>2, <3>3
  <2>7. <<x>> \in Seq({x}) /\ Len(<<x>>) = 1 /\ <<x>>[1] = x
    OBVIOUS
  <2>8. \A i \in 1 .. Len(s) : s[i] = <<x>>[i]
    BY <2>6, <2>7
  <2>9. s = <<x>>
    BY <2>6, <2>7, <2>8, SeqEqual
  <2> QED
    BY <2>9 DEF s
<1> QED
  BY <1>1, <1>2

\* What crosses a link is appended to the VC it was sent to; nothing else comes.
LEMMA Landed ==
  ASSUME TypeOK, NEW r \in Router, StageLT(r), NEW q \in Router, NEW pc \in PC, NEW vc \in VC
  PROVE  /\ flitQ'[q][pc][vc] \in Seq(Flit)
         /\ \A l \in Crossed(r) : Wire[l] = <<q, pc>> /\ Head(pipe[l]).vc = vc =>
              flitQ'[q][pc][vc] = Append(flitQ[q][pc][vc], Head(pipe[l]).f)
         /\ (\A l \in Crossed(r) : ~ (Wire[l] = <<q, pc>> /\ Head(pipe[l]).vc = vc)) =>
              flitQ'[q][pc][vc] = flitQ[q][pc][vc]
<1> DEFINE landed == {l \in Crossed(r) : Wire[l] = <<q, pc>> /\ Head(pipe[l]).vc = vc}
           new == {Head(pipe[l]).f : l \in landed}
           s == flitQ[q][pc][vc]
<1>1. flitQ'[q][pc][vc] = s \o SetToSeq(new)
  BY Zenon DEF StageLT
<1>2. s \in Seq(Flit)
  BY DEF TypeOK, BuffersOK
<1> HIDE DEF s
<1>3. ASSUME NEW l \in landed
      PROVE  /\ flitQ'[q][pc][vc] = Append(s, Head(pipe[l]).f)
             /\ flitQ'[q][pc][vc] \in Seq(Flit)
  <2>1. l \in Link /\ pipe[l] # <<>> /\ pipe[l] \in Seq(InFlight)
    BY DEF Crossed, TypeOK, BuffersOK
  <2>2. Head(pipe[l]) \in InFlight
    BY <2>1
  <2>3. Head(pipe[l]).f \in Flit
    BY <2>2 DEF InFlight
  <2>4. \A k \in landed : k = l
    BY <2>1, WiresApart, Zenon DEF Crossed
  <2>5. new = {Head(pipe[l]).f}
    BY <2>4
  <2>6. SetToSeq(new) = <<Head(pipe[l]).f>>
    BY <2>5, ShortLists
  <2>7. s \o <<Head(pipe[l]).f>> = Append(s, Head(pipe[l]).f)
    BY <1>2, <2>3, AppendIsConcat
  <2>8. Append(s, Head(pipe[l]).f) \in Seq(Flit)
    BY <1>2, <2>3, AppendProperties
  <2> HIDE DEF new
  <2> QED
    BY <1>1, <2>6, <2>7, <2>8
<1>4. ASSUME landed = {}
      PROVE  flitQ'[q][pc][vc] = s
  <2>1. new = {}
    BY <1>4
  <2>2. SetToSeq(new) = <<>>
    BY <2>1, ShortLists
  <2> QED
    BY <1>1, <1>2, <2>2, ConcatEmptySeq
<1> QED
  BY <1>2, <1>3, <1>4, Zenon DEF s

\* Link traversal.
LEMMA LinkTraversal ==
  ASSUME TypeOK, ControlInv, NEW r \in Router, StageLT(r)
  PROVE  TypeOK' /\ ControlInv'
<1> DEFINE crossed == Crossed(r)
           first == {l \in crossed : \A k \in crossed : Wire[k][1] = Wire[l][1] => l[2] <= k[2]}
           wakeup == [o \in {l[2] : l \in {k \in first : inside[Wire[k][1]] = 0}} |->
                        <<0, Wire[<<r, o>>][1]>>]
<1>1. AtStage(r, "LT") /\ NextStage(Woken(wakeup)) /\ ev' = Signalled(wakeup)
  BY ZenonT(60) DEF StageLT
<1>2. UNCHANGED <<ctlVars, creditVars, niInVars, niOutVars>>
  BY DEF StageLT
<1>3. ASSUME NEW l \in crossed
      PROVE  /\ l \in Link /\ l[1] = r /\ pipe[l] # <<>> /\ l = <<r, l[2]>>
             /\ Wire[l][1] \in Router /\ Wire[l][2] \in PC
             /\ Head(pipe[l]).f.p \in Packet /\ Tail(pipe[l]) \in Seq(InFlight)
  <2>1. l \in Link /\ l[1] = r /\ pipe[l] # <<>>
    BY DEF Crossed
  <2>2. Head(pipe[l]) \in InFlight /\ Tail(pipe[l]) \in Seq(InFlight)
    BY <2>1 DEF TypeOK, BuffersOK
  <2>3. Head(pipe[l]).f.p \in Packet
    BY <2>2 DEF InFlight, Flit
  <2> QED
    BY <2>1, <2>2, <2>3, NetworkAssumption
<1>4. Woken(wakeup) \in Seq(Procs)
  <2>1. DOMAIN wakeup \in SUBSET PC
    BY <1>3, NetworkAssumption
  <2>2. DOMAIN wakeup \in SUBSET Int /\ IsFiniteSet(DOMAIN wakeup)
    BY <2>1, Finite, FS_Subset
  <2>3. \A o \in DOMAIN wakeup : wakeup[o] \in Procs
    BY <1>3 DEF Procs
  <2> HIDE DEF wakeup
  <2> QED
    BY <2>2, <2>3, WokenReady
<1> HIDE DEF wakeup, first
<1>5. SchedulerOK'
  BY <1>1, <1>4, StageKept
<1>6. BuffersOK'
  <2>1. flitQ' \in [Router -> [PC -> [VC -> Seq(Flit)]]]
    <3>1. \A q \in Router, pc \in PC, vc \in VC : flitQ'[q][pc][vc] \in Seq(Flit)
      BY Landed, SMTT(30)
    <3> DEFINE e(q, pc, vc) == flitQ[q][pc][vc] \o SetToSeq({Head(pipe[l]).f : l \in
                 {l \in crossed : Wire[l] = <<q, pc>> /\ Head(pipe[l]).vc = vc}})
    <3>2. flitQ' = [q \in Router |-> [pc \in PC |-> [vc \in VC |-> e(q, pc, vc)]]]
      BY DEF StageLT
    <3> HIDE DEF e
    <3> QED
      BY <3>1, <3>2
  <2>2. pipe' \in [Link -> Seq(InFlight)]
    <3>1. pipe' = [l \in Link |-> IF l \in crossed THEN Tail(pipe[l]) ELSE pipe[l]]
      BY DEF StageLT
    <3> QED
      BY <1>3, <3>1, SMTT(30) DEF TypeOK, BuffersOK
  <2>3. inside' \in [Router -> Int]
    <3>1. IsFiniteSet(crossed)
      <4>1. crossed \in SUBSET Link
        BY <1>3
      <4> QED
        BY <4>1, Finite, FS_Subset
    <3>2. Cardinality(crossed) \in Nat
      BY <3>1, FS_CardinalityType
    <3> DEFINE c == [q \in Router |-> Cardinality({l \in crossed : Wire[l][1] = q})]
    <3>3. ASSUME NEW q \in Router
          PROVE  c[q] \in Nat
      <4> DEFINE C == {l \in crossed : Wire[l][1] = q}
      <4>1. C \in SUBSET crossed
        OBVIOUS
      <4> HIDE DEF C
      <4>2. Cardinality(C) \in Nat
        BY <3>1, <4>1, FS_Subset, FS_CardinalityType, SMTT(30)
      <4> QED
        BY <4>2 DEF C
    <3>4. inside' = [q \in Router |-> inside[q] + c[q] - (IF q = r THEN Cardinality(crossed) ELSE 0)]
      BY DEF StageLT
    <3> HIDE DEF c
    <3> QED
      BY <3>2, <3>3, <3>4 DEF TypeOK, BuffersOK
  <2>4. fresh' \subseteq Packet
    <3>1. fresh' = fresh \cup {Head(pipe[l]).f.p : l \in {k \in crossed : isHead(Head(pipe[k]).f)}}
      BY DEF StageLT
    <3> QED
      BY <1>3, <3>1, SMTT(30) DEF TypeOK, BuffersOK
  <2> QED
    BY <2>1, <2>2, <2>3, <2>4 DEF BuffersOK
<1>7. TypeOK'
  BY <1>2, <1>5, <1>6 DEF TypeOK, ControlOK, CreditsOK, InterfacesOK,
     ctlVars, creditVars, niInVars, niOutVars
<1>8. ASSUME NEW q \in Router
      PROVE  ~ AtStage(q, "SA")'
  <2>1. "LT" # "ST"
    OBVIOUS
  <2> QED
    BY <1>1, <1>4, <2>1, AfterStage
<1>9. ASSUME NEW q \in Router, NEW pc \in PC, NEW vc \in VC, flitQ[q][pc][vc] # <<>>
      PROVE  flitQ'[q][pc][vc] # <<>> /\ Head(flitQ'[q][pc][vc]) = Head(flitQ[q][pc][vc])
  <2>1. CASE \A l \in crossed : ~ (Wire[l] = <<q, pc>> /\ Head(pipe[l]).vc = vc)
    BY <1>9, <2>1, Landed, ZenonT(60)
  <2>2. CASE \E l \in crossed : Wire[l] = <<q, pc>> /\ Head(pipe[l]).vc = vc
    <3>1. PICK l \in crossed : Wire[l] = <<q, pc>> /\ Head(pipe[l]).vc = vc
      BY <2>2
    <3> DEFINE s == flitQ[q][pc][vc]
               f == Head(pipe[l]).f
    <3>2. flitQ'[q][pc][vc] = Append(s, f) /\ s \in Seq(Flit) /\ s # <<>>
      BY <1>9, <3>1, Landed DEF TypeOK, BuffersOK
    <3>3. f \in Flit
      <4>1. Head(pipe[l]) \in InFlight
        BY <1>3 DEF TypeOK, BuffersOK
      <4> QED
        BY <4>1 DEF InFlight
    <3> HIDE DEF s, f
    <3>4. Append(s, f) # <<>> /\ Head(Append(s, f)) = Head(s)
      BY <3>2, <3>3
    <3> QED
      BY <3>2, <3>4 DEF s
  <2> QED
    BY <2>1, <2>2
<1>10. UNCHANGED <<inMod, outMod, vaQ, swReq, xbar, outFree>>
  BY <1>2 DEF ctlVars
<1> QED
  BY <1>7, <1>8, <1>9, <1>10, ControlKept

\* What an arbitration comes down to: input ports G are granted, port i for its
\* VC sel[i].  Each could go, and no two go to the same output port.
Matched(r, cand, G, sel) ==
  /\ \A i \in G : cand[i][sel[i]] /\ CanGo(r, i, inMod[r][i][sel[i]])
  /\ \A i, j \in G : inMod[r][i][sel[i]].pc = inMod[r][j][sel[j]].pc => i = j

\* The credits that they take.
Charged(r, G, sel) ==
  \E taken \in [{inMod[r][i][sel[i]].pc : i \in G} \ LocalPC -> VC] :
    /\ \A i \in G : ~ isEjectChannel(inMod[r][i][sel[i]].pc) =>
         taken[inMod[r][i][sel[i]].pc] = inMod[r][i][sel[i]].vc
    /\ decCredit(r, taken)

\* The switch is set for them.
SwitchSet(r, req, G, sel) ==
  /\ swReq' = [swReq EXCEPT ![r] = [i \in PC |-> [vc \in VC |->
                 req[i][vc] /\ ~ (i \in G /\ vc = sel[i])]]]
  /\ xbar' = [xbar EXCEPT ![r] = [i \in PC |-> IF i \in G THEN sel[i] ELSE @[i]]]
  /\ outFree' = [outFree EXCEPT ![r] = [o \in PC |->
                   @[o] /\ \A i \in G : inMod[r][i][sel[i]].pc # o]]
  /\ inMod' = [inMod EXCEPT ![r] = [i \in PC |-> [vc \in VC |->
                 IF i \in G /\ vc = sel[i] /\ isHead(Head(flitQ[r][i][vc]))
                 THEN [@[i][vc] EXCEPT !.st = "S"] ELSE @[i][vc]]]]

\* The arbiters' choices are such a matching, whatever their states.
LEMMA ArbitersMatch ==
  ASSUME TypeOK, Routed, NEW r \in Router, NEW k \in 1 .. 2, NEW req, NEW cand,
         \A i \in PC, vc \in VC : cand[i][vc] => inMod[r][i][vc].st \in {"V", "S"},
         Allocate(r, req, cand, k)
  PROVE  /\ \E G \in SUBSET PC : \E sel \in [G -> VC] :
              Matched(r, cand, G, sel) /\ Charged(r, G, sel) /\ SwitchSet(r, req, G, sel)
         /\ v1' \in [Router -> [1 .. 2 -> [PC -> Arbiter(NumVC)]]]
         /\ p1' \in [Router -> [1 .. 2 -> [PC -> Arbiter(NumPC)]]]
<1> DEFINE vcs(i) == {vc \in VC : cand[i][vc]}
           ports == {i \in PC : vcs(i) # {}}
           sel(i) == V1Select(v1[r][k][i], vcs(i))
           mod(i) == inMod[r][i][sel(i)]
           eligible == {i \in ports : CanGo(r, i, mod(i))}
           outs == {mod(i).pc : i \in eligible}
           asking(o) == {i \in eligible : mod(i).pc = o}
           winner(o) == P1Select(p1[r][k][o], asking(o))
           G == {winner(o) : o \in outs}
           choice == [i \in G |-> sel(i)]
<1>1. v1' = [v1 EXCEPT ![r][k] = [i \in PC |-> IF i \in ports THEN V1Next(@[i], sel(i)) ELSE @[i]]]
  BY Zenon DEF Allocate
<1>2. p1' = [p1 EXCEPT ![r][k] = [o \in PC |-> IF o \in outs THEN P1Next(@[o], winner(o)) ELSE @[o]]]
  BY Zenon DEF Allocate
<1>3. decCredit(r, [o \in outs \ LocalPC |-> mod(winner(o)).vc])
  BY Zenon DEF Allocate
<1>4. swReq' = [swReq EXCEPT ![r] = [i \in PC |-> [vc \in VC |->
                  req[i][vc] /\ ~ (i \in G /\ vc = sel(i))]]]
  BY Zenon DEF Allocate
<1>5. xbar' = [xbar EXCEPT ![r] = [i \in PC |-> IF i \in G THEN sel(i) ELSE @[i]]]
  BY Zenon DEF Allocate
<1>6. outFree' = [outFree EXCEPT ![r] = [o \in PC |-> @[o] /\ o \notin outs]]
  BY Zenon DEF Allocate
<1>7. inMod' = [inMod EXCEPT ![r] = [i \in PC |-> [vc \in VC |->
                  IF i \in G /\ vc = sel(i) /\ isHead(Head(flitQ[r][i][vc]))
                  THEN [@[i][vc] EXCEPT !.st = "S"] ELSE @[i][vc]]]]
  BY Zenon DEF Allocate
<1>8. /\ \A i \in PC : v1[r][k][i] \in Arbiter(NumVC)
      /\ \A o \in PC : p1[r][k][o] \in Arbiter(NumPC)
  BY DEF TypeOK, ControlOK
<1>9. ASSUME NEW i \in ports
      PROVE  /\ sel(i) \in VC /\ cand[i][sel(i)]
             /\ V1Next(v1[r][k][i], sel(i)) \in Arbiter(NumVC)
  <2>1. vcs(i) \in SUBSET VC /\ vcs(i) # {} /\ i \in PC
    OBVIOUS
  <2> HIDE DEF vcs, ports
  <2>2. sel(i) \in vcs(i) /\ V1Next(v1[r][k][i], sel(i)) \in Arbiter(NumVC)
    BY <1>8, <2>1, V1Works
  <2> QED
    BY <2>2 DEF vcs
<1> HIDE DEF sel, vcs
<1>10. ASSUME NEW i \in eligible
       PROVE  /\ i \in PC /\ mod(i).pc \in PC /\ mod(i).vc \in VC /\ CanGo(r, i, mod(i))
              /\ sel(i) \in VC /\ cand[i][sel(i)]
  <2>1. i \in PC /\ sel(i) \in VC /\ cand[i][sel(i)] /\ CanGo(r, i, mod(i))
    BY <1>9
  <2>2. inMod[r][i][sel(i)].st \in {"V", "S"}
    BY <2>1
  <2>3. inMod[r][i][sel(i)].pc \in PC /\ inMod[r][i][sel(i)].vc \in VC
    BY <2>1, <2>2 DEF Routed
  <2> QED
    BY <2>1, <2>3
<1>11. eligible \in SUBSET PC
  OBVIOUS
<1> HIDE DEF eligible, mod, ports
<1>12. ASSUME NEW o \in outs
       PROVE  /\ o \in PC /\ winner(o) \in eligible /\ mod(winner(o)).pc = o
              /\ P1Next(p1[r][k][o], winner(o)) \in Arbiter(NumPC)
  <2>1. asking(o) \in SUBSET PC /\ asking(o) # {} /\ o \in PC
    BY <1>10, <1>11
  <2> HIDE DEF asking, outs
  <2>2. winner(o) \in asking(o) /\ P1Next(p1[r][k][o], winner(o)) \in Arbiter(NumPC)
    BY <1>8, <2>1, P1Works
  <2> QED
    BY <2>1, <2>2 DEF asking
<1> HIDE DEF winner, asking
<1>13. ASSUME NEW i \in G
       PROVE  /\ i \in eligible /\ mod(i).pc \in outs /\ i = winner(mod(i).pc)
  BY <1>12
<1>14. outs = {mod(i).pc : i \in G}
  BY <1>12, <1>13
<1>15. v1' \in [Router -> [1 .. 2 -> [PC -> Arbiter(NumVC)]]]
  <2> DEFINE next == [i \in PC |-> IF i \in ports THEN V1Next(v1[r][k][i], sel(i)) ELSE v1[r][k][i]]
  <2>1. next \in [PC -> Arbiter(NumVC)]
    BY <1>8, <1>9
  <2>2. v1' = [v1 EXCEPT ![r][k] = next]
    BY <1>1
  <2> HIDE DEF next
  <2> QED
    BY <2>1, <2>2 DEF TypeOK, ControlOK
<1>16. p1' \in [Router -> [1 .. 2 -> [PC -> Arbiter(NumPC)]]]
  <2> DEFINE next == [o \in PC |-> IF o \in outs THEN P1Next(p1[r][k][o], winner(o)) ELSE p1[r][k][o]]
  <2>1. next \in [PC -> Arbiter(NumPC)]
    BY <1>8, <1>12
  <2>2. p1' = [p1 EXCEPT ![r][k] = next]
    BY <1>2
  <2> HIDE DEF next
  <2> QED
    BY <2>1, <2>2 DEF TypeOK, ControlOK
<1>17. G \in SUBSET PC /\ choice \in [G -> VC]
  BY <1>10, <1>11, <1>13
<1>18. \A i \in G : choice[i] = sel(i) /\ inMod[r][i][choice[i]] = mod(i)
  BY DEF mod
<1>19. Matched(r, cand, G, choice)
  <2>1. \A i \in G : cand[i][choice[i]] /\ CanGo(r, i, inMod[r][i][choice[i]])
    BY <1>10, <1>13, <1>18
  <2>2. \A i, j \in G : mod(i).pc = mod(j).pc => i = j
    BY <1>13
  <2> HIDE DEF G, choice
  <2> QED
    BY <1>18, <2>1, <2>2 DEF Matched
<1>20. Charged(r, G, choice)
  <2> DEFINE taken == [o \in outs \ LocalPC |-> mod(winner(o)).vc]
  <2>1. taken \in [outs \ LocalPC -> VC]
    BY <1>10, <1>12
  <2>2. \A i \in G : ~ isEjectChannel(mod(i).pc) => taken[mod(i).pc] = mod(i).vc
    BY <1>13 DEF isEjectChannel
  <2> HIDE DEF taken, G, choice, outs
  <2>3. outs = {inMod[r][i][choice[i]].pc : i \in G}
    BY <1>14, <1>18
  <2>4. /\ \A i \in G : ~ isEjectChannel(inMod[r][i][choice[i]].pc) =>
             taken[inMod[r][i][choice[i]].pc] = inMod[r][i][choice[i]].vc
        /\ decCredit(r, taken)
    BY <1>3, <1>18, <2>2 DEF taken
  <2> QED
    BY <2>1, <2>3, <2>4, Zenon DEF Charged
<1>21. SwitchSet(r, req, G, choice)
  <2> HIDE DEF G, choice
  <2>1. swReq' = [swReq EXCEPT ![r] = [i \in PC |-> [vc \in VC |->
                    req[i][vc] /\ ~ (i \in G /\ vc = choice[i])]]]
    <3>1. \A i \in PC, vc \in VC : i \in G /\ vc = sel(i) <=> i \in G /\ vc = choice[i]
      BY <1>18, Zenon
    <3>2. \A i \in PC : [vc \in VC |-> req[i][vc] /\ ~ (i \in G /\ vc = sel(i))]
                        = [vc \in VC |-> req[i][vc] /\ ~ (i \in G /\ vc = choice[i])]
      BY <3>1, Zenon
    <3> QED
      BY <1>4, <3>2, Zenon
  <2>2. xbar' = [xbar EXCEPT ![r] = [i \in PC |-> IF i \in G THEN choice[i] ELSE @[i]]]
    BY <1>5, <1>18
  <2>3. outFree' = [outFree EXCEPT ![r] = [o \in PC |->
                      @[o] /\ \A i \in G : inMod[r][i][choice[i]].pc # o]]
    <3>1. \A o \in PC : o \notin outs <=> \A i \in G : inMod[r][i][choice[i]].pc # o
      BY <1>14, <1>18
    <3> HIDE DEF outs
    <3> QED
      BY <1>6, <3>1
  <2>4. inMod' = [inMod EXCEPT ![r] = [i \in PC |-> [vc \in VC |->
                    IF i \in G /\ vc = choice[i] /\ isHead(Head(flitQ[r][i][vc]))
                    THEN [@[i][vc] EXCEPT !.st = "S"] ELSE @[i][vc]]]]
    <3> DEFINE set(i, vc) == i \in G /\ vc = sel(i) /\ isHead(Head(flitQ[r][i][vc]))
               put(i, vc) == i \in G /\ vc = choice[i] /\ isHead(Head(flitQ[r][i][vc]))
    <3>1. \A i \in PC, vc \in VC : set(i, vc) <=> put(i, vc)
      BY <1>18, Zenon
    <3>2. inMod' = [inMod EXCEPT ![r] = [i \in PC |-> [vc \in VC |->
                      IF set(i, vc) THEN [@[i][vc] EXCEPT !.st = "S"] ELSE @[i][vc]]]]
      BY <1>7, Zenon
    <3> HIDE DEF set, put
    <3>3. \A i \in PC : [vc \in VC |-> IF set(i, vc) THEN [inMod[r][i][vc] EXCEPT !.st = "S"]
                                                     ELSE inMod[r][i][vc]]
                        = [vc \in VC |-> IF put(i, vc) THEN [inMod[r][i][vc] EXCEPT !.st = "S"]
                                                       ELSE inMod[r][i][vc]]
      BY <3>1, Zenon
    <3>4. inMod' = [inMod EXCEPT ![r] = [i \in PC |-> [vc \in VC |->
                      IF put(i, vc) THEN [@[i][vc] EXCEPT !.st = "S"] ELSE @[i][vc]]]]
      BY <3>2, <3>3, Zenon
    <3> QED
      BY <3>4, Zenon DEF put
  <2> QED
    BY <2>1, <2>2, <2>3, <2>4 DEF SwitchSet
<1> QED
  BY <1>15, <1>16, <1>17, <1>19, <1>20, <1>21, Zenon

\* Credits are numbers, whatever is taken.
LEMMA CreditsTaken ==
  ASSUME TypeOK, NEW r \in Router, NEW taken, decCredit(r, taken)
  PROVE  /\ credit' \in [Router -> [PC -> [VC -> Int]]]
         /\ rsv' \in [Router -> [PC -> [VC -> Int]]]
<1> DEFINE less(count, ports) ==
             [pc \in PC |-> [vc \in VC |->
                IF pc \in ports /\ vc = taken[pc] THEN count[pc][vc] - 1 ELSE count[pc][vc]]]
<1> DEFINE earlier(pc) == IF BufferType # "DAMQ_R" THEN 0
                          ELSE Cardinality({o \in DOMAIN taken : o < pc})
           shared == {pc \in DOMAIN taken :
                        \/ BufferType = "SAMQ"
                        \/ SharedCredits(r, credit[r], pc, taken[pc]) > earlier(pc)}
<1>1. /\ credit' = [credit EXCEPT ![r] = less(credit[r], shared)]
      /\ rsv' = [rsv EXCEPT ![r] = less(rsv[r], DOMAIN taken \ shared)]
  BY DEF decCredit
<1>2. \A count \in [PC -> [VC -> Int]] : \A ports : less(count, ports) \in [PC -> [VC -> Int]]
  OBVIOUS
<1>3. /\ credit \in [Router -> [PC -> [VC -> Int]]]
      /\ rsv \in [Router -> [PC -> [VC -> Int]]]
  BY DEF TypeOK, CreditsOK
<1> HIDE DEF less, shared
<1> QED
  BY <1>1, <1>2, <1>3

\* Setting the switch for a matching keeps the control in order.
LEMMA SwitchGranted ==
  ASSUME TypeOK, ControlInv, NEW r \in Router, NEW req, NEW cand,
         \A i \in PC, vc \in VC : cand[i][vc] => req[i][vc],
         \A i \in PC, vc \in VC : req[i][vc] =>
           /\ inMod[r][i][vc].st \in {"V", "S"} /\ flitQ[r][i][vc] # <<>>
           /\ xbar[r][i] # vc,
         \A i \in PC, vc \in VC : req[i][vc] \in BOOLEAN,
         NEW G \in SUBSET PC, NEW sel \in [G -> VC],
         Matched(r, cand, G, sel), SwitchSet(r, req, G, sel),
         UNCHANGED <<flitQ, outMod, vaQ>>, \A q \in Router : ~ AtStage(q, "SA")'
  PROVE  /\ ControlInv'
         /\ inMod' \in [Router -> [PC -> [VC -> Mod]]]
         /\ swReq' \in [Router -> [PC -> [VC -> BOOLEAN]]]
         /\ xbar' \in [Router -> [PC -> VC \cup {INVALID_VC}]]
         /\ outFree' \in [Router -> [PC -> BOOLEAN]]
<1> DEFINE goes(i, vc) == i \in G /\ vc = sel[i] /\ isHead(Head(flitQ[r][i][vc]))
<1>1. /\ inMod' \in [Router -> [PC -> [VC -> Mod]]]
      /\ \A q \in Router \ {r} : inMod'[q] = inMod[q]
      /\ \A i \in PC, vc \in VC :
           inMod'[r][i][vc] = IF goes(i, vc) THEN [inMod[r][i][vc] EXCEPT !.st = "S"]
                              ELSE inMod[r][i][vc]
  <2> DEFINE m(i, vc) == IF goes(i, vc) THEN [inMod[r][i][vc] EXCEPT !.st = "S"]
                         ELSE inMod[r][i][vc]
             mods == [i \in PC |-> [vc \in VC |-> m(i, vc)]]
  <2>1. inMod \in [Router -> [PC -> [VC -> Mod]]]
    BY DEF TypeOK, ControlOK
  <2>2. inMod' = [inMod EXCEPT ![r] = mods]
    BY DEF SwitchSet
  <2>3. ASSUME NEW i \in PC, NEW vc \in VC
        PROVE  m(i, vc) \in Mod
    <3>1. inMod[r][i][vc] \in Mod
      BY <2>1
    <3>2. \A x \in Mod : [x EXCEPT !.st = "S"] \in Mod
      BY DEF Mod
    <3> QED
      BY <3>1, <3>2
  <2> HIDE DEF m
  <2>4. mods \in [PC -> [VC -> Mod]] /\ \A i \in PC, vc \in VC : mods[i][vc] = m(i, vc)
    BY <2>3
  <2> HIDE DEF mods
  <2>5. /\ inMod' \in [Router -> [PC -> [VC -> Mod]]] /\ inMod'[r] = mods
        /\ \A q \in Router \ {r} : inMod'[q] = inMod[q]
    BY <2>1, <2>2, <2>4
  <2> QED
    BY <2>4, <2>5 DEF m
<1>2. /\ swReq' \in [Router -> [PC -> [VC -> BOOLEAN]]]
      /\ \A q \in Router \ {r} : swReq'[q] = swReq[q]
      /\ \A i \in PC, vc \in VC :
           swReq'[r][i][vc] <=> req[i][vc] /\ ~ (i \in G /\ vc = sel[i])
  <2> DEFINE b(i, vc) == req[i][vc] /\ ~ (i \in G /\ vc = sel[i])
             reqs == [i \in PC |-> [vc \in VC |-> b(i, vc)]]
  <2>1. swReq \in [Router -> [PC -> [VC -> BOOLEAN]]]
    BY DEF TypeOK, ControlOK
  <2>2. swReq' = [swReq EXCEPT ![r] = reqs]
    BY DEF SwitchSet
  <2>3. \A i \in PC, vc \in VC : b(i, vc) \in BOOLEAN
    OBVIOUS
  <2> HIDE DEF b
  <2>4. reqs \in [PC -> [VC -> BOOLEAN]] /\ \A i \in PC, vc \in VC : reqs[i][vc] = b(i, vc)
    BY <2>3
  <2> HIDE DEF reqs
  <2>5. /\ swReq' \in [Router -> [PC -> [VC -> BOOLEAN]]] /\ swReq'[r] = reqs
        /\ \A q \in Router \ {r} : swReq'[q] = swReq[q]
    BY <2>1, <2>2, <2>4
  <2> QED
    BY <2>4, <2>5 DEF b
<1>3. /\ xbar' \in [Router -> [PC -> VC \cup {INVALID_VC}]]
      /\ \A q \in Router \ {r} : xbar'[q] = xbar[q]
      /\ \A i \in PC : xbar'[r][i] = IF i \in G THEN sel[i] ELSE xbar[r][i]
  <2>1. xbar \in [Router -> [PC -> VC \cup {INVALID_VC}]]
    BY DEF TypeOK, ControlOK
  <2>2. xbar' = [xbar EXCEPT ![r] = [i \in PC |-> IF i \in G THEN sel[i] ELSE @[i]]]
    BY DEF SwitchSet
  <2> QED
    BY <2>1, <2>2
<1>4. /\ outFree' \in [Router -> [PC -> BOOLEAN]]
      /\ \A q \in Router \ {r} : outFree'[q] = outFree[q]
      /\ \A o \in PC : outFree'[r][o] <=>
           outFree[r][o] /\ \A i \in G : inMod[r][i][sel[i]].pc # o
  <2> DEFINE b(o) == outFree[r][o] /\ \A i \in G : inMod[r][i][sel[i]].pc # o
             free == [o \in PC |-> b(o)]
  <2>1. outFree \in [Router -> [PC -> BOOLEAN]]
    BY DEF TypeOK, ControlOK
  <2>2. outFree' = [outFree EXCEPT ![r] = free]
    BY DEF SwitchSet
  <2>3. \A o \in PC : b(o) \in BOOLEAN
    BY <2>1
  <2> HIDE DEF b
  <2>4. free \in [PC -> BOOLEAN] /\ \A o \in PC : free[o] = b(o)
    BY <2>3
  <2> HIDE DEF free
  <2>5. /\ outFree' \in [Router -> [PC -> BOOLEAN]] /\ outFree'[r] = free
        /\ \A q \in Router \ {r} : outFree'[q] = outFree[q]
    BY <2>1, <2>2, <2>4
  <2> QED
    BY <2>4, <2>5 DEF b
<1>5. ASSUME NEW i \in G
      PROVE  /\ i \in PC /\ sel[i] \in VC /\ req[i][sel[i]]
             /\ inMod[r][i][sel[i]].st \in {"V", "S"} /\ flitQ[r][i][sel[i]] # <<>>
             /\ inMod[r][i][sel[i]].pc \in PC
             /\ xbar[r][i] = INVALID_VC /\ outFree[r][inMod[r][i][sel[i]].pc]
             /\ inMod'[r][i][sel[i]].st = "S"
  <2>1. i \in PC /\ sel[i] \in VC
    OBVIOUS
  <2>2. req[i][sel[i]] /\ CanGo(r, i, inMod[r][i][sel[i]])
    BY <2>1 DEF Matched
  <2>3. inMod[r][i][sel[i]].st \in {"V", "S"} /\ flitQ[r][i][sel[i]] # <<>>
    BY <2>1, <2>2
  <2>4. inMod[r][i][sel[i]].pc \in PC
    BY <2>1, <2>3 DEF ControlInv, Routed
  <2>5. xbar[r][i] = INVALID_VC /\ outFree[r][inMod[r][i][sel[i]].pc]
    BY <2>2 DEF CanGo
  <2>6. inMod'[r][i][sel[i]].st = "S"
    <3>1. inMod[r][i][sel[i]] \in Mod
      BY <2>1 DEF TypeOK, ControlOK
    <3>2. CASE isHead(Head(flitQ[r][i][sel[i]]))
      <4>1. inMod'[r][i][sel[i]] = [inMod[r][i][sel[i]] EXCEPT !.st = "S"]
        BY <1>1, <2>1, <3>2
      <4> QED
        BY <3>1, <4>1 DEF Mod
    <3>3. CASE ~ isHead(Head(flitQ[r][i][sel[i]]))
      <4>1. inMod[r][i][sel[i]].st # "V"
        BY <2>1, <3>3 DEF ControlInv, HeadWaits
      <4> QED
        BY <1>1, <2>1, <2>3, <3>3, <4>1, ZenonT(60)
    <3> QED
      BY <3>2, <3>3
  <2> QED
    BY <2>1, <2>2, <2>3, <2>4, <2>5, <2>6
<1>6. ASSUME NEW q \in Router, NEW i \in PC, NEW vc \in VC
      PROVE  /\ inMod'[q][i][vc].pc = inMod[q][i][vc].pc
             /\ inMod'[q][i][vc].vc = inMod[q][i][vc].vc
             /\ \/ inMod'[q][i][vc] = inMod[q][i][vc]
                \/ /\ q = r /\ i \in G /\ vc = sel[i]
                   /\ inMod'[q][i][vc].st = "S" /\ inMod[q][i][vc].st \in {"V", "S"}
  <2>1. inMod[q][i][vc] \in Mod
    BY DEF TypeOK, ControlOK
  <2>2. CASE q = r /\ goes(i, vc)
    <3>1. inMod'[q][i][vc] = [inMod[q][i][vc] EXCEPT !.st = "S"]
      BY <1>1, <2>2, SMTT(30)
    <3>2. q = r /\ i \in G /\ vc = sel[i] /\ inMod[q][i][vc].st \in {"V", "S"}
      BY <1>5, <2>2
    <3>3. \A x \in Mod : LET y == [x EXCEPT !.st = "S"]
                         IN  y.st = "S" /\ y.pc = x.pc /\ y.vc = x.vc
      BY DEF Mod
    <3>4. /\ inMod'[q][i][vc].st = "S" /\ inMod'[q][i][vc].pc = inMod[q][i][vc].pc
          /\ inMod'[q][i][vc].vc = inMod[q][i][vc].vc
      <4> DEFINE x == inMod[q][i][vc]
      <4>1. x \in Mod /\ inMod'[q][i][vc] = [x EXCEPT !.st = "S"]
        BY <2>1, <3>1
      <4> HIDE DEF x
      <4>2. inMod'[q][i][vc].st = "S" /\ inMod'[q][i][vc].pc = x.pc /\ inMod'[q][i][vc].vc = x.vc
        BY <3>3, <4>1
      <4> QED
        BY <4>2 DEF x
    <3> QED
      BY <3>2, <3>4
  <2>3. CASE q # r
    BY <1>1, <2>3
  <2>4. CASE q = r /\ ~ goes(i, vc)
    <3>1. inMod'[r][i][vc] = inMod[r][i][vc]
      BY <1>1, <2>4, ZenonT(60)
    <3> QED
      BY <2>4, <3>1
  <2> QED
    BY <2>2, <2>3, <2>4, Zenon
<1> HIDE DEF goes
<1>7. Routed'
  <2> SUFFICES ASSUME NEW q \in Router, NEW pc \in PC, NEW vc \in VC
               PROVE  LET m == inMod'[q][pc][vc]
                      IN  /\ m.st \in {"R", "V", "S"} =>
                               m.pc \in PC /\ (isEjectChannel(m.pc) \/ <<q, m.pc>> \in Link)
                          /\ m.st \in {"V", "S"} => m.vc \in VC
    BY Zenon DEF Routed, isEjectChannel
  <2>1. LET m == inMod[q][pc][vc]
        IN  /\ m.st \in {"R", "V", "S"} =>
                 m.pc \in PC /\ (isEjectChannel(m.pc) \/ <<q, m.pc>> \in Link)
            /\ m.st \in {"V", "S"} => m.vc \in VC
    BY DEF ControlInv, Routed
  <2>2. CASE inMod'[q][pc][vc] = inMod[q][pc][vc]
    BY <2>1, <2>2
  <2>3. CASE inMod'[q][pc][vc] # inMod[q][pc][vc]
    <3>1. /\ inMod'[q][pc][vc].pc = inMod[q][pc][vc].pc
          /\ inMod'[q][pc][vc].vc = inMod[q][pc][vc].vc
          /\ inMod[q][pc][vc].st \in {"V", "S"}
      BY <1>6, <2>3
    <3> QED
      BY <2>1, <3>1
  <2> QED
    BY <2>2, <2>3, Zenon
<1>8. HeadWaits'
  <2> SUFFICES ASSUME NEW q \in Router, NEW pc \in PC, NEW vc \in VC,
                      inMod'[q][pc][vc].st \in {"R", "V"}
               PROVE  flitQ[q][pc][vc] # <<>> /\ isHead(Head(flitQ[q][pc][vc]))
    BY DEF HeadWaits, isHead
  <2>1. inMod'[q][pc][vc] = inMod[q][pc][vc]
    BY <1>6, SMTT(30)
  <2> QED
    BY <2>1 DEF ControlInv, HeadWaits
<1>9. QueuedOnce'
  <2>1. ASSUME NEW q \in Router, NEW n \in DOMAIN vaQ[q]
        PROVE  inMod'[q][vaQ[q][n][1]][vaQ[q][n][2]].st = "R"
    <3>1. PICK a \in PC, b \in VC : vaQ[q][n] = <<a, b>>
      BY SMTT(30) DEF TypeOK, ControlOK
    <3>2. inMod[q][a][b].st = "R"
      BY <3>1 DEF ControlInv, QueuedOnce
    <3>3. inMod'[q][a][b] = inMod[q][a][b]
      BY <1>6, <3>2, SMTT(30)
    <3> QED
      BY <3>1, <3>2, <3>3
  <2>2. \A q \in Router : \A n, l \in DOMAIN vaQ[q] : vaQ[q][n] = vaQ[q][l] => n = l
    BY DEF ControlInv, QueuedOnce
  <2> QED
    BY <2>1, <2>2 DEF QueuedOnce
<1>10. RequestsReady'
  <2> SUFFICES ASSUME NEW q \in Router, NEW pc \in PC, NEW vc \in VC, swReq'[q][pc][vc]
               PROVE  inMod'[q][pc][vc].st \in {"V", "S"} /\ flitQ[q][pc][vc] # <<>>
    BY DEF RequestsReady
  <2>1. inMod[q][pc][vc].st \in {"V", "S"} /\ flitQ[q][pc][vc] # <<>>
    <3>1. CASE q = r
      <4>1. req[pc][vc]
        BY <1>2, <3>1
      <4> QED
        BY <3>1, <4>1
    <3>2. CASE q # r
      <4>1. swReq[q][pc][vc]
        BY <1>2, <3>2
      <4> QED
        BY <4>1 DEF ControlInv, RequestsReady
    <3> QED
      BY <3>1, <3>2
  <2> QED
    BY <1>6, <2>1
<1>11. GrantedOnce'
  <2> SUFFICES ASSUME NEW q \in Router, NEW i \in PC, xbar'[q][i] # INVALID_VC
               PROVE  ~ swReq'[q][i][xbar'[q][i]]
    BY DEF GrantedOnce
  <2>1. CASE q # r
    <3>1. ~ swReq[q][i][xbar[q][i]]
      BY <1>3, <2>1, SMTT(30) DEF ControlInv, GrantedOnce
    <3> QED
      BY <1>2, <1>3, <2>1, <3>1
  <2>2. CASE q = r /\ i \in G
    BY <1>2, <1>3, <1>5, <2>2
  <2>3. CASE q = r /\ i \notin G
    <3>1. xbar'[r][i] = xbar[r][i] /\ xbar[r][i] \in VC
      BY <1>3, <2>3 DEF TypeOK, ControlOK
    <3>2. ~ req[i][xbar[r][i]]
      BY <3>1
    <3> QED
      BY <1>2, <2>3, <3>1, <3>2
  <2> QED
    BY <2>1, <2>2, <2>3
<1>12. VCExclusive'
  <2>1. ASSUME NEW q \in Router, NEW pc \in PC, NEW vc \in VC
        PROVE  Holders(q, pc, vc)' = Holders(q, pc, vc)
    <3>1. ASSUME NEW x \in PC \X VC
          PROVE  x \in Holders(q, pc, vc)' <=> x \in Holders(q, pc, vc)
      <4>1. x[1] \in PC /\ x[2] \in VC
        OBVIOUS
      <4>2. /\ inMod'[q][x[1]][x[2]].pc = inMod[q][x[1]][x[2]].pc
            /\ inMod'[q][x[1]][x[2]].vc = inMod[q][x[1]][x[2]].vc
            /\ inMod'[q][x[1]][x[2]].st \in {"V", "S"} <=> inMod[q][x[1]][x[2]].st \in {"V", "S"}
        BY <1>6, <4>1, SMTT(30)
      <4> QED
        BY <4>2, Zenon DEF Holders
    <3>2. Holders(q, pc, vc) \in SUBSET (PC \X VC) /\ Holders(q, pc, vc)' \in SUBSET (PC \X VC)
      BY DEF Holders
    <3> QED
      BY <3>1, <3>2
  <2> QED
    BY <2>1 DEF ControlInv, VCExclusive
<1>13. XbarReady'
  <2> SUFFICES ASSUME NEW q \in Router
               PROVE  LET waiting == {i \in PC : xbar'[q][i] # INVALID_VC}
                          mod(i) == inMod'[q][i][xbar'[q][i]]
                      IN  /\ \A i \in waiting : flitQ[q][i][xbar'[q][i]] # <<>> /\ mod(i).st = "S"
                          /\ \A o \in PC : outFree'[q][o] <=> \A i \in waiting : mod(i).pc # o
                          /\ \A i, j \in waiting : mod(i).pc = mod(j).pc => i = j
    BY DEF XbarReady
  <2> DEFINE before == {i \in PC : xbar[q][i] # INVALID_VC}
             old(i) == inMod[q][i][xbar[q][i]]
             waiting == {i \in PC : xbar'[q][i] # INVALID_VC}
             mod(i) == inMod'[q][i][xbar'[q][i]]
             new(i) == inMod[r][i][sel[i]]
  <2>1. /\ \A i \in before : flitQ[q][i][xbar[q][i]] # <<>> /\ old(i).st = "S"
        /\ \A o \in PC : outFree[q][o] <=> \A i \in before : old(i).pc # o
        /\ \A i, j \in before : old(i).pc = old(j).pc => i = j
    BY Zenon DEF ControlInv, XbarReady
  <2>2. \A i \in before : i \in PC /\ xbar[q][i] \in VC
    BY SMTT(30) DEF TypeOK, ControlOK
  <2>3. CASE q # r
    <3>1. xbar'[q] = xbar[q] /\ outFree'[q] = outFree[q] /\ inMod'[q] = inMod[q]
      BY <1>1, <1>3, <1>4, <2>3, SMTT(30)
    <3> QED
      BY <2>1, <3>1
  <2>4. CASE q = r
    <3>1. \A i \in before : i \notin G
      BY <1>5, <2>4
    <3>2. waiting = before \cup G
      <4>1. \A i \in G : sel[i] # INVALID_VC
        BY DEF VC, INVALID_VC
      <4> QED
        BY <1>3, <1>5, <2>4, <4>1
    <3>3. \A i \in before : xbar'[q][i] = xbar[q][i] /\ mod(i) = old(i)
      BY <1>3, <1>6, <2>2, <2>4, <3>1, SMTT(30)
    <3>4. \A i \in G : /\ xbar'[q][i] = sel[i] /\ mod(i).st = "S"
                       /\ mod(i).pc = new(i).pc /\ flitQ[q][i][sel[i]] # <<>>
                       /\ outFree[q][new(i).pc] /\ new(i).pc \in PC
      BY <1>3, <1>5, <1>6, <2>4
    <3>5. \A i, j \in G : new(i).pc = new(j).pc => i = j
      BY DEF Matched
    <3>6. \A o \in PC : outFree'[q][o] <=> outFree[q][o] /\ \A i \in G : new(i).pc # o
      BY <1>4, <2>4
    <3> HIDE DEF before, old, waiting, mod, new
    <3>7. \A i \in waiting : flitQ[q][i][xbar'[q][i]] # <<>> /\ mod(i).st = "S"
      BY <2>1, <3>2, <3>3, <3>4
    <3>8. \A o \in PC : outFree'[q][o] <=> \A i \in waiting : mod(i).pc # o
      BY <2>1, <3>2, <3>3, <3>4, <3>6
    <3>9. \A i, j \in waiting : mod(i).pc = mod(j).pc => i = j
      <4>1. \A i \in before, j \in G : old(i).pc # new(j).pc
        BY <2>1, <3>4
      <4> QED
        BY <2>1, <3>2, <3>3, <3>4, <3>5, <4>1
    <3> QED
      BY <3>7, <3>8, <3>9 DEF waiting, mod
  <2> QED
    BY <2>3, <2>4, ZenonT(60)
<1> QED
  BY <1>1, <1>2, <1>3, <1>4, <1>7, <1>8, <1>9, <1>10, <1>11, <1>12, <1>13 DEF ControlInv

\* A switch arbitration, with whatever requests.
LEMMA Arbitration ==
  ASSUME TypeOK, ControlInv, NEW r \in Router, NEW k \in 1 .. 2, NEW req, NEW cand,
         \A i \in PC, vc \in VC : cand[i][vc] => req[i][vc],
         \A i \in PC, vc \in VC : req[i][vc] =>
           /\ inMod[r][i][vc].st \in {"V", "S"} /\ flitQ[r][i][vc] # <<>>
           /\ xbar[r][i] # vc,
         \A i \in PC, vc \in VC : req[i][vc] \in BOOLEAN,
         Allocate(r, req, cand, k), NEW s, AtStage(r, s), s # "ST", NextStage(<<>>),
         UNCHANGED <<bufVars, outMod, deposits, vaQ, vaNow, niInVars, niOutVars, ev>>
  PROVE  TypeOK' /\ ControlInv'
<1>1. <<>> \in Seq(Procs)
  OBVIOUS
<1>2. SchedulerOK'
  <2>1. ev' \in {ev, Signalled(<<>>)}
    OBVIOUS
  <2> QED
    BY <1>1, <2>1, StageKept
<1>3. \A q \in Router : ~ AtStage(q, "SA")'
  BY <1>1, AfterStage
<1>4. Routed /\ \A i \in PC, vc \in VC : cand[i][vc] => inMod[r][i][vc].st \in {"V", "S"}
  BY DEF ControlInv
<1>5. /\ \E G \in SUBSET PC : \E sel \in [G -> VC] :
           Matched(r, cand, G, sel) /\ Charged(r, G, sel) /\ SwitchSet(r, req, G, sel)
      /\ v1' \in [Router -> [1 .. 2 -> [PC -> Arbiter(NumVC)]]]
      /\ p1' \in [Router -> [1 .. 2 -> [PC -> Arbiter(NumPC)]]]
  <2>1. v1' \in [Router -> [1 .. 2 -> [PC -> Arbiter(NumVC)]]]
    BY <1>4, ArbitersMatch
  <2>2. p1' \in [Router -> [1 .. 2 -> [PC -> Arbiter(NumPC)]]]
    BY <1>4, ArbitersMatch
  <2>3. \E G \in SUBSET PC : \E sel \in [G -> VC] :
           Matched(r, cand, G, sel) /\ Charged(r, G, sel) /\ SwitchSet(r, req, G, sel)
    BY <1>4, ArbitersMatch
  <2> QED
    BY <2>1, <2>2, <2>3
<1>6. PICK G \in SUBSET PC : \E sel \in [G -> VC] :
           Matched(r, cand, G, sel) /\ Charged(r, G, sel) /\ SwitchSet(r, req, G, sel)
  BY <1>5
<1>7. PICK sel \in [G -> VC] :
           Matched(r, cand, G, sel) /\ Charged(r, G, sel) /\ SwitchSet(r, req, G, sel)
  BY <1>6
<1>8. UNCHANGED <<flitQ, outMod, vaQ>>
  BY DEF bufVars
<1>9. /\ ControlInv'
      /\ inMod' \in [Router -> [PC -> [VC -> Mod]]]
      /\ swReq' \in [Router -> [PC -> [VC -> BOOLEAN]]]
      /\ xbar' \in [Router -> [PC -> VC \cup {INVALID_VC}]]
      /\ outFree' \in [Router -> [PC -> BOOLEAN]]
  BY <1>3, <1>7, <1>8, SwitchGranted
<1>10. /\ credit' \in [Router -> [PC -> [VC -> Int]]]
       /\ rsv' \in [Router -> [PC -> [VC -> Int]]]
  <2>1. PICK taken : decCredit(r, taken)
    BY <1>7, Zenon DEF Charged
  <2> QED
    BY <2>1, CreditsTaken
<1>11. BuffersOK' /\ InterfacesOK'
  BY DEF TypeOK, BuffersOK, InterfacesOK, bufVars, niInVars, niOutVars
<1>12. ControlOK' /\ CreditsOK'
  BY <1>5, <1>9, <1>10 DEF TypeOK, ControlOK, CreditsOK
<1> QED
  BY <1>2, <1>9, <1>11, <1>12 DEF TypeOK

LEMMA SwitchArbitration ==
  ASSUME TypeOK, ControlInv, NEW r \in Router, StageSA(r)
  PROVE  TypeOK' /\ ControlInv'
<1> DEFINE body(pc, vc) == /\ flitQ[r][pc][vc] # <<>>
                           /\ ~ isHead(Head(flitQ[r][pc][vc]))
                           /\ inMod[r][pc][vc].st = "S"
           req == [pc \in PC |-> [vc \in VC |-> swReq[r][pc][vc] \/ body(pc, vc)]]
<1>1. /\ AtStage(r, "SA") /\ Allocate(r, req, req, 1) /\ NextStage(<<>>)
      /\ UNCHANGED <<bufVars, outMod, deposits, vaQ, vaNow, niInVars, niOutVars, ev>>
  BY DEF StageSA
<1>2. \A i \in PC, vc \in VC :
        /\ req[i][vc] \in BOOLEAN
        /\ req[i][vc] <=> swReq[r][i][vc] \/ body(i, vc)
  BY DEF TypeOK, ControlOK
<1> HIDE DEF req
<1>3. ASSUME NEW i \in PC, NEW vc \in VC, req[i][vc]
      PROVE  /\ inMod[r][i][vc].st \in {"V", "S"} /\ flitQ[r][i][vc] # <<>>
             /\ xbar[r][i] # vc
  <2>1. inMod[r][i][vc].st \in {"V", "S"} /\ flitQ[r][i][vc] # <<>>
    BY <1>2, <1>3 DEF ControlInv, RequestsReady
  <2>2. xbar[r][i] = INVALID_VC
    BY <1>1 DEF ControlInv, GrantedOnce
  <2> QED
    BY <2>1, <2>2 DEF INVALID_VC, VC
<1>4. 1 \in 1 .. 2 /\ "SA" # "ST"
  OBVIOUS
<1> QED
  BY <1>1, <1>2, <1>3, <1>4, Arbitration

LEMMA SpeculativeArbitration ==
  ASSUME TypeOK, ControlInv, NEW r \in Router, StageSSA(r)
  PROVE  TypeOK' /\ ControlInv'
<1> DEFINE cand == [pc \in PC |-> [vc \in VC |-> swReq[r][pc][vc] /\ vaNow[r][pc][vc]]]
           req == swReq[r]
<1>1. /\ AtStage(r, "SSA") /\ Allocate(r, req, cand, 2) /\ NextStage(<<>>)
      /\ UNCHANGED <<bufVars, outMod, deposits, vaQ, vaNow, niInVars, niOutVars, ev>>
  BY DEF StageSSA
<1>2. \A i \in PC, vc \in VC : req[i][vc] \in BOOLEAN /\ (cand[i][vc] => req[i][vc])
  BY DEF TypeOK, ControlOK
<1>3. ASSUME NEW i \in PC, NEW vc \in VC, req[i][vc]
      PROVE  /\ inMod[r][i][vc].st \in {"V", "S"} /\ flitQ[r][i][vc] # <<>>
             /\ xbar[r][i] # vc
  <2>1. inMod[r][i][vc].st \in {"V", "S"} /\ flitQ[r][i][vc] # <<>>
    BY <1>3 DEF ControlInv, RequestsReady
  <2>2. CASE xbar[r][i] # INVALID_VC
    BY <1>3, <2>1, <2>2 DEF ControlInv, GrantedOnce
  <2>3. CASE xbar[r][i] = INVALID_VC
    BY <2>1, <2>3 DEF INVALID_VC, VC
  <2> QED
    BY <2>2, <2>3
<1>4. 2 \in 1 .. 2 /\ "SSA" # "ST"
  OBVIOUS
<1> HIDE DEF cand, req
<1> QED
  BY <1>1, <1>2, <1>3, <1>4, Arbitration

\* Where the flits that traverse the switch come from and go to.
LEMMA Movers ==
  ASSUME TypeOK, ControlInv, NEW r \in Router, NEW i \in PC, xbar[r][i] # INVALID_VC
  PROVE  LET vc == xbar[r][i]
             m == inMod[r][i][vc]
             f == Head(flitQ[r][i][vc])
         IN  /\ vc \in VC /\ flitQ[r][i][vc] # <<>> /\ f \in Flit
             /\ Tail(flitQ[r][i][vc]) \in Seq(Flit)
             /\ m.st = "S" /\ m.pc \in PC /\ m.vc \in VC
             /\ isEjectChannel(m.pc) \/ <<r, m.pc>> \in Link
             /\ outFree[r][m.pc] = FALSE
             /\ ~ swReq[r][i][vc]
<1> DEFINE vc == xbar[r][i]
           m == inMod[r][i][vc]
<1>1. vc \in VC
  BY DEF TypeOK, ControlOK
<1>2. flitQ[r][i][vc] # <<>> /\ m.st = "S"
  BY DEF ControlInv, XbarReady
<1>3. Head(flitQ[r][i][vc]) \in Flit /\ Tail(flitQ[r][i][vc]) \in Seq(Flit)
  BY <1>1, <1>2 DEF TypeOK, BuffersOK
<1>4. m.pc \in PC /\ m.vc \in VC /\ (isEjectChannel(m.pc) \/ <<r, m.pc>> \in Link)
  BY <1>1, <1>2 DEF ControlInv, Routed
<1>5. outFree[r][m.pc] = FALSE
  <2>1. ~ outFree[r][m.pc]
    <3>1. XbarReady
      BY Zenon DEF ControlInv
    <3> QED
      BY <1>4, <3>1 DEF XbarReady
  <2> QED
    BY <1>4, <2>1 DEF TypeOK, ControlOK
<1>6. ~ swReq[r][i][vc]
  BY DEF ControlInv, GrantedOnce
<1> QED
  BY <1>1, <1>2, <1>3, <1>4, <1>5, <1>6, Zenon

\* The types of what the switch moves.
LEMMA SwitchTypes ==
  ASSUME TypeOK, ControlInv, NEW r \in Router, StageST(r)
  PROVE  /\ BuffersOK' /\ CreditsOK' /\ InterfacesOK' /\ SchedulerOK'
         /\ \E woken \in Seq(Procs) : NextStage(woken)
<1> DEFINE movers == {i \in PC : xbar[r][i] # INVALID_VC}
           flit(i) == Head(flitQ[r][i][xbar[r][i]])
           mod(i) == inMod[r][i][xbar[r][i]]
           from(o) == {i \in movers : mod(i).pc = o}
           leaving(o) == LET ins == InOrder(from(o))
                         IN  [n \in DOMAIN ins |->
                                [f |-> flit(ins[n]), vc |-> mod(ins[n]).vc, age |-> 0]]
           ejecting(o) == LET ins == InOrder(from(o)) IN [n \in DOMAIN ins |-> flit(ins[n])]
           back(q) == {i \in movers : \E l \in Link : Wire[l] = <<r, i>> /\ l[1] = q}
           creditsOf(q) ==
             LET ins == InOrder(back(q))
             IN  [n \in DOMAIN ins |->
                    LET l == PrevLink(r, ins[n])
                    IN  [pc |-> l[2], vc |-> xbar[r][ins[n]], due |-> LinkLat[l]]]
           wakeup == [o \in {o \in LocalPC : niOut[<<r, o>>] = <<>> /\ from(o) # {}} |-> <<2, r, o>>]
<1>1. AtStage(r, "ST") /\ ev' = Signalled(wakeup) /\ NextStage(Woken(wakeup))
  BY Zenon DEF StageST
<1>2. flitQ' = [flitQ EXCEPT ![r] = [pc \in PC |-> [vc \in VC |->
                  IF xbar[r][pc] = vc THEN Tail(@[pc][vc]) ELSE @[pc][vc]]]]
  BY Zenon DEF StageST
<1>3. deposits' = [q \in Router |-> deposits[q] \o creditsOf(q)]
  BY Zenon DEF StageST
<1>4. pipe' = [l \in Link |-> IF l[1] = r THEN pipe[l] \o leaving(l[2]) ELSE pipe[l]]
  BY Zenon DEF StageST
<1>5. niOut' = [d \in NI |-> IF d[1] = r THEN niOut[d] \o ejecting(d[2]) ELSE niOut[d]]
  BY Zenon DEF StageST
<1>6. /\ inside' = [inside EXCEPT ![r] =
                      @ - Cardinality({i \in movers : isEjectChannel(mod(i).pc)})]
      /\ UNCHANGED <<fresh, credit, rsv, niInVars, ejected, pktInNet>>
  BY Zenon DEF StageST
<1>7. /\ movers \in SUBSET PC
      /\ \A i \in movers : /\ xbar[r][i] \in VC /\ flit(i) \in Flit
                           /\ mod(i).pc \in PC /\ mod(i).vc \in VC
                           /\ Tail(flitQ[r][i][xbar[r][i]]) \in Seq(Flit)
  BY Movers, Zenon
<1>8. \A S \in SUBSET PC : S \in SUBSET Int /\ IsFiniteSet(S)
  BY Finite, FS_Subset
<1>9. \A i \in PC, vc \in VC : xbar[r][i] = vc => i \in movers
  BY DEF VC, INVALID_VC
<1> HIDE DEF movers, flit, mod
<1>10. \A o : from(o) \in SUBSET PC /\ from(o) \in SUBSET movers
  BY <1>7
<1>11. \A q : back(q) \in SUBSET PC /\ back(q) \in SUBSET movers
  BY <1>7
<1>12. SchedulerOK' /\ \E woken \in Seq(Procs) : NextStage(woken)
  <2>1. DOMAIN wakeup \in SUBSET PC /\ \A o \in DOMAIN wakeup : wakeup[o] \in Procs
    BY Finite DEF Procs, NIoutProcs
  <2> HIDE DEF wakeup
  <2>2. Woken(wakeup) \in Seq(Procs)
    BY <1>8, <2>1, WokenReady
  <2> QED
    BY <1>1, <2>2, StageKept
<1> HIDE DEF wakeup
<1>13. flitQ' \in [Router -> [PC -> [VC -> Seq(Flit)]]]
  <2> DEFINE e(pc, vc) == IF xbar[r][pc] = vc THEN Tail(flitQ[r][pc][vc]) ELSE flitQ[r][pc][vc]
             g == [pc \in PC |-> [vc \in VC |-> e(pc, vc)]]
  <2>1. flitQ' = [flitQ EXCEPT ![r] = g]
    BY <1>2
  <2>2. ASSUME NEW pc \in PC, NEW vc \in VC
        PROVE  e(pc, vc) \in Seq(Flit)
    <3>1. flitQ[r][pc][vc] \in Seq(Flit)
      BY DEF TypeOK, BuffersOK
    <3>2. CASE xbar[r][pc] = vc
      BY <1>7, <1>9, <3>2
    <3> QED
      BY <3>1, <3>2
  <2> HIDE DEF e
  <2>3. g \in [PC -> [VC -> Seq(Flit)]]
    BY <2>2
  <2> HIDE DEF g
  <2> QED
    BY <2>1, <2>3 DEF TypeOK, BuffersOK
<1>14. deposits' \in [Router -> Seq(Deposit)]
  <2>1. ASSUME NEW q \in Router
        PROVE  creditsOf(q) \in Seq(Deposit)
    <3> DEFINE ins == InOrder(back(q))
               c == Cardinality(back(q))
    <3>1. back(q) \in SUBSET Int /\ IsFiniteSet(back(q))
      BY <1>8, <1>11
    <3>2. c \in Nat /\ ins \in [1 .. c -> back(q)] /\ DOMAIN ins = 1 .. c
      <4> HIDE DEF back
      <4> QED
        BY <3>1, InOrderLists
    <3>3. ASSUME NEW i \in back(q)
          PROVE  [pc |-> PrevLink(r, i)[2], vc |-> xbar[r][i], due |-> LinkLat[PrevLink(r, i)]] \in Deposit
      <4>1. \E l \in Link : Wire[l] = <<r, i>>
        OBVIOUS
      <4>2. PrevLink(r, i) \in Link
        BY <4>1 DEF PrevLink
      <4>3. PrevLink(r, i)[2] \in PC /\ LinkLat[PrevLink(r, i)] \in Nat
        BY <4>2, NetworkAssumption
      <4>4. xbar[r][i] \in VC
        BY <1>7, <1>11
      <4> QED
        BY <4>3, <4>4 DEF Deposit
    <3> DEFINE d(i) == [pc |-> PrevLink(r, i)[2], vc |-> xbar[r][i], due |-> LinkLat[PrevLink(r, i)]]
    <3>4. creditsOf(q) = [n \in DOMAIN ins |-> d(ins[n])]
      OBVIOUS
    <3> HIDE DEF d, ins, c, creditsOf, back
    <3>5. \A n \in 1 .. c : d(ins[n]) \in Deposit
      BY <3>2, <3>3 DEF d
    <3> QED
      BY <3>2, <3>4, <3>5
  <2>2. \A q \in Router : deposits[q] \in Seq(Deposit)
    BY DEF TypeOK, CreditsOK
  <2> HIDE DEF creditsOf
  <2>3. \A q \in Router : deposits[q] \o creditsOf(q) \in Seq(Deposit)
    BY <2>1, <2>2, ConcatProperties
  <2> QED
    BY <1>3, <2>3
<1>15. ASSUME NEW o
       PROVE  leaving(o) \in Seq(InFlight) /\ ejecting(o) \in Seq(Flit)
  <2> DEFINE ins == InOrder(from(o))
             c == Cardinality(from(o))
             e(i) == [f |-> flit(i), vc |-> mod(i).vc, age |-> 0]
  <2>1. from(o) \in SUBSET Int /\ IsFiniteSet(from(o)) /\ from(o) \in SUBSET movers
    BY <1>8, <1>10
  <2> HIDE DEF from
  <2>2. c \in Nat /\ ins \in [1 .. c -> from(o)] /\ DOMAIN ins = 1 .. c
    BY <2>1, InOrderLists
  <2>3. \A i \in from(o) : e(i) \in InFlight /\ flit(i) \in Flit
    BY <1>7, <2>1 DEF InFlight
  <2>4. leaving(o) = [n \in DOMAIN ins |-> e(ins[n])] /\ ejecting(o) = [n \in DOMAIN ins |-> flit(ins[n])]
    OBVIOUS
  <2> HIDE DEF e, ins, c, leaving, ejecting
  <2>5. \A n \in 1 .. c : e(ins[n]) \in InFlight /\ flit(ins[n]) \in Flit
    BY <2>2, <2>3
  <2> QED
    BY <2>2, <2>4, <2>5
<1> HIDE DEF leaving, ejecting, creditsOf
<1>16. pipe' \in [Link -> Seq(InFlight)]
  <2>1. \A l \in Link : pipe[l] \in Seq(InFlight) /\ pipe[l] \o leaving(l[2]) \in Seq(InFlight)
    BY <1>15, ConcatProperties DEF TypeOK, BuffersOK
  <2> QED
    BY <1>4, <2>1
<1>17. niOut' \in [NI -> Seq(Flit)]
  <2>1. \A d \in NI : niOut[d] \in Seq(Flit) /\ niOut[d] \o ejecting(d[2]) \in Seq(Flit)
    BY <1>15, ConcatProperties DEF TypeOK, InterfacesOK
  <2> QED
    BY <1>5, <2>1
<1>18. inside' \in [Router -> Int]
  <2> DEFINE out == {i \in movers : isEjectChannel(mod(i).pc)}
  <2>1. out \in SUBSET PC
    BY <1>7
  <2>2. inside' = [inside EXCEPT ![r] = @ - Cardinality(out)]
    BY <1>6
  <2> HIDE DEF out
  <2>3. Cardinality(out) \in Nat
    BY <1>8, <2>1, FS_CardinalityType
  <2> QED
    BY <2>2, <2>3 DEF TypeOK, BuffersOK
<1>19. BuffersOK'
  BY <1>6, <1>13, <1>16, <1>18 DEF TypeOK, BuffersOK
<1>20. CreditsOK'
  BY <1>6, <1>14 DEF TypeOK, CreditsOK
<1>21. InterfacesOK'
  BY <1>6, <1>17 DEF TypeOK, InterfacesOK, niInVars
<1> QED
  BY <1>12, <1>19, <1>20, <1>21

\* A process that goes on stays the running one.
LEMMA HeadGoesOn ==
  ASSUME TypeOK, ready # <<>>, NEW s, NEW woken \in Seq(Procs), GoOn(s, woken)
  PROVE  ready' # <<>> /\ Head(ready') = Head(ready)
BY DEF TypeOK, SchedulerOK, GoOn

\* Switch traversal: the switch is empty again, and a tail gives back what its
\* packet held.
LEMMA SwitchTraversal ==
  ASSUME TypeOK, ControlInv, NEW r \in Router, StageST(r)
  PROVE  TypeOK' /\ ControlInv'
<1> DEFINE movers == {i \in PC : xbar[r][i] # INVALID_VC}
           flit(i) == Head(flitQ[r][i][xbar[r][i]])
           mod(i) == inMod[r][i][xbar[r][i]]
           from(o) == {i \in movers : mod(i).pc = o}
           tails == {i \in movers : isTail(flit(i))}
           atRest == [st |-> "I", pc |-> INVALID_PC, vc |-> INVALID_VC]
<1>1. flitQ' = [flitQ EXCEPT ![r] = [pc \in PC |-> [vc \in VC |->
                  IF xbar[r][pc] = vc THEN Tail(@[pc][vc]) ELSE @[pc][vc]]]]
  BY DEF StageST
<1>2. xbar' = [xbar EXCEPT ![r] = [pc \in PC |-> INVALID_VC]]
  BY Zenon DEF StageST
<1>3. outFree' = [outFree EXCEPT ![r] = [pc \in PC |-> @[pc] \/ from(pc) # {}]]
  BY Zenon DEF StageST
<1>4. inMod' = [inMod EXCEPT ![r] = [pc \in PC |-> [vc \in VC |->
                  IF pc \in tails /\ xbar[r][pc] = vc THEN atRest ELSE @[pc][vc]]]]
  BY Zenon DEF StageST
<1>5. outMod' = [outMod EXCEPT ![r] = [pc \in PC |-> [vc \in VC |->
                   IF \E i \in tails : mod(i).pc = pc /\ mod(i).vc = vc
                   THEN "I" ELSE @[pc][vc]]]]
  BY Zenon DEF StageST
<1>6. UNCHANGED <<vaQ, swReq, vaNow, v1, p1>>
  BY Zenon DEF StageST
<1>7. ASSUME NEW q \in Router, q # r
      PROVE  ~ AtStage(q, "SA")'
  <2>1. PICK woken \in Seq(Procs) : NextStage(woken) /\ AtStage(r, "ST")
    BY SwitchTypes, Zenon DEF StageST
  <2>2. CASE GoOn(stage + 1, woken)
    <3>1. Head(ready') = <<0, r>>
      BY <2>1, <2>2, HeadGoesOn DEF AtStage, Running
    <3> QED
      BY <1>7, <3>1 DEF AtStage, Running
  <2>3. CASE HoldOneCycle(woken)
    BY <2>3 DEF HoldOneCycle, AtStage
  <2> QED
    BY <2>1, <2>2, <2>3 DEF NextStage
<1>8. \A i \in movers : /\ i \in PC /\ xbar[r][i] \in VC /\ mod(i).st = "S" /\ mod(i).pc \in PC
                        /\ mod(i).vc \in VC /\ ~ swReq[r][i][xbar[r][i]]
  BY Movers, Zenon
<1>9. \A i \in PC, vc \in VC : xbar[r][i] = vc => i \in movers
  BY DEF VC, INVALID_VC
<1>10. /\ flitQ \in [Router -> [PC -> [VC -> Seq(Flit)]]]
       /\ inMod \in [Router -> [PC -> [VC -> Mod]]]
       /\ outMod \in [Router -> [PC -> [VC -> {"I", "V"}]]]
       /\ xbar \in [Router -> [PC -> VC \cup {INVALID_VC}]]
       /\ outFree \in [Router -> [PC -> BOOLEAN]]
  BY SMTT(30) DEF TypeOK, BuffersOK, ControlOK
<1>11. \A q \in Router \ {r} :
         /\ flitQ'[q] = flitQ[q] /\ inMod'[q] = inMod[q] /\ outMod'[q] = outMod[q]
         /\ xbar'[q] = xbar[q] /\ outFree'[q] = outFree[q]
  BY <1>1, <1>2, <1>3, <1>4, <1>5, <1>10
<1>12. \A pc \in PC, vc \in VC :
         flitQ'[r][pc][vc] = IF xbar[r][pc] = vc THEN Tail(flitQ[r][pc][vc]) ELSE flitQ[r][pc][vc]
  BY <1>1, <1>10
<1>13. \A i \in PC : xbar'[r][i] = INVALID_VC
  BY <1>2, <1>10
<1>14. xbar' \in [Router -> [PC -> VC \cup {INVALID_VC}]]
  BY <1>2, <1>10
<1>15. \A o \in PC : outFree[r][o] \/ from(o) # {}
  BY DEF ControlInv, XbarReady
<1>16. /\ outFree' \in [Router -> [PC -> BOOLEAN]]
       /\ \A o \in PC : outFree'[r][o]
  <2> DEFINE free == [pc \in PC |-> outFree[r][pc] \/ from(pc) # {}]
  <2>1. free \in [PC -> BOOLEAN] /\ \A o \in PC : free[o]
    <3> HIDE DEF from
    <3>1. \A pc \in PC : (outFree[r][pc] \/ from(pc) # {}) \in BOOLEAN
      BY <1>10
    <3> QED
      BY <1>15, <3>1
  <2>2. outFree' = [outFree EXCEPT ![r] = free]
    BY <1>3
  <2> HIDE DEF free
  <2> QED
    BY <1>10, <2>1, <2>2
<1> HIDE DEF from, movers, flit, mod
<1>17. /\ inMod' \in [Router -> [PC -> [VC -> Mod]]]
       /\ \A pc \in PC, vc \in VC :
            inMod'[r][pc][vc] = IF pc \in tails /\ xbar[r][pc] = vc THEN atRest ELSE inMod[r][pc][vc]
  <2> DEFINE e(pc, vc) == IF pc \in tails /\ xbar[r][pc] = vc THEN atRest ELSE inMod[r][pc][vc]
             g == [pc \in PC |-> [vc \in VC |-> e(pc, vc)]]
  <2>1. inMod' = [inMod EXCEPT ![r] = g]
    BY <1>4
  <2>2. atRest \in Mod
    BY DEF Mod
  <2>3. \A pc \in PC, vc \in VC : e(pc, vc) \in Mod
    <3> HIDE DEF atRest
    <3> QED
      BY <1>10, <2>2
  <2> HIDE DEF e
  <2>4. g \in [PC -> [VC -> Mod]] /\ \A pc \in PC, vc \in VC : g[pc][vc] = e(pc, vc)
    BY <2>3
  <2> HIDE DEF g
  <2>5. inMod' \in [Router -> [PC -> [VC -> Mod]]] /\ inMod'[r] = g
    BY <1>10, <2>1, <2>4
  <2> QED
    BY <2>4, <2>5 DEF e
<1>18. /\ outMod' \in [Router -> [PC -> [VC -> {"I", "V"}]]]
       /\ \A pc \in PC, vc \in VC :
            outMod'[r][pc][vc] = IF \E i \in tails : mod(i).pc = pc /\ mod(i).vc = vc
                                 THEN "I" ELSE outMod[r][pc][vc]
  <2> DEFINE e(pc, vc) == IF \E i \in tails : mod(i).pc = pc /\ mod(i).vc = vc
                          THEN "I" ELSE outMod[r][pc][vc]
             g == [pc \in PC |-> [vc \in VC |-> e(pc, vc)]]
  <2>1. outMod' = [outMod EXCEPT ![r] = g]
    BY <1>5
  <2>2. \A pc \in PC, vc \in VC : e(pc, vc) \in {"I", "V"}
    BY <1>10
  <2> HIDE DEF e
  <2>3. g \in [PC -> [VC -> {"I", "V"}]] /\ \A pc \in PC, vc \in VC : g[pc][vc] = e(pc, vc)
    BY <2>2
  <2> HIDE DEF g
  <2>4. outMod' \in [Router -> [PC -> [VC -> {"I", "V"}]]] /\ outMod'[r] = g
    BY <1>10, <2>1, <2>3
  <2> QED
    BY <2>3, <2>4 DEF e
<1>19. \A i \in tails : i \in movers
  OBVIOUS
<1> HIDE DEF tails
<1>20. TypeOK'
  <2>1. ControlOK'
    BY <1>6, <1>14, <1>16, <1>17, <1>18 DEF TypeOK, ControlOK
  <2> QED
    BY <2>1, SwitchTypes DEF TypeOK
<1>21. ASSUME NEW q \in Router, NEW pc \in PC, NEW vc \in VC,
              \/ inMod[q][pc][vc].st # "S"
              \/ swReq[q][pc][vc]
       PROVE  /\ inMod'[q][pc][vc] = inMod[q][pc][vc]
              /\ flitQ'[q][pc][vc] = flitQ[q][pc][vc]
  <2>1. CASE q # r
    BY <1>11, <2>1
  <2>2. CASE q = r
    <3>1. xbar[r][pc] # vc
      <4>1. SUFFICES ASSUME xbar[r][pc] = vc
                     PROVE  FALSE
        OBVIOUS
      <4>2. pc \in movers
        BY <1>9, <4>1
      <4>3. mod(pc).st = "S" /\ ~ swReq[r][pc][xbar[r][pc]] /\ mod(pc) = inMod[r][pc][xbar[r][pc]]
        BY <1>8, <4>2 DEF mod
      <4> QED
        BY <1>21, <2>2, <4>1, <4>3
    <3> QED
      BY <1>12, <1>17, <2>2, <3>1
  <2> QED
    BY <2>1, <2>2
<1>22. ASSUME NEW q \in Router, NEW pc \in PC, NEW vc \in VC, inMod'[q][pc][vc].st # "I"
       PROVE  inMod'[q][pc][vc] = inMod[q][pc][vc]
  BY <1>11, <1>17, <1>22
<1>23. Routed'
  <2> SUFFICES ASSUME NEW q \in Router, NEW pc \in PC, NEW vc \in VC
               PROVE  LET m == inMod'[q][pc][vc]
                      IN  /\ m.st \in {"R", "V", "S"} =>
                               m.pc \in PC /\ (isEjectChannel(m.pc) \/ <<q, m.pc>> \in Link)
                          /\ m.st \in {"V", "S"} => m.vc \in VC
    BY Zenon DEF Routed, isEjectChannel
  <2>1. LET m == inMod[q][pc][vc]
        IN  /\ m.st \in {"R", "V", "S"} =>
                 m.pc \in PC /\ (isEjectChannel(m.pc) \/ <<q, m.pc>> \in Link)
            /\ m.st \in {"V", "S"} => m.vc \in VC
    BY DEF ControlInv, Routed
  <2> QED
    BY <1>22, <2>1, SMTT(30)
<1>24. HeadWaits'
  <2> SUFFICES ASSUME NEW q \in Router, NEW pc \in PC, NEW vc \in VC,
                      inMod'[q][pc][vc].st \in {"R", "V"}
               PROVE  flitQ'[q][pc][vc] # <<>> /\ isHead(Head(flitQ'[q][pc][vc]))
    BY DEF HeadWaits, isHead
  <2>1. inMod'[q][pc][vc] = inMod[q][pc][vc]
    BY <1>22
  <2>2. flitQ'[q][pc][vc] = flitQ[q][pc][vc]
    BY <1>21, <2>1, SMTT(30)
  <2> QED
    BY <2>1, <2>2 DEF ControlInv, HeadWaits
<1>25. QueuedOnce'
  <2>1. ASSUME NEW q \in Router, NEW n \in DOMAIN vaQ[q]
        PROVE  inMod'[q][vaQ[q][n][1]][vaQ[q][n][2]].st = "R"
    <3>1. PICK a \in PC, b \in VC : vaQ[q][n] = <<a, b>>
      BY DEF TypeOK, ControlOK
    <3>2. inMod[q][a][b].st = "R"
      BY <3>1 DEF ControlInv, QueuedOnce
    <3>3. inMod'[q][a][b] = inMod[q][a][b]
      BY <1>21, <3>2
    <3> QED
      BY <3>1, <3>2, <3>3
  <2>2. \A q \in Router : \A n, l \in DOMAIN vaQ[q] : vaQ[q][n] = vaQ[q][l] => n = l
    BY DEF ControlInv, QueuedOnce
  <2> QED
    BY <1>6, <2>1, <2>2 DEF QueuedOnce
<1>26. RequestsReady'
  <2> SUFFICES ASSUME NEW q \in Router, NEW pc \in PC, NEW vc \in VC, swReq[q][pc][vc]
               PROVE  inMod'[q][pc][vc].st \in {"V", "S"} /\ flitQ'[q][pc][vc] # <<>>
    BY <1>6 DEF RequestsReady
  <2>1. inMod[q][pc][vc].st \in {"V", "S"} /\ flitQ[q][pc][vc] # <<>>
    BY DEF ControlInv, RequestsReady
  <2> QED
    BY <1>21, <2>1
<1>27. GrantedOnce'
  <2> SUFFICES ASSUME NEW q \in Router, NEW i \in PC, xbar'[q][i] # INVALID_VC
               PROVE  ~ swReq[q][i][xbar'[q][i]] /\ ~ AtStage(q, "SA")'
    BY <1>6 DEF GrantedOnce
  <2>1. q # r
    BY <1>13
  <2>2. xbar'[q] = xbar[q]
    BY <1>11, <2>1, SMTT(30)
  <2> QED
    BY <1>7, <2>1, <2>2 DEF ControlInv, GrantedOnce
<1>28. XbarReady'
  <2> SUFFICES ASSUME NEW q \in Router
               PROVE  LET waiting == {i \in PC : xbar'[q][i] # INVALID_VC}
                          m(i) == inMod'[q][i][xbar'[q][i]]
                      IN  /\ \A i \in waiting : flitQ'[q][i][xbar'[q][i]] # <<>> /\ m(i).st = "S"
                          /\ \A o \in PC : outFree'[q][o] <=> \A i \in waiting : m(i).pc # o
                          /\ \A i, j \in waiting : m(i).pc = m(j).pc => i = j
    BY DEF XbarReady
  <2>1. CASE q = r
    BY <1>13, <1>16, <2>1, SMTT(30)
  <2>2. CASE q # r
    <3>1. /\ flitQ'[q] = flitQ[q] /\ inMod'[q] = inMod[q]
          /\ xbar'[q] = xbar[q] /\ outFree'[q] = outFree[q]
      BY <1>11, <2>2
    <3> QED
      BY <3>1 DEF ControlInv, XbarReady
  <2> QED
    BY <2>1, <2>2
<1>29. VCExclusive'
  <2>1. ASSUME NEW q \in Router, NEW pc \in PC, NEW vc \in VC
        PROVE  /\ outMod'[q][pc][vc] = "V" <=> Holders(q, pc, vc)' # {}
               /\ \A x, y \in Holders(q, pc, vc)' : x = y
    <3>1. /\ outMod[q][pc][vc] = "V" <=> Holders(q, pc, vc) # {}
          /\ \A x, y \in Holders(q, pc, vc) : x = y
      BY DEF ControlInv, VCExclusive
    <3>2. Holders(q, pc, vc) \in SUBSET (PC \X VC) /\ Holders(q, pc, vc)' \in SUBSET (PC \X VC)
      BY DEF Holders
    <3>3. ASSUME NEW x \in Holders(q, pc, vc)'
          PROVE  x \in Holders(q, pc, vc) /\ inMod'[q][x[1]][x[2]] = inMod[q][x[1]][x[2]]
      <4>1. x \in PC \X VC /\ inMod'[q][x[1]][x[2]].st \in {"V", "S"}
        BY <3>3 DEF Holders
      <4>2. inMod'[q][x[1]][x[2]] = inMod[q][x[1]][x[2]]
        BY <1>22, <4>1
      <4> QED
        BY <3>3, <4>2 DEF Holders
    <3>4. CASE q = r /\ \E i \in tails : mod(i).pc = pc /\ mod(i).vc = vc
      <4>1. PICK i \in tails : mod(i).pc = pc /\ mod(i).vc = vc
        BY <3>4
      <4>2. /\ i \in PC /\ xbar[r][i] \in VC /\ mod(i).st = "S"
            /\ mod(i) = inMod[r][i][xbar[r][i]]
        BY <1>8, <1>19, SMTT(30) DEF mod
      <4>3. <<i, xbar[r][i]>> \in Holders(r, pc, vc)
        BY <4>1, <4>2 DEF Holders
      <4>4. inMod'[r][i][xbar[r][i]].st = "I"
        BY <1>17, <4>2
      <4>5. <<i, xbar[r][i]>> \notin Holders(r, pc, vc)'
        BY <4>4 DEF Holders
      <4>6. Holders(q, pc, vc)' = {}
        BY <3>1, <3>3, <3>4, <4>3, <4>5
      <4>7. outMod'[q][pc][vc] = "I"
        BY <1>18, <3>4
      <4> QED
        BY <4>6, <4>7
    <3>5. CASE ~ (q = r /\ \E i \in tails : mod(i).pc = pc /\ mod(i).vc = vc)
      <4>1. outMod'[q][pc][vc] = outMod[q][pc][vc]
        BY <1>11, <1>18, <3>5, SMTT(30)
      <4>2. ASSUME NEW x \in Holders(q, pc, vc)
            PROVE  x \in Holders(q, pc, vc)'
        <5>1. /\ x \in PC \X VC /\ inMod[q][x[1]][x[2]].pc = pc /\ inMod[q][x[1]][x[2]].vc = vc
          BY <4>2 DEF Holders
        <5>2. inMod'[q][x[1]][x[2]] = inMod[q][x[1]][x[2]]
          <6>1. CASE q # r
            BY <1>11, <6>1
          <6>2. CASE q = r
            <7>1. ~ (x[1] \in tails /\ xbar[r][x[1]] = x[2])
              BY <3>5, <5>1, <6>2 DEF mod
            <7> QED
              BY <1>17, <5>1, <6>2, <7>1, SMTT(30)
          <6> QED
            BY <6>1, <6>2
        <5> QED
          BY <4>2, <5>1, <5>2 DEF Holders
      <4> QED
        BY <3>1, <3>3, <4>1, <4>2
    <3> QED
      BY <3>4, <3>5
  <2> QED
    BY <2>1 DEF VCExclusive
<1> QED
  BY <1>20, <1>23, <1>24, <1>25, <1>26, <1>27, <1>28, <1>29 DEF ControlInv

-----------------------------------------------------------------------------
(* The invariant. *)

\* Between processes, and in its first stage, no router arbitrates.
LEMMA EarlyStage ==
  ASSUME stage' \in {0, 1}, NEW q
  PROVE  ~ AtStage(q, "SA")'
BY StagesKnown DEF AtStage

\* The steps of a router keep the types and the control in order.
LEMMA RouterKeeps ==
  ASSUME TypeOK, ControlInv, NEW r \in Router, RouterStep(r)
  PROVE  TypeOK' /\ ControlInv'
<1>1. CASE RouterWake(r)
  <2>1. TypeOK'
    BY <1>1, TypesOfRouterWake
  <2>2. stage' \in {0, 1} /\ UNCHANGED <<flitQ, inMod, outMod, vaQ, swReq, xbar, outFree>>
    BY <1>1 DEF RouterWake, WaitEvent, GoOn, bufVars
  <2>3. \A q \in Router : ~ AtStage(q, "SA")'
    BY <2>2, EarlyStage
  <2> QED
    BY <2>1, <2>2, <2>3, ControlKept
<1>2. CASE IncCredit(r)
  <2>1. TypeOK'
    BY <1>2, TypesOfIncCredit
  <2>2. /\ AtStage(r, "IC") /\ (GoOn(stage, <<>>) \/ NextStage(<<>>))
        /\ UNCHANGED <<flitQ, inMod, outMod, vaQ, swReq, xbar, outFree>>
    BY <1>2, Zenon DEF IncCredit, bufVars, ctlVars
  <2>3. ASSUME NEW q \in Router
        PROVE  ~ AtStage(q, "SA")'
    <3>1. CASE GoOn(stage, <<>>)
      BY <2>2, <3>1 DEF GoOn, AtStage
    <3>2. CASE NextStage(<<>>)
      <4>1. <<>> \in Seq(Procs) /\ "IC" # "ST"
        OBVIOUS
      <4> QED
        BY <2>2, <3>2, <4>1, AfterStage
    <3> QED
      BY <2>2, <3>1, <3>2
  <2> QED
    BY <2>1, <2>2, <2>3, ControlKept
<1>3. CASE StageLT(r)
  BY <1>3, LinkTraversal
<1>4. CASE StageST(r)
  BY <1>4, SwitchTraversal
<1>5. CASE StageSA(r)
  BY <1>5, SwitchArbitration
<1>6. CASE StageRC(r)
  BY <1>6, RoutingComputation
<1>7. CASE StageVA(r)
  BY <1>7, VCAllocation
<1>8. CASE StageSSA(r)
  BY <1>8, SpeculativeArbitration
<1> QED
  BY <1>1, <1>2, <1>3, <1>4, <1>5, <1>6, <1>7, <1>8 DEF RouterStep

\* So do those of the network interfaces.
LEMMA InterfacesKeep ==
  ASSUME TypeOK, ControlInv, NIStep
  PROVE  TypeOK' /\ ControlInv'
<1>1. ASSUME NEW i \in NIinProcs, NIInject(i)
      PROVE  TypeOK' /\ ControlInv'
  <2>1. TypeOK'
    BY <1>1, TypesOfNIInject
  <2>2. stage' = 0 /\ UNCHANGED <<inMod, outMod, vaQ, swReq, xbar, outFree>>
    BY <1>1, Zenon DEF NIInject, HoldOneCycle, netVars, ctlVars
  <2>3. \A q \in Router : ~ AtStage(q, "SA")'
    BY <2>2, EarlyStage
  <2>4. ASSUME NEW q \in Router, NEW pc \in PC, NEW vc \in VC, flitQ[q][pc][vc] # <<>>
        PROVE  flitQ'[q][pc][vc] # <<>> /\ Head(flitQ'[q][pc][vc]) = Head(flitQ[q][pc][vc])
    <3> DEFINE r == NIof(i)[1]
               port == NIof(i)[2]
               in == niCur[i].vc
               f == [p |-> niCur[i].p, n |-> niCur[i].n + 1]
    <3>1. flitQ' = flitQ \/ flitQ' = [flitQ EXCEPT ![r][port][in] = Append(@, f)]
      BY <1>1, Zenon DEF NIInject
    <3>2. flitQ \in [Router -> [PC -> [VC -> Seq(Flit)]]] /\ flitQ[q][pc][vc] \in Seq(Flit)
      BY SMTT(30) DEF TypeOK, BuffersOK
    <3>3. f \in Flit
      BY <1>1 DEF NIInject, TypeOK, InterfacesOK, Flit
    <3> HIDE DEF r, port, in, f
    <3>4. flitQ'[q][pc][vc] \in {flitQ[q][pc][vc], Append(flitQ[q][pc][vc], f)}
      <4>1. CASE flitQ' = flitQ
        BY <4>1
      <4>2. CASE flitQ' = [flitQ EXCEPT ![r][port][in] = Append(@, f)]
        BY <3>2, <4>2
      <4> QED
        BY <3>1, <4>1, <4>2, Zenon
    <3>5. /\ Append(flitQ[q][pc][vc], f) # <<>>
          /\ Head(Append(flitQ[q][pc][vc], f)) = Head(flitQ[q][pc][vc])
      BY <2>4, <3>2, <3>3, AppendProperties, HeadTailAppend
    <3> QED
      BY <2>4, <3>4, <3>5
  <2> QED
    BY <2>1, <2>2, <2>3, <2>4, ControlKept
<1>2. ASSUME NEW i \in NIinProcs, NIRead(i) \/ NIReserve(i) \/ NIFinish(i)
      PROVE  TypeOK' /\ ControlInv'
  <2>1. TypeOK'
    BY <1>2, TypesOfNIRead, TypesOfNIReserve, TypesOfNIFinish
  <2>2. stage' \in {0, 1} /\ UNCHANGED <<flitQ, inMod, outMod, vaQ, swReq, xbar, outFree>>
    BY <1>2, Zenon DEF NIRead, NIReserve, NIFinish, WaitEvent, GoOn, HoldOneCycle, netVars, ctlVars
  <2>3. \A q \in Router : ~ AtStage(q, "SA")'
    BY <2>2, EarlyStage, SMTT(30)
  <2> QED
    BY <2>1, <2>2, <2>3, ControlKept
<1>3. ASSUME NEW i \in NIoutProcs, NIOutput(i)
      PROVE  TypeOK' /\ ControlInv'
  <2>1. TypeOK'
    BY <1>3, TypesOfNIOutput
  <2>2. stage' \in {0, 1} /\ UNCHANGED <<flitQ, inMod, outMod, vaQ, swReq, xbar, outFree>>
    BY <1>3 DEF NIOutput, WaitEvent, GoOn, netVars, ctlVars
  <2>3. \A q \in Router : ~ AtStage(q, "SA")'
    BY <2>2, EarlyStage
  <2> QED
    BY <2>1, <2>2, <2>3, ControlKept
<1> QED
  BY <1>1, <1>2, <1>3 DEF NIStep

\* At the start no VC is allocated and the switch is empty.
LEMMA InitialControl ==
  Init => ControlInv
<1> SUFFICES ASSUME Init
             PROVE  ControlInv
  OBVIOUS
<1>1. \A r \in Router, pc \in PC, vc \in VC :
        /\ inMod[r][pc][vc].st = "I" /\ outMod[r][pc][vc] = "I" /\ ~ swReq[r][pc][vc]
  BY DEF Init, PerVCState
<1>2. \A r \in Router, i \in PC : xbar[r][i] = INVALID_VC /\ outFree[r][i] /\ vaQ[r] = <<>>
  BY DEF Init
<1>3. Routed /\ HeadWaits /\ RequestsReady /\ GrantedOnce
  BY <1>1, <1>2 DEF Routed, HeadWaits, RequestsReady, GrantedOnce
<1>4. QueuedOnce
  BY DEF Init, QueuedOnce
<1>5. VCExclusive
  <2>1. \A r \in Router, pc \in PC, vc \in VC : Holders(r, pc, vc) = {}
    BY <1>1 DEF Holders
  <2> QED
    BY <1>1, <2>1 DEF VCExclusive
<1>6. XbarReady
  BY <1>2 DEF XbarReady
<1> QED
  BY <1>3, <1>4, <1>5, <1>6 DEF ControlInv

\* Every step keeps the types and the control in order.
LEMMA ControlInductive ==
  TypeOK /\ ControlInv /\ [Next]_vars => TypeOK' /\ ControlInv'
<1> SUFFICES ASSUME TypeOK, ControlInv, [Next]_vars
             PROVE  TypeOK' /\ ControlInv'
  OBVIOUS
<1>1. CASE \E r \in Router : RouterStep(r)
  BY <1>1, RouterKeeps
<1>2. CASE NIStep
  BY <1>2, InterfacesKeep
<1>3. CASE Tick
  <2>1. TypeOK'
    BY <1>3, TypesOfTick
  <2>2. /\ stage' = 0
        /\ UNCHANGED <<flitQ, inMod, outMod, vaQ, swReq, xbar, outFree>>
    BY <1>3 DEF Tick, ctlVars, TypeOK, SchedulerOK
  <2>3. \A q \in Router : ~ AtStage(q, "SA")'
    BY <2>2, EarlyStage
  <2> QED
    BY <2>1, <2>2, <2>3, ControlKept
<1>4. ASSUME NEW p \in Packet, Generate(p)
      PROVE  TypeOK' /\ ControlInv'
  <2>1. TypeOK'
    BY <1>4, TypesOfGenerate
  <2>2. /\ stage' = 0
        /\ UNCHANGED <<flitQ, inMod, outMod, vaQ, swReq, xbar, outFree>>
    BY <1>4 DEF Generate, GoOn, netVars, ctlVars
  <2>3. \A q \in Router : ~ AtStage(q, "SA")'
    BY <2>2, EarlyStage
  <2> QED
    BY <2>1, <2>2, <2>3, ControlKept
<1>5. CASE UNCHANGED vars
  <2>1. UNCHANGED <<bufVars, ctlVars, creditVars, niInVars, niOutVars, schedVars>>
    BY <1>5 DEF vars
  <2>2. BuffersOK' /\ ControlOK' /\ CreditsOK'
    BY <2>1 DEF TypeOK, BuffersOK, ControlOK, CreditsOK, bufVars, ctlVars, creditVars
  <2>3. InterfacesOK' /\ SchedulerOK'
    BY <2>1, SMTT(30) DEF TypeOK, InterfacesOK, SchedulerOK, niInVars, niOutVars, schedVars
  <2>4. Routed' /\ HeadWaits' /\ QueuedOnce' /\ RequestsReady'
    BY <2>1, SMTT(30) DEF ControlInv, Routed, HeadWaits, QueuedOnce, RequestsReady,
       bufVars, ctlVars, isEjectChannel, isHead
  <2>5. GrantedOnce'
    <3>1. /\ GrantedOnce /\ xbar' = xbar /\ swReq' = swReq
          /\ \A q \in Router : AtStage(q, "SA")' <=> AtStage(q, "SA")
      BY <2>1, ZenonT(60) DEF ControlInv, AtStage, Running, ctlVars, schedVars
    <3> QED
      BY <3>1, SMTT(30) DEF GrantedOnce
  <2>6. VCExclusive'
    BY <2>1, SMTT(30) DEF ControlInv, VCExclusive, Holders, ctlVars
  <2>7. XbarReady'
    <3>1. XbarReady /\ flitQ' = flitQ /\ inMod' = inMod /\ xbar' = xbar /\ outFree' = outFree
      BY <2>1, Zenon DEF ControlInv, bufVars, ctlVars
    <3> QED
      BY <3>1, SMTT(30) DEF XbarReady
  <2>8. TypeOK'
    BY <2>2, <2>3, Zenon DEF TypeOK
  <2>9. ControlInv'
    BY <2>4, <2>5, <2>6, <2>7, Zenon DEF ControlInv
  <2> QED
    BY <2>8, <2>9, Zenon
<1> QED
  BY <1>1, <1>2, <1>3, <1>4, <1>5 DEF Next, Step, Finished

\* Every variable keeps its type, whatever the topology, the buffers and the
\* packets: no step of a router, an NI or the clock produces a value that the
\* next one could not read.
THEOREM TypeCorrect ==
  Spec => []TypeOK
<1>1. Init => TypeOK /\ ControlInv
  BY TypesOfInit, InitialControl
<1>2. TypeOK /\ ControlInv /\ [Next]_vars => TypeOK' /\ ControlInv'
  BY ControlInductive
<1> QED
  BY <1>1, <1>2, PTL DEF Spec

\* The control of every router is in order (the inductive invariant).
THEOREM ControlInOrder ==
  Spec => []ControlInv
<1>1. Init => TypeOK /\ ControlInv
  BY TypesOfInit, InitialControl
<1>2. TypeOK /\ ControlInv /\ [Next]_vars => TypeOK' /\ ControlInv'
  BY ControlInductive
<1> QED
  BY <1>1, <1>2, PTL DEF Spec

\* An output VC is allocated exactly while one packet holds it: VA (Router.C)
\* and the tail in ST never disagree, whatever is allocated in between.
THEOREM AllocatedToOne ==
  Spec => []VCExclusive
<1>1. ControlInv => VCExclusive
  BY DEF ControlInv
<1> QED
  BY <1>1, ControlInOrder, PTL

\* The assertions of stageST hold: what switch arbitration granted is still
\* there a cycle later, and no two flits wait for one output port.
THEOREM SwitchReady ==
  Spec => []XbarReady
<1>1. ControlInv => XbarReady
  BY DEF ControlInv
<1> QED
  BY <1>1, ControlInOrder, PTL

-----------------------------------------------------------------------------
(* Processes that are awake. *)

\* The elements of lists.
LEMMA RangeOfConcat ==
  ASSUME NEW S, NEW a \in Seq(S), NEW b \in Seq(S)
  PROVE  Range(a \o b) = Range(a) \cup Range(b)
<1>1. /\ a \o b \in Seq(S) /\ Len(a \o b) = Len(a) + Len(b)
      /\ \A k \in 1 .. Len(a) + Len(b) :
           (a \o b)[k] = IF k <= Len(a) THEN a[k] ELSE b[k - Len(a)]
  OBVIOUS
<1>2. /\ DOMAIN a = 1 .. Len(a) /\ DOMAIN b = 1 .. Len(b)
      /\ DOMAIN (a \o b) = 1 .. Len(a) + Len(b) /\ Len(a) \in Nat /\ Len(b) \in Nat
  BY <1>1
<1> DEFINE c == a \o b
<1> HIDE DEF c
<1>3. ASSUME NEW k \in DOMAIN c PROVE c[k] \in Range(a) \cup Range(b)
  BY <1>1, <1>2, <1>3 DEF Range, c
<1>4. ASSUME NEW k \in DOMAIN a PROVE a[k] \in Range(c)
  <2>1. k \in DOMAIN c /\ c[k] = a[k]
    BY <1>1, <1>2 DEF c
  <2> QED
    BY <2>1 DEF Range
<1>5. ASSUME NEW k \in DOMAIN b PROVE b[k] \in Range(c)
  <2>1. k + Len(a) \in DOMAIN c /\ c[k + Len(a)] = b[k]
    BY <1>1, <1>2 DEF c
  <2> QED
    BY <2>1 DEF Range
<1> QED
  BY <1>3, <1>4, <1>5 DEF Range, c

LEMMA RangeOfAppend ==
  ASSUME NEW S, NEW s \in Seq(S), NEW x \in S
  PROVE  Range(Append(s, x)) = Range(s) \cup {x}
<1>0. <<x>> \in Seq(S)
  OBVIOUS
<1> DEFINE one == <<x>>
<1>1. Append(s, x) = s \o one /\ one \in Seq(S)
  BY <1>0, AppendIsConcat, Zenon
<1>2. Range(one) = {x}
  BY DEF Range
<1> HIDE DEF one
<1>3. Range(s \o one) = Range(s) \cup Range(one)
  BY <1>1, RangeOfConcat
<1> QED
  BY <1>1, <1>2, <1>3

LEMMA RangeOfTail ==
  ASSUME NEW S, NEW s \in Seq(S), s # <<>>
  PROVE  Range(s) = {Head(s)} \cup Range(Tail(s))
<1> DEFINE h == <<Head(s)>>
           t == Tail(s)
<1>1. Head(s) \in S /\ t \in Seq(S) /\ h \in Seq(S)
  BY HeadTailProperties
<1>2. h \o t = s
  <2>1. Len(h \o t) = Len(s) /\ \A k \in 1 .. Len(s) : (h \o t)[k] = s[k]
    BY <1>1
  <2>2. h \o t \in Seq(S)
    BY <1>1
  <2> QED
    BY <2>1, <2>2, SeqEqual
<1>3. Range(h) = {Head(s)}
  BY DEF Range
<1> HIDE DEF h, t
<1>4. Range(h \o t) = Range(h) \cup Range(t)
  BY <1>1, RangeOfConcat
<1> QED
  BY <1>2, <1>3, <1>4 DEF t

\* Who is awake stays so when the running process goes on or holds, and the
\* processes it wakes are.
LEMMA StayAwake ==
  ASSUME SchedulerOK, NEW woken \in Seq(Procs), NEW s,
         \/ GoOn(s, woken)
         \/ ready # <<>> /\ HoldOneCycle(woken)
         \/ ready # <<>> /\ NextStage(woken),
         NEW i \in Range(ready) \cup Range(held) \cup Range(woken)
  PROVE  ~ Waiting(i)'
<1>0. woken \in Seq(Procs) /\ ready \in Seq(Procs) /\ held \in Seq(Procs)
  BY DEF SchedulerOK
<1>1. CASE \E x : GoOn(x, woken)
  <2>1. ready' = ready \o woken /\ held' = held
    BY <1>1, Zenon DEF GoOn
  <2>2. Range(ready') = Range(ready) \cup Range(woken)
    BY <1>0, <2>1, RangeOfConcat
  <2> QED
    BY <2>1, <2>2 DEF Waiting
<1>2. CASE ready # <<>> /\ HoldOneCycle(woken)
  <2>0. ready # <<>>
    BY <1>2, Zenon
  <2> DEFINE rest == Tail(ready)
             first == Head(ready)
  <2>1. /\ first \in Procs /\ rest \in Seq(Procs)
    BY <1>0, <2>0, HeadTailProperties
  <2>2. Range(ready) = {first} \cup Range(rest)
    BY <1>0, <2>0, RangeOfTail, Zenon
  <2>3. ready' = rest \o woken /\ held' = Append(held, first)
    BY <1>2, Zenon DEF HoldOneCycle
  <2> HIDE DEF rest, first
  <2>4. Range(rest \o woken) = Range(rest) \cup Range(woken)
    BY <1>0, <2>1, RangeOfConcat
  <2>5. Range(Append(held, first)) = Range(held) \cup {first}
    BY <1>0, <2>1, RangeOfAppend
  <2>6. i \in Range(ready') \cup Range(held')
    BY <2>2, <2>3, <2>4, <2>5
  <2> QED
    BY <2>6, Zenon DEF Waiting
<1> QED
  BY <1>1, <1>2 DEF NextStage

\* A process that waits for its event is the only one that may fall asleep.
LEMMA OneSleeps ==
  ASSUME SchedulerOK, NEW j, Running(j), WaitEvent(j),
         NEW i \in Range(ready) \cup Range(held), i # j \/ ev[j]
  PROVE  ~ Waiting(i)'
<1>1. /\ ready # <<>> /\ Range(ready) = {j} \cup Range(Tail(ready))
  BY RangeOfTail DEF SchedulerOK, Running
<1> QED
  BY <1>1 DEF WaitEvent, Waiting

\* Processes to wake up, each of which waits and is listed once.
Sleepers(woken) ==
  /\ woken \in Seq(Procs)
  /\ \A k \in DOMAIN woken : Waiting(woken[k])
  /\ \A k, l \in DOMAIN woken : woken[k] = woken[l] => k = l

\* What set() of the events of different processes makes ready.
LEMMA WokenOnce ==
  ASSUME NEW wakeup, DOMAIN wakeup \in SUBSET Int, IsFiniteSet(DOMAIN wakeup),
         \A n \in DOMAIN wakeup : wakeup[n] \in Procs,
         \A m, n \in DOMAIN wakeup : wakeup[m] = wakeup[n] => m = n
  PROVE  /\ Sleepers(Woken(wakeup))
         /\ \A n \in DOMAIN wakeup : Waiting(wakeup[n]) => wakeup[n] \in Range(Woken(wakeup))
         /\ \A k \in DOMAIN Woken(wakeup) : \E n \in DOMAIN wakeup : Woken(wakeup)[k] = wakeup[n]
<1> DEFINE S == {n \in DOMAIN wakeup : Waiting(wakeup[n])}
           c == Cardinality(S)
           order == InOrder(S)
<1>1. S \in SUBSET Int /\ IsFiniteSet(S) /\ S \in SUBSET DOMAIN wakeup
  BY FS_Subset
<1>2. Woken(wakeup) = [n \in DOMAIN order |-> wakeup[order[n]]]
  BY DEF Woken
<1>3. \A n \in S : Waiting(wakeup[n])
  OBVIOUS
<1> HIDE DEF S
<1>4. /\ c \in Nat /\ order \in [1 .. c -> S] /\ DOMAIN order = 1 .. c
      /\ \A m, n \in 1 .. c : order[m] = order[n] => m = n
  BY <1>1, InOrderLists
<1> HIDE DEF c, order
<1>5. DOMAIN Woken(wakeup) = 1 .. c /\ \A k \in 1 .. c : Woken(wakeup)[k] = wakeup[order[k]]
  BY <1>2, <1>4
<1>6. \A k \in 1 .. c : order[k] \in S /\ order[k] \in DOMAIN wakeup
  BY <1>1, <1>4
<1>7. \A k \in DOMAIN Woken(wakeup) : Waiting(Woken(wakeup)[k])
  BY <1>3, <1>5, <1>6
<1>8. \A k, l \in DOMAIN Woken(wakeup) : Woken(wakeup)[k] = Woken(wakeup)[l] => k = l
  BY <1>4, <1>5, <1>6
<1>9. /\ Woken(wakeup) \in Seq(Procs)
      /\ \A n \in DOMAIN wakeup : Waiting(wakeup[n]) => wakeup[n] \in Range(Woken(wakeup))
  BY WokenReady
<1>10. \A k \in DOMAIN Woken(wakeup) : \E n \in DOMAIN wakeup : Woken(wakeup)[k] = wakeup[n]
  BY <1>5, <1>6
<1> QED
  BY <1>7, <1>8, <1>9, <1>10 DEF Sleepers

\* The same of one process, or none.
LEMMA WokenOne ==
  ASSUME NEW i \in Procs
  PROVE  /\ Sleepers(Woken(<<i>>)) /\ Sleepers(Woken(<<>>)) /\ Sleepers(<<>>)
         /\ Waiting(i) => i \in Range(Woken(<<i>>))
<1>1. /\ DOMAIN <<i>> = {1} /\ <<i>>[1] = i
      /\ DOMAIN <<i>> \in SUBSET Int /\ IsFiniteSet(DOMAIN <<i>>)
  BY OneProcess
<1>2. DOMAIN <<>> = {} /\ DOMAIN <<>> \in SUBSET Int /\ IsFiniteSet(DOMAIN <<>>)
  BY OneProcess
<1> DEFINE one == <<i>>
<1>3. \A n \in DOMAIN one : one[n] = i /\ n = 1
  BY <1>1
<1>4. DOMAIN one \in SUBSET Int /\ IsFiniteSet(DOMAIN one) /\ 1 \in DOMAIN one
  BY <1>1
<1> HIDE DEF one
<1>5. Sleepers(Woken(one)) /\ (Waiting(one[1]) => one[1] \in Range(Woken(one)))
  BY <1>3, <1>4, WokenOnce
<1>6. Sleepers(Woken(<<>>))
  BY <1>2, WokenOnce
<1>7. Sleepers(<<>>)
  BY DEF Sleepers
<1> QED
  BY <1>3, <1>4, <1>5, <1>6, <1>7 DEF one

\* Link traversal wakes the routers that sleep at the end of a link.
LEMMA LinkWakes ==
  ASSUME TypeOK, NEW r \in Router, StageLT(r)
  PROVE  \E woken : /\ Sleepers(woken) /\ NextStage(woken)
                    /\ \A l \in Crossed(r) : LET q == Wire[l][1]
                                             IN  inside[q] = 0 /\ Waiting(<<0, q>>) =>
                                                   <<0, q>> \in Range(woken)
<1> DEFINE crossed == Crossed(r)
           first == {l \in crossed : \A k \in crossed : Wire[k][1] = Wire[l][1] => l[2] <= k[2]}
           wakeup == [o \in {l[2] : l \in {k \in first : inside[Wire[k][1]] = 0}} |->
                        <<0, Wire[<<r, o>>][1]>>]
<1>1. NextStage(Woken(wakeup))
  BY Zenon DEF StageLT
<1>2. ASSUME NEW l \in crossed
      PROVE  /\ l \in Link /\ l[1] = r /\ l = <<r, l[2]>> /\ l[2] \in PC
             /\ Wire[l][1] \in Router
  BY NetworkAssumption DEF Crossed
<1>3. DOMAIN wakeup \in SUBSET PC
  BY <1>2
<1>4. DOMAIN wakeup \in SUBSET Int /\ IsFiniteSet(DOMAIN wakeup)
  BY <1>3, Finite, FS_Subset
<1>5. \A o \in DOMAIN wakeup : <<r, o>> \in first /\ wakeup[o] = <<0, Wire[<<r, o>>][1]>>
  BY <1>2
<1>6. \A o \in DOMAIN wakeup : wakeup[o] \in Procs
  BY <1>2 DEF Procs
<1>7. ASSUME NEW m \in DOMAIN wakeup, NEW n \in DOMAIN wakeup, wakeup[m] = wakeup[n]
      PROVE  m = n
  <2>1. Wire[<<r, m>>][1] = Wire[<<r, n>>][1]
    BY <1>5, <1>7
  <2>2. m <= n /\ n <= m
    BY <1>5, <2>1
  <2>3. m \in Int /\ n \in Int
    BY <1>4
  <2> QED
    BY <2>2, <2>3, SMTT(30)
<1>8. ASSUME NEW l \in crossed, inside[Wire[l][1]] = 0
      PROVE  \E o \in DOMAIN wakeup : wakeup[o] = <<0, Wire[l][1]>>
  <2> DEFINE T == {k[2] : k \in {k \in crossed : Wire[k][1] = Wire[l][1]}}
  <2>1. T \in SUBSET Nat /\ T # {}
    BY <1>2 DEF PC
  <2>2. PICK o \in T : \A n \in T : o <= n
    BY <2>1, LeastExists
  <2>3. PICK k \in crossed : Wire[k][1] = Wire[l][1] /\ k[2] = o
    BY <2>2
  <2>4. k \in first
    BY <2>2, <2>3
  <2>5. k \in {k1 \in first : inside[Wire[k1][1]] = 0}
    BY <1>8, <2>3, <2>4
  <2>6. o \in DOMAIN wakeup /\ k = <<r, o>>
    BY <1>2, <2>3, <2>5
  <2> QED
    BY <1>5, <2>3, <2>6
<1> HIDE DEF wakeup
<1>9. /\ Sleepers(Woken(wakeup))
      /\ \A n \in DOMAIN wakeup : Waiting(wakeup[n]) => wakeup[n] \in Range(Woken(wakeup))
  BY <1>4, <1>6, <1>7, WokenOnce
<1> QED
  BY <1>1, <1>8, <1>9

\* Switch traversal wakes output NIs.
LEMMA SwitchWakes ==
  ASSUME TypeOK, NEW r \in Router, StageST(r)
  PROVE  \E woken : /\ Sleepers(woken) /\ NextStage(woken)
                    /\ \A k \in DOMAIN woken : woken[k] \in NIoutProcs
<1> DEFINE movers == {i \in PC : xbar[r][i] # INVALID_VC}
           mod(i) == inMod[r][i][xbar[r][i]]
           from(o) == {i \in movers : mod(i).pc = o}
           wakeup == [o \in {o \in LocalPC : niOut[<<r, o>>] = <<>> /\ from(o) # {}} |-> <<2, r, o>>]
<1>1. NextStage(Woken(wakeup))
  BY ZenonT(60) DEF StageST
<1>2. DOMAIN wakeup \in SUBSET LocalPC /\ \A o \in DOMAIN wakeup : wakeup[o] = <<2, r, o>>
  OBVIOUS
<1> HIDE DEF wakeup
<1>3. /\ DOMAIN wakeup \in SUBSET PC
      /\ \A o \in DOMAIN wakeup : wakeup[o] \in Procs /\ wakeup[o] \in NIoutProcs
  <2>1. \A o \in LocalPC : <<2, r, o>> \in Procs /\ <<2, r, o>> \in NIoutProcs
    BY DEF Procs, NIoutProcs
  <2>2. LocalPC \in SUBSET PC
    BY Finite
  <2> QED
    BY <1>2, <2>1, <2>2
<1>4. DOMAIN wakeup \in SUBSET Int /\ IsFiniteSet(DOMAIN wakeup)
  BY <1>3, Finite, FS_Subset
<1>5. \A m, n \in DOMAIN wakeup : wakeup[m] = wakeup[n] => m = n
  BY <1>2
<1>6. /\ Sleepers(Woken(wakeup))
      /\ \A k \in DOMAIN Woken(wakeup) : \E n \in DOMAIN wakeup : Woken(wakeup)[k] = wakeup[n]
  BY <1>3, <1>4, <1>5, WokenOnce
<1>7. \A k \in DOMAIN Woken(wakeup) : Woken(wakeup)[k] \in NIoutProcs
  BY <1>3, <1>6
<1> QED
  BY <1>1, <1>6, <1>7

\* What a step does to the processes: the running one goes on, holds or falls
\* asleep, and others wake up.
LEMMA Scheduling ==
  ASSUME TypeOK, Next
  PROVE  \/ \E woken : /\ Sleepers(woken)
                       /\ \/ \E s : GoOn(s, woken)
                          \/ ready # <<>> /\ HoldOneCycle(woken)
         \/ \E r \in Router : RouterWake(r) /\ inside[r] = 0 /\ WaitEvent(<<0, r>>)
         \/ \E i \in NIinProcs : NIRead(i) /\ niQ[NIof(i)] = <<>> /\ WaitEvent(i)
         \/ \E i \in NIoutProcs : NIOutput(i) /\ WaitEvent(i)
         \/ Tick
         \/ UNCHANGED vars
<1> DEFINE Regular == \E woken : /\ Sleepers(woken)
                                 /\ \/ \E s : GoOn(s, woken)
                                    \/ ready # <<>> /\ HoldOneCycle(woken)
<1>1. Sleepers(<<>>)
  BY DEF Sleepers
<1>2. ASSUME NEW woken, Sleepers(woken),
             (\E s : GoOn(s, woken)) \/ (ready # <<>> /\ HoldOneCycle(woken))
      PROVE  Regular
  BY <1>2
<1> HIDE DEF Regular
<1>3. ASSUME NEW woken, Sleepers(woken), ready # <<>>, NextStage(woken)
      PROVE  Regular
  <2>1. (\E s : GoOn(s, woken)) \/ HoldOneCycle(woken)
    BY <1>3 DEF NextStage
  <2> QED
    BY <1>2, <1>3, <2>1
<1>4. ASSUME NEW r \in Router, RouterWake(r), ~ (inside[r] = 0 /\ deposits[r] = <<>>)
      PROVE  Regular
  <2>1. GoOn(1, <<>>)
    BY <1>4 DEF RouterWake
  <2> QED
    BY <1>1, <1>2, <2>1
<1>5. ASSUME NEW r \in Router, IncCredit(r) \/ StageSA(r) \/ StageRC(r) \/ StageVA(r) \/ StageSSA(r)
      PROVE  Regular
  <2>1. ready # <<>> /\ (NextStage(<<>>) \/ \E s : GoOn(s, <<>>))
    BY <1>5, Zenon DEF IncCredit, StageSA, StageRC, StageVA, StageSSA, AtStage, Running
  <2> QED
    BY <1>1, <1>2, <1>3, <2>1
<1>6. ASSUME NEW r \in Router, StageLT(r) \/ StageST(r)
      PROVE  Regular
  <2>1. ready # <<>>
    BY <1>6, Zenon DEF StageLT, StageST, AtStage, Running
  <2>2. PICK woken : Sleepers(woken) /\ NextStage(woken)
    BY <1>6, LinkWakes, SwitchWakes
  <2> QED
    BY <1>3, <2>1, <2>2
<1>7. ASSUME NEW i \in NIinProcs, NIRead(i), niQ[NIof(i)] # <<>>
      PROVE  Regular
  <2>1. GoOn(1, <<>>)
    BY <1>7 DEF NIRead
  <2> QED
    BY <1>1, <1>2, <2>1
<1>8. ASSUME NEW i \in NIinProcs, NIReserve(i) \/ NIFinish(i)
      PROVE  Regular
  <2>1. ready # <<>> /\ (HoldOneCycle(<<>>) \/ GoOn(1, <<>>))
    BY <1>8, Zenon DEF NIReserve, NIFinish, Running
  <2> QED
    BY <1>1, <1>2, <2>1
<1>9. ASSUME NEW i \in NIinProcs, NIInject(i)
      PROVE  Regular
  <2> DEFINE r == NIof(i)[1]
  <2>1. ready # <<>> /\ <<0, r>> \in Procs
    BY <1>9 DEF NIInject, Running, NIof, NIinProcs, Procs
  <2>2. \/ HoldOneCycle(<<>>)
        \/ HoldOneCycle(Woken(IF inside[r] = 0 THEN <<<<0, r>>>> ELSE <<>>))
    BY <1>9, Zenon DEF NIInject
  <2> HIDE DEF r
  <2>3. Sleepers(Woken(<<<<0, r>>>>)) /\ Sleepers(Woken(<<>>))
    BY <2>1, WokenOne
  <2>4. \E woken : Sleepers(woken) /\ HoldOneCycle(woken)
    BY <1>1, <2>2, <2>3, SMTT(30)
  <2> QED
    BY <1>2, <2>1, <2>4, SMTT(30)
<1>10. ASSUME NEW i \in NIoutProcs, NIOutput(i), niOut[NIof(i)] # <<>>
       PROVE  Regular
  <2>1. GoOn(1, <<>>)
    BY <1>10 DEF NIOutput
  <2> QED
    BY <1>1, <1>2, <2>1
<1>11. ASSUME NEW p \in Packet, Generate(p)
       PROVE  Regular
  <2> DEFINE ni == Src[p]
             i == <<1, ni[1], ni[2], IF PerVC THEN niLast[ni] ELSE 0>>
  <2>1. GoOn(0, Woken(<<>>)) \/ GoOn(0, Woken(<<i>>))
    BY <1>11 DEF Generate
  <2>2. i \in Procs
    <3>1. ni \in NI /\ niLast[ni] \in VC
      BY NetworkAssumption DEF TypeOK, InterfacesOK
    <3>2. ni[1] \in Router /\ ni[2] \in LocalPC
      BY <3>1 DEF NI
    <3> QED
      BY <3>1, <3>2 DEF Procs, NIinProcs, NIVC
  <2> HIDE DEF i
  <2>3. Sleepers(Woken(<<i>>)) /\ Sleepers(Woken(<<>>))
    BY <2>2, WokenOne
  <2>4. \E woken : Sleepers(woken) /\ GoOn(0, woken)
    BY <2>1, <2>3
  <2> QED
    BY <1>2, <2>4
<1>12. ASSUME NEW r \in Router, RouterStep(r)
       PROVE  Regular \/ (RouterWake(r) /\ inside[r] = 0 /\ WaitEvent(<<0, r>>))
  <2>1. RouterWake(r) /\ inside[r] = 0 /\ deposits[r] = <<>> => WaitEvent(<<0, r>>)
    BY DEF RouterWake
  <2> QED
    BY <1>4, <1>5, <1>6, <1>12, <2>1 DEF RouterStep
<1>13. ASSUME NEW i \in NIinProcs, NIRead(i) \/ NIReserve(i) \/ NIInject(i) \/ NIFinish(i)
       PROVE  Regular \/ (NIRead(i) /\ niQ[NIof(i)] = <<>> /\ WaitEvent(i))
  <2>1. NIRead(i) /\ niQ[NIof(i)] = <<>> => WaitEvent(i)
    BY DEF NIRead
  <2> QED
    BY <1>7, <1>8, <1>9, <1>13, <2>1
<1>14. ASSUME NEW i \in NIoutProcs, NIOutput(i)
       PROVE  Regular \/ WaitEvent(i)
  <2>1. niOut[NIof(i)] = <<>> => WaitEvent(i)
    BY <1>14 DEF NIOutput
  <2> QED
    BY <1>10, <1>14, <2>1
<1>15. Finished => UNCHANGED vars
  BY DEF Finished
<1> QED
  BY <1>11, <1>12, <1>13, <1>14, <1>15 DEF Next, Step, NIStep, Regular

\* A process falls asleep only where it finds nothing to do.
LEMMA FallsAsleep ==
  ASSUME TypeOK, Next, NEW i, ~ Waiting(i), Waiting(i)'
  PROVE  \/ \E r \in Router : i = <<0, r>> /\ RouterWake(r) /\ inside[r] = 0
         \/ i \in NIinProcs /\ NIRead(i) /\ niQ[NIof(i)] = <<>>
         \/ i \in NIoutProcs /\ NIOutput(i)
<1>1. SchedulerOK /\ i \in Range(ready) \cup Range(held)
  BY DEF TypeOK, Waiting
<1>2. ASSUME NEW woken, Sleepers(woken),
             (\E s : GoOn(s, woken)) \/ (ready # <<>> /\ HoldOneCycle(woken))
      PROVE  FALSE
  <2>1. woken \in Seq(Procs)
    BY <1>2 DEF Sleepers
  <2> QED
    BY <1>1, <1>2, <2>1, StayAwake
<1>3. ASSUME NEW j, Running(j), WaitEvent(j)
      PROVE  i = j
  BY <1>1, <1>3, OneSleeps
<1>4. ~ Tick
  <2> SUFFICES ASSUME Tick PROVE FALSE
    OBVIOUS
  <2>1. Range(ready) = {} /\ ready' = held
    BY DEF Tick, Range
  <2> QED
    BY <1>1, <2>1 DEF Waiting
<1>5. ~ UNCHANGED vars
  BY DEF Waiting, vars, schedVars
<1>6. \A r \in Router : RouterWake(r) => Running(<<0, r>>)
  BY DEF RouterWake
<1>7. \A j \in NIinProcs : NIRead(j) => Running(j)
  BY DEF NIRead
<1>8. \A j \in NIoutProcs : NIOutput(j) => Running(j)
  BY DEF NIOutput
<1>9. \/ \E r \in Router : RouterWake(r) /\ inside[r] = 0 /\ WaitEvent(<<0, r>>)
      \/ \E j \in NIinProcs : NIRead(j) /\ niQ[NIof(j)] = <<>> /\ WaitEvent(j)
      \/ \E j \in NIoutProcs : NIOutput(j) /\ WaitEvent(j)
  BY <1>2, <1>4, <1>5, Scheduling
<1> QED
  BY <1>3, <1>6, <1>7, <1>8, <1>9

-----------------------------------------------------------------------------
(* Network interfaces with packets are awake. *)

\* Packets are in the extra queue of an NI only while its queue is full.
ExtraIfFull ==
  \A d \in NI : niExtra[d] # <<>> => Len(niQ[d]) >= NIDepth

\* A queue that is not empty loses its first packet or gets one more.
LEMMA QueueLengths ==
  ASSUME NEW S, NEW s \in Seq(S), NEW t \in Seq(S), s # <<>>, t # <<>>, NEW x \in S
  PROVE  /\ Len(Append(s, x)) = Len(s) + 1
         /\ Len(Tail(s) \o <<Head(t)>>) = Len(s)
         /\ Len(s) >= 1
<1>1. Head(t) \in S /\ Tail(s) \in Seq(S) /\ Len(Tail(s)) = Len(s) - 1 /\ Len(s) >= 1
  BY HeadTailProperties, EmptySeq
<1>2. <<Head(t)>> \in Seq(S) /\ Len(<<Head(t)>>) = 1
  BY <1>1
<1>3. Len(Tail(s) \o <<Head(t)>>) = Len(Tail(s)) + Len(<<Head(t)>>)
  BY <1>1, <1>2, ConcatProperties
<1> QED
  BY <1>1, <1>2, <1>3, AppendProperties

\* The two of them are kept.
LEMMA InterfacesAwake ==
  ASSUME TypeOK, ExtraIfFull, NIAwake, Next
  PROVE  ExtraIfFull' /\ NIAwake'
<1>1. NIDepth \in Nat \ {0} /\ niQ \in [NI -> Seq(Packet)] /\ niExtra \in [NI -> Seq(Packet)]
  BY NetworkAssumption DEF TypeOK, InterfacesOK
<1>2. \A d \in NI, v \in NIVC : /\ <<1, d[1], d[2], v>> \in NIinProcs
                                /\ NIof(<<1, d[1], d[2], v>>) = d
  BY DEF NI, NIinProcs, NIof
<1>3. \A i \in NIinProcs : NIof(i) \in NI /\ i = <<1, NIof(i)[1], NIof(i)[2], i[4]>> /\ i[4] \in NIVC
  BY DEF NI, NIinProcs, NIof
<1>4. ASSUME NEW d \in NI, niQ'[d] # <<>> \/ niExtra'[d] # <<>>,
             niQ[d] # <<>> \/ niExtra[d] # <<>>
      PROVE  \E v \in NIVC : ~ Waiting(<<1, d[1], d[2], v>>)'
  <2>1. niQ[d] # <<>>
    <3>1. niExtra[d] # <<>> => Len(niQ[d]) >= NIDepth
      BY DEF ExtraIfFull
    <3> QED
      BY <1>1, <1>4, <3>1
  <2>2. PICK v \in NIVC : ~ Waiting(<<1, d[1], d[2], v>>)
    BY <1>4 DEF NIAwake
  <2> DEFINE i == <<1, d[1], d[2], v>>
  <2>3. i \in NIinProcs /\ NIof(i) = d
    BY <1>2
  <2>4. i \notin NIoutProcs /\ \A r : i # <<0, r>>
    BY DEF NIoutProcs
  <2> HIDE DEF i
  <2>5. ~ Waiting(i)'
    BY <2>1, <2>2, <2>3, <2>4, FallsAsleep DEF i
  <2> QED
    BY <2>5 DEF i
<1>5. CASE UNCHANGED <<niQ, niExtra>>
  BY <1>4, <1>5 DEF ExtraIfFull, NIAwake
<1>6. ASSUME NEW i \in NIinProcs, NIRead(i), niQ[NIof(i)] # <<>>
      PROVE  ExtraIfFull' /\ NIAwake'
  <2> DEFINE ni == NIof(i)
             refill == niExtra[ni] # <<>>
  <2>1. ni \in NI
    BY <1>3
  <2>2. /\ niQ' = [niQ EXCEPT ![ni] =
                     Tail(@) \o IF refill THEN <<Head(niExtra[ni])>> ELSE <<>>]
        /\ niExtra' = IF refill THEN [niExtra EXCEPT ![ni] = Tail(@)] ELSE niExtra
    BY <1>6 DEF NIRead
  <2>3. ExtraIfFull'
    <3> SUFFICES ASSUME NEW d \in NI, niExtra'[d] # <<>>
                 PROVE  Len(niQ'[d]) >= NIDepth
      BY DEF ExtraIfFull
    <3>1. CASE d # ni
      BY <1>1, <2>1, <2>2, <3>1 DEF ExtraIfFull
    <3>2. CASE d = ni /\ refill
      <4>1. niQ'[d] = Tail(niQ[d]) \o <<Head(niExtra[d])>>
        BY <1>1, <2>1, <2>2, <3>2
      <4>2. Len(niQ'[d]) = Len(niQ[d])
        <5>1. niQ[d] \in Seq(Packet) /\ niExtra[d] \in Seq(Packet) /\ Head(niExtra[d]) \in Packet
          BY <1>1, <3>2
        <5> QED
          BY <1>6, <3>2, <4>1, <5>1, QueueLengths
      <4>3. Len(niQ[d]) >= NIDepth
        BY <3>2 DEF ExtraIfFull
      <4> QED
        BY <4>2, <4>3
    <3>3. CASE d = ni /\ ~ refill
      BY <2>2, <3>3
    <3> QED
      BY <3>1, <3>2, <3>3
  <2>4. \A d \in NI : niQ'[d] # <<>> \/ niExtra'[d] # <<>> => niQ[d] # <<>> \/ niExtra[d] # <<>>
    BY <1>1, <1>6, <2>1, <2>2
  <2> QED
    BY <1>4, <2>3, <2>4 DEF NIAwake
<1>7. ASSUME NEW p \in Packet, Generate(p)
      PROVE  ExtraIfFull' /\ NIAwake'
  <2> DEFINE ni == Src[p]
             full == Len(niQ[ni]) >= NIDepth
  <2>1. ni \in NI
    BY NetworkAssumption
  <2>2. /\ niQ' = IF full THEN niQ ELSE [niQ EXCEPT ![ni] = Append(@, p)]
        /\ niExtra' = IF full THEN [niExtra EXCEPT ![ni] = Append(@, p)] ELSE niExtra
    BY <1>7 DEF Generate
  <2>3. ExtraIfFull'
    <3> SUFFICES ASSUME NEW d \in NI, niExtra'[d] # <<>>
                 PROVE  Len(niQ'[d]) >= NIDepth
      BY DEF ExtraIfFull
    <3>1. CASE d # ni
      BY <1>1, <2>1, <2>2, <3>1 DEF ExtraIfFull
    <3>2. CASE d = ni /\ full
      BY <2>2, <3>2
    <3>3. CASE d = ni /\ ~ full
      BY <2>2, <3>3 DEF ExtraIfFull
    <3> QED
      BY <3>1, <3>2, <3>3
  <2>4. ASSUME NEW d \in NI, niQ'[d] # <<>> \/ niExtra'[d] # <<>>,
               niQ[d] = <<>>, niExtra[d] = <<>>
        PROVE  \E v \in NIVC : ~ Waiting(<<1, d[1], d[2], v>>)'
    <3>1. d = ni
      BY <1>1, <2>1, <2>2, <2>4
    <3>2. ~ full
      BY <1>1, <2>4, <3>1
    <3>3. PICK v \in NIVC : v = IF PerVC THEN niLast[ni] ELSE 0
      BY <2>1 DEF NIVC, TypeOK, InterfacesOK
    <3> DEFINE i == <<1, ni[1], ni[2], v>>
               woken == Woken(<<i>>)
    <3>4. i \in Procs
      BY <1>2, <2>1 DEF Procs
    <3>5. GoOn(0, woken)
      BY <1>7, <2>4, <3>1, <3>2, <3>3 DEF Generate
    <3> HIDE DEF i
    <3>6. woken \in Seq(Procs) /\ (Waiting(i) => i \in Range(woken))
      BY <3>4, WokenOne DEF Sleepers
    <3>7. i \in Range(ready) \cup Range(held) \cup Range(woken)
      BY <3>6 DEF Waiting
    <3>8. SchedulerOK
      BY DEF TypeOK
    <3> HIDE DEF woken
    <3>9. ~ Waiting(i)'
      BY <3>5, <3>6, <3>7, <3>8, StayAwake
    <3> QED
      BY <3>1, <3>9 DEF i
  <2> QED
    BY <1>4, <2>3, <2>4 DEF NIAwake
<1>8. \/ UNCHANGED <<niQ, niExtra>>
      \/ \E i \in NIinProcs : NIRead(i) /\ niQ[NIof(i)] # <<>>
      \/ \E p \in Packet : Generate(p)
  <2>1. \A r \in Router : RouterStep(r) => UNCHANGED <<niQ, niExtra>>
    <3> SUFFICES ASSUME NEW r \in Router, RouterStep(r)
                 PROVE  UNCHANGED niInVars
      BY DEF niInVars
    <3>1. RouterWake(r) \/ IncCredit(r) \/ StageLT(r) \/ StageST(r) => UNCHANGED niInVars
      BY Zenon DEF RouterWake, IncCredit, StageLT, StageST
    <3>2. StageSA(r) \/ StageRC(r) \/ StageVA(r) \/ StageSSA(r) => UNCHANGED niInVars
      BY Zenon DEF StageSA, StageRC, StageVA, StageSSA
    <3> QED
      BY <3>1, <3>2 DEF RouterStep
  <2>2. \A i \in NIinProcs : NIReserve(i) \/ NIInject(i) \/ NIFinish(i) => UNCHANGED <<niQ, niExtra>>
    BY ZenonT(60) DEF NIReserve, NIInject, NIFinish
  <2>3. \A i \in NIinProcs : NIRead(i) /\ niQ[NIof(i)] = <<>> => UNCHANGED <<niQ, niExtra>>
    BY DEF NIRead
  <2>4. \A i \in NIoutProcs : NIOutput(i) => UNCHANGED <<niQ, niExtra>>
    BY DEF NIOutput, niInVars
  <2>5. Tick \/ Finished => UNCHANGED <<niQ, niExtra>>
    BY DEF Tick, Finished, niInVars, vars
  <2> QED
    BY <2>1, <2>2, <2>3, <2>4, <2>5 DEF Next, Step, NIStep
<1> QED
  BY <1>5, <1>6, <1>7, <1>8

\* No packet is forgotten in an NI: as long as one is queued, one of the NI's
\* processes is ready or holds, although writePacket() sets one event for many
\* packets and that of a process which may be busy (NIInput.C).
THEOREM PacketsNotForgotten ==
  Spec => []NIAwake
<1>1. Init => ExtraIfFull /\ NIAwake
  BY DEF Init, ExtraIfFull, NIAwake
<1>2. TypeOK /\ ExtraIfFull /\ NIAwake /\ [Next]_vars => ExtraIfFull' /\ NIAwake'
  <2>1. UNCHANGED vars /\ ExtraIfFull /\ NIAwake => ExtraIfFull' /\ NIAwake'
    BY DEF vars, niInVars, schedVars, ExtraIfFull, NIAwake, Waiting
  <2> QED
    BY <2>1, InterfacesAwake
<1> QED
  BY <1>1, <1>2, TypeCorrect, PTL DEF Spec

-----------------------------------------------------------------------------
(* Counting what several places hold. *)

\* The units at the places that f counts, and how many there are.
Cells(f) == UNION {{x} \X (1 .. f[x]) : x \in DOMAIN f}
Total(f) == Cardinality(Cells(f))

LEMMA CellsFinite ==
  ASSUME NEW D, IsFiniteSet(D), NEW f \in [D -> Nat]
  PROVE  IsFiniteSet(Cells(f)) /\ Total(f) \in Nat
<1> DEFINE block == [x \in D |-> {x} \X (1 .. f[x])]
           S == {{x} \X (1 .. f[x]) : x \in D}
<1>1. block \in Surjection(D, S)
  BY DEF Surjection
<1>2. IsFiniteSet(S)
  BY <1>1, FS_Surjection
<1>3. ASSUME NEW x \in D
      PROVE  IsFiniteSet({x} \X (1 .. f[x]))
  <2>1. f[x] \in Nat
    OBVIOUS
  <2>2. IsFiniteSet({x})
    BY FS_Singleton
  <2>3. IsFiniteSet(1 .. f[x])
    BY <2>1, FS_Interval
  <2> QED
    BY <2>2, <2>3, FS_Product
<1>4. IsFiniteSet(UNION S)
  BY <1>2, <1>3, FS_UNION
<1> QED
  BY <1>4, FS_CardinalityType DEF Cells, Total

\* As many values as arguments, if no two are the same.
LEMMA ImageSize ==
  ASSUME NEW S, IsFiniteSet(S), NEW f, DOMAIN f = S, IsInjective(f)
  PROVE  LET T == {f[x] : x \in S}
         IN  IsFiniteSet(T) /\ Cardinality(T) = Cardinality(S) /\ Cardinality(T) \in Nat
<1> DEFINE T == {f[x] : x \in S}
           g == [x \in S |-> f[x]]
<1>1. g \in Surjection(S, T) /\ g \in Injection(S, T)
  BY DEF Surjection, Injection, IsInjective
<1> HIDE DEF T, g
<1>2. IsFiniteSet(T) /\ Cardinality(T) = Cardinality(S)
  BY <1>1, FS_Surjection
<1>3. Cardinality(T) \in Nat
  BY <1>2, FS_CardinalityType
<1> QED
  BY <1>2, <1>3 DEF T

\* From f to g, the places of P get one unit more and those of M one less.
Moves(D, f, g, P, M) ==
  /\ IsFiniteSet(D) /\ f \in [D -> Nat] /\ g \in [D -> Nat]
  /\ P \in SUBSET D /\ M \in SUBSET D /\ P \cap M = {}
  /\ \A x \in P : g[x] = f[x] + 1
  /\ \A x \in M : f[x] = g[x] + 1
  /\ \A x \in D \ (P \cup M) : g[x] = f[x]

LEMMA TotalMoves ==
  ASSUME NEW D, NEW f, NEW g, NEW P, NEW M, Moves(D, f, g, P, M)
  PROVE  /\ Total(f) \in Nat /\ Total(g) \in Nat
         /\ Cardinality(P) \in Nat /\ Cardinality(M) \in Nat
         /\ Total(g) = Total(f) + Cardinality(P) - Cardinality(M)
<1> DEFINE up == [x \in P |-> <<x, g[x]>>]
           down == [x \in M |-> <<x, f[x]>>]
           A == {up[x] : x \in P}
           B == {down[x] : x \in M}
<1> USE DEF Moves
<1>1. /\ IsFiniteSet(Cells(f)) /\ IsFiniteSet(Cells(g))
      /\ Total(f) \in Nat /\ Total(g) \in Nat
  BY CellsFinite
<1>2. IsFiniteSet(P) /\ IsFiniteSet(M) /\ Cardinality(P) \in Nat /\ Cardinality(M) \in Nat
  BY FS_Subset, FS_CardinalityType
<1>3. IsFiniteSet(A) /\ Cardinality(A) = Cardinality(P)
  <2>1. DOMAIN up = P /\ IsInjective(up)
    BY DEF IsInjective
  <2> HIDE DEF up
  <2> QED
    BY <1>2, <2>1, ImageSize
<1>4. IsFiniteSet(B) /\ Cardinality(B) = Cardinality(M)
  <2>1. DOMAIN down = M /\ IsInjective(down)
    BY DEF IsInjective
  <2> HIDE DEF down
  <2> QED
    BY <1>2, <2>1, ImageSize
<1>5. \A u : u \in A <=> \E x \in P : u = <<x, g[x]>>
  OBVIOUS
<1>6. \A u : u \in B <=> \E x \in M : u = <<x, f[x]>>
  OBVIOUS
<1>7. \A u : u \in Cells(f) <=> \E x \in D : u[2] \in 1 .. f[x] /\ u = <<x, u[2]>>
  BY DEF Cells
<1>8. \A u : u \in Cells(g) <=> \E x \in D : u[2] \in 1 .. g[x] /\ u = <<x, u[2]>>
  BY DEF Cells
<1> HIDE DEF A, B, up, down
<1>9. B \in SUBSET Cells(f)
  BY <1>6, <1>7
<1>10. A \cap Cells(f) = {}
  BY <1>5, <1>7
<1>11. Cells(g) = (Cells(f) \ B) \cup A
  <2>1. ASSUME NEW x \in D, NEW k \in Nat \ {0}
        PROVE  <<x, k>> \in Cells(g) <=> <<x, k>> \in (Cells(f) \ B) \cup A
    <3>1. /\ <<x, k>> \in Cells(g) <=> k <= g[x]
          /\ <<x, k>> \in Cells(f) <=> k <= f[x]
          /\ <<x, k>> \in A <=> x \in P /\ k = g[x]
          /\ <<x, k>> \in B <=> x \in M /\ k = f[x]
      BY <1>5, <1>6, <1>7, <1>8
    <3>2. g[x] \in Nat /\ f[x] \in Nat
      OBVIOUS
    <3>3. CASE x \in P
      BY <3>1, <3>2, <3>3
    <3>4. CASE x \in M
      BY <3>1, <3>2, <3>4
    <3>5. CASE x \notin P /\ x \notin M
      BY <3>1, <3>2, <3>5
    <3> QED
      BY <3>3, <3>4, <3>5
  <2>2. ASSUME NEW u \in Cells(g) \cup Cells(f) \cup A
        PROVE  \E x \in D, k \in Nat \ {0} : u = <<x, k>>
    <3>1. \A x \in P : g[x] \in Nat \ {0}
      OBVIOUS
    <3> QED
      BY <1>5, <1>7, <1>8, <2>2, <3>1
  <2> QED
    BY <2>1, <2>2
<1>12. /\ IsFiniteSet(Cells(f) \ B)
       /\ Cardinality(Cells(f) \ B) = Cardinality(Cells(f)) - Cardinality(B)
  <2>1. Cells(f) \cap B = B
    BY <1>9
  <2>2. /\ IsFiniteSet(Cells(f) \ B)
        /\ Cardinality(Cells(f) \ B) = Cardinality(Cells(f)) - Cardinality(Cells(f) \cap B)
    BY <1>1, <1>4, FS_Difference
  <2> QED
    BY <2>1, <2>2
<1>13. Cardinality((Cells(f) \ B) \cup A) = Cardinality(Cells(f) \ B) + Cardinality(A)
  <2>1. (Cells(f) \ B) \cap A = {}
    BY <1>10
  <2>2. Cardinality((Cells(f) \ B) \cup A)
          = Cardinality(Cells(f) \ B) + Cardinality(A) - Cardinality((Cells(f) \ B) \cap A)
    BY <1>3, <1>12, FS_Union
  <2>3. /\ Cardinality(Cells(f) \ B) \in Nat /\ Cardinality(A) \in Nat
        /\ Cardinality((Cells(f) \ B) \cap A) = 0
    BY <1>3, <1>12, <2>1, FS_CardinalityType, FS_EmptySet
  <2> QED
    BY <2>2, <2>3
<1>14. Total(g) = Total(f) - Cardinality(M) + Cardinality(P)
  BY <1>3, <1>4, <1>11, <1>12, <1>13 DEF Total
<1> QED
  BY <1>1, <1>2, <1>14

\* Nothing is anywhere if the total is zero.
LEMMA TotalZero ==
  ASSUME NEW D, IsFiniteSet(D), NEW f \in [D -> Nat]
  PROVE  Total(f) = 0 <=> \A x \in D : f[x] = 0
<1>1. IsFiniteSet(Cells(f))
  BY CellsFinite
<1>2. Total(f) = 0 <=> Cells(f) = {}
  BY <1>1, FS_EmptySet DEF Total
<1>3. ASSUME Cells(f) = {}, NEW x \in D
      PROVE  f[x] = 0
  <2>1. f[x] \in Nat
    OBVIOUS
  <2>2. f[x] # 0 => <<x, 1>> \in Cells(f)
    BY <2>1 DEF Cells
  <2> QED
    BY <1>3, <2>2
<1>4. (\A x \in D : f[x] = 0) => Cells(f) = {}
  BY DEF Cells
<1> QED
  BY <1>2, <1>3, <1>4

-----------------------------------------------------------------------------
(* A router sleeps only when it has no flits. *)

\* The flits in each input VC of r, and on each of its links.
Buffered(r) == [x \in PC \X VC |-> Len(flitQ[r][x[1]][x[2]])]
Departed(r) == [l \in {k \in Link : k[1] = r} |-> Len(pipe[l])]

\* m_num_flits_inside counts them all.
Counted ==
  \A r \in Router : inside[r] = Total(Buffered(r)) + Total(Departed(r))

\* A router that waits for its event has counted none.
IdleAsleep ==
  \A r \in Router : Waiting(<<0, r>>) => inside[r] = 0

LEMMA FlitsCounted ==
  ASSUME BuffersOK, NEW r \in Router
  PROVE  LET L == {l \in Link : l[1] = r}
         IN  /\ IsFiniteSet(PC \X VC) /\ Buffered(r) \in [PC \X VC -> Nat]
             /\ IsFiniteSet(L) /\ Departed(r) \in [L -> Nat]
<1>1. \A x \in PC \X VC : Len(flitQ[r][x[1]][x[2]]) \in Nat
  BY DEF BuffersOK
<1>2. \A l \in Link : Len(pipe[l]) \in Nat
  BY DEF BuffersOK
<1>3. IsFiniteSet(PC \X VC)
  BY Finite, FS_Product
<1> DEFINE L == {l \in Link : l[1] = r}
<1>4. L \in SUBSET Link
  OBVIOUS
<1>5. IsFiniteSet(L)
  BY <1>4, Finite, FS_Subset
<1> QED
  BY <1>1, <1>2, <1>3, <1>5 DEF Buffered, Departed

\* A step brings router r a flit to each input VC of `come' and takes one from
\* each of `gone', sends one to each link of `out' and takes one from each of
\* `over', and the counter follows.
CountTracks(r, come, gone, out, over) ==
  /\ come \in SUBSET (PC \X VC) /\ gone \in SUBSET (PC \X VC) /\ come \cap gone = {}
  /\ out \in SUBSET {l \in Link : l[1] = r} /\ over \in SUBSET {l \in Link : l[1] = r}
  /\ out \cap over = {}
  /\ \A pc \in PC, vc \in VC :
       Len(flitQ'[r][pc][vc]) = Len(flitQ[r][pc][vc])
                                  + (IF <<pc, vc>> \in come THEN 1 ELSE 0)
                                  - (IF <<pc, vc>> \in gone THEN 1 ELSE 0)
  /\ \A l \in {k \in Link : k[1] = r} :
       Len(pipe'[l]) = Len(pipe[l]) + (IF l \in out THEN 1 ELSE 0)
                                    - (IF l \in over THEN 1 ELSE 0)
  /\ inside'[r] = inside[r] + Cardinality(come) - Cardinality(gone)
                            + Cardinality(out) - Cardinality(over)

\* The count stays right if it follows what comes and goes.
LEMMA CountFollows ==
  ASSUME BuffersOK, BuffersOK', NEW r \in Router,
         inside[r] = Total(Buffered(r)) + Total(Departed(r)),
         NEW come, NEW gone, NEW out, NEW over, CountTracks(r, come, gone, out, over)
  PROVE  inside'[r] = (Total(Buffered(r)) + Total(Departed(r)))'
<1> DEFINE L == {l \in Link : l[1] = r}
           D == PC \X VC
           f == Buffered(r)
           g == Buffered(r)'
           h == Departed(r)
           k == Departed(r)'
<1>1. /\ IsFiniteSet(D) /\ f \in [D -> Nat] /\ IsFiniteSet(L) /\ h \in [L -> Nat]
  BY FlitsCounted
<1>2. /\ g \in [D -> Nat] /\ k \in [L -> Nat]
  <2>1. \A x \in D : Len(flitQ'[r][x[1]][x[2]]) \in Nat
    BY DEF BuffersOK
  <2>2. \A l \in L : Len(pipe'[l]) \in Nat
    BY DEF BuffersOK
  <2> QED
    BY <2>1, <2>2 DEF Buffered, Departed
<1>3. \A x \in D : /\ x[1] \in PC /\ x[2] \in VC /\ x = <<x[1], x[2]>>
                   /\ f[x] = Len(flitQ[r][x[1]][x[2]])
                   /\ g[x] = Len(flitQ'[r][x[1]][x[2]])
  BY DEF Buffered
<1>4. \A l \in L : h[l] = Len(pipe[l]) /\ k[l] = Len(pipe'[l])
  BY DEF Departed
<1> HIDE DEF f, g, h, k, L, D
<1>5. ASSUME NEW x \in D
      PROVE  g[x] = f[x] + (IF x \in come THEN 1 ELSE 0) - (IF x \in gone THEN 1 ELSE 0)
  <2>1. PICK pc \in PC, vc \in VC : x = <<pc, vc>>
    BY DEF D
  <2>2. f[x] = Len(flitQ[r][pc][vc]) /\ g[x] = Len(flitQ'[r][pc][vc])
    BY <1>3, <2>1
  <2>3. Len(flitQ'[r][pc][vc]) = Len(flitQ[r][pc][vc])
                                   + (IF <<pc, vc>> \in come THEN 1 ELSE 0)
                                   - (IF <<pc, vc>> \in gone THEN 1 ELSE 0)
    BY DEF CountTracks
  <2> QED
    BY <2>1, <2>2, <2>3
<1>6. \A l \in L : k[l] = h[l] + (IF l \in out THEN 1 ELSE 0) - (IF l \in over THEN 1 ELSE 0)
  BY <1>4 DEF L, CountTracks
<1>7. /\ come \in SUBSET D /\ gone \in SUBSET D /\ come \cap gone = {}
      /\ out \in SUBSET L /\ over \in SUBSET L /\ out \cap over = {}
  BY DEF D, L, CountTracks
<1>8. /\ \A x \in come : g[x] = f[x] + 1
      /\ \A x \in gone : f[x] = g[x] + 1
      /\ \A x \in D \ (come \cup gone) : g[x] = f[x]
  BY <1>1, <1>2, <1>5, <1>7
<1>9. /\ \A l \in out : k[l] = h[l] + 1
      /\ \A l \in over : h[l] = k[l] + 1
      /\ \A l \in L \ (out \cup over) : k[l] = h[l]
  BY <1>1, <1>2, <1>6, <1>7
<1>10. /\ Total(f) \in Nat /\ Total(g) \in Nat
       /\ Cardinality(come) \in Nat /\ Cardinality(gone) \in Nat
       /\ Total(g) = Total(f) + Cardinality(come) - Cardinality(gone)
  <2>1. Moves(D, f, g, come, gone)
    BY <1>1, <1>2, <1>7, <1>8 DEF Moves, CountTracks
  <2> QED
    BY <2>1, TotalMoves
<1>11. /\ Total(h) \in Nat /\ Total(k) \in Nat
       /\ Cardinality(out) \in Nat /\ Cardinality(over) \in Nat
       /\ Total(k) = Total(h) + Cardinality(out) - Cardinality(over)
  <2>1. Moves(L, h, k, out, over)
    BY <1>1, <1>2, <1>7, <1>9 DEF Moves, CountTracks
  <2> QED
    BY <2>1, TotalMoves
<1>12. inside[r] = Total(f) + Total(h)
  BY DEF f, h
<1>13. inside'[r] = Total(g) + Total(k)
  BY <1>10, <1>11, <1>12, SMTT(30) DEF CountTracks
<1>14. (Total(Buffered(r)) + Total(Departed(r)))' = Total(g) + Total(k)
  BY DEF g, k, Total, Cells
<1> QED
  BY <1>13, <1>14

\* The count of a router that no flit comes to or leaves.
LEMMA CountStays ==
  ASSUME BuffersOK, BuffersOK', NEW r \in Router,
         inside[r] = Total(Buffered(r)) + Total(Departed(r)),
         \A pc \in PC, vc \in VC : Len(flitQ'[r][pc][vc]) = Len(flitQ[r][pc][vc]),
         \A l \in {k \in Link : k[1] = r} : Len(pipe'[l]) = Len(pipe[l]),
         inside'[r] = inside[r]
  PROVE  inside'[r] = (Total(Buffered(r)) + Total(Departed(r)))'
<1>1. Cardinality({}) = 0
  BY FS_EmptySet
<1>2. inside[r] \in Int
  BY DEF BuffersOK
<1>3. inside'[r] = inside[r] + Cardinality({}) - Cardinality({}) + Cardinality({}) - Cardinality({})
  BY <1>1, <1>2
<1> DEFINE L == {k \in Link : k[1] = r}
<1>4. /\ \A pc \in PC, vc \in VC :
           Len(flitQ'[r][pc][vc]) = Len(flitQ[r][pc][vc])
                                      + (IF <<pc, vc>> \in {} THEN 1 ELSE 0)
                                      - (IF <<pc, vc>> \in {} THEN 1 ELSE 0)
      /\ \A l \in L :
           Len(pipe'[l]) = Len(pipe[l]) + (IF l \in {} THEN 1 ELSE 0) - (IF l \in {} THEN 1 ELSE 0)
  <2>1. \A pc \in PC, vc \in VC : Len(flitQ[r][pc][vc]) \in Nat
    BY DEF BuffersOK
  <2>2. \A l \in L : Len(pipe[l]) \in Nat
    BY DEF BuffersOK
  <2> QED
    BY <2>1, <2>2
<1>5. CountTracks(r, {}, {}, {}, {})
  BY <1>3, <1>4 DEF CountTracks
<1> QED
  BY <1>5, CountFollows

\* An NI counts the flit that it puts into a buffer.
LEMMA InjectCounts ==
  ASSUME TypeOK, TypeOK', Counted, NEW i \in NIinProcs, NIInject(i)
  PROVE  Counted'
<1> DEFINE ni == NIof(i)
           r == ni[1]
           cur == niCur[i]
           f == [p |-> cur.p, n |-> cur.n + 1]
<1> USE DEF TypeOK
<1>1. r \in Router /\ ni[2] \in PC
  BY Finite DEF NIof, NIinProcs
<1>2. cur.vc \in VC /\ f \in Flit
  <2>1. InterfacesOK
    BY Zenon DEF TypeOK
  <2> HIDE DEF TypeOK
  <2> QED
    BY <2>1 DEF NIInject, InterfacesOK, Flit
<1>3. UNCHANGED pipe
  BY Zenon DEF NIInject, netVars
<1>4. CASE isFull(r, ni[2], cur.vc)
  <2>1. UNCHANGED <<flitQ, inside>>
    BY <1>4 DEF NIInject
  <2> SUFFICES ASSUME NEW q \in Router
               PROVE  inside'[q] = (Total(Buffered(q)) + Total(Departed(q)))'
    BY DEF Counted
  <2> QED
    BY <1>3, <2>1, CountStays DEF Counted
<1>5. CASE ~ isFull(r, ni[2], cur.vc)
  <2>1. /\ flitQ' = [flitQ EXCEPT ![r][ni[2]][cur.vc] = Append(@, f)]
        /\ inside' = [inside EXCEPT ![r] = @ + 1]
    BY <1>5, Zenon DEF NIInject
  <2> SUFFICES ASSUME NEW q \in Router
               PROVE  inside'[q] = (Total(Buffered(q)) + Total(Departed(q)))'
    BY DEF Counted
  <2> HIDE DEF r, cur, f, ni
  <2>2. CASE q # r
    <3>1. inside'[q] = inside[q] /\ \A pc \in PC, vc \in VC : flitQ'[q][pc][vc] = flitQ[q][pc][vc]
      BY <1>1, <1>2, <2>1, <2>2 DEF BuffersOK
    <3> QED
      BY <1>3, <3>1, CountStays DEF Counted
  <2>3. CASE q = r
    <3> DEFINE come == {<<ni[2], cur.vc>>}
    <3>1. Cardinality(come) = 1 /\ Cardinality({}) = 0
      BY FS_Singleton, FS_EmptySet
    <3>2. come \in SUBSET (PC \X VC)
      BY <1>1, <1>2
    <3>3. \A x : x \in come <=> x = <<ni[2], cur.vc>>
      OBVIOUS
    <3> HIDE DEF come
    <3>4. ASSUME NEW pc \in PC, NEW vc \in VC
          PROVE  Len(flitQ'[r][pc][vc]) = Len(flitQ[r][pc][vc])
                                            + (IF <<pc, vc>> \in come THEN 1 ELSE 0)
                                            - (IF <<pc, vc>> \in {} THEN 1 ELSE 0)
      <4>1. flitQ[r][pc][vc] \in Seq(Flit) /\ Len(flitQ[r][pc][vc]) \in Nat
        BY <1>1 DEF BuffersOK
      <4>2. CASE pc = ni[2] /\ vc = cur.vc
        <5>1. flitQ'[r][pc][vc] = Append(flitQ[r][pc][vc], f)
          BY <1>1, <1>2, <2>1, <4>2, SMTT(30) DEF BuffersOK
        <5>2. Len(flitQ'[r][pc][vc]) = Len(flitQ[r][pc][vc]) + 1
          BY <1>2, <4>1, <5>1, AppendProperties
        <5>3. <<pc, vc>> \in come
          BY <3>3, <4>2
        <5> QED
          BY <4>1, <5>2, <5>3, SMTT(30)
      <4>3. CASE pc # ni[2] \/ vc # cur.vc
        <5>1. flitQ'[r][pc][vc] = flitQ[r][pc][vc]
          BY <1>1, <1>2, <2>1, <4>3, SMTT(30) DEF BuffersOK
        <5>2. <<pc, vc>> \notin come
          BY <3>3, <4>3
        <5> QED
          BY <4>1, <5>1, <5>2
      <4> QED
        BY <4>2, <4>3
    <3>5. \A l \in Link : Len(pipe'[l]) = Len(pipe[l]) /\ Len(pipe[l]) \in Nat
      BY <1>3 DEF BuffersOK
    <3>6. inside'[r] = inside[r] + 1 /\ inside[r] \in Int
      BY <1>1, <2>1 DEF BuffersOK
    <3>7. inside'[r] = inside[r] + Cardinality(come) - Cardinality({})
                                 + Cardinality({}) - Cardinality({})
      BY <3>6, <3>1
    <3>8. \A l \in Link : Len(pipe'[l]) = Len(pipe[l]) + (IF l \in {} THEN 1 ELSE 0)
                                                      - (IF l \in {} THEN 1 ELSE 0)
      BY <3>5
    <3>9. CountTracks(r, come, {}, {}, {})
      BY <3>4, <3>7, <3>8, <3>2 DEF CountTracks
    <3> QED
      BY <1>1, <2>3, <3>9, CountFollows DEF Counted
  <2> QED
    BY <2>2, <2>3
<1> QED
  BY <1>4, <1>5

\* Link traversal takes the flits that have crossed from the count of this router
\* and adds them to those of the routers downstream.
LEMMA TraversalCounts ==
  ASSUME TypeOK, TypeOK', Counted, NEW r \in Router, StageLT(r)
  PROVE  Counted'
<1> DEFINE crossed == Crossed(r)
           to(q) == {l \in crossed : Wire[l][1] = q}
<1>1. /\ pipe' = [l \in Link |-> IF l \in crossed THEN Tail(pipe[l]) ELSE pipe[l]]
      /\ inside' = [q \in Router |->
                      inside[q] + Cardinality(to(q)) - (IF q = r THEN Cardinality(crossed) ELSE 0)]
  BY DEF StageLT
<1>2. ASSUME NEW l \in crossed
      PROVE  /\ l \in Link /\ l[1] = r /\ l = <<r, l[2]>> /\ l[2] \in PC
             /\ Wire[l][1] \in Router /\ Wire[l][1] # r /\ Wire[l][2] \in PC
             /\ Wire[l] = <<Wire[l][1], Wire[l][2]>>
             /\ Head(pipe[l]).vc \in VC /\ Head(pipe[l]).f \in Flit
             /\ pipe[l] # <<>>
  <2>1. l \in Link /\ l[1] = r /\ pipe[l] # <<>>
    BY DEF Crossed
  <2>2. Head(pipe[l]) \in InFlight
    BY <2>1 DEF TypeOK, BuffersOK
  <2> QED
    BY <2>1, <2>2, NetworkAssumption DEF InFlight
<1>3. IsFiniteSet(crossed)
  <2>1. crossed \in SUBSET Link
    BY <1>2
  <2> QED
    BY <2>1, Finite, FS_Subset
<1>4. BuffersOK /\ BuffersOK' /\ \A l \in Link : pipe[l] \in Seq(InFlight) /\ Len(pipe[l]) \in Nat
  BY DEF TypeOK, BuffersOK
<1>5. \A q \in Router, pc \in PC, vc \in VC :
        flitQ[q][pc][vc] \in Seq(Flit) /\ Len(flitQ[q][pc][vc]) \in Nat
  BY DEF TypeOK, BuffersOK
<1>6. \A q \in Router : inside[q] \in Int
  BY DEF TypeOK, BuffersOK
<1> SUFFICES ASSUME NEW q \in Router
             PROVE  inside'[q] = (Total(Buffered(q)) + Total(Departed(q)))'
  BY DEF Counted
<1> DEFINE L == {l \in Link : l[1] = q}
<1>7. CASE q = r
  <2>1. to(r) = {}
    BY <1>2
  <2>2. \A pc \in PC, vc \in VC : flitQ'[r][pc][vc] = flitQ[r][pc][vc]
    BY <1>2, Landed
  <2>3. ASSUME NEW l \in L
        PROVE  Len(pipe'[l]) = Len(pipe[l]) + (IF l \in {} THEN 1 ELSE 0)
                                            - (IF l \in crossed THEN 1 ELSE 0)
    <3>1. CASE l \in crossed
      <4>1. Len(Tail(pipe[l])) = Len(pipe[l]) - 1
        BY <1>2, <1>4, <3>1, HeadTailProperties
      <4> QED
        BY <1>1, <1>4, <3>1, <4>1
    <3>2. CASE l \notin crossed
      BY <1>1, <1>4, <3>2
    <3> QED
      BY <3>1, <3>2
  <2>4. Cardinality({}) = 0 /\ Cardinality(crossed) \in Nat
    BY <1>3, FS_EmptySet, FS_CardinalityType
  <2>5. crossed \in SUBSET L
    BY <1>2, <1>7
  <2> HIDE DEF crossed, to
  <2>6. inside'[r] = inside[r] + Cardinality({}) - Cardinality(crossed)
    BY <1>1, <2>1
  <2>7. inside'[r] = inside[r] + Cardinality({}) - Cardinality({})
                              + Cardinality({}) - Cardinality(crossed)
    BY <1>6, <2>4, <2>6
  <2>8. ASSUME NEW pc \in PC, NEW vc \in VC
        PROVE  Len(flitQ'[r][pc][vc]) = Len(flitQ[r][pc][vc])
                                          + (IF <<pc, vc>> \in {} THEN 1 ELSE 0)
                                          - (IF <<pc, vc>> \in {} THEN 1 ELSE 0)
    <3>1. flitQ'[r][pc][vc] = flitQ[r][pc][vc] /\ Len(flitQ[r][pc][vc]) \in Nat
      BY <1>5, <2>2
    <3> QED
      BY <3>1
  <2>9. CountTracks(r, {}, {}, {}, crossed)
    BY <1>7, <2>3, <2>5, <2>7, <2>8 DEF CountTracks
  <2> QED
    BY <1>4, <1>7, <2>9, CountFollows DEF Counted
<1>8. CASE q # r
  <2> DEFINE at == [l \in to(q) |-> <<Wire[l][2], Head(pipe[l]).vc>>]
             come == {at[l] : l \in to(q)}
  <2>1. to(q) \in SUBSET crossed
    OBVIOUS
  <2>2. IsFiniteSet(to(q))
    BY <1>3, <2>1, FS_Subset
  <2>3. ASSUME NEW k \in to(q), NEW l \in to(q), at[k] = at[l]
        PROVE  k = l
    <3>1. Wire[k] = Wire[l]
      BY <1>2, <2>3, SMTT(30)
    <3> QED
      BY <1>2, <3>1, WiresApart, Zenon
  <2>4. DOMAIN at = to(q) /\ IsInjective(at)
    <3>1. DOMAIN at = to(q)
      OBVIOUS
    <3> HIDE DEF at, to
    <3> QED
      BY <2>3, <3>1, Zenon DEF IsInjective
  <2>5. \A x : x \in come <=> \E l \in crossed : Wire[l][1] = q /\ x = <<Wire[l][2], Head(pipe[l]).vc>>
    OBVIOUS
  <2> HIDE DEF at, to
  <2>6. Cardinality(come) = Cardinality(to(q)) /\ Cardinality(come) \in Nat
    BY <2>2, <2>4, ImageSize
  <2> HIDE DEF come, crossed
  <2>7. come \in SUBSET (PC \X VC)
    BY <1>2, <2>5
  <2>8. ASSUME NEW pc \in PC, NEW vc \in VC
        PROVE  Len(flitQ'[q][pc][vc]) = Len(flitQ[q][pc][vc])
                                          + (IF <<pc, vc>> \in come THEN 1 ELSE 0)
                                          - (IF <<pc, vc>> \in {} THEN 1 ELSE 0)
    <3>1. CASE <<pc, vc>> \in come
      <4>1. PICK l \in crossed : Wire[l] = <<q, pc>> /\ Head(pipe[l]).vc = vc
        BY <1>2, <2>5, <3>1
      <4>2. flitQ'[q][pc][vc] = Append(flitQ[q][pc][vc], Head(pipe[l]).f)
        BY <4>1, Landed DEF crossed
      <4>3. Len(Append(flitQ[q][pc][vc], Head(pipe[l]).f)) = Len(flitQ[q][pc][vc]) + 1
        BY <1>2, <1>5, AppendProperties
      <4> QED
        BY <1>5, <3>1, <4>2, <4>3
    <3>2. CASE <<pc, vc>> \notin come
      <4>1. \A l \in crossed : ~ (Wire[l] = <<q, pc>> /\ Head(pipe[l]).vc = vc)
        BY <1>2, <2>5, <3>2
      <4>2. flitQ'[q][pc][vc] = flitQ[q][pc][vc]
        BY <4>1, Landed DEF crossed
      <4> QED
        BY <1>5, <3>2, <4>2
    <3> QED
      BY <3>1, <3>2
  <2>9. \A l \in L : Len(pipe'[l]) = Len(pipe[l]) /\ Len(pipe[l]) \in Nat
    BY <1>1, <1>2, <1>4, <1>8
  <2>10. Cardinality({}) = 0
    BY FS_EmptySet
  <2>11. inside'[q] = inside[q] + Cardinality(come)
    BY <1>1, <1>5, <1>8, <2>6
  <2>12. inside'[q] = inside[q] + Cardinality(come) - Cardinality({})
                               + Cardinality({}) - Cardinality({})
    BY <1>6, <2>6, <2>10, <2>11
  <2>13. \A l \in L : Len(pipe'[l]) = Len(pipe[l]) + (IF l \in {} THEN 1 ELSE 0)
                                                  - (IF l \in {} THEN 1 ELSE 0)
    BY <2>9
  <2>14. CountTracks(q, come, {}, {}, {})
    BY <2>7, <2>8, <2>12, <2>13 DEF CountTracks
  <2> QED
    BY <1>4, <2>14, CountFollows DEF Counted
<1> QED
  BY <1>7, <1>8

\* A flit that traverses the switch enters the link of its output port; no other
\* link changes, because an output port has one flit at most.
LEMMA Left ==
  ASSUME TypeOK, ControlInv, NEW r \in Router, StageST(r), NEW l \in Link
  PROVE  /\ \A i \in PC : l[1] = r /\ xbar[r][i] # INVALID_VC /\ inMod[r][i][xbar[r][i]].pc = l[2] =>
              pipe'[l] = Append(pipe[l], [f |-> Head(flitQ[r][i][xbar[r][i]]),
                                          vc |-> inMod[r][i][xbar[r][i]].vc, age |-> 0])
         /\ (\A i \in PC : ~ (l[1] = r /\ xbar[r][i] # INVALID_VC /\ inMod[r][i][xbar[r][i]].pc = l[2])) =>
              pipe'[l] = pipe[l]
<1> DEFINE movers == {i \in PC : xbar[r][i] # INVALID_VC}
           flit(i) == Head(flitQ[r][i][xbar[r][i]])
           mod(i) == inMod[r][i][xbar[r][i]]
           from(o) == {i \in movers : mod(i).pc = o}
           entry(i) == [f |-> flit(i), vc |-> mod(i).vc, age |-> 0]
           ins(o) == InOrder(from(o))
           leaving(o) == [n \in DOMAIN ins(o) |->
                            [f |-> flit(ins(o)[n]), vc |-> mod(ins(o)[n]).vc, age |-> 0]]
<1>1. pipe'[l] = IF l[1] = r THEN pipe[l] \o leaving(l[2]) ELSE pipe[l]
  BY Zenon DEF StageST
<1>2. pipe[l] \in Seq(InFlight)
  BY DEF TypeOK, BuffersOK
<1>3. movers \in SUBSET PC
  BY SMTT(30)
<1>4. \A i, j \in movers : mod(i).pc = mod(j).pc => i = j
  BY DEF ControlInv, XbarReady
<1>5. \A n \in DOMAIN leaving(l[2]) : leaving(l[2])[n] = entry(ins(l[2])[n])
  BY Zenon
<1>6. DOMAIN leaving(l[2]) = DOMAIN ins(l[2])
  BY Zenon
<1>7. CASE l[1] = r /\ from(l[2]) # {}
  <2>1. PICK i \in movers : mod(i).pc = l[2]
    BY <1>7
  <2>2. from(l[2]) = {i}
    BY <1>4, <2>1
  <2>3. i \in Int /\ i \in PC
    BY <2>1, Finite
  <2>4. Cardinality({i}) = 1 /\ IsFiniteSet({i}) /\ {i} \in SUBSET Int
    BY <2>3, FS_Singleton
  <2>5. InOrder({i}) \in [1 .. 1 -> {i}]
    BY <2>4, InOrderLists
  <2>6. ins(l[2]) \in [1 .. 1 -> {i}]
    BY <2>2, <2>5
  <2> HIDE DEF leaving, ins, entry
  <2>7. DOMAIN leaving(l[2]) = 1 .. 1 /\ leaving(l[2])[1] = entry(i)
    BY <1>5, <1>6, <2>6
  <2>8. entry(i) \in InFlight
    <3>1. flit(i) \in Flit /\ mod(i).vc \in VC
      BY <2>1, Movers, Zenon
    <3> QED
      BY <3>1 DEF entry, InFlight
  <2>9. leaving(l[2]) = <<entry(i)>>
    <3>1. leaving(l[2]) = [n \in DOMAIN leaving(l[2]) |-> leaving(l[2])[n]]
      BY DEF leaving
    <3>2. leaving(l[2]) = [n \in 1 .. 1 |-> entry(i)]
      BY <2>7, <3>1
    <3> QED
      BY <3>2
  <2>10. pipe'[l] = Append(pipe[l], entry(i))
    BY <1>1, <1>2, <1>7, <2>8, <2>9, AppendIsConcat
  <2>11. \A j \in PC : xbar[r][j] # INVALID_VC /\ mod(j).pc = l[2] => j = i
    BY <1>4, <2>1
  <2> QED
    BY <1>7, <2>1, <2>10, <2>11, Zenon DEF entry
<1>8. CASE l[1] # r \/ from(l[2]) = {}
  <2>1. pipe'[l] = pipe[l]
    <3>1. CASE l[1] # r
      BY <1>1, <3>1, Zenon
    <3>2. CASE l[1] = r /\ from(l[2]) = {}
      <4>1. Cardinality({}) = 0 /\ IsFiniteSet({}) /\ {} \in SUBSET Int
        BY FS_EmptySet
      <4>2. Len(InOrder({})) = 0 /\ DOMAIN InOrder({}) = 1 .. 0
        BY <4>1, InOrderLists
      <4>3. ins(l[2]) = InOrder({})
        <5> HIDE DEF from
        <5> QED
          BY <3>2
      <4> HIDE DEF ins
      <4>4. DOMAIN ins(l[2]) = 1 .. 0 /\ \A n \in 1 .. 0 : FALSE
        BY <4>2, <4>3
      <4>5. DOMAIN leaving(l[2]) = 1 .. 0 /\ leaving(l[2]) = [n \in DOMAIN leaving(l[2]) |-> leaving(l[2])[n]]
        BY <4>4
      <4> HIDE DEF leaving
      <4>6. leaving(l[2]) \in [1 .. 0 -> InFlight]
        BY <4>4, <4>5
      <4>7. leaving(l[2]) = <<>>
        BY <4>6, EmptySeq
      <4> QED
        BY <1>1, <1>2, <3>2, <4>7, ConcatEmptySeq
    <3> QED
      BY <1>8, <3>1, <3>2
  <2> QED
    BY <1>8, <2>1, Zenon
<1> QED
  BY <1>7, <1>8

\* Switch traversal moves flits from the buffers to the links of the same router
\* and counts those that leave it for an NI.
LEMMA SwitchCounts ==
  ASSUME TypeOK, ControlInv, TypeOK', Counted, NEW r \in Router, StageST(r)
  PROVE  Counted'
<1> DEFINE movers == {i \in PC : xbar[r][i] # INVALID_VC}
           mod(i) == inMod[r][i][xbar[r][i]]
           ejected1 == {i \in movers : isEjectChannel(mod(i).pc)}
           sent == movers \ ejected1
<1>1. /\ flitQ' = [flitQ EXCEPT ![r] = [pc \in PC |-> [vc \in VC |->
                     IF xbar[r][pc] = vc THEN Tail(@[pc][vc]) ELSE @[pc][vc]]]]
      /\ inside' = [inside EXCEPT ![r] = @ - Cardinality(ejected1)]
  BY Zenon DEF StageST
<1>2. BuffersOK /\ BuffersOK' /\ \A l \in Link : pipe[l] \in Seq(InFlight) /\ Len(pipe[l]) \in Nat
  BY DEF TypeOK, BuffersOK
<1>3. \A q \in Router, pc \in PC, vc \in VC :
        flitQ[q][pc][vc] \in Seq(Flit) /\ Len(flitQ[q][pc][vc]) \in Nat
  BY DEF TypeOK, BuffersOK
<1>4. \A q \in Router : inside[q] \in Int
  BY DEF TypeOK, BuffersOK
<1>5. \A i \in PC, vc \in VC : xbar[r][i] = vc => i \in movers
  BY DEF VC, INVALID_VC
<1> SUFFICES ASSUME NEW q \in Router
             PROVE  inside'[q] = (Total(Buffered(q)) + Total(Departed(q)))'
  BY DEF Counted
<1>6. CASE q # r
  <2>1. flitQ'[q] = flitQ[q] /\ inside'[q] = inside[q]
    BY <1>1, <1>6, Zenon DEF TypeOK, BuffersOK
  <2>2. \A l \in {l \in Link : l[1] = q} : pipe'[l] = pipe[l]
    BY <1>6, Left
  <2> QED
    BY <1>2, <2>1, <2>2, CountStays DEF Counted
<1>7. CASE q = r
  <2> DEFINE L == {l \in Link : l[1] = r}
             at == [i \in movers |-> <<i, xbar[r][i]>>]
             gone == {at[i] : i \in movers}
             over == [i \in sent |-> <<r, mod(i).pc>>]
             out == {over[i] : i \in sent}
  <2>1. \A i \in movers : /\ xbar[r][i] \in VC /\ mod(i).pc \in PC
                          /\ flitQ[r][i][xbar[r][i]] # <<>>
                          /\ isEjectChannel(mod(i).pc) \/ <<r, mod(i).pc>> \in Link
    BY Movers, Zenon
  <2>2. \A i, j \in movers : mod(i).pc = mod(j).pc => i = j
    BY Zenon DEF ControlInv, XbarReady
  <2>3. /\ IsFiniteSet(movers) /\ movers \in SUBSET PC /\ IsFiniteSet(ejected1)
        /\ ejected1 \in SUBSET movers /\ IsFiniteSet(sent) /\ sent \in SUBSET movers
    <3>1. movers \in SUBSET PC /\ ejected1 \in SUBSET movers /\ sent \in SUBSET movers
      OBVIOUS
    <3> HIDE DEF movers, ejected1, sent
    <3> QED
      BY <3>1, Finite, FS_Subset
  <2>4. /\ DOMAIN at = movers /\ \A i, j \in movers : at[i] = at[j] => i = j
        /\ DOMAIN over = sent
    OBVIOUS
  <2>5. \A i, j \in sent : over[i] = over[j] => i = j
    BY <2>2, Zenon
  <2>6. \A x : x \in gone <=> \E i \in movers : x = <<i, xbar[r][i]>>
    OBVIOUS
  <2>7. \A l : l \in out <=> \E i \in sent : l = <<r, mod(i).pc>>
    <3>1. \A i \in sent : over[i] = <<r, mod(i).pc>>
      BY Zenon
    <3> HIDE DEF over, sent, mod
    <3> QED
      BY <3>1, Zenon
  <2>8. Cardinality(movers) = Cardinality(ejected1) + Cardinality(sent)
    <3> HIDE DEF movers, ejected1
    <3>1. Cardinality(movers \ ejected1) = Cardinality(movers) - Cardinality(movers \cap ejected1)
      BY <2>3, FS_Difference
    <3>2. movers \cap ejected1 = ejected1
      BY <2>3
    <3>3. Cardinality(movers) \in Nat /\ Cardinality(ejected1) \in Nat
      BY <2>3, FS_CardinalityType
    <3> QED
      BY <3>1, <3>2, <3>3
  <2> HIDE DEF at, over
  <2>9. Cardinality(gone) = Cardinality(movers) /\ Cardinality(gone) \in Nat
    <3> HIDE DEF movers, mod, ejected1, sent, L, out
    <3>1. DOMAIN at = movers /\ IsInjective(at)
      BY <2>4, Zenon DEF IsInjective
    <3>2. IsFiniteSet(movers)
      BY <2>3, Zenon
    <3> QED
      BY <3>1, <3>2, ImageSize
  <2>10. Cardinality(out) = Cardinality(sent) /\ Cardinality(out) \in Nat
    <3> HIDE DEF movers, mod, ejected1, sent, L, gone
    <3>1. DOMAIN over = sent /\ IsInjective(over)
      BY <2>4, <2>5, Zenon DEF IsInjective
    <3>2. IsFiniteSet(sent)
      BY <2>3, Zenon
    <3> QED
      BY <3>1, <3>2, ImageSize
  <2> HIDE DEF gone, out
  <2>11. gone \in SUBSET (PC \X VC) /\ out \in SUBSET L
    <3>1. gone \in SUBSET (PC \X VC)
      <4> SUFFICES ASSUME NEW x \in gone PROVE x \in PC \X VC
        OBVIOUS
      <4>1. PICK i \in movers : x = <<i, xbar[r][i]>>
        BY <2>6
      <4>2. i \in PC /\ xbar[r][i] \in VC
        BY <2>1, <2>3, Zenon
      <4> QED
        BY <4>1, <4>2
    <3>2. \A i \in sent : <<r, mod(i).pc>> \in L
      BY <2>1, Zenon
    <3> QED
      BY <2>7, <3>1, <3>2
  <2>12. ASSUME NEW pc \in PC, NEW vc \in VC
         PROVE  Len(flitQ'[r][pc][vc]) = Len(flitQ[r][pc][vc])
                                           + (IF <<pc, vc>> \in {} THEN 1 ELSE 0)
                                           - (IF <<pc, vc>> \in gone THEN 1 ELSE 0)
    <3>1. flitQ'[r][pc][vc] = IF xbar[r][pc] = vc THEN Tail(flitQ[r][pc][vc]) ELSE flitQ[r][pc][vc]
      BY <1>1, Zenon DEF TypeOK, BuffersOK
    <3>2. <<pc, vc>> \in gone <=> xbar[r][pc] = vc
      BY <1>5, <2>6
    <3>3. CASE xbar[r][pc] = vc
      <4>1. flitQ[r][pc][vc] # <<>>
        BY <1>5, <2>1, <3>3
      <4>2. Len(Tail(flitQ[r][pc][vc])) = Len(flitQ[r][pc][vc]) - 1
        BY <1>3, <4>1, HeadTailProperties
      <4> QED
        BY <1>3, <3>1, <3>2, <3>3, <4>2
    <3>4. CASE xbar[r][pc] # vc
      <4>1. flitQ'[r][pc][vc] = flitQ[r][pc][vc] /\ <<pc, vc>> \notin gone
        BY <3>1, <3>2, <3>4
      <4>2. Len(flitQ[r][pc][vc]) \in Nat
        BY <1>3
      <4> QED
        BY <4>1, <4>2
    <3> QED
      BY <3>3, <3>4
  <2>13. ASSUME NEW l \in L
         PROVE  Len(pipe'[l]) = Len(pipe[l]) + (IF l \in out THEN 1 ELSE 0)
                                             - (IF l \in {} THEN 1 ELSE 0)
    <3>1. l \in Link /\ l[1] = r /\ l = <<r, l[2]>> /\ l[2] \notin LocalPC
      BY NetworkAssumption
    <3>2. CASE l \in out
      <4>1. PICK i \in sent : l = <<r, mod(i).pc>>
        BY <2>7, <3>2, SMTT(30)
      <4> DEFINE e == [f |-> Head(flitQ[r][i][xbar[r][i]]), vc |-> mod(i).vc, age |-> 0]
      <4>2. pipe'[l] = Append(pipe[l], e)
        <5>1. i \in PC /\ l[1] = r /\ xbar[r][i] # INVALID_VC /\ mod(i).pc = l[2]
          BY <4>1
        <5>2. \A j \in PC : l[1] = r /\ xbar[r][j] # INVALID_VC /\ mod(j).pc = l[2] =>
                pipe'[l] = Append(pipe[l], [f |-> Head(flitQ[r][j][xbar[r][j]]),
                                            vc |-> mod(j).vc, age |-> 0])
          BY <3>1, Left, Zenon
        <5> HIDE DEF mod
        <5> QED
          BY <5>1, <5>2, Zenon
      <4>3. e \in InFlight
        <5>1. Head(flitQ[r][i][xbar[r][i]]) \in Flit /\ mod(i).vc \in VC
          BY <4>1, Movers, Zenon
        <5> QED
          BY <5>1 DEF InFlight
      <4> HIDE DEF e
      <4>4. Len(pipe'[l]) = Len(pipe[l]) + 1
        BY <1>2, <3>1, <4>2, <4>3, AppendProperties
      <4> QED
        BY <1>2, <3>1, <3>2, <4>4
    <3>3. CASE l \notin out
      <4>1. \A i \in PC : ~ (xbar[r][i] # INVALID_VC /\ mod(i).pc = l[2])
        <5> SUFFICES ASSUME NEW i \in movers, mod(i).pc = l[2] PROVE FALSE
          OBVIOUS
        <5>1. i \in sent
          BY <3>1, SMTT(30) DEF isEjectChannel
        <5> QED
          BY <2>7, <3>1, <3>3, <5>1
      <4>2. pipe'[l] = pipe[l]
        BY <3>1, <4>1, Left
      <4> QED
        BY <1>2, <3>1, <3>3, <4>2, SMTT(30)
    <3> QED
      BY <3>2, <3>3
  <2>14. inside'[r] = inside[r] + Cardinality({}) - Cardinality(gone)
                               + Cardinality(out) - Cardinality({})
    <3>1. inside'[r] = inside[r] - Cardinality(ejected1) /\ inside[r] \in Int
      BY <1>1, <1>4, Zenon DEF TypeOK, BuffersOK
    <3>2. Cardinality({}) = 0
      BY FS_EmptySet
    <3>3. Cardinality(ejected1) \in Nat
      BY <2>3, FS_CardinalityType, Zenon
    <3> HIDE DEF movers, ejected1, sent
    <3> QED
      BY <2>8, <2>9, <2>10, <3>1, <3>2, <3>3
  <2>15. CountTracks(r, {}, gone, out, {})
    BY <2>11, <2>12, <2>13, <2>14 DEF CountTracks
  <2> QED
    BY <1>2, <1>7, <2>15, CountFollows DEF Counted
<1> QED
  BY <1>6, <1>7

\* Every step keeps the count right.
LEMMA CountInductive ==
  ASSUME TypeOK, ControlInv, TypeOK', Counted, Next
  PROVE  Counted'
<1>1. ASSUME NEW r \in Router, StageLT(r) \/ StageST(r)
      PROVE  Counted'
  BY <1>1, TraversalCounts, SwitchCounts
<1>2. ASSUME NEW i \in NIinProcs, NIInject(i)
      PROVE  Counted'
  BY <1>2, InjectCounts
<1>3. CASE UNCHANGED inside /\ UNCHANGED flitQ
                            /\ \A l \in Link : Len(pipe'[l]) = Len(pipe[l])
  <2>1. \A r \in Router : inside'[r] = (Total(Buffered(r)) + Total(Departed(r)))'
    BY <1>3, CountStays DEF Counted, TypeOK
  <2> QED
    BY <2>1 DEF Counted
<1>4. CASE UNCHANGED <<inside, flitQ, pipe>>
  BY <1>3, <1>4
<1>5. CASE Tick
  <2>1. UNCHANGED inside /\ UNCHANGED flitQ
    BY <1>5 DEF Tick
  <2>2. ASSUME NEW l \in Link
        PROVE  Len(pipe'[l]) = Len(pipe[l])
    <3> DEFINE s == [k \in DOMAIN pipe[l] |-> [pipe[l][k] EXCEPT !.age = @ + 1]]
    <3>1. pipe'[l] = s
      BY <1>5 DEF Tick
    <3>2. pipe[l] \in Seq(InFlight) /\ pipe'[l] \in Seq(InFlight)
      BY DEF TypeOK, BuffersOK
    <3>3. DOMAIN s = DOMAIN pipe[l]
      OBVIOUS
    <3> HIDE DEF s
    <3> QED
      BY <3>1, <3>2, <3>3
  <2> QED
    BY <1>3, <2>1, <2>2
<1>6. ASSUME NEW r \in Router, RouterWake(r) \/ IncCredit(r) \/ StageSA(r) \/ StageRC(r)
                               \/ StageVA(r) \/ StageSSA(r)
      PROVE  UNCHANGED <<inside, flitQ, pipe>>
  <2>1. UNCHANGED bufVars
    BY <1>6, Zenon DEF RouterWake, IncCredit, StageSA, StageRC, StageVA, StageSSA
  <2> QED
    BY <2>1 DEF bufVars
<1>7. ASSUME NEW i \in NIinProcs, NIRead(i) \/ NIReserve(i) \/ NIFinish(i)
      PROVE  UNCHANGED <<inside, flitQ, pipe>>
  BY <1>7, Zenon DEF NIRead, NIReserve, NIFinish, netVars
<1>8. ASSUME NEW i \in NIoutProcs, NIOutput(i)
      PROVE  UNCHANGED <<inside, flitQ, pipe>>
  BY <1>8 DEF NIOutput, netVars
<1>9. ASSUME NEW p \in Packet, Generate(p)
      PROVE  UNCHANGED <<inside, flitQ, pipe>>
  BY <1>9 DEF Generate, netVars
<1>10. Finished => UNCHANGED <<inside, flitQ, pipe>>
  BY DEF Finished, vars, bufVars
<1> QED
  BY <1>1, <1>2, <1>4, <1>5, <1>6, <1>7, <1>8, <1>9, <1>10 DEF Next, Step, RouterStep, NIStep

\* What adds to the count of a router wakes it up.
LEMMA ArrivalWakes ==
  ASSUME TypeOK, TypeOK', Next, NEW r \in Router, inside[r] = 0, inside'[r] # 0
  PROVE  ~ Waiting(<<0, r>>)'
<1>1. SchedulerOK /\ inside[r] \in Int
  BY DEF TypeOK, BuffersOK
<1> SUFFICES ASSUME Waiting(<<0, r>>)
             PROVE  ~ Waiting(<<0, r>>)'
  <2>1. ~ Waiting(<<0, r>>) => ~ Waiting(<<0, r>>)'
    <3> SUFFICES ASSUME ~ Waiting(<<0, r>>), Waiting(<<0, r>>)' PROVE FALSE
      OBVIOUS
    <3>1. <<0, r>> \notin NIinProcs /\ <<0, r>> \notin NIoutProcs
      BY DEF NIinProcs, NIoutProcs
    <3>2. \E q \in Router : <<0, r>> = <<0, q>> /\ RouterWake(q)
      BY <3>1, FallsAsleep
    <3>3. UNCHANGED inside
      BY <3>2 DEF RouterWake, bufVars
    <3> QED
      BY <3>3
  <2> QED
    BY <2>1
<1>2. ASSUME NEW q \in Router, StageLT(q)
      PROVE  ~ Waiting(<<0, r>>)'
  <2>1. q # r
    <3>1. Running(<<0, q>>)
      BY <1>2 DEF StageLT, AtStage
    <3>2. <<0, q>> \in Range(ready)
      BY <3>1, <1>1 DEF Running, Range, SchedulerOK
    <3> QED
      BY <3>2, SMTT(30) DEF Waiting
  <2> DEFINE to == {l \in Crossed(q) : Wire[l][1] = r}
  <2>2. inside'[r] = inside[r] + Cardinality(to)
    <3>1. inside'[r] = inside[r] + Cardinality(to) - (IF r = q THEN Cardinality(Crossed(q)) ELSE 0)
      BY <1>2 DEF StageLT
    <3> DEFINE c == Cardinality(to)
    <3>2. IsFiniteSet(to)
      <4>1. to \in SUBSET Link
        BY DEF Crossed
      <4> HIDE DEF to
      <4> QED
        BY <4>1, Finite, FS_Subset
    <3>3. c \in Nat
      <4> HIDE DEF to
      <4> QED
        BY <3>2, FS_CardinalityType
    <3> HIDE DEF to
    <3> QED
      BY <1>1, <2>1, <3>1, <3>3, SMTT(30)
  <2>3. to # {}
    <3> SUFFICES ASSUME to = {} PROVE FALSE
      OBVIOUS
    <3>1. Cardinality({}) = 0
      BY FS_EmptySet
    <3> HIDE DEF to
    <3> QED
      BY <1>1, <2>2, <3>1
  <2>4. PICK l \in Crossed(q) : Wire[l][1] = r
    BY <2>3
  <2>5. PICK woken : /\ Sleepers(woken) /\ NextStage(woken)
                     /\ \A k \in Crossed(q) : LET d == Wire[k][1]
                                              IN  inside[d] = 0 /\ Waiting(<<0, d>>) =>
                                                    <<0, d>> \in Range(woken)
    BY <1>2, LinkWakes
  <2>6. <<0, r>> \in Range(woken) /\ woken \in Seq(Procs) /\ ready # <<>>
    BY <1>2, <2>4, <2>5, Zenon DEF Sleepers, StageLT, AtStage, Running
  <2> QED
    BY <1>1, <2>5, <2>6, StayAwake
<1>3. ASSUME NEW i \in NIinProcs, NIInject(i)
      PROVE  ~ Waiting(<<0, r>>)'
  <2> DEFINE q == NIof(i)[1]
             wakeup == IF inside[q] = 0 THEN <<<<0, q>>>> ELSE <<>>
  <2>1. q \in Router
    BY DEF NIof, NIinProcs
  <2>2. /\ inside' = [inside EXCEPT ![q] = @ + 1] /\ HoldOneCycle(Woken(wakeup))
        /\ ready # <<>>
    BY <1>3, Zenon DEF NIInject, Running
  <2> HIDE DEF q
  <2>3. q = r
    BY <2>1, <2>2 DEF TypeOK, BuffersOK
  <2>4. <<0, r>> \in Procs
    BY DEF Procs
  <2>5. wakeup = <<<<0, r>>>>
    BY <2>3
  <2> HIDE DEF wakeup
  <2>6. Woken(wakeup) \in Seq(Procs) /\ <<0, r>> \in Range(Woken(wakeup))
    BY <2>4, <2>5, WokenOne DEF Sleepers
  <2> QED
    BY <1>1, <2>2, <2>6, StayAwake
<1>4. ASSUME NEW q \in Router, StageST(q)
      PROVE  q = r
  <2>1. inside' = [inside EXCEPT ![q] = @ - Cardinality({i \in {i \in PC : xbar[q][i] # INVALID_VC} :
                                                isEjectChannel(inMod[q][i][xbar[q][i]].pc)})]
    BY <1>4, Zenon DEF StageST
  <2> QED
    BY <2>1, Zenon DEF TypeOK, BuffersOK
<1>5. ASSUME NEW q \in Router, StageST(q)
      PROVE  FALSE
  <2>1. q = r /\ Running(<<0, q>>)
    BY <1>4, <1>5, Zenon DEF StageST, AtStage
  <2>2. <<0, r>> \in Range(ready)
    BY <2>1, <1>1 DEF Running, Range, SchedulerOK
  <2> QED
    BY <2>2 DEF Waiting
<1>6. ASSUME NEW q \in Router, RouterWake(q) \/ IncCredit(q) \/ StageSA(q) \/ StageRC(q)
                               \/ StageVA(q) \/ StageSSA(q)
      PROVE  UNCHANGED inside
  <2>1. UNCHANGED bufVars
    BY <1>6, Zenon DEF RouterWake, IncCredit, StageSA, StageRC, StageVA, StageSSA
  <2> QED
    BY <2>1 DEF bufVars
<1>7. ASSUME NEW i \in NIinProcs, NIRead(i) \/ NIReserve(i) \/ NIFinish(i)
      PROVE  UNCHANGED inside
  BY <1>7, ZenonT(60) DEF NIRead, NIReserve, NIFinish
<1>8. /\ \A i \in NIoutProcs : NIOutput(i) => UNCHANGED inside
      /\ \A p \in Packet : Generate(p) => UNCHANGED inside
      /\ Tick \/ Finished => UNCHANGED inside
  BY DEF NIOutput, Generate, Tick, Finished, vars, bufVars
<1>9. ~ UNCHANGED inside
  OBVIOUS
<1> QED
  BY <1>2, <1>3, <1>5, <1>6, <1>7, <1>8, <1>9 DEF Next, Step, RouterStep, NIStep

LEMMA IdleInductive ==
  ASSUME TypeOK, TypeOK', IdleAsleep, Next
  PROVE  IdleAsleep'
<1> SUFFICES ASSUME NEW r \in Router, Waiting(<<0, r>>)'
             PROVE  inside'[r] = 0
  BY DEF IdleAsleep
<1>1. CASE Waiting(<<0, r>>)
  BY <1>1, ArrivalWakes DEF IdleAsleep
<1>2. CASE ~ Waiting(<<0, r>>)
  <2>1. <<0, r>> \notin NIinProcs /\ <<0, r>> \notin NIoutProcs
    BY DEF NIinProcs, NIoutProcs
  <2>2. PICK q \in Router : <<0, r>> = <<0, q>> /\ RouterWake(q) /\ inside[q] = 0
    BY <1>2, <2>1, FallsAsleep
  <2>3. UNCHANGED inside
    BY <2>2 DEF RouterWake, bufVars
  <2> QED
    BY <2>2, <2>3
<1> QED
  BY <1>1, <1>2

\* At the start nothing is anywhere.
LEMMA NothingInside ==
  Init => Counted /\ IdleAsleep
<1> SUFFICES ASSUME Init PROVE Counted /\ IdleAsleep
  OBVIOUS
<1>1. ASSUME NEW r \in Router
      PROVE  inside[r] = Total(Buffered(r)) + Total(Departed(r))
  <2> DEFINE L == {l \in Link : l[1] = r}
  <2>1. /\ IsFiniteSet(PC \X VC) /\ Buffered(r) \in [PC \X VC -> Nat]
        /\ IsFiniteSet(L) /\ Departed(r) \in [L -> Nat]
    BY TypesOfInit, FlitsCounted DEF TypeOK
  <2>2. \A x \in PC \X VC : Buffered(r)[x] = 0
    BY DEF Init, PerVCState, Buffered
  <2>3. \A l \in L : Departed(r)[l] = 0
    BY DEF Init, Departed
  <2> HIDE DEF L
  <2>4. Total(Buffered(r)) = 0 /\ Total(Departed(r)) = 0
    BY <2>1, <2>2, <2>3, TotalZero
  <2>5. inside[r] = 0
    BY DEF Init
  <2> QED
    BY <2>4, <2>5
<1> QED
  BY <1>1 DEF Counted, IdleAsleep, Init

\* Nothing is in the buffers or on the links of a router whose count is zero.
LEMMA NothingLeft ==
  ASSUME TypeOK, Counted, IdleAsleep
  PROVE  NoSleepOnWork
<1> SUFFICES ASSUME NEW r \in Router, Waiting(<<0, r>>)
             PROVE  /\ \A pc \in PC, vc \in VC : flitQ[r][pc][vc] = <<>>
                    /\ \A l \in Link : l[1] = r => pipe[l] = <<>>
  BY DEF NoSleepOnWork
<1> DEFINE L == {l \in Link : l[1] = r}
<1>1. /\ IsFiniteSet(PC \X VC) /\ Buffered(r) \in [PC \X VC -> Nat]
      /\ IsFiniteSet(L) /\ Departed(r) \in [L -> Nat]
  BY FlitsCounted DEF TypeOK
<1>2. Total(Buffered(r)) + Total(Departed(r)) = 0
  BY DEF Counted, IdleAsleep
<1>3. Total(Buffered(r)) \in Nat /\ Total(Departed(r)) \in Nat
  <2> HIDE DEF L
  <2> QED
    BY <1>1, CellsFinite
<1>4. (\A x \in PC \X VC : Buffered(r)[x] = 0) /\ \A l \in L : Departed(r)[l] = 0
  <2>1. Total(Buffered(r)) = 0 /\ Total(Departed(r)) = 0
    BY <1>2, <1>3
  <2> HIDE DEF L
  <2> QED
    BY <1>1, <2>1, TotalZero
<1>5. ASSUME NEW pc \in PC, NEW vc \in VC
      PROVE  flitQ[r][pc][vc] = <<>>
  <2>1. Buffered(r)[<<pc, vc>>] = Len(flitQ[r][pc][vc])
    BY DEF Buffered
  <2>2. flitQ[r][pc][vc] \in Seq(Flit) /\ Len(flitQ[r][pc][vc]) = 0
    BY <1>4, <2>1 DEF TypeOK, BuffersOK
  <2> QED
    BY <2>2, EmptySeq
<1>6. ASSUME NEW l \in L
      PROVE  pipe[l] = <<>>
  <2>1. Departed(r)[l] = Len(pipe[l])
    BY DEF Departed
  <2>2. pipe[l] \in Seq(InFlight) /\ Len(pipe[l]) = 0
    BY <1>4, <2>1 DEF TypeOK, BuffersOK
  <2> QED
    BY <2>2, EmptySeq
<1> QED
  BY <1>5, <1>6

\* A router sleeps (process_router, "fast simulation") only when none of its
\* buffers or links holds a flit: m_num_flits_inside, which its NIs, the
\* upstream routers and the router itself update, counts every one of them.
THEOREM SleepsOnlyIdle ==
  Spec => []NoSleepOnWork
<1>1. TypeOK /\ ControlInv /\ TypeOK' /\ Counted /\ IdleAsleep /\ [Next]_vars
        => Counted' /\ IdleAsleep'
  <2>1. UNCHANGED vars /\ Counted /\ IdleAsleep => Counted' /\ IdleAsleep'
    <3> SUFFICES ASSUME UNCHANGED vars, Counted, IdleAsleep
                 PROVE  Counted' /\ IdleAsleep'
      OBVIOUS
    <3>1. UNCHANGED <<flitQ, pipe, inside, ready, held>>
      BY DEF vars, bufVars, schedVars
    <3>2. \A r \in Router : Buffered(r)' = Buffered(r) /\ Departed(r)' = Departed(r)
      BY <3>1 DEF Buffered, Departed
    <3>3. \A r \in Router : Total(Buffered(r))' = Total(Buffered(r)) /\ Total(Departed(r))' = Total(Departed(r))
      BY <3>2 DEF Total, Cells
    <3> QED
      BY <3>1, <3>3 DEF Counted, IdleAsleep, Waiting
  <2> QED
    BY <2>1, CountInductive, IdleInductive
<1> QED
  BY <1>1, NothingInside, NothingLeft, TypeCorrect, ControlInOrder, PTL DEF Spec

-----------------------------------------------------------------------------
(* No process is scheduled twice. *)

\* Every process is at most once among those that run or hold.
ScheduledOnce ==
  Once(ready) /\ Once(held) /\ Range(ready) \cap Range(held) = {}

LEMMA OnceConcat ==
  ASSUME NEW S, NEW s \in Seq(S), NEW t \in Seq(S), Once(s), Once(t),
         Range(s) \cap Range(t) = {}
  PROVE  Once(s \o t)
<1>1. \A k \in DOMAIN s, l \in DOMAIN t : s[k] # t[l]
  BY DEF Range
<1> QED
  BY <1>1, DistinctConcat DEF NoneShared

LEMMA OnceTail ==
  ASSUME NEW S, NEW s \in Seq(S), s # <<>>, Once(s)
  PROVE  Once(Tail(s)) /\ Head(s) \notin Range(Tail(s))
<1>1. /\ Len(s) \in Nat /\ DOMAIN s = 1 .. Len(s)
      /\ DOMAIN Tail(s) = 1 .. Len(s) - 1
      /\ \A k \in 1 .. Len(s) - 1 : Tail(s)[k] = s[k + 1]
      /\ Head(s) = s[1] /\ 1 \in DOMAIN s
  OBVIOUS
<1>2. \A k \in 1 .. Len(s) - 1 : k + 1 \in DOMAIN s /\ k + 1 # 1
  BY <1>1
<1>3. Once(Tail(s))
  <2> SUFFICES ASSUME NEW k \in 1 .. Len(s) - 1, NEW l \in 1 .. Len(s) - 1, Tail(s)[k] = Tail(s)[l]
               PROVE  k = l
    BY <1>1 DEF Once
  <2>1. k + 1 = l + 1
    BY <1>1, <1>2 DEF Once
  <2> QED
    BY <1>1, <2>1
<1>4. Head(s) \notin Range(Tail(s))
  BY <1>1, <1>2 DEF Once, Range
<1> QED
  BY <1>3, <1>4

LEMMA OnceAppend ==
  ASSUME NEW S, NEW s \in Seq(S), NEW x \in S, Once(s), x \notin Range(s)
  PROVE  Once(Append(s, x))
<1>1. <<x>> \in Seq(S) /\ Once(<<x>>) /\ Range(<<x>>) = {x}
  BY DEF Once, Range
<1>2. Append(s, x) = s \o <<x>>
  BY AppendIsConcat
<1>3. Range(s) \cap Range(<<x>>) = {}
  BY <1>1
<1> QED
  BY <1>1, <1>2, <1>3, OnceConcat

\* The quotient and the remainder make the number.
LEMMA Divided ==
  ASSUME NEW d \in Nat \ {0}, NEW m \in Nat, NEW n \in Nat,
         m \div d = n \div d, m % d = n % d
  PROVE  m = n
  OBVIOUS

\* At the start every process is ready, once.
LEMMA ReadyOnce ==
  Init => ScheduledOnce
<1> SUFFICES ASSUME Init PROVE ScheduledOnce
  OBVIOUS
<1> DEFINE perNI == IF PerVC THEN NumVC ELSE 1
<1>1. /\ NumRouter \in Nat /\ NumEPC \in Nat \ {0} /\ NumPC \in Nat /\ NumVC \in Nat \ {0}
      /\ perNI \in Nat \ {0}
  BY SwArbAssumption, NetworkAssumption
<1>2. /\ Once(RouterProc) /\ RouterProc \in Seq({0} \X Router)
  BY <1>1 DEF Once, RouterProc, Router
<1> DEFINE nis == NumRouter * NumEPC
           nin(n) == (n - 1) \div perNI
           pin(n) == <<1, nin(n) \div NumEPC, NumPC - NumEPC + (nin(n) % NumEPC), (n - 1) % perNI>>
           pout(n) == <<2, (n - 1) \div NumEPC, NumPC - NumEPC + ((n - 1) % NumEPC)>>
<1>3. /\ NIinProc = [n \in 1 .. nis * perNI |-> pin(n)]
      /\ NIoutProc = [n \in 1 .. nis |-> pout(n)]
  BY DEF NIinProc, NIoutProc
<1>4. nis \in Nat /\ nis * perNI \in Nat
  <2>1. nis \in Nat
    BY <1>1
  <2> HIDE DEF nis, perNI
  <2> QED
    BY <1>1, <2>1
<1> HIDE DEF nis, perNI
<1>5. ASSUME NEW m \in Nat, NEW n \in Nat, m \div NumEPC = n \div NumEPC,
             NumPC - NumEPC + (m % NumEPC) = NumPC - NumEPC + (n % NumEPC)
      PROVE  m = n
  <2>1. m % NumEPC \in Int /\ n % NumEPC \in Int
    BY <1>1
  <2>2. m % NumEPC = n % NumEPC
    BY <1>1, <1>5, <2>1
  <2> QED
    BY <1>1, <1>5, <2>2, Divided
<1>6. ASSUME NEW m \in 1 .. nis * perNI, NEW n \in 1 .. nis * perNI, pin(m) = pin(n)
      PROVE  m = n
  <2>1. m - 1 \in Nat /\ n - 1 \in Nat
    BY <1>4
  <2>2. nin(m) \in Nat /\ nin(n) \in Nat
    BY <1>1, <2>1
  <2>3. nin(m) \div NumEPC = nin(n) \div NumEPC /\ (m - 1) % perNI = (n - 1) % perNI
        /\ NumPC - NumEPC + (nin(m) % NumEPC) = NumPC - NumEPC + (nin(n) % NumEPC)
    BY <1>6
  <2> HIDE DEF nin
  <2>4. nin(m) = nin(n)
    BY <1>5, <2>2, <2>3
  <2>5. m - 1 = n - 1
    BY <1>1, <2>1, <2>3, <2>4, Divided DEF nin
  <2> QED
    BY <1>4, <2>5
<1>7. ASSUME NEW m \in 1 .. nis, NEW n \in 1 .. nis, pout(m) = pout(n)
      PROVE  m = n
  <2>1. m - 1 \in Nat /\ n - 1 \in Nat
    BY <1>4
  <2>2. m - 1 = n - 1
    BY <1>5, <1>7, <2>1
  <2> QED
    BY <1>4, <2>2
<1>8. /\ Once(NIinProc) /\ Once(NIoutProc)
      /\ \A k \in DOMAIN NIinProc : NIinProc[k][1] = 1
      /\ \A k \in DOMAIN NIoutProc : NIoutProc[k][1] = 2
  <2>1. \A n : pin(n)[1] = 1 /\ pout(n)[1] = 2
    OBVIOUS
  <2> HIDE DEF pin, pout
  <2> QED
    BY <1>3, <1>6, <1>7, <2>1 DEF Once
<1>9. ready = RouterProc \o NIinProc \o NIoutProc /\ held = <<>>
  BY DEF Init
<1>10. /\ RouterProc \in Seq(Range(RouterProc)) /\ NIinProc \in Seq(Range(NIinProc))
       /\ NIoutProc \in Seq(Range(NIoutProc))
  <2>1. \A s : \A m \in Nat : DOMAIN s = 1 .. m /\ s = [n \in 1 .. m |-> s[n]] => s \in Seq(Range(s))
    BY DEF Range
  <2>2. RouterProc = [n \in 1 .. NumRouter |-> RouterProc[n]] /\ DOMAIN RouterProc = 1 .. NumRouter
    BY DEF RouterProc
  <2> HIDE DEF pin, pout
  <2>3. /\ NIinProc = [n \in 1 .. nis * perNI |-> NIinProc[n]] /\ DOMAIN NIinProc = 1 .. nis * perNI
        /\ NIoutProc = [n \in 1 .. nis |-> NIoutProc[n]] /\ DOMAIN NIoutProc = 1 .. nis
    BY <1>3
  <2> QED
    BY <1>1, <1>4, <2>1, <2>2, <2>3
<1> DEFINE S == Range(RouterProc) \cup Range(NIinProc) \cup Range(NIoutProc)
<1>11. RouterProc \in Seq(S) /\ NIinProc \in Seq(S) /\ NIoutProc \in Seq(S)
  BY <1>10
<1>12. /\ \A x \in Range(RouterProc) : x[1] = 0
       /\ \A x \in Range(NIinProc) : x[1] = 1
       /\ \A x \in Range(NIoutProc) : x[1] = 2
  <2>1. \A k \in DOMAIN RouterProc : RouterProc[k][1] = 0
    BY DEF RouterProc
  <2> QED
    BY <1>8, <2>1 DEF Range
<1> HIDE DEF S
<1>13. Once(RouterProc \o NIinProc) /\ RouterProc \o NIinProc \in Seq(S)
       /\ Range(RouterProc \o NIinProc) = Range(RouterProc) \cup Range(NIinProc)
  <2>1. Range(RouterProc) \cap Range(NIinProc) = {}
    BY <1>12
  <2> QED
    BY <1>2, <1>8, <1>11, <2>1, OnceConcat, RangeOfConcat, ConcatProperties
<1>14. Once(RouterProc \o NIinProc \o NIoutProc)
  <2>1. Range(RouterProc \o NIinProc) \cap Range(NIoutProc) = {}
    BY <1>12, <1>13
  <2> QED
    BY <1>8, <1>11, <1>13, <2>1, OnceConcat
<1>15. Once(<<>>) /\ Range(<<>>) = {}
  BY DEF Once, Range
<1> QED
  BY <1>9, <1>14, <1>15 DEF ScheduledOnce

\* No step schedules a process a second time.
LEMMA OnceInductive ==
  ASSUME TypeOK, ScheduledOnce, Next
  PROVE  ScheduledOnce'
<1>1. ready \in Seq(Procs) /\ held \in Seq(Procs)
  BY DEF TypeOK, SchedulerOK
<1>2. ASSUME NEW woken, Sleepers(woken), NEW s \in Seq(Procs), Once(s), Range(s) \subseteq Range(ready)
      PROVE  /\ Once(s \o woken) /\ Range(s \o woken) = Range(s) \cup Range(woken)
             /\ Range(woken) \cap (Range(ready) \cup Range(held)) = {}
  <2>1. woken \in Seq(Procs) /\ Once(woken)
    BY <1>2 DEF Sleepers, Once
  <2>2. Range(woken) \cap (Range(ready) \cup Range(held)) = {}
    BY <1>2 DEF Sleepers, Waiting, Range
  <2>3. Range(s) \cap Range(woken) = {}
    BY <1>2, <2>2
  <2> QED
    BY <1>2, <2>1, <2>2, <2>3, OnceConcat, RangeOfConcat
<1>3. ready # <<>> => /\ Tail(ready) \in Seq(Procs) /\ Once(Tail(ready)) /\ Head(ready) \in Procs
                      /\ Head(ready) \notin Range(Tail(ready))
                      /\ Range(ready) = {Head(ready)} \cup Range(Tail(ready))
  BY <1>1, OnceTail, RangeOfTail DEF ScheduledOnce
<1>4. ASSUME NEW a, NEW b, ready' = a, held' = b,
              Once(a), Once(b), Range(a) \cap Range(b) = {}
       PROVE  ScheduledOnce'
  BY <1>4 DEF ScheduledOnce, Once, Range
<1>5. Once(held) /\ Once(ready) /\ Range(ready) \cap Range(held) = {}
  BY DEF ScheduledOnce
<1>6. ASSUME NEW woken, Sleepers(woken), NEW s, GoOn(s, woken)
      PROVE  ScheduledOnce'
  <2>1. ready' = ready \o woken /\ held' = held
    BY <1>6 DEF GoOn
  <2>2. /\ Once(ready \o woken) /\ Range(ready \o woken) = Range(ready) \cup Range(woken)
        /\ Range(woken) \cap (Range(ready) \cup Range(held)) = {}
    BY <1>1, <1>2, <1>6 DEF ScheduledOnce
  <2>3. Range(ready \o woken) \cap Range(held) = {}
    BY <2>2 DEF ScheduledOnce
  <2> QED
    BY <1>4, <1>5, <2>1, <2>2, <2>3
<1>7. ASSUME NEW woken, Sleepers(woken), ready # <<>>, HoldOneCycle(woken)
      PROVE  ScheduledOnce'
  <2>1. ready' = Tail(ready) \o woken /\ held' = Append(held, Head(ready))
    BY <1>7 DEF HoldOneCycle
  <2> DEFINE a == Tail(ready) \o woken
             b == Append(held, Head(ready))
  <2>2. /\ Once(a) /\ Range(a) = Range(Tail(ready)) \cup Range(woken)
        /\ Range(woken) \cap (Range(ready) \cup Range(held)) = {}
    BY <1>2, <1>3, <1>7
  <2>3. Head(ready) \notin Range(held)
    BY <1>3, <1>7, <1>5
  <2>4. Once(b) /\ Range(b) = Range(held) \cup {Head(ready)}
    BY <1>1, <1>3, <1>7, <1>5, <2>3, OnceAppend, RangeOfAppend
  <2> HIDE DEF a, b
  <2>5. Range(a) \cap Range(b) = {}
    BY <1>3, <1>7, <1>5, <2>2, <2>4
  <2> QED
    BY <1>4, <2>1, <2>2, <2>4, <2>5 DEF a, b
<1>8. ASSUME NEW j, Running(j), WaitEvent(j)
      PROVE  ScheduledOnce'
  <2>1. (ready' = ready \/ ready' = Tail(ready)) /\ held' = held /\ ready # <<>>
    BY <1>8 DEF WaitEvent, Running
  <2>2. Once(Tail(ready)) /\ Range(Tail(ready)) \cap Range(held) = {}
    BY <1>3, <1>5, <2>1
  <2> QED
    BY <1>4, <1>5, <2>1, <2>2
<1>9. ASSUME Tick
      PROVE  ScheduledOnce'
  <2>1. ready' = held /\ held' = <<>>
    BY <1>9 DEF Tick
  <2> QED
    BY <2>1 DEF ScheduledOnce, Once, Range
<1>10. ASSUME UNCHANGED vars
      PROVE  ScheduledOnce'
  BY <1>10 DEF ScheduledOnce, Once, Range, vars, schedVars
<1>11. /\ \A r \in Router : RouterWake(r) => Running(<<0, r>>)
       /\ \A j \in NIinProcs : NIRead(j) => Running(j)
       /\ \A j \in NIoutProcs : NIOutput(j) => Running(j)
  BY DEF RouterWake, NIRead, NIOutput
<1>12. ASSUME NEW woken, Sleepers(woken),
              (\E s : GoOn(s, woken)) \/ (ready # <<>> /\ HoldOneCycle(woken))
       PROVE  ScheduledOnce'
  BY <1>6, <1>7, <1>12
<1>13. \A r \in Router : RouterWake(r) /\ WaitEvent(<<0, r>>) => ScheduledOnce'
  BY <1>8, <1>11
<1>14. \A i \in NIinProcs : NIRead(i) /\ WaitEvent(i) => ScheduledOnce'
  BY <1>8, <1>11
<1>15. \A i \in NIoutProcs : NIOutput(i) /\ WaitEvent(i) => ScheduledOnce'
  BY <1>8, <1>11
<1> QED
  BY <1>9, <1>10, <1>12, <1>13, <1>14, <1>15, Scheduling

-----------------------------------------------------------------------------
(* A link never holds more flits than cycles that it takes. *)

\* In this cycle router r may still send flits to its links.
ToSend(r) ==
  /\ <<0, r>> \in Range(ready)
  /\ ~ (Running(<<0, r>>) /\ stage >= 4)

\* In this cycle the links of router r have delivered.
Delivered(r) ==
  \/ <<0, r>> \in Range(held)
  \/ Running(<<0, r>>) /\ stage >= 3

\* Only the running router takes a step.
LEMMA RunningSteps ==
  ASSUME NEW q, RouterStep(q)
  PROVE  Running(<<0, q>>)
<1>1. RouterWake(q) \/ IncCredit(q) => Running(<<0, q>>)
  BY Zenon DEF RouterWake, IncCredit, AtStage
<1>2. StageLT(q) \/ StageST(q) \/ StageSA(q) => Running(<<0, q>>)
  BY Zenon DEF StageLT, StageST, StageSA, AtStage
<1>3. StageRC(q) \/ StageVA(q) \/ StageSSA(q) => Running(<<0, q>>)
  BY Zenon DEF StageRC, StageVA, StageSSA, AtStage
<1> QED
  BY <1>1, <1>2, <1>3 DEF RouterStep

\* What the running router does between two waits.
LEMMA RouterRuns ==
  ASSUME TypeOK, Next, NEW r \in Router, Running(<<0, r>>), stage # 0
  PROVE  /\ \E woken : Sleepers(woken) /\ (NextStage(woken) \/ GoOn(stage, woken))
         /\ stage = 2 => StageLT(r)
         /\ stage = 3 => StageST(r)
<1>1. \A i : Running(i) => i = <<0, r>>
  BY DEF Running
<1>2. \A q \in Router : RouterStep(q) => Running(<<0, q>>)
  BY RunningSteps
<1>3. ~ NIStep
  <2>1. \A i \in NIinProcs : NIRead(i) \/ NIReserve(i) \/ NIInject(i) \/ NIFinish(i) => Running(i)
    BY ZenonT(60) DEF NIRead, NIReserve, NIInject, NIFinish
  <2>2. \A i \in NIoutProcs : NIOutput(i) => Running(i)
    BY DEF NIOutput
  <2>3. <<0, r>> \notin NIinProcs /\ <<0, r>> \notin NIoutProcs
    BY DEF NIinProcs, NIoutProcs
  <2> QED
    BY <1>1, <2>1, <2>2, <2>3 DEF NIStep
<1>4. ~ Tick /\ ~ Finished /\ \A p \in Packet : ~ Generate(p)
  BY DEF Tick, Finished, Generate, Running
<1>5. \E q \in Router : RouterStep(q)
  BY <1>3, <1>4 DEF Next, Step
<1>6. RouterStep(r)
  BY <1>1, <1>2, <1>5
<1>7. ~ RouterWake(r)
  BY DEF RouterWake
<1>8. Sleepers(<<>>)
  BY DEF Sleepers
<1>9. CASE IncCredit(r)
  <2>1. (NextStage(<<>>) \/ GoOn(stage, <<>>)) /\ Stages[stage] = "IC"
    BY <1>9, Zenon DEF IncCredit, AtStage
  <2>2. Stages[2] = "LT" /\ Stages[3] = "ST"
    BY DEF Stages
  <2> QED
    BY <1>8, <2>1, <2>2
<1>10. CASE StageLT(r)
  <2>1. Stages[stage] = "LT"
    BY <1>10 DEF StageLT, AtStage
  <2>2. Stages[3] = "ST"
    BY DEF Stages
  <2> QED
    BY <1>10, <2>1, <2>2, LinkWakes, SMTT(30)
<1>11. CASE StageST(r)
  <2>1. Stages[stage] = "ST"
    BY <1>11, Zenon DEF StageST, AtStage
  <2>2. Stages[2] = "LT"
    BY DEF Stages
  <2> QED
    BY <1>11, <2>1, <2>2, SwitchWakes
<1>12. CASE StageSA(r) \/ StageRC(r) \/ StageVA(r) \/ StageSSA(r)
  <2>1. (NextStage(<<>>) \/ GoOn(stage, <<>>)) /\ Stages[stage] \in {"SA", "RC", "VA", "SSA"}
    BY <1>12, Zenon DEF StageSA, StageRC, StageVA, StageSSA, AtStage
  <2>2. Stages[2] = "LT" /\ Stages[3] = "ST"
    BY DEF Stages
  <2> QED
    BY <1>8, <2>1, <2>2
<1> QED
  BY <1>6, <1>7, <1>9, <1>10, <1>11, <1>12 DEF RouterStep

\* A router that has just become the running one is at the start of its loop.
LEMMA Rest ==
  ASSUME TypeOK, Next, NEW r \in Router, Running(<<0, r>>), stage = 0
  PROVE  held' = held /\ stage' \in {0, 1}
<1>1. \A i : Running(i) => i = <<0, r>>
  BY DEF Running
<1>2. ~ NIStep
  <2>1. \A i \in NIinProcs : NIRead(i) \/ NIReserve(i) \/ NIInject(i) \/ NIFinish(i) => Running(i)
    BY Zenon DEF NIRead, NIReserve, NIInject, NIFinish
  <2>2. \A i \in NIoutProcs : NIOutput(i) => Running(i)
    BY DEF NIOutput
  <2>3. <<0, r>> \notin NIinProcs /\ <<0, r>> \notin NIoutProcs
    BY DEF NIinProcs, NIoutProcs
  <2> QED
    BY <1>1, <2>1, <2>2, <2>3 DEF NIStep
<1>3. ~ Tick /\ ~ Finished
  BY DEF Tick, Finished, Running
<1>4. \A p \in Packet : Generate(p) => held' = held /\ stage' = 0
  BY DEF Generate, GoOn
<1>5. ASSUME NEW q \in Router, RouterStep(q)
      PROVE  held' = held /\ stage' \in {0, 1}
  <2>1. RouterWake(q)
    BY <1>5 DEF RouterStep, IncCredit, StageLT, StageST, StageSA, StageRC, StageVA, StageSSA, AtStage
  <2> QED
    BY <2>1 DEF RouterWake, WaitEvent, GoOn
<1> QED
  BY <1>2, <1>3, <1>4, <1>5 DEF Next, Step

\* With no process ready only the clock and the workload go on.
LEMMA NoneReady ==
  ASSUME TypeOK, Next, ready = <<>>
  PROVE  stage' = 0
<1>1. stage = 0
  BY DEF TypeOK, SchedulerOK
<1>2. \A i : ~ Running(i)
  BY DEF Running
<1>3. \A q \in Router : ~ RouterStep(q)
  BY <1>2, RunningSteps
<1>4. ~ NIStep
  BY <1>2, Zenon DEF NIStep, NIRead, NIReserve, NIInject, NIFinish, NIOutput
<1> QED
  BY <1>1, <1>3, <1>4, Zenon DEF Next, Step, Tick, Finished, Generate, GoOn, vars, schedVars

\* A router may send again only after the clock has advanced or it has slept.
LEMMA TurnBegins ==
  ASSUME TypeOK, ScheduledOnce, Next, NEW r \in Router, ToSend(r)', ~ ToSend(r)
  PROVE  Tick \/ Waiting(<<0, r>>)
<1> DEFINE R == <<0, r>>
<1>1. ready \in Seq(Procs) /\ held \in Seq(Procs) /\ stage \in Nat
  BY StagesKnown DEF TypeOK, SchedulerOK
<1>2. CASE R \notin Range(ready)
  <2>1. R \in Range(ready')
    BY DEF ToSend, Range
  <2>2. ASSUME NEW woken, Sleepers(woken), NEW s \in Seq(Procs), Range(s) \subseteq Range(ready),
               ready' = s \o woken
        PROVE  Waiting(R)
    <3>1. woken \in Seq(Procs)
      BY <2>2 DEF Sleepers
    <3>2. Range(s \o woken) = Range(s) \cup Range(woken)
      BY <2>2, <3>1, RangeOfConcat
    <3>3. R \in Range(woken)
      BY <1>2, <2>1, <2>2, <3>2
    <3> QED
      BY <2>2, <3>3 DEF Sleepers, Range
  <2>3. ready # <<>> => Tail(ready) \in Seq(Procs) /\ Range(Tail(ready)) \subseteq Range(ready)
    BY <1>1, RangeOfTail
  <2>4. ASSUME NEW woken, Sleepers(woken),
               (\E s : GoOn(s, woken)) \/ (ready # <<>> /\ HoldOneCycle(woken))
        PROVE  Waiting(R)
    BY <1>1, <2>2, <2>3, <2>4 DEF GoOn, HoldOneCycle
  <2>5. ASSUME NEW j, Running(j), WaitEvent(j)
        PROVE  FALSE
    <3>1. ready # <<>> /\ (ready' = ready \/ ready' = Tail(ready))
      BY <2>5 DEF Running, WaitEvent
    <3> QED
      BY <1>2, <2>1, <2>3, <3>1
  <2>6. ASSUME UNCHANGED vars
        PROVE  FALSE
    BY <1>2, <2>1, <2>6, SMTT(30) DEF vars, schedVars
  <2>7. /\ \A q \in Router : RouterWake(q) /\ WaitEvent(<<0, q>>) => FALSE
        /\ \A j \in NIinProcs : NIRead(j) /\ WaitEvent(j) => FALSE
        /\ \A j \in NIoutProcs : NIOutput(j) /\ WaitEvent(j) => FALSE
    BY <2>5 DEF RouterWake, NIRead, NIOutput
  <2> QED
    BY <2>4, <2>6, <2>7, Scheduling
<1>3. CASE Running(R) /\ stage >= 4
  <2>1. PICK woken : Sleepers(woken) /\ (NextStage(woken) \/ GoOn(stage, woken))
    BY <1>1, <1>3, RouterRuns
  <2>2. woken \in Seq(Procs) /\ ready # <<>> /\ Head(ready) = R
    BY <1>3, <2>1 DEF Sleepers, Running
  <2>3. ASSUME NEW s, GoOn(s, woken)
        PROVE  Running(R)'
    <3>1. ready' # <<>> /\ Head(ready') = Head(ready)
      BY <2>2, <2>3, HeadGoesOn
    <3> QED
      BY <2>2, <3>1 DEF Running
  <2>4. ~ GoOn(stage, woken) /\ ~ GoOn(stage + 1, woken)
    <3> SUFFICES ASSUME GoOn(stage, woken) \/ GoOn(stage + 1, woken) PROVE FALSE
      OBVIOUS
    <3>1. Running(R)'
      BY <2>3
    <3>2. stage' = stage \/ stage' = stage + 1
      BY DEF GoOn
    <3>3. stage' >= 4
      BY <1>1, <1>3, <3>2
    <3> QED
      BY <3>1, <3>3 DEF ToSend
  <2>5. HoldOneCycle(woken)
    BY <2>1, <2>4 DEF NextStage
  <2>6. R \notin Range(Tail(ready)) /\ Tail(ready) \in Seq(Procs)
    <3>1. Head(ready) \notin Range(Tail(ready)) /\ Tail(ready) \in Seq(Procs)
      BY <1>1, <2>2, OnceTail DEF ScheduledOnce
    <3> QED
      BY <2>2, <3>1
  <2>7. R \notin Range(woken)
    <3>1. R \in Range(ready)
      BY <1>1, <2>2, RangeOfTail
    <3> QED
      BY <2>1, <3>1 DEF Sleepers, Waiting, Range
  <2>8. ready' = Tail(ready) \o woken
    BY <2>5 DEF HoldOneCycle
  <2>9. Range(Tail(ready) \o woken) = Range(Tail(ready)) \cup Range(woken)
    BY <2>2, <2>6, RangeOfConcat, ZenonT(60)
  <2>10. R \notin Range(ready')
    BY <2>6, <2>7, <2>8, <2>9
  <2> QED
    BY <2>10 DEF ToSend, Range
<1> QED
  BY <1>2, <1>3 DEF ToSend

\* The links of a router have delivered only after its link traversal.
LEMMA DeliversFirst ==
  ASSUME TypeOK, Next, NEW r \in Router, Delivered(r)', ~ Delivered(r)
  PROVE  StageLT(r)
<1> DEFINE R == <<0, r>>
<1>1. ready \in Seq(Procs) /\ held \in Seq(Procs) /\ stage \in Nat
  BY StagesKnown DEF TypeOK, SchedulerOK
<1>2. R \in Range(held') \/ (Running(R)' /\ stage' >= 3)
  BY DEF Delivered, Range
<1>3. R \notin Range(held) /\ ~ (Running(R) /\ stage >= 3)
  BY DEF Delivered
<1>4. CASE Running(R)
  <2>1. CASE stage = 0
    <3>1. held' = held /\ stage' \in {0, 1}
      BY <1>4, <2>1, Rest
    <3> QED
      BY <1>2, <1>3, <3>1
  <2>2. CASE stage = 1
    <3>1. PICK woken : NextStage(woken) \/ GoOn(stage, woken)
      BY <1>4, <2>2, RouterRuns
    <3>2. held' = held /\ stage' \in {1, 2}
      BY <2>2, <3>1, StagesKnown DEF NextStage, GoOn
    <3> QED
      BY <1>2, <1>3, <3>2
  <2>3. CASE stage = 2
    BY <1>4, <2>3, RouterRuns
  <2> QED
    BY <1>1, <1>3, <1>4, <2>1, <2>2, <2>3
<1>5. CASE ~ Running(R)
  <2>1. ASSUME NEW woken, Sleepers(woken), NEW s, GoOn(s, woken)
        PROVE  FALSE
    <3>1. held' = held /\ woken \in Seq(Procs)
      BY <2>1 DEF GoOn, Sleepers
    <3>2. Running(R)' /\ stage' >= 3
      BY <1>2, <1>3, <3>1
    <3>3. ready # <<>>
      BY <3>2, NoneReady
    <3>4. Head(ready') = Head(ready)
      BY <2>1, <3>1, <3>3, HeadGoesOn
    <3> QED
      BY <1>5, <3>2, <3>3, <3>4 DEF Running
  <2>2. ASSUME NEW woken, ready # <<>>, HoldOneCycle(woken)
        PROVE  FALSE
    <3>1. held' = Append(held, Head(ready)) /\ stage' = 0 /\ Head(ready) \in Procs
      BY <1>1, <2>2, HeadTailProperties DEF HoldOneCycle
    <3>2. Range(Append(held, Head(ready))) = Range(held) \cup {Head(ready)}
      BY <1>1, <3>1, RangeOfAppend
    <3> QED
      BY <1>2, <1>3, <1>5, <2>2, <3>1, <3>2 DEF Running
  <2>3. ASSUME NEW j, WaitEvent(j)
        PROVE  FALSE
    BY <1>2, <1>3, <2>3 DEF WaitEvent
  <2>4. ~ Tick
    <3> SUFFICES ASSUME Tick PROVE FALSE
      OBVIOUS
    <3>1. Range(held') = {} /\ stage' = 0
      BY NoneReady DEF Tick, Range
    <3> QED
      BY <1>2, <3>1
  <2>5. ~ UNCHANGED vars
    BY <1>2, <1>3 DEF vars, schedVars, Running
  <2>6. ASSUME NEW woken, Sleepers(woken),
               (\E s : GoOn(s, woken)) \/ (ready # <<>> /\ HoldOneCycle(woken))
        PROVE  FALSE
    BY <2>1, <2>2, <2>6
  <2> QED
    BY <2>3, <2>4, <2>5, <2>6, Scheduling
<1> QED
  BY <1>4, <1>5

\* The flits on a link are in the order of their ages, which differ.  One that
\* has been sent in this cycle is younger than those that have not yet been
\* delivered in it.
Aged(l) ==
  /\ \A m, n \in DOMAIN pipe[l] : m < n => pipe[l][m].age > pipe[l][n].age
  /\ \A k \in DOMAIN pipe[l] :
       /\ pipe[l][k].age <= LinkLat[l]
       /\ ToSend(l[1]) => pipe[l][k].age >= 1
       /\ Delivered(l[1]) => pipe[l][k].age < LinkLat[l]

Aging == \A l \in Link : Aged(l)

LEMMA AgesKnown ==
  ASSUME TypeOK, NEW l \in Link
  PROVE  /\ l[1] \in Router /\ LinkLat[l] \in Nat \ {0}
         /\ pipe[l] \in Seq(InFlight)
         /\ DOMAIN pipe[l] = 1 .. Len(pipe[l]) /\ Len(pipe[l]) \in Nat
         /\ \A k \in DOMAIN pipe[l] : pipe[l][k] \in InFlight /\ pipe[l][k].age \in Nat
<1>1. l[1] \in Router /\ LinkLat[l] \in Nat \ {0}
  BY NetworkAssumption
<1>2. pipe[l] \in Seq(InFlight)
  BY DEF TypeOK, BuffersOK
<1>3. \A k \in DOMAIN pipe[l] : pipe[l][k] \in InFlight
  BY <1>2
<1> QED
  BY <1>1, <1>2, <1>3 DEF InFlight

\* The ages on a link that did not change stay in order.
LEMMA AgesStay ==
  ASSUME TypeOK, ScheduledOnce, NoSleepOnWork, Aging, Next, ~ Tick,
         NEW l \in Link, ~ StageLT(l[1]), pipe'[l] = pipe[l]
  PROVE  Aged(l)'
<1>1. l[1] \in Router
  BY NetworkAssumption
<1>2. Delivered(l[1])' => Delivered(l[1])
  BY <1>1, DeliversFirst
<1>3. CASE pipe[l] = <<>>
  <2>1. DOMAIN pipe[l] = {}
    BY <1>3
  <2> QED
    BY <2>1 DEF Aged
<1>4. CASE pipe[l] # <<>>
  <2>1. ~ Waiting(<<0, l[1]>>)
    BY <1>1, <1>4 DEF NoSleepOnWork
  <2>2. ToSend(l[1])' => ToSend(l[1])
    BY <1>1, <2>1, TurnBegins
  <2> QED
    BY <1>2, <2>2 DEF Aging, Aged
<1> QED
  BY <1>3, <1>4

\* So do those on a link whose first flit leaves, which is the oldest.
LEMMA AgesAfterTraversal ==
  ASSUME TypeOK, ScheduledOnce, Aging, Next, NEW l \in Link, StageLT(l[1])
  PROVE  Aged(l)'
<1> DEFINE r == l[1]
           s == pipe[l]
           lat == LinkLat[l]
<1>1. r \in Router /\ lat \in Nat \ {0} /\ s \in Seq(InFlight)
  BY AgesKnown
<1>2. \A k \in DOMAIN s : s[k] \in InFlight /\ s[k].age \in Nat
  BY AgesKnown
<1>3. ToSend(r)' => ToSend(r)
  <2>1. Running(<<0, r>>) /\ ~ Tick
    BY Zenon DEF StageLT, AtStage, Running, Tick
  <2>2. ~ Waiting(<<0, r>>)
    <3>1. ready \in Seq(Procs) /\ ready # <<>> /\ Head(ready) = <<0, r>>
      BY <2>1 DEF Running, TypeOK, SchedulerOK
    <3>2. <<0, r>> \in Range(ready)
      BY <3>1, RangeOfTail
    <3> QED
      BY <3>2 DEF Waiting
  <2> QED
    BY <1>1, <2>1, <2>2, TurnBegins
<1>4. /\ \A m, n \in DOMAIN s : m < n => s[m].age > s[n].age
      /\ \A k \in DOMAIN s : s[k].age <= lat /\ (ToSend(r) => s[k].age >= 1)
  BY SMTT(30) DEF Aging, Aged
<1>5. pipe' = [k \in Link |-> IF k \in Crossed(r) THEN Tail(pipe[k]) ELSE pipe[k]]
  BY DEF StageLT
<1>8. ASSUME NEW t, pipe'[l] = t,
             \A m, n \in DOMAIN t : m < n => t[m].age > t[n].age,
             \A k \in DOMAIN t : t[k].age < lat /\ (ToSend(r)' => t[k].age >= 1),
             \A k \in DOMAIN t : t[k].age \in Nat
      PROVE  Aged(l)'
  BY <1>1, <1>8 DEF Aged
<1> HIDE DEF r, lat
<1>6. CASE l \in Crossed(r)
  <2>1. pipe'[l] = Tail(s) /\ s # <<>>
    BY <1>5, <1>6 DEF Crossed
  <2> HIDE DEF s
  <2>2. /\ Len(s) \in Nat /\ DOMAIN s = 1 .. Len(s) /\ 1 \in DOMAIN s
        /\ DOMAIN Tail(s) = 1 .. Len(s) - 1
        /\ \A k \in 1 .. Len(s) - 1 : Tail(s)[k] = s[k + 1] /\ k + 1 \in DOMAIN s /\ 1 < k + 1
    BY <1>1, <2>1
  <2>3. ASSUME NEW k \in 1 .. Len(s) - 1
        PROVE  /\ Tail(s)[k].age < lat /\ Tail(s)[k].age \in Nat
               /\ ToSend(r)' => Tail(s)[k].age >= 1
    <3>1. Tail(s)[k] = s[k + 1] /\ k + 1 \in DOMAIN s /\ 1 < k + 1 /\ 1 \in DOMAIN s
      BY <2>2
    <3>2. s[1].age > s[k + 1].age /\ s[1].age <= lat /\ (ToSend(r) => s[k + 1].age >= 1)
      BY <1>4, <3>1
    <3>3. s[1].age \in Nat /\ s[k + 1].age \in Nat
      BY <1>2, <3>1
    <3> QED
      BY <1>1, <1>3, <3>1, <3>2, <3>3
  <2>4. ASSUME NEW m \in 1 .. Len(s) - 1, NEW n \in 1 .. Len(s) - 1, m < n
        PROVE  Tail(s)[m].age > Tail(s)[n].age
    <3>1. m + 1 < n + 1 /\ m + 1 \in DOMAIN s /\ n + 1 \in DOMAIN s
      BY <2>2, <2>4
    <3>2. s[m + 1].age > s[n + 1].age
      BY <1>4, <3>1
    <3> QED
      BY <2>2, <3>2
  <2> QED
    BY <1>8, <2>1, <2>2, <2>3, <2>4
<1>7. CASE l \notin Crossed(r)
  <2>1. pipe'[l] = s
    BY <1>5, <1>7
  <2>2. s # <<>> => LinkLat[l] > 1 /\ ~ (Head(s).age >= lat)
    BY <1>7 DEF Crossed, r, lat
  <2> HIDE DEF s
  <2>3. ASSUME NEW k \in DOMAIN s
        PROVE  s[k].age < lat
    <3>1. s # <<>> /\ 1 \in DOMAIN s /\ Head(s) = s[1] /\ (k = 1 \/ 1 < k)
      BY <1>1
    <3>2. s[1].age \in Nat /\ s[k].age \in Nat
      BY <1>2, <3>1
    <3>3. s[1].age < lat
      BY <1>1, <2>2, <3>1, <3>2
    <3>4. k = 1 \/ s[1].age > s[k].age
      BY <1>4, <3>1
    <3> QED
      BY <1>1, <3>2, <3>3, <3>4
  <2> QED
    BY <1>2, <1>3, <1>4, <1>8, <2>1, <2>3
<1> QED
  BY <1>6, <1>7

\* A flit that is sent is younger than all others on its link.
LEMMA AgesAfterSending ==
  ASSUME TypeOK, ControlInv, Aging, NEW l \in Link, StageST(l[1])
  PROVE  Aged(l)'
<1> DEFINE r == l[1]
           s == pipe[l]
           lat == LinkLat[l]
<1>1. r \in Router /\ lat \in Nat \ {0} /\ s \in Seq(InFlight)
  BY AgesKnown
<1>2. \A k \in DOMAIN s : s[k] \in InFlight /\ s[k].age \in Nat
  BY AgesKnown
<1>3. Running(<<0, r>>) /\ stage = 3 /\ ready # <<>> /\ Head(ready) = <<0, r>>
  <2>1. AtStage(r, "ST")
    BY Zenon DEF StageST
  <2>2. stage \in 1 .. Len(Stages)
    BY <2>1 DEF AtStage, TypeOK, SchedulerOK
  <2> QED
    BY <2>1, <2>2, StagesKnown DEF AtStage, Running
<1>4. ToSend(r) /\ Delivered(r)
  BY <1>3 DEF ToSend, Delivered, Range, TypeOK, SchedulerOK
<1>5. /\ \A m, n \in DOMAIN s : m < n => s[m].age > s[n].age
      /\ \A k \in DOMAIN s : s[k].age >= 1 /\ s[k].age < lat
  BY <1>4 DEF Aging, Aged
<1>6. ~ ToSend(r)'
  <2>1. PICK woken : Sleepers(woken) /\ NextStage(woken)
    BY <1>1, SwitchWakes
  <2>2. woken \in Seq(Procs)
    BY <2>1 DEF Sleepers
  <2>3. GoOn(4, woken)
    BY <1>3, <2>1, StagesKnown DEF NextStage
  <2>4. ready' # <<>> /\ Head(ready') = Head(ready) /\ stage' = 4
    BY <1>3, <2>2, <2>3, HeadGoesOn DEF GoOn
  <2>5. Running(<<0, r>>)'
    BY <1>3, <2>4 DEF Running
  <2> QED
    BY <2>4, <2>5 DEF ToSend
<1>9. ASSUME NEW t, pipe'[l] = t,
             \A m, n \in DOMAIN t : m < n => t[m].age > t[n].age,
             \A k \in DOMAIN t : t[k].age < lat /\ t[k].age \in Nat
      PROVE  Aged(l)'
  BY <1>1, <1>6, <1>9 DEF Aged
<1>7. CASE \E i \in PC : xbar[r][i] # INVALID_VC /\ inMod[r][i][xbar[r][i]].pc = l[2]
  <2>1. PICK i \in PC : xbar[r][i] # INVALID_VC /\ inMod[r][i][xbar[r][i]].pc = l[2]
    BY <1>7, Zenon
  <2> DEFINE e == [f |-> Head(flitQ[r][i][xbar[r][i]]), vc |-> inMod[r][i][xbar[r][i]].vc, age |-> 0]
  <2>2. pipe'[l] = Append(s, e)
    BY <1>1, <2>1, Left, ZenonT(60)
  <2>3. e \in InFlight /\ e.age = 0
    <3>1. Head(flitQ[r][i][xbar[r][i]]) \in Flit /\ inMod[r][i][xbar[r][i]].vc \in VC
      BY <1>1, <2>1, Movers, Zenon
    <3> QED
      BY <3>1 DEF InFlight
  <2> HIDE DEF e, s, lat
  <2> DEFINE t == Append(s, e)
  <2>4. /\ Len(s) \in Nat /\ DOMAIN s = 1 .. Len(s) /\ DOMAIN t = 1 .. Len(s) + 1
        /\ \A k \in 1 .. Len(s) : t[k] = s[k]
        /\ t[Len(s) + 1] = e
    BY <1>1, <2>3
  <2> HIDE DEF t
  <2>5. ASSUME NEW k \in DOMAIN t
        PROVE  t[k].age < lat /\ t[k].age \in Nat
    <3>1. CASE k \in 1 .. Len(s)
      BY <1>2, <1>5, <2>4, <3>1
    <3>2. CASE k = Len(s) + 1
      BY <1>1, <2>3, <2>4, <3>2
    <3> QED
      BY <2>4, <3>1, <3>2
  <2>6. ASSUME NEW m \in DOMAIN t, NEW n \in DOMAIN t, m < n
        PROVE  t[m].age > t[n].age
    <3>1. m \in 1 .. Len(s)
      BY <2>4, <2>6
    <3>2. CASE n \in 1 .. Len(s)
      BY <1>5, <2>4, <2>6, <3>1, <3>2
    <3>3. CASE n = Len(s) + 1
      <4>1. s[m].age >= 1 /\ s[m].age \in Nat /\ t[m] = s[m] /\ t[n].age = 0
        BY <1>2, <1>5, <2>3, <2>4, <3>1, <3>3
      <4> QED
        BY <4>1
    <3> QED
      BY <2>4, <3>2, <3>3
  <2> QED
    BY <1>9, <2>2, <2>5, <2>6 DEF t
<1>8. CASE ~ \E i \in PC : xbar[r][i] # INVALID_VC /\ inMod[r][i][xbar[r][i]].pc = l[2]
  <2>1. pipe'[l] = s
    BY <1>1, <1>8, Left, ZenonT(60)
  <2> QED
    BY <1>2, <1>5, <1>9, <2>1
<1> QED
  BY <1>7, <1>8

\* When the clock advances, every flit gets older; all links have delivered.
LEMMA AgesAfterTick ==
  ASSUME TypeOK, NoSleepOnWork, Aging, Tick, NEW l \in Link
  PROVE  Aged(l)'
<1> DEFINE s == pipe[l]
           t == [k \in DOMAIN s |-> [s[k] EXCEPT !.age = @ + 1]]
           R == <<0, l[1]>>
<1>1. l[1] \in Router /\ LinkLat[l] \in Nat \ {0} /\ s \in Seq(InFlight)
  BY AgesKnown
<1>2. pipe'[l] = t
  BY DEF Tick
<1>3. ready = <<>> /\ held' = <<>> /\ stage' = 0
  BY DEF Tick, TypeOK, SchedulerOK
<1>4. ~ Delivered(l[1])'
  <2>1. Range(<<>>) = {}
    BY DEF Range
  <2>2. Range(held') = {}
    BY <1>3, <2>1
  <2> QED
    BY <1>3, <2>2 DEF Delivered, Range
<1>5. s # <<>> => Delivered(l[1])
  <2> SUFFICES ASSUME s # <<>> PROVE Delivered(l[1])
    OBVIOUS
  <2>1. ~ Waiting(R)
    BY <1>1 DEF NoSleepOnWork
  <2>2. R \notin Range(ready)
    BY <1>3 DEF Range
  <2> QED
    BY <2>1, <2>2 DEF Waiting, Delivered
<1>6. DOMAIN t = DOMAIN s
  OBVIOUS
<1>7. ASSUME NEW k \in DOMAIN s
      PROVE  s[k].age \in Nat /\ t[k].age = s[k].age + 1 /\ s[k].age < LinkLat[l]
  <2>1. s[k] \in InFlight
    BY <1>1
  <2>2. s # <<>>
    OBVIOUS
  <2>3. s[k].age < LinkLat[l]
    BY <1>5, <2>2 DEF Aging, Aged
  <2> QED
    BY <2>1, <2>3 DEF InFlight
<1>8. \A m, n \in DOMAIN s : m < n => s[m].age > s[n].age
  BY DEF Aging, Aged
<1> HIDE DEF s, t
<1>9. \A m, n \in DOMAIN t : m < n => t[m].age > t[n].age
  BY <1>6, <1>7, <1>8
<1>10. \A k \in DOMAIN t : t[k].age <= LinkLat[l] /\ t[k].age >= 1
  BY <1>1, <1>6, <1>7
<1> QED
  BY <1>2, <1>4, <1>9, <1>10 DEF Aged

LEMMA AgesInductive ==
  ASSUME TypeOK, ControlInv, ScheduledOnce, NoSleepOnWork, Aging, Next
  PROVE  Aging'
<1> SUFFICES ASSUME NEW l \in Link
             PROVE  Aged(l)'
  BY DEF Aging
<1>2. CASE Tick
  BY <1>2, AgesAfterTick
<1>4. CASE StageLT(l[1])
  BY <1>4, AgesAfterTraversal
<1>5. CASE StageST(l[1])
  BY <1>5, AgesAfterSending
<1>6. CASE pipe'[l] = pipe[l] /\ ~ Tick /\ ~ StageLT(l[1])
  BY <1>6, AgesStay
<1>7. ASSUME ~ Tick, ~ StageLT(l[1]), ~ StageST(l[1])
      PROVE  pipe'[l] = pipe[l]
  <2>1. ASSUME NEW q \in Router, StageLT(q)
        PROVE  pipe'[l] = pipe[l]
    <3>1. l \notin Crossed(q)
      BY <1>7, <2>1, SMTT(30) DEF Crossed
    <3>2. pipe' = [k \in Link |-> IF k \in Crossed(q) THEN Tail(pipe[k]) ELSE pipe[k]]
      BY <2>1 DEF StageLT
    <3> QED
      BY <3>1, <3>2
  <2>2. ASSUME NEW q \in Router, StageST(q)
        PROVE  pipe'[l] = pipe[l]
    <3>1. q # l[1]
      BY <1>7, <2>2
    <3> QED
      BY <2>2, <3>1, Left
  <2>3. ASSUME NEW q \in Router, RouterWake(q) \/ IncCredit(q) \/ StageSA(q) \/ StageRC(q)
                                 \/ StageVA(q) \/ StageSSA(q)
        PROVE  UNCHANGED pipe
    <3>1. UNCHANGED bufVars
      BY <2>3, Zenon DEF RouterWake, IncCredit, StageSA, StageRC, StageVA, StageSSA
    <3> QED
      BY <3>1 DEF bufVars
  <2>4. ASSUME NEW i \in NIinProcs, NIRead(i) \/ NIReserve(i) \/ NIInject(i) \/ NIFinish(i)
        PROVE  UNCHANGED pipe
    BY <2>4, ZenonT(60) DEF NIRead, NIReserve, NIInject, NIFinish, netVars
  <2>5. /\ \A i \in NIoutProcs : NIOutput(i) => UNCHANGED pipe
        /\ \A p \in Packet : Generate(p) => UNCHANGED pipe
        /\ Finished => UNCHANGED pipe
    BY DEF NIOutput, Generate, Finished, netVars, vars, bufVars
  <2> QED
    BY <1>7, <2>1, <2>2, <2>3, <2>4, <2>5 DEF Next, Step, RouterStep, NIStep
<1> QED
  BY <1>2, <1>4, <1>5, <1>6, <1>7

\* With different ages below the latency there are no more than so many.
LEMMA AgesFit ==
  ASSUME TypeOK, NoSleepOnWork, Aging
  PROVE  LinkNotOverfull
<1> SUFFICES ASSUME NEW l \in Link
             PROVE  Len(pipe[l]) <= LinkLat[l]
  BY DEF LinkNotOverfull
<1> DEFINE s == pipe[l]
           lat == LinkLat[l]
           R == <<0, l[1]>>
<1>1. l[1] \in Router /\ lat \in Nat \ {0} /\ s \in Seq(InFlight) /\ stage \in Nat
  BY AgesKnown, StagesKnown DEF TypeOK, SchedulerOK
<1>2. /\ DOMAIN s = 1 .. Len(s) /\ Len(s) \in Nat
      /\ \A k \in DOMAIN s : s[k].age \in Nat
  BY AgesKnown
<1>3. /\ \A m, n \in DOMAIN s : m < n => s[m].age > s[n].age
      /\ \A k \in DOMAIN s : /\ s[k].age <= lat
                             /\ ToSend(l[1]) => s[k].age >= 1
                             /\ Delivered(l[1]) => s[k].age < lat
  BY DEF Aging, Aged
<1>4. s # <<>> => ToSend(l[1]) \/ Delivered(l[1])
  <2>1. s # <<>> => ~ Waiting(R)
    BY <1>1 DEF NoSleepOnWork
  <2>2. R \in Range(ready) => ToSend(l[1]) \/ Delivered(l[1])
    BY <1>1 DEF ToSend, Delivered
  <2> QED
    BY <2>1, <2>2 DEF Waiting, Delivered
<1> HIDE DEF s, lat
<1>5. ASSUME NEW lo \in 0 .. 1, \A k \in DOMAIN s : s[k].age >= lo /\ s[k].age <= lo + lat - 1
      PROVE  Len(s) <= lat
  <2> DEFINE S == 1 .. Len(s)
             T == lo .. lo + lat - 1
             f == [k \in S |-> s[k].age]
  <2>1. f \in Injection(S, T)
    <3>1. \A k \in S : s[k].age \in T
      BY <1>1, <1>2, <1>5
    <3>2. \A m, n \in S : s[m].age = s[n].age => m = n
      BY <1>2, <1>3
    <3> HIDE DEF T
    <3> QED
      BY <3>1, <3>2 DEF Injection, IsInjective
  <2>2. IsFiniteSet(S) /\ Cardinality(S) = Len(s)
    <3>1. 1 \in Int /\ Len(s) \in Int /\ (IF 1 > Len(s) THEN 0 ELSE Len(s) - 1 + 1) = Len(s)
      BY <1>2
    <3> QED
      BY <3>1, FS_Interval
  <2>3. IsFiniteSet(T) /\ Cardinality(T) = lat
    <3>1. /\ lo \in Int /\ lo + lat - 1 \in Int
          /\ (IF lo > lo + lat - 1 THEN 0 ELSE (lo + lat - 1) - lo + 1) = lat
      BY <1>1
    <3> QED
      BY <3>1, FS_Interval
  <2> HIDE DEF S, T, f
  <2>4. Cardinality(S) <= Cardinality(T)
    BY <2>1, <2>2, <2>3, FS_Injection
  <2> QED
    BY <2>2, <2>3, <2>4
<1>6. CASE s = <<>>
  <2>1. Len(s) = 0
    BY <1>6
  <2> QED
    BY <1>1, <2>1 DEF s, lat
<1>7. CASE ToSend(l[1])
  <2>1. \A k \in DOMAIN s : s[k].age >= 1 /\ s[k].age <= 1 + lat - 1
    BY <1>1, <1>2, <1>3, <1>7
  <2> QED
    BY <1>5, <2>1 DEF s, lat
<1>8. CASE Delivered(l[1])
  <2>1. \A k \in DOMAIN s : s[k].age >= 0 /\ s[k].age <= 0 + lat - 1
    BY <1>1, <1>2, <1>3, <1>8
  <2> QED
    BY <1>5, <2>1 DEF s, lat
<1> QED
  BY <1>4, <1>6, <1>7, <1>8

\* A link never holds more flits than the cycles it takes: stageST may always
\* send one more, because what stageLT has not delivered is too young to.
THEOREM LinksFit ==
  Spec => []LinkNotOverfull
<1>1. Init => Aging
  BY DEF Init, Aging, Aged
<1>2. TypeOK /\ ControlInv /\ ScheduledOnce /\ NoSleepOnWork /\ Aging /\ [Next]_vars
        => ScheduledOnce' /\ Aging'
  <2>1. UNCHANGED vars /\ ScheduledOnce /\ Aging => ScheduledOnce' /\ Aging'
    <3> SUFFICES ASSUME UNCHANGED vars, ScheduledOnce, Aging
                 PROVE  ScheduledOnce' /\ Aging'
      OBVIOUS
    <3>1. UNCHANGED <<pipe, ready, held, stage>>
      BY DEF vars, bufVars, schedVars
    <3>2. ScheduledOnce'
      BY <3>1 DEF ScheduledOnce, Once, Range
    <3>3. \A r : (ToSend(r)' <=> ToSend(r)) /\ (Delivered(r)' <=> Delivered(r))
      BY <3>1 DEF ToSend, Delivered, Running, Range
    <3> QED
      BY <3>1, <3>2, <3>3 DEF Aging, Aged
  <2> QED
    BY <2>1, OnceInductive, AgesInductive
<1> QED
  BY <1>1, <1>2, ReadyOnce, AgesFit, TypeCorrect, ControlInOrder, SleepsOnlyIdle, PTL DEF Spec
==============================================================================
