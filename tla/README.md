# NoC-sim in TLA+

NoC-sim is a cycle-driven simulator of networks on chip: virtual-channel routers
with credit-based flow control, links, network interfaces, several topologies and
routing functions, and optional data compression at the interfaces. It is written
in C++ on top of the CSIM process library (`csim_cpp-19.0`, of which the repository
holds only packaging and documentation). The simulator is only as good as the
protocol it simulates: if a credit is lost, a process sleeps on work or two packets
share a virtual channel, its figures are wrong and often no assertion says so. The
modules here model that protocol, at the level of the steps the CSIM processes take,
and check and prove what makes it correct.

## 1. The system

| Part | Where | State it keeps | Operations |
|---|---|---|---|
| Router pipeline | `Router.C`, `FlitQ.C` | input buffers, input modules (I, R, V, S), output modules (I, V), crossbar, links' pipelines, flits inside | `router_sim()`: incCredit, LT, ST, SA, RC, VA, SSA each cycle |
| Credit flow control | `Router.C`, `Credit.h` | `m_num_credit`, `m_num_credit_rsv`, `m_credit_deposit_vec` | hasCredit, decCredit, depositCredit, incCredit |
| VC allocator | `VCArbFCFS.C` | FIFO of requests | add, grant, del |
| Switch allocator | `SwArb2Stage.C` | request table, V:1 and P:1 arbiters (round robin or least recently selected), twice: regular and speculative | grantRegular, grantSpec |
| Tunnelling | `RouterTunnel.C` | a tunnel (VC in, port and VC out) per input port | stageTN, setupTunneling |
| Network interfaces | `NIInput.C`, `NIOutput.C`, `Core.C` | packet queue and extra queue, reserved VCs, flit queue of the output NI | writePacket, readPacket, segmentPacket; writeFlit, readFlit, assembleFlit |
| Processes | `sim_process.C`, CSIM | ready queue, clock, an event per process | one process per router, input NI (or NI and VC) and output NI, workload generators, simulation control, profiling, link DVS |
| Routing functions | `Routing*.C` | none, except the direction of a head in a fat tree | selectOutPC, isOutVCDeadlockFree |
| Topologies | `Topology*.C` | next and previous router of each port, link lengths | buildTopology, getMinHopCount |
| Compression | `CAM*.C`, `NIInputCompr.C`, `NIOutputDecompr.C` | encoder and decoder CAMs, on/off state of the compression of each flow | search, update, replace, synchronise; enable, disable |
| Workloads | `Workload*.C` | traffic matrix, trace position | genPacket, readTrace |
| Link DVS | `LinkDVSer.C` | level of each link, pending changes | select, speed up, slow down |
| Power | `RouterPower*.C`, `LinkPower*.C`, `orion_src` | energy counters | record, delta |
| Statistics | `SimOut.h`, `FlitQ.C`, `profile.C` | counters since the start, since the warm-up and of the current interval | record, reset, print a line |
| Configuration | `main.C`, `parse_arg.C` | `g_cfg` | defaults, options, what `sim()` derives and asserts |

**How they interact.** There are no messages: a process reads and writes the objects
of the others directly, and runs until it calls `hold()` or waits for an event. A
router puts a flit into the buffer of the next router (LT), a credit into the deposit
vector of the previous one (ST), a flit into the queue of an output NI, and sets their
events; an NI writes into its router's buffer and wakes it; a generator writes into the
queue of an NI. Which of these are seen in the same cycle depends on the order in which
CSIM runs the processes.

**What is hard.**
- *Concurrency within a cycle*: a router's stages see what processes that ran before it
  in this cycle have done, and not what those after it will do. `m_clk_enter_stage`
  tells a flit that came in this cycle from an older one; credits carry a due time.
- *State read cycles before it is used*: a credit is checked in SA and spent on the
  room that the flit finds in LT, at least two cycles later, in another router's buffer.
- *Two sides of one fact*: an output VC is allocated in the output module of one table
  and in the input module of another; a router's count of flits inside is kept by its
  upstream routers, its NIs and itself.
- *Sleeping*: routers and NIs wait for events that only some of the changes they could
  act on set.
- *Waiting*: packets hold VCs while they wait for others.
- *Two ways for one flit*: a tunnel bypasses the pipeline that other flits of the same
  packet take, and each way books VCs, credits, ports and requests itself.
- *Tables at both ends of a path*: encoders send indices that decoders announced some
  time ago, while both replace entries.
- *Who ends it*: the trace, the control process and the profile come to the end of a
  simulation in any order, with packets still in the network.
- *Boundaries*: the last slot, the last credit, the port where round robin wraps around,
  the rest of a packet that does not fill a flit, the edges of a grid.

**What makes each part correct.** *Credits*: none lost or made up, no overflow, no VC
shut out. *Router*: VCs exclusive, packets whole, what ST takes from the crossbar is
there, sleeping misses nothing. *Arbiters*: everyone has a turn. *NIs*: no packet
forgotten. *Network*: every packet is delivered once, in order, where it should be.
*Routing*: a legal port on every path, progress, no cyclic wait. *Compression*: an index
is one that the decoder announced, a compressed packet fills its flits, no flit is lost
to its pool. *Tunnelling*: the same as the router's. *Control*: the simulation ends, and
its results are those of the time and the packets that they claim. *Workloads*: every
packet of the trace or pattern, once, to the right place at the right time. *Link DVS*:
never a frequency above what the voltage allows, and the level that the rates predicted for
now ask for. *Configuration*: whatever the order of
the options, parts that fit each other.

## 2. Modules

| Module | What it models |
|---|---|
| `CreditLoop` | one link and its credits, abstractly: how many flits and credits of each VC are where |
| `CreditLoopProofs` | theorems about it, for all VCs, depths and reserves |
| `SwArb2Stage` | the two arbiters of the switch allocator as operators |
| `SwArbFairness` | any sequence of arbitrations, and who waits how long |
| `ArbiterProofs` | what the arbiters select and what becomes of their lists, in every configuration |
| `SwArbProofs` | the arbiters are fair, least-recently-selected ones and round robin over VCs, for any number of contenders |
| `Network` | routers, links, NIs and the processes that run them |
| `NetworkProofs` | theorems about every network: types, VCs, requests and the switch; sleeping NIs and routers, flits on links |
| `NetworkTrafficProofs` | theorems about credits and slots, that every link implements `CreditLoop`, that packets stay whole, and that they are counted in before they are counted out |
| `NetworkLinks` | where in a `Network` the slots of a `CreditLoop` are |
| `Delivery` | what the network promises to the workload |
| `NetworkMC` | networks for TLC; the refinements `LinkThere`, `LinkBack`, `PromiseKept` |
| `RouteWalk` | one packet's way through any topology with any routing function |
| `Grid` | what topologies on a grid share: columns and rows, directions, ports |
| `Mesh` | `Topology2DMesh` with `RoutingMeshStatic` and `RoutingMeshMinAdaptive` |
| `Torus` | `Topology2DTorus` with `RoutingTorusStatic` |
| `HMesh` | `TopologyHMesh` with `RoutingHMeshStatic` |
| `Flbfly` | `TopologyFlbfly` with `RoutingFlbfly` |
| `FatTree` | `TopologyFatTree` with `RoutingFatTree` |
| `SNUCAMap`, `SNUCA` | `TopologySNUCA`: where caches, processors and memory controllers are, and its mesh |
| `RoutingMC` | one of each for TLC, side by side |
| `RoutingProofs` | theorems about meshes and tori of every size |
| `Tunnel` | a router with `stageTN` before its other stages |
| `LRUCache` | what a table of the most recently used values promises |
| `CamPrivate` | an encoder table of the private scheme, which implements it |
| `CamShared` | encoders and decoders of the shared scheme |
| `NICompression` | a compressing NI, the flits on their way, the NI that takes them |
| `CompressionMC` | the three of them for TLC, with tables and flits of several sizes |
| `CompressionProofs` | theorems about the tables of both schemes and about compressing NIs, for any sizes |
| `Csim` | `hold()`, the clock and the end of processes, for the modules below |
| `SimControl` | main, control and generator processes: warm-up, measurement, end |
| `TraceReader` | trace workloads: files, skipping, packets, injection |
| `Profile` | the two profile processes |
| `LinkDVS` | the three processes that scale links |
| `Synthetic` | destinations and packets of the synthetic workloads |
| `Config` | defaults, options, and what `sim()` makes of them |
| `LinkValue` | wires and couplings that switch with the flits' data |
| `Occupancy` | buffer statistics of routers and NIs |
| `SimulationMC` | the last ten and `Tunnel` for TLC |
| `SimulationProofs` | theorems about `Tunnel`, simulations (`Profile`), `LinkDVS`, `Config` and `Occupancy` |

### Network

The state follows the classes: `flitQ`, `inMod`, `outMod`, `credit`, `rsv`, `deposits`,
`xbar`, `outFree`, `pipe`, `inside` of the routers, `vaQ`, `swReq`, `v1`, `p1` of the
allocators, `niQ`, `niExtra`, `niLast`, `vcFree`, `niCur`, `niOut` of the NIs. A flit
is its packet and its position; what it carries is left out.

CSIM runs one process at a time, in the order in which they became ready. `ready` is
that order for the current cycle, `held` the processes that called `hold(ONE_CYCLE)`,
`ev` the events set before they were waited for. A router's step is one stage of
`router_sim()`: `IncCredit`, `StageLT`, `StageST`, `StageSA`, `StageRC`, `StageVA`,
`StageSSA`, in the order the configuration gives (`Stages`); `RouterWake` is the loop of
`process_router()`. Input NIs read a packet, reserve a VC, inject a flit per cycle and
finish (`NIRead`, `NIReserve`, `NIInject`, `NIFinish`), output NIs take flits
(`NIOutput`). `Tick` advances the clock when nobody is ready. Between two processes
the workload may hand over any packet (`Generate`); this is the only freedom, and it
is more than any generator of the program has. `hold(1)` of the code reads a clock; here
time is relative, so that the state space is finite: a flit on a link has an age and a
credit a number of cycles to wait.

The routing function and the wiring are constants. `isOutVCDeadlockFree` is an operator
constant with the parameters the code passes.

What is left out: power records, debugging output, multicast lists (`addDestRouterID` of
more than one), the random start of a generator; and tunnelling, compression and
statistics, which have modules of their own.

### CreditLoop, and how a Network implements it

A flit granted by switch arbitration holds a slot of the downstream buffer until its
credit is counted again upstream: `credit -> xbar -> wire -> buf -> back -> credit`.
`CreditLoop` counts the slots of each VC in these places and whether the upstream router
sleeps. `NetworkLinks` computes the counts from a state of `Network`; `LinkThere` and
`LinkBack` are `CreditLoop!FairSpec` under that mapping, so TLC checks that every step
of the network's processes is a step of the loop or leaves it alone, and that a
fair simulation is fair to the loop. The former is proved for every link of every network
(`LinksAreLoops`), except with `DAMQ_R`.

For the shared buffers of a port (`DAMQ_P`) only the sum of the VCs' `m_num_credit` is
used by the code (one VC's may be negative), so `CreditLoop` has one counter there.
Credits are counted into the reserve of their VC first and taken from it last.

Model checking `CreditLoop` showed early that a credit deposited to a sleeping router
does not wake it (`depositCredit` sets no event): `CreditComesBack` says therefore only
that a router that *stays awake* gets its credits. `Network` shows that this is
harmless, since a router is woken by the flit it needs the credit for.

### Arbiters

`SwArb2Stage` gives an arbiter's state (a round-robin counter, or the list of contenders
with the least recently selected one first), which of the contenders it selects, and
its next state. `Network` uses it in `Allocate`; `SwArbFairness` lets any sets
contend. V:1 advances for the VC it selects even if P:1 turns it down.

### Routing and topologies

`RouteWalk` follows the head flit of one packet: `StageRC` asks the routing function for a
port, `StageVA` takes one of the output VCs `isOutVCDeadlockFree` leaves it and goes over
the link, `StageST` hands it to the NI at an ejection port. The other packets are left
out: they decide only which of the ports and VCs open to this one it gets, and when, so
every choice is explored. The costs of adaptive routing (random, or the number of reserved VCs) and the
answers of the flattened butterfly's `isPCAvailable` are choices for the same reason.

The constants of `RouteWalk` are the virtual functions of `Topology` and `Routing`; each
topology's module defines them under the names of the code and ends with `INSTANCE
RouteWalk`. Links are asked for as the code does: `getNextConn` of a mesh checks only the
number of the router, and it is `Link::m_valid` that tells a link from the end of
a row. Every core has one NI, as in the default configuration.

`ChannelRank` is not in the code. It is the argument, of Dally and Seitz, that the code
relies on: if the buffers can be ranked so that whoever holds one asks only for higher
ones, no packets wait for one another in a circle. On a torus, say, a packet that
goes up uses the low VCs until the wrap-around link and the high ones after it, so that the
ranks go on rising there. `ChannelOrder` checks that every step ascends; since a step may
take any port and VC that is open, this is a statement about every wait and not
only about the way that was taken.

### Tunnel

One router of the five-stage pipeline, with `stageTN` between LT and ST; every stage is a
step, the stages that go over the input ports one step per port. The switch allocator is any
choice of requests that does not take a port twice, the VC allocator serves in any order, the
neighbours send and return credits whenever they may. What is left is the book-keeping that
the tunnel and the pipeline share: `in_mod`, `out_mod`, `credit`, `swReq`, `xbar`, `pipe`.
`tunnel` has, per input port, the way of the packet that was last served by VC allocation; `fresh`
are the input VCs that a flit came to in this cycle, and `coming` is the flit that the router before this one sends next on
each input VC: the neighbours keep packets whole, as this router has to.
The three `router_tunnel_type`s are initial states.

### Compression

`CamPrivate` keeps the linked list of `CAMDataEnPrivate` pointer by pointer, since moving
entries in it is what could go wrong; `Recency` maps the list to the order of `LRUCache`, and
`MostRecent` says that every payload looked up is a step of it. `CamShared` follows values
from encoder to decoder: `Compress` looks up and sends, `Decompress` takes any packet on its way,
updates the table and calls the encoder back (`SendReplacePkt`), which in the code takes effect at
once. `NICompression` leaves open which blocks are found, and models what becomes of
the packet: bytes and words that are left, the flits that are used again, those that go back to their
pools, the cycles that the tail has to wait for the encoder. Sizes, latencies and modes are the fields of
`shape`, which stand for `g_cfg`'s; initial states have any of `Shapes`.

### Simulations

`Csim` is the part of CSIM that `sim_process.C` uses apart from the network's processes: a clock
in half cycles (the program holds for halves), a time to go on for each process, and any order
among those due at the same time. `SimControl`, `TraceReader` and `Profile` extend each other
and together are a whole simulation (`Simulation` of `Profile`), from `process_main` to the exit of `sim()`; the network
is a bag of times at which packets come out. `LinkDVS`, `Synthetic`, `Config`, `LinkValue`
and `Occupancy` share no state with it or each other and are parts of their own in
`SimulationMC`, whose variable `part` says which of them a behaviour is about. `CompressionMC` is
built in the same way: private tables, `CamShared` and `NICompression` side by side.

## 3. Runs

| Run | Instance | Shows |
|---|---|---|
| `CreditLoopDamq` | 2 VCs, 2 slots each, 1 reserved | `TypeOK`, `Conservation`, `NoOverflow`, `ReserveOwed`, `NoShutOut`, `CreditComesBack` with shared buffers |
| `NetworkPerVC` | 2 routers, lookahead routing and speculative allocation (3 stages), LRS, shared buffers, link latency 2, NI process per VC, 3 packets | `XbarReady`, `PacketsWhole`, `LinkNotOverfull`, `PktInNetCount`, `NIAwake`, `RoomDownstream`, and `LinkThere`: a link implements `CreditLoop` |
| `NetworkLine` | 3 routers in a line, 5 stages, round robin, 2 VCs of two slots, links of latency 1 and 2, NI processes per port, 3 packets | `VCExclusive`, `NoSleepOnWork`, `LinkBack`, and `PromiseKept`: the network implements `Delivery` |
| `NetworkDamqRouter` | as `NetworkPerVC` with `DAMQ_R`, latency 1 and traffic both ways | `RoomDownstream` is violated, see below |
| `SwArbLRS` | 4 ports, 3 VCs, LRS | `TurnOfVC`, `TurnOfPC`, `LostMeansMovedUp` |
| `SwArbRR` | the same, round robin | `TurnOfPC` is violated, see below |
| `Routing` | meshes of 3 x 3 (XY and YX with one VC, minimal adaptive with two), a torus of 5 x 5 with two VCs, a hierarchical mesh of 4 x 4, the flattened butterfly (4 x 4 routers, 64 cores, YX), a fat tree of 3 levels (64 cores), the S-NUCA mesh with its 272 cores | `Minimal`, `CreditsReturn`, `Served`, `ChannelOrder` for every pair of cores (in S-NUCA from the 16 cores that are not banks of L2) and every choice |
| `Compression` | private tables of 3 (LRU) and 2 (LFU) entries for 4 and 3 values; 3 routers that share tables, with one packet on its way among all three or two between two of them; compressing NIs with flits as large as a block, smaller and larger | `ListIntact`, `OneHome`, `MostRecent`; `Located`; `WordsFit`, `FlitsReclaimedOnce`, `TailWaits` |
| `CamStale` | the 3 routers | `Announced` is violated, see below |
| `ComprDefault` | a compressing NI with the sizes that `main.C` configures | `WordsFit` is violated, see below |
| `Simulation` | 4 simulations with synthetic traffic of two cores and 7 of traces in two or three files; 2 links with 3 levels; 12 synthetic workloads on grids of 2 x 2 to 4 x 4; 4 of 35 options; a router with 2 ports of 2 VCs and 4 packets; flits of two words of 8 wires; buffers of a port and an NI | `Measured`, `SimEnds`, `TraceInOrder`, `Profiled`; `Settled`; `PacketsRight`; `Consistent`; `TunnelSafe`; `Accounted` |
| `Tunnel` | the router with an output to an NI as well | `TailOwnsVC` is violated, see below |

**Bounds.** The networks are small but have what the properties are about: more packets
than VCs at an NI or on a link, packets longer than a buffer, two packets that want one
ejection port, links longer than a cycle, NI queues that overflow into the extra queue
(`NIin_pktbuf_depth` 1 with two packets), routers that sleep and wake in the middle.
All hand-over times are explored. Nothing is capped by a state constraint: the runs end
because the packets do (`Finished`), and deadlock checking stays on, so that a network
that stops with a packet inside is reported. `SwArbFairness` counts losses up to the
number of contenders, where the properties already fail. In `CreditLoop` the buffer
bounds everything. `Routing` has no bounds but the sizes: in a mesh of 3 x 3 there are routers
with and without a neighbour on each side; a ring of 5 has ways of one and two links either way
around, over the wrap-around link and not; in a row of 4, an express link fits once, or not, and may
leave a rest; a tree of 3 levels has a level that is neither the first nor the last. The
butterfly and the 4-way tree have the only shapes the code builds. A number of VCs is enough if
both halves of them are inhabited, since only the half matters.

The tables of `Compression` are as small as replacement allows (a list of three entries has
a head, a tail and a middle) and are asked for one value more than they hold; `CamShared` bounds
the packets on their way (`MaxInFlight`), which a network's buffers do as well. Directories,
caches and tiles of the traces are those of a machine of 16 tiles; the times of their records are
before, at and after those at which skipping, warm-up and profiling intervals end, and packets
stay in the network (`Latency`) or come from generators (`Waiting`) for less and for more than a
cycle between two such times. `LinkDVS` runs for three intervals (`ClkEnd`), after which levels may
be anything again. By history a selection may pick any level; with a file of predicted rates
three flows (over both links, over one, within a router) at rates of 0 to 2 reach each of three
levels and the threshold of the highest voltage, and the interval is that of a line of the file
(`UNIT_MEGA`), the clock beginning where the trace does: otherwise line and clock drift apart. The run's delays are those of
`IntervalFits`, less than half an interval each, as the defaults are; the program asserts less (`DelaysFit`), and section 5 says what
is proved of the delays between the two. `Config` takes up to four options (`MaxOptions`): its conditions relate at most
three fields. `Occupancy` is bounded in time and writes (`MaxClk`, `MaxWrites`). A word of
8 wires stands for one of 64. In `Tunnel` links have one cycle of latency. The tunnel looks at what the switch has granted but
does not say what it takes itself (`RouterTunnel.C:75`, `81`), so flits of two input ports may bypass to
the same link in one cycle. A link of one cycle takes them, since it is empty again when it is next
written to; on links of three cycles, with 2 VCs and packets of two ports for one link, TLC finds more flits than the link
has stages, and the assertion of `Router.C:517` fails (the part `Ready` of `TunnelSafe`).
`Simulation` checks no deadlock: parts stop where the program exits, stops at an assertion of
its configuration, or has sent its packets.

**Fairness.** `Network!FairSpec` is weak fairness of `Step`, the steps of the processes
and the clock: CSIM always runs the next process, and advances the clock when there is
none. Exactly one process is at the head of `ready`, so this says no more than that the
simulation goes on. There is none for the workload. `CreditLoop!FairSpec` has weak
fairness of the steps of a flit and its credit, which an awake router takes every cycle
and which the downstream router takes as long as its packets go on; none for `Grant`, `Sleep` and
`Wakeup`. It is not only assumed: `LinkThere` and `LinkBack` check that the network
provides it.

`MCSpec` of `SimulationMC` is weakly fair for its next-state relation: CSIM goes on with the next event as long
as there is one, which is all that `SimEnds` needs.

`SwArbFairness` has safety properties only: a contender's turn is a bound on its losses.
Round robin promises a turn to contenders that stay (`LosersStay`); LRS also to those
that come and go.

## 4. Findings

1. **Round robin over ports leaves one out** (`SwArb2Stage.C:232`, run `SwArbRR`).
   `RR_ORDER` gets `m_num_pc-1` where it needs the number of ports, so that the port just
   below the counter and the last port tie; if port 0 wins against the last port the counter is
   1, port 0 and the last port tie again and the first one found wins. With
   `NumPC` instead the property holds.
2. **`DAMQ_R` overflows** (`Router.C:364`, run `NetworkDamqRouter`). With one buffer for
   a whole router, the flits of its NIs count in `isFull` but are in nobody's credits.
   A flit with a credit arrives at a full buffer and the assertion of `stageLT` fails.
3. **An encoder sends another value's index** (`CAMDataEnShared.C:257`, run `CamStale`).
   Replacing an entry is meant to invalidate it, but `resize(m_num_peer, false)` on a vector of that
   size changes nothing: what the entry knew of other decoders stays, now for the new value.
4. **Compressed packets do not fill their flits** (`NIInputCompr.C:480`, run `ComprDefault`). The
   8 bytes of indices go behind data padded to whole flits of 16, and the number of flits
   rounds down; the assertion that all words found a place fails.
5. **A tunnel to an NI leaves the tail without a VC** (`RouterTunnel.C:88`, run `Tunnel`). The
   head that bypasses allocates no output VC there; a tail that cannot follow it goes
   through the pipeline, and the assertion of `stageST` that its VC is allocated fails.

Also seen, without a run: the check of `assembleFlit` that `m_num_pkt_in_network` is not
negative is vacuous in the code, since the counter is unsigned (`SimOut.h:37`);
`PktInNetCount` checks it on integers, and it holds, for every network (`CountedInFirst`). Credits are deposited out of order if a
router's links differ in latency (`Router.C:468`), against the note at `Router.h:244`; a due
credit may then be late, but is not lost (`LinkBack`). A tail that leaves through a tunnel
to a link never frees its output VC. Dynamic compression control never switches anything
(`NIInputCompr.C:532`). `getTileID` takes the table of 16 tiles for any number of tiles
(`WorkloadTiledCMP.C:442`). The lines of a profile by cycles divide by the time since the start of
the simulation, since only the profile by instructions sets `g_last_profile_clk`. An input NI's average
occupancy leaves out the packet that is being taken (`NIInput.C:202`). The hazards in
`PROJECT.json` name more.

## 5. Proofs

All proofs are checked by TLAPS, for every value of the constants that satisfies the
named assumptions: `CreditLoopAssumption`, `SwArbAssumption`, `SwArbFairnessAssumption`, `NetworkAssumption`,
and, as hypotheses of the theorems, `GridOK` and `RingsOK` (sizes of meshes and tori), `TunnelOK` (sizes are positive, packets have flits
and an output port), `CamOK` (tables have entries, payloads are sequences of values), `TableOK` (the same of the private scheme, with two
entries or more: see section 6) and `ShapesOK` (flits of whole words, payloads of whole flits and blocks). `NetworkAssumption` says that links connect existing ports, one link to a port
and none from a router to itself, that routing leads to ports that have a link or an NI, and that
configured sizes are in range. It leaves open the topology, the routing function and
`isOutVCDeadlockFree`, the order of the pipeline's stages, the arbiters, and the workload.

**CreditLoop** (`CreditLoopProofs`): `TypeCorrect`, `ConservationHolds`,
`NoOverflowHolds`, `ReserveOwedHolds`, `NoShutOutHolds`. `TypeOK` is
inductive thanks to the guards; the others are inductive relative to it, so the
inductive invariant is `TypeOK /\ Conservation /\ ReserveOwed`, proved conjunct by
conjunct (`TypeStep`, `ConservationStep`, and the step inside `ReserveOwedHolds`).
`Conservation` moves one unit from one place to another; the sums are cardinalities of
sets of units, for which three lemmas say what an increment, a decrement and a pointwise
order do. `NoOverflow` follows from `Conservation`: a flit on the wire and a full buffer
would together be more than the capacity. `NoShutOut` follows from `ReserveOwed`: a VC
that holds less than its reserve has some of it left.

**Arbiters** (`SwArbProofs`, on lemmas about what they select in `ArbiterProofs`): `TurnsOfLRS` proves
`TurnOfPC` under `SAType = "LRS"`. It is not inductive; the invariant is that
the list is a permutation of the contenders and that losses and position together never exceed
their number (`LosersMoveUp`): a loser was behind the winner in the list, and so moves up. `EveryVCHasItsTurn`
proves `TurnOfVC`, also for round robin among VCs that go on contending: there the number of
losses and the distance from the counter to the VC add up to less than the number of
VCs (`NearerInv`), since the winner is always between them. For round robin over ports the same
argument fails at the distance, and finding 1 is the counterexample.

**Routers** (`NetworkProofs`): `TypeCorrect`, `ControlInOrder`, and from it `AllocatedToOne`
(`VCExclusive`) and `SwitchReady` (`XbarReady`). Neither property is inductive by itself; the
invariant is `TypeOK /\ ControlInv`, whose other conjuncts say what later stages rely on:
- `Routed`: an input VC that is past RC has a port with a link or an NI behind it, and one past VA an output
  VC, so that ST knows where to send and whom to free.
- `HeadWaits`: until a packet has the switch, its head is at the front of its VC. It makes VA and SA act
  for the packet that RC looked at, and only a head can change `V` to `S`.
- `QueuedOnce`: the VC arbiter's queue has a request once, and only for VCs in state `R`: a second request
  would allocate a second output VC to the same packet, which nobody would ever free.
- `RequestsReady`: a VC that requests the switch has a flit and an output VC, hence the flit granted is there.
- `GrantedOnce`: what was granted no longer requests, and is gone before SA runs again. Without
  it SSA could grant the same flit a second time, with only one in the buffer.

The invariant has to hold between the stages of one cycle too, in either order of RC and
VA; there is one lemma for each stage and conjunct that it may disturb. What comes out of
allocation (`Matched`: no two grants for an input or output port, all of them requests) is
separated from what becomes of the state (`Charged`, `SwitchSet`), since the regular and the
speculative allocation share both.

**Flow** (`NetworkProofs`), relative to `TypeOK /\ ControlInv`:
- `PacketsNotForgotten` (`NIAwake`). The invariant adds that packets are in the extra queue only
  while the queue is full (`ExtraIfFull`), so that the first packet of an empty queue is
  always the one that sets the event, and that a process which falls asleep leaves
  an empty queue behind.
- `SleepsOnlyIdle` (`NoSleepOnWork`). `inside` is exact (`Counted`: the flits in all input VCs and on all links of
  the router), and a router that waits has counted none (`IdleAsleep`). The counts are cardinalities of
  sets of cells; `Moves` says how they change when flits come, go, or pass from a buffer
  to a link, as several do in one LT or ST.
- `LinksFit` (`LinkNotOverfull`). Ages on a link differ and are bounded by its latency (`Aging`). The hard
  case is the middle of a cycle: a link is full after ST until LT of the next cycle, so the bound is
  strict only from LT on (`Delivered`), and before ST there is none of age zero (`ToSend`). That a
  router goes through its stages once a cycle rests on `ScheduledOnce`: no process is twice among
  those that run or hold, though events wake processes from many places.

**Credits** (`NetworkTrafficProofs`), relative to the same:
- `CreditsConserved` (`SlotsKept`): for each VC of each link, credits and reserve upstream, flits granted,
  flits on the link, flits behind it, and credits on their way back add up to `Depth`, in every step,
  for all three buffer types. This is `Conservation` of `CreditLoop`, on the network itself, VC by VC. It
  needs `VCExclusive`, so that one input VC is charged for an output VC, and `XbarReady`, so
  that what was charged does leave.
- `RoomBehindLinks` (`RoomDownstream`) for buffers per VC and per port. Credits alone would not do, since with `DAMQ_P`
  a VC's counter may be negative: `CreditsLeft` says that reserves and the sum the code compares
  never are, and summing `SlotsKept` over the port's VCs leaves room for the flit that
  arrives. The sums are the folds of the community modules, for which `SumPlus`, `SumConstant` and
  `SumOfParts` are proved by induction over the number of elements (`PickInduction`). `DAMQ_R` is excluded because
  the property is false there: finding 2.
- `LinksAreLoops`: every link, with buffers per VC or per port, implements the safety part of `CreditLoop`
  under the mapping of `NetworkLinks`. `OneMoves` says that a step of the network moves at most one slot of
  one VC, in one of five ways (`Grants`, `Sends`, `Delivers`, `Frees`, `Counts`); each is the action of the
  credit loop (`LoopGrants`, `LoopForwards`, `LoopCounts`). A step that moves none is a stutter, or the
  upstream router falls asleep or wakes (`LoopSleeps`). The router may only sleep with nothing on its way,
  which is `NoSleepOnWork` after the step, and its own stages run only while it is awake (`RunsAwake`).
- `ReservesServe` carries `NoShutOut` over from `CreditLoop` by that refinement. The link is a
  constant, `AnyLink`, of which the theorems assume only that it is one of the network's.

**Packets** (`NetworkTrafficProofs`): `PacketsStayWhole` (`PacketsWhole`): whatever is upstream of an input VC and in it
are the flits of packets one after the other, from head to tail. The property relates flits
that are in the network now, but a VC that is empty has to remember where in a packet it is, and nothing
in the state says so. The invariant `PacketInv` therefore says that *there is a past*: for each input VC a last
flit that was sent to it, a last one that came into its buffer and a last one that left it, such that
- the buffer and the link hold what leads from one to the next (`Stored`, `Linked`, `After`);
- an output VC in state `I` is between two packets, and one that is held has got exactly what its one
  holder has sent (`Fed`), which is where wormhole switching is right or wrong: VC allocation must not give a VC away in the middle of a packet, and
  a tail must free it;
- the same holds of VCs that an NI writes to, by process (`Written`).

Each stage's lemma names the past after the step. It rests on `ControlInv`, so that the flit granted is the first of the holder's VC,
and on `LinksFit`, since a full link would push a flit out.

`CountedInFirst` (`PktInNetCount`) is about the same flits. An NI counts a packet a cycle after it wrote the tail, and
the NI at the other end counts it out when it takes the tail: nothing in the code orders the two but the time
that a flit needs. Its invariant `CountInv` adds to `PacketInv` and `ScheduledOnce`
- `PacketsCounted`: the tails in buffers, on links and in NIs' queues are as many as `pktInNet` says, and one more for
  each NI that wrote a tail and did not count it yet (`Uncounted`);
- `TailsStay`: while an NI has not counted its packet, the tail is in the buffer where it was written, since the NI has
  its turn before the router gets to its switch again, whatever the order of the processes in a cycle.

So the tails of the uncounted packets are different ones that are there, and the rest is not negative.

**Tunnels** (`SimulationProofs`): the same questions for a router in which flits may leave by two ways.
- `TunnelsKeepPacketsWhole`, with a past as above but without links to other routers; `sent`, which the model keeps, is the last of it.
  A bypass takes a VC that is free or held by its own packet, and only while the packet's input VC is empty,
  so that no flit overtakes one in the pipeline.
- `TunnelsKeepCredits` (`Slots`): a slot is a credit, granted, crossing or taken; a bypass spends its credit and enters the link in
  one step. It needs that no two input ports are granted one output port (`ControlInv`).
- `TunnelsAreSafe` (`TunnelSafe`) adds `Ready`, and with it the hypothesis `LinkLat = 1`, without which it is false (section 3).

**Compression tables** (`CompressionProofs`), for tables of any size, any values and any packets on their way:
- `ValuesHaveOneHome` (`OneHome`) and `IndicesLead` (`Located`) of the shared scheme. The invariant `Kept` is about one triple of encoders, decoders and announcements, so
  that it can be carried through the fold over a payload (`PayloadLookedUp`, `PayloadDecoded`): `DecodeKeeps` is the lemma
  about one block, by cases of `DeAccess`. A lookup changes frequencies only; a decoder's entry that was once in use stays so,
  which is why an encoder's index may be out of date but never leads nowhere.
- `ListStaysIntact` (`ListIntact` of `CamPrivate`) and `ValuesHaveOneEntry` (`MapExact`). The invariant `Intact` says that there is an order of the entries (a bijection `o`) that `m_next` and `m_prev`
  follow both ways, and that map and values are inverse to each other. `Relinked` and `Fronted` show that taking entry `o[j]`
  out and putting it at the head gives the order `ToFront(o, j)`, for the tail, the entry behind the head and the middle alike; `WalkIs` that the order is what
  following the links from the head gives. LRU evicts the tail, LFU any entry (`LeastUsedIn`), and either may only be given to a value that the map does not know.

- `TableIsMostRecent` (`MostRecent`): a private table with LRU replacement implements `LRUCache`, each payload that is looked up being a step
  of it. The invariant `Holds` says that the values stand in the order of the list, with the entries in use before the others; `KnownLookup` and `NewLookup` show
  that a lookup in the table finds what a lookup in the list finds and leaves the order that `LRUCache` asks for, and `PayloadFollows` goes through the two folds
  over a payload side by side.

**Compressing NIs** (`CompressionProofs`), for packets of any number, any latency, and flits, blocks and payloads of any size that fit each other (`ShapesOK`):
- `FlitsGoBackOnce` (`FlitsReclaimedOnce`). The property is about counters, the invariant `PoolInv` about who has a flit: what is left in
  `flit_store_vec` (`Stored`) or is on its way (`OnItsWay`) has not been given back, and all else that was built has, once. Flits on their way are
  in order of packets and numbers, up to those left, with nothing of a packet behind its tail (`FlitsInOrder`), so that the flit that is taken is no later one, and a packet
  whose tail came is complete. Where compression could go wrong is arithmetic: with more flits than before, the tail's number would be one of a middle flit
  (`PacketShrinks`).
- `WordsAlwaysFit` (`WordsFit`) and `TailsWait` (`TailWaits`), with the hypothesis that flits have 8 bytes (`OneWord`): finding 4 is what happens with 16. By `WordsLeft` there
  is at least one flit before the tail, hence a hold that takes all that is left of the encoder's latency (`WaitInv`).

The folds of the community modules are recursive functions over sets of positions; `FoldExists` shows once, by induction over the positions, that there is such a function,
so that its equation may be used.

**Simulations** (`SimulationProofs`), for any cores, processes, traces and options in the types that the code gives them (`Configured`,
`TraceFits`, `ProcessesAssumption`), in every order of the processes that are due at the same time:
- `ClockInv`: no process is ever late, none reads beyond its file, and packets come out in the present or the future. The clock moves only to the
  earliest of these, so that whoever wakes at a time wakes at that time.
- `SimulationsMeasure` (`Measured`): `Stands` gives the time that the control process waits for in each of its phases, `Recorded` what it has put down by then.
  Whether the control process or the trace ends the simulation, and with packets still coming out, the one that sets the event does so
  at `clk`, and packets counted after the reset are those that the latencies were added up for.
- `ProfilesAddUp` (`Profiled`): `LinesInv` has two halves, what is counted since the last line (`CountedSince`) and that each line so
  far is right (`LineRight`), since a line is the count of the first. That there is a line for every interval is
  `PaceInv`: the profile process waits for the moment of its next line, or was the last to run. It needs the half cycle of
  `num_cycles_end_sim`: moments of profiling are whole cycles, the end is half a cycle after one, so they never meet.

**Link DVS** (`SimulationProofs`): `LinksSettle` (`Settled`), for any links, flows and levels, under two hypotheses. Each of the two processes that carry out a change
is, seen from the next selection, done, about to begin, or between its two steps (`Done`, `Begins`, `Between`); since delays are less than half an
interval (`IntervalFits`) it is done when the selection comes. `LevelsInv` says of one link what was carried out of its change by then. Levels by the predicted
rates need the other hypothesis, `FilePaced`, that the file has a line for each interval (see Bounds); `LineInv` follows the line that is read.
`main.C:348` asserts only that both delays together are less than the interval (`DelaysFit`), so a step of one of the two changes, and only of one, may take
more than half of it (`TooLate`). `LateChangesTear` proves what then happens, by the same kind of invariant (`LateInv`): the first step of that process is over
before the selection that it should follow (`Early`), its second step finds the selection and carries out one half of it, and whatever the levels, links and order of
the processes, each link that was to change so has a frequency too high for its voltage when levels are selected again (`Torn`). If the level selected is that of
its frequency, the assertion of `LinkDVSer.C:113` fails; `Select` has this as a guard, since the program stops there. A delay of exactly half an interval is in neither theorem:
the process and the selection are due at the same time, and it depends on which is first.

**Configuration** (`SimulationProofs`): `ConfigurationsAreConsistent` (`Consistent`), for any number of options of any values the parser can make
(`OptionsAssumption`). The invariant is one condition per phase of `sim()`: `Parsed` holds whatever the options are, `Customised` after the workload has put
in its own network, `Suits` once that is built: the assertions of the topologies (`Buildable`) are part of the argument, since a workload's network of 272 cores fits none but
its own. `Compressed` comes last, when the size of a flit can no longer change.

**Buffer statistics** (`SimulationProofs`): `OccupancyIsMeasured` (`OccupancyMeasured` of `Occupancy`). What is missing from the sum of a buffer is its
size times the cycles since its last change, also across a reset; reading and writing bring it up to date first (`UpdateAdds`).

**Meshes and tori** (`RoutingProofs`; the torus's definitions are there as `Rings!...`): `...Minimal`, `...CreditsReturn`, `...ChannelOrder` and `...Served` for every
size and number of VCs (`GridOK`, `RingsOK`; `Served` needs two VCs). `CreditsReturn` is arithmetic on
router numbers: the neighbour's neighbour in the opposite direction is the router itself, over
the wrap-around link as well (`Neighbour`). `ChannelOrder` is not true of an arbitrary state,
since a packet could be turned back; the invariant `IInv` says what its past tells of where it
is. In a mesh: it came in by a port that points away from its destination or level with
it (`Heading`), between source and destination (`Between`), on the axis routing allows
(`Axes`), and, with minimal adaptive routing, in the half of the VCs that goes with up or
down. In a torus: it goes around in the shorter direction, and the class of the VC it holds says on
which side of the wrap-around link it was when it took it (`Heading`). `Counted`, the hops so
far and the distance left add up, gives `Minimal`; on a torus this rests on the
distance around a ring falling by one with every step in the shorter direction, ties
included.

**Only model-checked**:
- *Liveness and fairness*: `PromiseKept`, `CreditComesBack`, `SimEnds`, and the fairness in `LinkThere` and
  `LinkBack`, which are out of the prover's reach.
- Of `Network`: `Delivery` as an implemented specification.
- `TunnelSafe` on links of more than a cycle (it holds for two in the instances tried, and not for three).
- Round robin over ports, for which fairness is false; `Announced`, `TailOwnsVC` and the others that section 4 refutes.
- `TraceInOrder`, whose packets are the records of all files in one sequence (`FlattenSeq`), for which the prover has no induction.
- The other topologies (hop counts of the fat tree need induction on its levels), synthetic packets and wires.

## 6. Not modelled

- *Power models and Orion* compute energies in floating point and do not act on the network.
  Of them only what is counted is modelled: packets of an interval (`Profile`), wires (`LinkValue`).
- *CSIM* is external: processes, events and clock are modelled as `sim_process.C` uses them.
- *`TopologyDMesh`* attaches NIs that its cores do not have (`TopologyDMesh.C:88`): whatever the
  configuration, building it is undefined behaviour. `RoutingTFatTree` has no topology.
- *The TRIPS workload* sets no source core and its network is no longer configured.
- *Ends by injected or ejected packets* cannot be selected (`main.C:495`).
- *Printing, debugging and progress reports* have no protocol.
- *In models that are there*: two or more NIs per core in `RouteWalk`; minimal adaptive
  routing with one VC, which the code accepts (the low half of the VCs is then empty, and packets that
  have to use it are never served; for the torus `main.C:275` asserts an even number of VCs); a tunnel inside a `Network` of several
  routers; CAM tables of one entry, where LRU replacement writes through a null pointer; the format of
  trace files, of which only the records count.

## 7. Plan

1. `CreditLoop`, `Network`, arbiters, `Delivery`, with the proofs about the first and the
   third. *Done.*
2. Routing and topologies: `RouteWalk` and its instances, with proofs for mesh and
   torus. *Done.*
3. Tunnelling, compression, simulation control, workloads, profiling, link DVS, configuration and
   statistics. *Done.*
4. `NetworkProofs` and `NetworkTrafficProofs`: VCs, switch, sleeping, links, packets and
   credits of every network, and its links as credit loops; `CompressionProofs`; `SimulationProofs`. *Done.*
5. Proofs about `Synthetic`, and that `Network` implements `Delivery`.
6. A `Network` on a ring with the VC classes of the torus, where the argument of `ChannelOrder` meets
   real buffers; proofs for the hierarchical mesh and the flattened butterfly.
7. `DAMQ_R` between two output ports of one router (`Router.C:897`).
