------------------------------ MODULE RoutingMC ------------------------------
(***************************************************************************)
(* The topologies and routing algorithms for TLC: one packet's way through *)
(* one of them, each of a size at which its rings, express links and       *)
(* levels matter.                                                          *)
(***************************************************************************)
EXTENDS Integers

VARIABLES
  net,  \* the topology and routing algorithm: never changes
  flit, cur, in_pc, in_vc, out_pc, hops, core

MeshXY == INSTANCE Mesh WITH K <- 3, NumVC <- 1, net_routing <- "XY"
MeshYX == INSTANCE Mesh WITH K <- 3, NumVC <- 1, net_routing <- "YX"
MeshMin == INSTANCE Mesh WITH K <- 3, NumVC <- 2, net_routing <- "MIN"
Rings == INSTANCE Torus WITH K <- 5, NumVC <- 2
Express == INSTANCE HMesh WITH K <- 4, NumVC <- 1
Butterfly == INSTANCE Flbfly WITH NumVC <- 1, net_routing <- "YX"
Nuca == INSTANCE SNUCA WITH NumVC <- 1, net_routing <- "XY", Sources <- 256 .. 271
Tree == INSTANCE FatTree WITH Way <- 4, Levels <- 3, NumVC <- 1

vars == <<net, flit, cur, in_pc, in_vc, out_pc, hops, core>>

Init ==
  \/ net = "XY" /\ MeshXY!Init
  \/ net = "YX" /\ MeshYX!Init
  \/ net = "MIN" /\ MeshMin!Init
  \/ net = "TORUS" /\ Rings!Init
  \/ net = "HMESH" /\ Express!Init
  \/ net = "FLBFLY" /\ Butterfly!Init
  \/ net = "FATTREE" /\ Tree!Init
  \/ net = "SNUCA" /\ Nuca!Init

Next ==
  /\ UNCHANGED net
  /\ \/ net = "XY" /\ MeshXY!Next
     \/ net = "YX" /\ MeshYX!Next
     \/ net = "MIN" /\ MeshMin!Next
     \/ net = "TORUS" /\ Rings!Next
     \/ net = "HMESH" /\ Express!Next
     \/ net = "FLBFLY" /\ Butterfly!Next
     \/ net = "FATTREE" /\ Tree!Next
     \/ net = "SNUCA" /\ Nuca!Next

Spec == Init /\ [][Next]_vars

-----------------------------------------------------------------------------
\* Every packet comes out at its core after as many hops as its topology's
\* getMinHopCount says.  The flattened butterfly has no such count: there the
\* packet never goes further than over links of one router.
Minimal ==
  CASE net = "XY" -> MeshXY!Minimal [] net = "YX" -> MeshYX!Minimal
    [] net = "MIN" -> MeshMin!Minimal [] net = "TORUS" -> Rings!Minimal
    [] net = "HMESH" -> Express!Minimal [] net = "FLBFLY" -> Butterfly!NoDetour
    [] net = "FATTREE" -> Tree!Minimal
    [] net = "SNUCA" -> Nuca!Minimal

\* Routing picks links that exist, and the credits for the buffer at their end
\* go back (getPrevConn) to the port that counts them.
CreditsReturn ==
  CASE net = "XY" -> MeshXY!CreditsReturn [] net = "YX" -> MeshYX!CreditsReturn
    [] net = "MIN" -> MeshMin!CreditsReturn [] net = "TORUS" -> Rings!CreditsReturn
    [] net = "HMESH" -> Express!CreditsReturn [] net = "FLBFLY" -> Butterfly!CreditsReturn
    [] net = "FATTREE" -> Tree!CreditsReturn
    [] net = "SNUCA" -> Nuca!Walk!CreditsReturn

\* Where isOutVCDeadlockFree restricts the output VCs, one is always left.
Served ==
  CASE net = "MIN" -> MeshMin!Served [] net = "TORUS" -> Rings!Served [] OTHER -> TRUE

\* No cyclic wait for buffers: packets only ever wait for buffers of a rank
\* higher than that of the one they hold.
ChannelOrder ==
  [][cur' # cur =>
       CASE net = "XY" -> MeshXY!Ascends [] net = "YX" -> MeshYX!Ascends
         [] net = "MIN" -> MeshMin!Ascends [] net = "TORUS" -> Rings!Ascends
         [] net = "HMESH" -> Express!Ascends [] net = "FLBFLY" -> Butterfly!Ascends
         [] net = "FATTREE" -> Tree!Ascends
         [] net = "SNUCA" -> Nuca!Walk!Ascends]_vars
=============================================================================
