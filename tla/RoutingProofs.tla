---------------------------- MODULE RoutingProofs ----------------------------
(***************************************************************************)
(* For meshes and tori of every size, with any number of VCs: every packet *)
(* takes a shortest way, credits return to the port that counts them, and  *)
(* no cyclic wait for buffers can arise.                                   *)
(*                                                                         *)
(* Meshes (to MeshChannelOrder).  The proofs argue about columns and rows; *)
(* Coordinates to Neighbour say how the router numbers of Topology2DMesh   *)
(* relate to them.  The inductive invariant IInv says where the packet may *)
(* be, given the port it came in by and the VC it holds.                   *)
(*                                                                         *)
(* Tori (Rings, from RingsOK on).  Each axis is a ring on which a packet   *)
(* goes up or down; UpStep to RankBounds are about one ring.  The          *)
(* inductive invariant RingIInv relates the port a packet came in by and   *)
(* the class of the VC it holds to where its destination is.               *)
(***************************************************************************)
EXTENDS Mesh, TLAPS

\* A torus of the same parameters; its routing has no variants.
Rings == INSTANCE Torus

\* What the code requires of the configuration.
GridOK ==
  /\ K \in Nat \ {0}
  /\ NumVC \in Nat \ {0}
  /\ net_routing \in {"XY", "YX", "MIN"}

\* A number is made of its quotient and remainder in one way only.
LEMMA Division ==
  ASSUME NEW k \in Nat, k > 0, NEW q \in Int, NEW m \in 0 .. k - 1
  PROVE  (q * k + m) % k = m /\ (q * k + m) \div k = q
OBVIOUS

\* selectOutPC's columns and rows are inside the grid.
LEMMA Coordinates ==
  ASSUME GridOK, NEW r \in Router
  PROVE  /\ x_coord(r) \in 0 .. K - 1
         /\ y_coord(r) \in 0 .. K - 1
         /\ r = y_coord(r) * K + x_coord(r)
BY DEF GridOK, Router, NumRouter, x_coord, y_coord

\* Every place of the grid is that of a router.
LEMMA Place ==
  ASSUME GridOK, NEW x \in 0 .. K - 1, NEW y \in 0 .. K - 1
  PROVE  /\ y * K + x \in Router
         /\ x_coord(y * K + x) = x
         /\ y_coord(y * K + x) = y
<1>1. K \in Nat \ {0} /\ Router = 0 .. K * K - 1
  BY DEF GridOK, Router, NumRouter
<1>2. y * K + x \in 0 .. K * K - 1
  <2>1. y * K <= (K - 1) * K /\ (K - 1) * K = K * K - K
    BY <1>1
  <2> QED
    BY <1>1, <2>1
<1>3. (y * K + x) % K = x /\ (y * K + x) \div K = y
  BY <1>1, Division
<1> QED
  BY <1>1, <1>2, <1>3 DEF x_coord, y_coord

\* Two routers are not at the same place.
LEMMA SamePlace ==
  ASSUME GridOK, NEW r \in Router, NEW s \in Router,
         x_coord(r) = x_coord(s), y_coord(r) = y_coord(s)
  PROVE  r = s
BY Coordinates

\* Where the link at a valid port leads (getNextConn), and that its other end
\* leads back.
LEMMA Neighbour ==
  ASSUME GridOK, NEW r \in Router, NEW pc \in 0 .. 3, toEdge(r, pc) > 0
  PROVE  LET n == ahead(r, pc, 1)
         IN  /\ n \in Router
             /\ getNextConn(r, pc) = <<n, opposite(pc)>>
             /\ getNextConn(n, opposite(pc)) = <<r, pc>>
             /\ pc = DIR_WEST  => x_coord(n) = x_coord(r) - 1 /\ y_coord(n) = y_coord(r)
             /\ pc = DIR_EAST  => x_coord(n) = x_coord(r) + 1 /\ y_coord(n) = y_coord(r)
             /\ pc = DIR_NORTH => x_coord(n) = x_coord(r) /\ y_coord(n) = y_coord(r) - 1
             /\ pc = DIR_SOUTH => x_coord(n) = x_coord(r) /\ y_coord(n) = y_coord(r) + 1
<1> DEFINE n == ahead(r, pc, 1)
           x == x_coord(r)
           y == y_coord(r)
<1> USE DEF DIR_WEST, DIR_EAST, DIR_NORTH, DIR_SOUTH
<1>1. x \in 0 .. K - 1 /\ y \in 0 .. K - 1 /\ r = y * K + x
  BY Coordinates
<1>2. K \in Nat /\ K > 0 /\ r \in Int
  BY DEF GridOK, Router, NumRouter
<1>3. /\ pc = DIR_WEST  => x > 0 /\ n = y * K + (x - 1)
      /\ pc = DIR_EAST  => x < K - 1 /\ n = y * K + (x + 1)
      /\ pc = DIR_NORTH => y > 0 /\ n = (y - 1) * K + x
      /\ pc = DIR_SOUTH => y < K - 1 /\ n = (y + 1) * K + x
  BY <1>1, <1>2 DEF toEdge, ahead
<1> HIDE DEF x, y, n
<1>4. /\ n \in Router
      /\ pc = DIR_WEST  => x_coord(n) = x - 1 /\ y_coord(n) = y
      /\ pc = DIR_EAST  => x_coord(n) = x + 1 /\ y_coord(n) = y
      /\ pc = DIR_NORTH => x_coord(n) = x /\ y_coord(n) = y - 1
      /\ pc = DIR_SOUTH => x_coord(n) = x /\ y_coord(n) = y + 1
  <2>1. CASE pc = DIR_WEST
    <3>1. x - 1 \in 0 .. K - 1 /\ y \in 0 .. K - 1
      BY <2>1, <1>1, <1>2, <1>3
    <3>2. /\ (y) * K + (x - 1) \in Router
          /\ x_coord((y) * K + (x - 1)) = x - 1
          /\ y_coord((y) * K + (x - 1)) = y
      BY <3>1, Place
    <3>3. n = (y) * K + (x - 1)
      BY <2>1, <1>3
    <3> QED
      BY <2>1, <3>2, <3>3
  <2>2. CASE pc = DIR_EAST
    <3>1. x + 1 \in 0 .. K - 1 /\ y \in 0 .. K - 1
      BY <2>2, <1>1, <1>2, <1>3
    <3>2. /\ (y) * K + (x + 1) \in Router
          /\ x_coord((y) * K + (x + 1)) = x + 1
          /\ y_coord((y) * K + (x + 1)) = y
      BY <3>1, Place
    <3>3. n = (y) * K + (x + 1)
      BY <2>2, <1>3
    <3> QED
      BY <2>2, <3>2, <3>3
  <2>3. CASE pc = DIR_NORTH
    <3>1. x \in 0 .. K - 1 /\ y - 1 \in 0 .. K - 1
      BY <2>3, <1>1, <1>2, <1>3
    <3>2. /\ (y - 1) * K + (x) \in Router
          /\ x_coord((y - 1) * K + (x)) = x
          /\ y_coord((y - 1) * K + (x)) = y - 1
      BY <3>1, Place
    <3>3. n = (y - 1) * K + (x)
      BY <2>3, <1>3
    <3> QED
      BY <2>3, <3>2, <3>3
  <2>4. CASE pc = DIR_SOUTH
    <3>1. x \in 0 .. K - 1 /\ y + 1 \in 0 .. K - 1
      BY <2>4, <1>1, <1>2, <1>3
    <3>2. /\ (y + 1) * K + (x) \in Router
          /\ x_coord((y + 1) * K + (x)) = x
          /\ y_coord((y + 1) * K + (x)) = y + 1
      BY <3>1, Place
    <3>3. n = (y + 1) * K + (x)
      BY <2>4, <1>3
    <3> QED
      BY <2>4, <3>2, <3>3
  <2> QED
    BY <2>1, <2>2, <2>3, <2>4
<1>5. n \in Int /\ ahead(n, opposite(pc), 1) = r /\ opposite(pc) \in 0 .. 3 /\ opposite(opposite(pc)) = pc
  BY <1>2, <1>4 DEF opposite, ahead, n, Router, NumRouter
<1>6. getNextConn(r, pc) = <<n, opposite(pc)>>
  BY <1>4 DEF getNextConn, n, Router
<1>7. getNextConn(n, opposite(pc)) = <<r, pc>>
  BY <1>5 DEF getNextConn, Router
<1> QED
  BY <1>4, <1>6, <1>7 DEF n, x, y

\* What selectOutPC may return, and where the packet must be for that.
Directed(r, d, pc) ==
  \/ pc = 4 /\ r = d
  \/ pc = DIR_WEST  /\ x_coord(d) < x_coord(r) /\ (net_routing = "YX" => y_coord(r) = y_coord(d))
  \/ pc = DIR_EAST  /\ x_coord(r) < x_coord(d) /\ (net_routing = "YX" => y_coord(r) = y_coord(d))
  \/ pc = DIR_NORTH /\ y_coord(d) < y_coord(r) /\ (net_routing = "XY" => x_coord(r) = x_coord(d))
  \/ pc = DIR_SOUTH /\ y_coord(r) < y_coord(d) /\ (net_routing = "XY" => x_coord(r) = x_coord(d))

\* What any of the three versions of selectOutPC returns.
LEMMA Selected ==
  ASSUME GridOK, NEW r \in Router, NEW f, f.dst \in Router, f.pos = 0,
         NEW pc \in selectOutPC(r, f)
  PROVE  Directed(r, f.dst, pc)
<1> DEFINE x == x_coord(r)
           y == y_coord(r)
           dx == x_coord(f.dst)
           dy == y_coord(f.dst)
<1>1. x \in Int /\ y \in Int /\ dx \in Int /\ dy \in Int
  BY Coordinates
<1>2. x = dx /\ y = dy => r = f.dst
  BY SamePlace
<1>3. Eject(r, f) = 4
  BY DEF Eject, num_internal_pc
<1>4. /\ xTowards(r, f.dst) = IF dx > x THEN {DIR_EAST} ELSE IF dx < x THEN {DIR_WEST} ELSE {}
      /\ yTowards(r, f.dst) = IF dy > y THEN {DIR_SOUTH} ELSE IF dy < y THEN {DIR_NORTH} ELSE {}
  BY DEF xTowards, yTowards
<1> HIDE DEF x, y, dx, dy
<1>5. \/ pc = 4 /\ r = f.dst
      \/ pc = DIR_WEST  /\ dx < x /\ (net_routing = "YX" => y = dy)
      \/ pc = DIR_EAST  /\ x < dx /\ (net_routing = "YX" => y = dy)
      \/ pc = DIR_NORTH /\ dy < y /\ (net_routing = "XY" => x = dx)
      \/ pc = DIR_SOUTH /\ y < dy /\ (net_routing = "XY" => x = dx)
  <2>1. CASE net_routing = "XY"
    BY <1>1, <1>2, <1>3, <1>4, <2>1 DEF selectOutPC, DimensionOrder
  <2>2. CASE net_routing = "YX"
    BY <1>1, <1>2, <1>3, <1>4, <2>2 DEF selectOutPC, DimensionOrder
  <2>3. CASE net_routing = "MIN"
    BY <1>1, <1>2, <1>3, <1>4, <2>3 DEF selectOutPC, MinAdaptive
  <2> QED
    BY <2>1, <2>2, <2>3 DEF GridOK
<1> QED
  BY <1>5 DEF x, y, dx, dy, Directed

-----------------------------------------------------------------------------
\* The upper half of isOutVCDeadlockFree.
High(vc) == vc >= NumVC \div 2

\* The types.
Places ==
  /\ GridOK
  /\ flit \in [to : Router, src : Router, dst : Router, pos : {0}, up : BOOLEAN]
  /\ flit.to = flit.dst
  /\ cur \in Router
  /\ in_pc \in 0 .. 4
  /\ in_vc \in VC
  /\ out_pc \in -1 .. 4
  /\ hops \in Int
  /\ core \in -1 .. NumCore - 1

\* A port is only set while the packet is under way, and is one selectOutPC gave.
Chosen == out_pc # INVALID => core = INVALID /\ Directed(cur, flit.dst, out_pc)

\* The packet is handed to its core, by the router of the core.
Handed == core # INVALID => core = flit.to /\ cur = flit.dst

\* The routers passed and the links to go add up.
Counted ==
  hops + Distance(cur, flit.dst)
    = Distance(flit.src, flit.dst) + IF out_pc = INVALID /\ core = INVALID THEN 0 ELSE 1

\* The packet has not passed its destination: not in its rows,
Between ==
  \/ y_coord(flit.src) <= y_coord(cur) /\ y_coord(cur) <= y_coord(flit.dst)
  \/ y_coord(flit.src) >= y_coord(cur) /\ y_coord(cur) >= y_coord(flit.dst)

\* and not in the direction it came from.
Heading ==
  /\ in_pc = DIR_WEST  => x_coord(cur) <= x_coord(flit.dst)
  /\ in_pc = DIR_EAST  => x_coord(cur) >= x_coord(flit.dst)
  /\ in_pc = DIR_NORTH => y_coord(flit.src) < y_coord(cur) /\ y_coord(cur) <= y_coord(flit.dst)
  /\ in_pc = DIR_SOUTH => y_coord(flit.src) > y_coord(cur) /\ y_coord(cur) >= y_coord(flit.dst)

\* Dimension order, and the VCs of the rows.
Axes ==
  /\ net_routing = "XY" /\ in_pc \in {DIR_NORTH, DIR_SOUTH} => x_coord(cur) = x_coord(flit.dst)
  /\ net_routing = "YX" /\ in_pc \in {DIR_WEST, DIR_EAST} => y_coord(cur) = y_coord(flit.dst)
  /\ net_routing = "MIN" /\ in_pc \in {DIR_WEST, DIR_EAST}
       /\ y_coord(flit.src) # y_coord(flit.dst)
     => (High(in_vc) <=> y_coord(flit.dst) > y_coord(flit.src))

\* The inductive invariant.
IInv == Places /\ Chosen /\ Handed /\ Counted /\ Between /\ Heading /\ Axes

\* It holds when a core hands over a packet.
LEMMA Start == GridOK /\ Init => IInv
<1> SUFFICES ASSUME GridOK, Init PROVE IInv
  OBVIOUS
<1>1. PICK from \in Core, to \in Core :
        /\ flit = [to |-> to, src |-> core2router(from)[1],
                   dst |-> core2router(to)[1], pos |-> core2router(to)[2], up |-> TRUE]
        /\ in_pc = num_internal_pc(core2router(from)[1]) + core2router(from)[2]
  BY DEF Init
<1>2. flit = [to |-> to, src |-> from, dst |-> to, pos |-> 0, up |-> TRUE] /\ in_pc = 4
  BY <1>1 DEF core2router, num_internal_pc
<1>3. from \in Router /\ to \in Router /\ cur = from
  BY <1>2 DEF Init, Core, NumCore, Router, NumRouter
<1>4. Places
  BY <1>2, <1>3 DEF Init, Places, INVALID, GridOK, NumCore
<1>5. Chosen /\ Handed
  BY DEF Init, Chosen, Handed
<1>6. /\ x_coord(from) \in Int /\ y_coord(from) \in Int
      /\ x_coord(to) \in Int /\ y_coord(to) \in Int
  BY <1>3, Coordinates
<1>7. Counted
  BY <1>2, <1>3, <1>6 DEF Init, Counted, Distance, Abs, INVALID
<1>8. Between /\ Heading /\ Axes
  BY <1>2, <1>3, <1>6 DEF Init, Between, Heading, Axes,
     DIR_WEST, DIR_EAST, DIR_NORTH, DIR_SOUTH
<1> QED
  BY <1>4, <1>5, <1>7, <1>8 DEF IInv

\* Where a link leads.
LEMMA Link ==
  ASSUME IInv, StageVA
  PROVE  /\ out_pc \in 0 .. 3
         /\ toEdge(cur, out_pc) > 0
         /\ cur' = ahead(cur, out_pc, 1)
         /\ in_pc' = opposite(out_pc)
         /\ cur' \in Router
         /\ Directed(cur, flit.dst, out_pc)
<1> USE DEF DIR_WEST, DIR_EAST, DIR_NORTH, DIR_SOUTH
<1>1. out_pc \in 0 .. 3 /\ Directed(cur, flit.dst, out_pc)
  BY DEF IInv, Places, Chosen, StageVA, isEjectChannel, num_internal_pc, INVALID
<1>2. /\ x_coord(cur) \in 0 .. K - 1 /\ y_coord(cur) \in 0 .. K - 1
      /\ x_coord(flit.dst) \in 0 .. K - 1 /\ y_coord(flit.dst) \in 0 .. K - 1
  BY Coordinates DEF IInv, Places
<1>3. K \in Int
  BY DEF IInv, Places, GridOK
<1>4. toEdge(cur, out_pc) > 0
  BY <1>1, <1>2, <1>3 DEF Directed, toEdge
<1>5. /\ getNextConn(cur, out_pc) = <<ahead(cur, out_pc, 1), opposite(out_pc)>>
      /\ ahead(cur, out_pc, 1) \in Router
  BY <1>1, <1>4, Neighbour DEF IInv, Places
<1> QED
  BY <1>1, <1>4, <1>5 DEF StageVA

\* The same in columns and rows.
LEMMA Moved ==
  ASSUME IInv, StageVA
  PROVE  \/ /\ out_pc = DIR_WEST /\ in_pc' = DIR_EAST
            /\ x_coord(cur') = x_coord(cur) - 1 /\ y_coord(cur') = y_coord(cur)
         \/ /\ out_pc = DIR_EAST /\ in_pc' = DIR_WEST
            /\ x_coord(cur') = x_coord(cur) + 1 /\ y_coord(cur') = y_coord(cur)
         \/ /\ out_pc = DIR_NORTH /\ in_pc' = DIR_SOUTH
            /\ x_coord(cur') = x_coord(cur) /\ y_coord(cur') = y_coord(cur) - 1
         \/ /\ out_pc = DIR_SOUTH /\ in_pc' = DIR_NORTH
            /\ x_coord(cur') = x_coord(cur) /\ y_coord(cur') = y_coord(cur) + 1
BY Link, Neighbour DEF IInv, Places, opposite, DIR_WEST, DIR_EAST, DIR_NORTH, DIR_SOUTH

\* Which half of the VCs MinAdaptiveVC allows along a row: that of the direction
\* the packet will turn to or came from, and in its own row always the same.
LEMMA Classes ==
  ASSUME IInv, StageVA, net_routing = "MIN", in_pc' \in {DIR_WEST, DIR_EAST}
  PROVE  /\ y_coord(flit.src) # y_coord(flit.dst)
              => (High(in_vc') <=> y_coord(flit.dst) > y_coord(flit.src))
         /\ y_coord(flit.src) = y_coord(flit.dst) /\ in_pc # 4
              => (High(in_vc') <=> High(in_vc))
<1> DEFINE dy == y_coord(flit.dst)
           sy == y_coord(flit.src)
<1>1. isOutVCDeadlockFree(in_vc', in_pc, in_vc, out_pc, cur, flit)
  BY DEF StageVA, UsableVCs
<1>2. MinAdaptiveVC(in_vc', in_pc, in_vc, out_pc, cur, flit)
  BY <1>1 DEF isOutVCDeadlockFree
<1>3. getNextConn(cur, out_pc)[1] = cur' /\ ~ (out_pc >= 4) /\ x_coord(cur') # x_coord(cur)
  BY Link, Moved, Coordinates DEF StageVA, IInv, Places, DIR_WEST, DIR_EAST, DIR_NORTH, DIR_SOUTH
<1>4. in_pc # 4 => ~ (in_pc >= 4)
  BY DEF IInv, Places
<1>5. dy # sy => (High(in_vc') <=> dy > sy)
  BY <1>2, <1>3, Zenon DEF MinAdaptiveVC, High, num_internal_pc
<1>6. dy = sy /\ in_pc # 4 => (High(in_vc') <=> High(in_vc))
  BY <1>2, <1>3, <1>4, Zenon DEF MinAdaptiveVC, High, num_internal_pc
<1> QED
  BY <1>5, <1>6

\* StageVA, over a link, keeps the invariant:
LEMMA Onward == IInv /\ StageVA => IInv'
<1> SUFFICES ASSUME IInv, StageVA PROVE IInv'
  OBVIOUS
<1> DEFINE x == x_coord(cur)
           y == y_coord(cur)
           nx == x_coord(cur')
           ny == y_coord(cur')
           dx == x_coord(flit.dst)
           dy == y_coord(flit.dst)
           sy == y_coord(flit.src)
<1> USE DEF DIR_WEST, DIR_EAST, DIR_NORTH, DIR_SOUTH
<1>1. UNCHANGED <<flit, hops, core>> /\ out_pc' = INVALID /\ out_pc # INVALID
  BY DEF StageVA
<1>2. cur' \in Router /\ in_pc' \in 0 .. 3 /\ in_vc' \in VC
  BY Link, Moved DEF StageVA, UsableVCs
<1>3. Places'
  BY <1>1, <1>2 DEF IInv, Places, INVALID, GridOK
<1>4. Chosen' /\ Handed'
  BY <1>1 DEF IInv, Chosen, Handed, INVALID
<1>5. x \in Int /\ y \in Int /\ nx \in Int /\ ny \in Int /\ dx \in Int /\ dy \in Int /\ sy \in Int
  BY <1>2, Coordinates DEF IInv, Places
<1>6. \/ out_pc = DIR_WEST /\ in_pc' = DIR_EAST /\ nx = x - 1 /\ ny = y
      \/ out_pc = DIR_EAST /\ in_pc' = DIR_WEST /\ nx = x + 1 /\ ny = y
      \/ out_pc = DIR_NORTH /\ in_pc' = DIR_SOUTH /\ nx = x /\ ny = y - 1
      \/ out_pc = DIR_SOUTH /\ in_pc' = DIR_NORTH /\ nx = x /\ ny = y + 1
  BY Moved
<1>7. /\ out_pc = DIR_WEST  => dx < x /\ (net_routing = "YX" => y = dy)
      /\ out_pc = DIR_EAST  => x < dx /\ (net_routing = "YX" => y = dy)
      /\ out_pc = DIR_NORTH => dy < y /\ (net_routing = "XY" => x = dx)
      /\ out_pc = DIR_SOUTH => y < dy /\ (net_routing = "XY" => x = dx)
  BY Link DEF Directed
<1>8. (sy <= y /\ y <= dy) \/ (sy >= y /\ y >= dy)
  BY DEF IInv, Between
<1>9. hops + Distance(cur, flit.dst) = Distance(flit.src, flit.dst) + 1
  BY <1>1 DEF IInv, Counted
<1>10. Distance(cur, flit.dst) = Abs(x - dx) + Abs(y - dy)
       /\ Distance(cur', flit.dst) = Abs(nx - dx) + Abs(ny - dy)
  BY DEF Distance
<1>11. net_routing = "MIN" /\ in_pc' \in {DIR_WEST, DIR_EAST} /\ sy # dy
         => (High(in_vc') <=> dy > sy)
  BY Classes
<1> HIDE DEF x, y, nx, ny, dx, dy, sy
<1>12. Distance(cur', flit.dst) = Distance(cur, flit.dst) - 1
  BY <1>5, <1>6, <1>7, <1>10 DEF Abs
<1>13. Distance(cur, flit.dst) \in Int /\ hops \in Int /\ Distance(flit.src, flit.dst) \in Int
  <2>1. \A n \in Int : Abs(n) \in Int
    BY DEF Abs
  <2>2. x_coord(flit.src) \in Int /\ sy \in Int /\ dx \in Int /\ dy \in Int
    BY <1>5, Coordinates DEF IInv, Places
  <2>3. Distance(flit.src, flit.dst) = Abs(x_coord(flit.src) - dx) + Abs(sy - dy)
    BY DEF Distance, dx, sy, dy
  <2> QED
    BY <2>1, <2>2, <2>3, <1>5, <1>10 DEF IInv, Places
<1>14. Counted'
  BY <1>1, <1>9, <1>12, <1>13 DEF IInv, Handed, Chosen, Counted
<1>15. (sy <= ny /\ ny <= dy) \/ (sy >= ny /\ ny >= dy)
  BY <1>5, <1>6, <1>7, <1>8
<1>16. /\ in_pc' = DIR_WEST  => nx <= dx
       /\ in_pc' = DIR_EAST  => nx >= dx
       /\ in_pc' = DIR_NORTH => sy < ny /\ ny <= dy
       /\ in_pc' = DIR_SOUTH => sy > ny /\ ny >= dy
  BY <1>5, <1>6, <1>7, <1>8
<1>17. /\ net_routing = "XY" /\ in_pc' \in {DIR_NORTH, DIR_SOUTH} => nx = dx
       /\ net_routing = "YX" /\ in_pc' \in {DIR_WEST, DIR_EAST} => ny = dy
  BY <1>5, <1>6, <1>7
<1>18. Between' /\ Heading' /\ Axes'
  BY <1>1, <1>11, <1>15, <1>16, <1>17 DEF Between, Heading, Axes, x, y, nx, ny, dx, dy, sy, High
<1> QED
  BY <1>3, <1>4, <1>14, <1>18 DEF IInv

\* so does StageRC, the choice of a port,
LEMMA Routed == IInv /\ StageRC => IInv'
<1> SUFFICES ASSUME IInv, StageRC PROVE IInv'
  OBVIOUS
<1>1. /\ UNCHANGED <<flit, cur, in_pc, in_vc, core>>
      /\ out_pc = INVALID /\ core = INVALID /\ hops' = hops + 1
      /\ out_pc' \in selectOutPC(cur, flit)
  BY DEF StageRC, steer
<1>2. Directed(cur, flit.dst, out_pc')
  BY <1>1, Selected DEF IInv, Places
<1>3. out_pc' \in 0 .. 4
  BY <1>2 DEF Directed, DIR_WEST, DIR_EAST, DIR_NORTH, DIR_SOUTH
<1>4. Places' /\ Chosen' /\ Handed'
  BY <1>1, <1>2, <1>3 DEF IInv, Places, Chosen, Handed, INVALID, Directed, GridOK
<1>5. Distance(cur, flit.dst) \in Int /\ Distance(flit.src, flit.dst) \in Int
  BY Coordinates DEF IInv, Places, Distance, Abs
<1>6. Counted'
  BY <1>1, <1>3, <1>5 DEF IInv, Places, Counted, INVALID
<1>7. Between' /\ Heading' /\ Axes'
  BY <1>1 DEF IInv, Between, Heading, Axes, High
<1> QED
  BY <1>4, <1>6, <1>7 DEF IInv

\* and StageST, out of the network.
LEMMA Ejected == IInv /\ StageST => IInv'
<1> SUFFICES ASSUME IInv, StageST PROVE IInv'
  OBVIOUS
<1>1. /\ UNCHANGED <<flit, cur, in_pc, in_vc, hops>>
      /\ out_pc # INVALID /\ out_pc >= 4 /\ out_pc' = INVALID
      /\ core' = cur
  BY DEF StageST, isEjectChannel, num_internal_pc, router2core
<1>2. cur = flit.dst /\ core = INVALID
  BY <1>1 DEF IInv, Places, Chosen, Directed, DIR_WEST, DIR_EAST, DIR_NORTH, DIR_SOUTH
<1>3. core' \in 0 .. NumCore - 1
  BY <1>1 DEF IInv, Places, Router, NumRouter, NumCore
<1>4. Places'
  BY <1>1, <1>3 DEF IInv, Places, GridOK, INVALID, NumCore
<1>5. Chosen' /\ Handed' /\ Counted'
  BY <1>1, <1>2, <1>3 DEF IInv, Places, Chosen, Handed, Counted, INVALID
<1>6. Between' /\ Heading' /\ Axes'
  BY <1>1 DEF IInv, Between, Heading, Axes, High
<1> QED
  BY <1>4, <1>5, <1>6 DEF IInv

\* So it holds always.
LEMMA Inductive == GridOK /\ Spec => []IInv
<1>1. GridOK /\ Init => IInv
  BY Start
<1>2. IInv /\ [Next]_vars => IInv'
  <2> SUFFICES ASSUME IInv, [Next]_vars PROVE IInv'
    OBVIOUS
  <2>1. CASE UNCHANGED vars
    BY <2>1 DEF vars, IInv, Places, Chosen, Handed, Counted, Between, Heading, Axes, High, GridOK
  <2>2. CASE StageRC
    BY <2>2, Routed
  <2>3. CASE StageVA
    BY <2>3, Onward
  <2>4. CASE StageST
    BY <2>4, Ejected
  <2> QED
    BY <2>1, <2>2, <2>3, <2>4 DEF Next, Arrived
<1> QED
  BY <1>1, <1>2, PTL DEF Spec

-----------------------------------------------------------------------------
\* stageRC counts as many hops for a packet as getMinHopCount says, and the
\* packet comes out at the core it was sent to.
THEOREM MeshMinimal == GridOK /\ Spec => []Minimal
<1>1. IInv => Minimal
  <2> SUFFICES ASSUME IInv PROVE Minimal
    OBVIOUS
  <2>1. \A r \in Router : \A s \in Router : Distance(r, s) \in Nat /\ Distance(r, r) = 0
    BY Coordinates DEF Distance, Abs, IInv, Places
  <2>2. /\ Distance(cur, flit.dst) \in Nat /\ Distance(flit.src, flit.dst) \in Nat
        /\ core # INVALID => Distance(cur, flit.dst) = 0
    BY <2>1 DEF IInv, Places, Handed
  <2> QED
    BY <2>2 DEF IInv, Places, Handed, Counted, Minimal, getMinHopCount
<1> QED
  BY <1>1, Inductive, PTL

\* Routing picks links inside the mesh only, and the credits of stageST go back
\* along getPrevConn to the port that counts them.
THEOREM MeshCreditsReturn == GridOK /\ Spec => []CreditsReturn
<1>1. IInv => CreditsReturn
  <2> SUFFICES ASSUME IInv, out_pc # INVALID, ~ isEjectChannel(cur, out_pc)
               PROVE  LET next == getNextConn(cur, out_pc)
                      IN  /\ m_valid(cur, out_pc)
                          /\ next[1] \in Router
                          /\ getPrevConn(next[1], next[2]) = <<cur, out_pc>>
    BY DEF CreditsReturn
  <2>1. /\ x_coord(cur) \in 0 .. K - 1 /\ y_coord(cur) \in 0 .. K - 1
        /\ x_coord(flit.dst) \in 0 .. K - 1 /\ y_coord(flit.dst) \in 0 .. K - 1
    BY Coordinates DEF IInv, Places
  <2>2. out_pc \in 0 .. 3 /\ Directed(cur, flit.dst, out_pc)
    BY DEF IInv, Places, Chosen, isEjectChannel, num_internal_pc, INVALID
  <2>3. toEdge(cur, out_pc) > 0
    BY <2>1, <2>2 DEF Directed, toEdge, DIR_WEST, DIR_EAST, DIR_NORTH, DIR_SOUTH, IInv, Places, GridOK
  <2> QED
    BY <2>2, <2>3, Neighbour DEF m_valid, getPrevConn, IInv, Places
<1> QED
  BY <1>1, Inductive, PTL

\* From two VCs on, isOutVCDeadlockFree always leaves a packet a VC.
THEOREM MeshServed == GridOK /\ NumVC >= 2 /\ Spec => []Served
<1>1. NumVC >= 2 /\ IInv => Served
  <2> SUFFICES ASSUME NumVC >= 2, IInv, out_pc # INVALID, ~ isEjectChannel(cur, out_pc)
               PROVE  \E vc \in VC : isOutVCDeadlockFree(vc, in_pc, in_vc, out_pc, cur, flit)
    BY DEF Served, UsableVCs
  <2>1. NumVC \in Nat /\ 0 \in VC /\ NumVC - 1 \in VC /\ in_vc \in VC
        /\ ~ High(0) /\ High(NumVC - 1)
    BY DEF IInv, Places, GridOK, VC, High
  <2>2. CASE net_routing # "MIN"
    BY <2>1, <2>2 DEF isOutVCDeadlockFree
  <2>3. CASE y_coord(flit.dst) = y_coord(flit.src)
    <3>1. isOutVCDeadlockFree(in_vc, in_pc, in_vc, out_pc, cur, flit)
      BY <2>3, Zenon DEF isOutVCDeadlockFree, MinAdaptiveVC
    <3> QED
      BY <2>1, <3>1
  <2>4. CASE y_coord(flit.dst) # y_coord(flit.src) /\ y_coord(flit.dst) > y_coord(flit.src)
    <3>1. isOutVCDeadlockFree(NumVC - 1, in_pc, in_vc, out_pc, cur, flit)
      BY <2>1, <2>4, Zenon DEF isOutVCDeadlockFree, MinAdaptiveVC, High
    <3> QED
      BY <2>1, <3>1
  <2>5. CASE y_coord(flit.dst) # y_coord(flit.src) /\ ~ (y_coord(flit.dst) > y_coord(flit.src))
    <3>1. (0 >= NumVC \div 2) = (y_coord(flit.dst) > y_coord(flit.src))
      BY <2>1, <2>5, Coordinates DEF High, IInv, Places
    <3>2. isOutVCDeadlockFree(0, in_pc, in_vc, out_pc, cur, flit)
      BY <2>5, <3>1, Zenon DEF isOutVCDeadlockFree, MinAdaptiveVC
    <3> QED
      BY <2>1, <3>2
  <2> QED
    BY <2>2, <2>3, <2>4, <2>5
<1>2. NumVC >= 2 => (NumVC >= 2)'
  OBVIOUS
<1> QED
  BY <1>1, <1>2, Inductive, PTL DEF Spec

\* Rows are ranked K apart.
LEMMA Rows ==
  ASSUME GridOK, NEW row \in Nat, NEW along \in 0 .. K - 1
  PROVE  /\ row * K + along >= 0
         /\ row * K + along < (row + 1) * K
<1>1. row * K >= 0 /\ (row + 1) * K = row * K + K
  BY DEF GridOK
<1> QED
  BY <1>1 DEF GridOK

\* Each link leads to a buffer of higher rank: within MIN's rows by the column,
\* and from row to row downwards for packets that go down, upwards for others.
LEMMA Climbs == IInv /\ StageVA => Ascends
<1> SUFFICES ASSUME IInv, StageVA PROVE Ascends
  OBVIOUS
<1> DEFINE x == x_coord(cur)
           y == y_coord(cur)
           nx == x_coord(cur')
           ny == y_coord(cur')
           dx == x_coord(flit.dst)
           dy == y_coord(flit.dst)
           sy == y_coord(flit.src)
           high == High(in_vc)
           nhigh == High(in_vc')
<1> USE DEF DIR_WEST, DIR_EAST, DIR_NORTH, DIR_SOUTH
<1>1. /\ x \in 0 .. K - 1 /\ y \in 0 .. K - 1 /\ nx \in 0 .. K - 1 /\ ny \in 0 .. K - 1
      /\ dx \in 0 .. K - 1 /\ dy \in 0 .. K - 1 /\ sy \in 0 .. K - 1
      /\ in_pc \in 0 .. 4 /\ K \in Nat /\ K > 0
  BY Coordinates, Link DEF IInv, Places, GridOK
<1>2. \/ out_pc = DIR_WEST /\ in_pc' = DIR_EAST /\ nx = x - 1 /\ ny = y
      \/ out_pc = DIR_EAST /\ in_pc' = DIR_WEST /\ nx = x + 1 /\ ny = y
      \/ out_pc = DIR_NORTH /\ in_pc' = DIR_SOUTH /\ nx = x /\ ny = y - 1
      \/ out_pc = DIR_SOUTH /\ in_pc' = DIR_NORTH /\ nx = x /\ ny = y + 1
  BY Moved
<1>3. /\ out_pc = DIR_WEST  => dx < x /\ (net_routing = "YX" => y = dy)
      /\ out_pc = DIR_EAST  => x < dx /\ (net_routing = "YX" => y = dy)
      /\ out_pc = DIR_NORTH => dy < y /\ (net_routing = "XY" => x = dx)
      /\ out_pc = DIR_SOUTH => y < dy /\ (net_routing = "XY" => x = dx)
  BY Link DEF Directed
<1>4. /\ in_pc = DIR_WEST  => x <= dx
      /\ in_pc = DIR_EAST  => x >= dx
      /\ in_pc = DIR_NORTH => sy < y /\ y <= dy
      /\ in_pc = DIR_SOUTH => sy > y /\ y >= dy
  BY DEF IInv, Heading
<1>5. /\ net_routing = "XY" /\ in_pc \in {DIR_NORTH, DIR_SOUTH} => x = dx
      /\ net_routing = "YX" /\ in_pc \in {DIR_WEST, DIR_EAST} => y = dy
  BY DEF IInv, Axes
<1>6. (sy <= y /\ y <= dy) \/ (sy >= y /\ y >= dy)
  BY DEF IInv, Between
<1> DEFINE AlongAt(ipc, a, b) ==
             CASE ipc = DIR_WEST -> a [] ipc = DIR_EAST -> K - 1 - a
               [] ipc = DIR_NORTH -> b [] ipc = DIR_SOUTH -> K - 1 - b
<1>7. /\ \A ipc \in 0 .. 3 : Along(cur, ipc) = AlongAt(ipc, x, y)
      /\ \A ipc \in 0 .. 3 : Along(cur', ipc) = AlongAt(ipc, nx, ny)
  BY <1>1 DEF Along, toEdge, opposite
<1>8. /\ net_routing = "MIN" /\ in_pc' \in {DIR_WEST, DIR_EAST} /\ sy # dy => (nhigh <=> dy > sy)
      /\ net_routing = "MIN" /\ in_pc' \in {DIR_WEST, DIR_EAST} /\ sy = dy /\ in_pc # 4
           => (nhigh <=> high)
      /\ net_routing = "MIN" /\ in_pc \in {DIR_WEST, DIR_EAST} /\ sy # dy => (high <=> dy > sy)
  BY Classes DEF IInv, Axes
<1> DEFINE Row(ipc, b, h) ==
             IF ipc = DIR_NORTH \/ (ipc # DIR_SOUTH /\ h) THEN b ELSE K - 1 - b
           Over(ipc, a, b) == IF ipc \in {DIR_WEST, DIR_EAST} THEN AlongAt(ipc, a, b) ELSE 0
<1>9. /\ \A ipc \in 0 .. 3 :
           MinRank(cur, ipc, in_vc) = Row(ipc, y, high) * K + Over(ipc, x, y)
      /\ \A ipc \in 0 .. 3 :
           MinRank(cur', ipc, in_vc') = Row(ipc, ny, nhigh) * K + Over(ipc, nx, ny)
  BY <1>7 DEF MinRank, High
<1> HIDE DEF x, y, nx, ny, dx, dy, sy, high, nhigh
<1>10. in_pc' \in 0 .. 3 /\ in_pc' # 4
  BY <1>2
<1>11. CASE net_routing # "MIN"
  <2>1. ChannelRank(cur', in_pc', in_vc') =
          IF (in_pc' \in {DIR_WEST, DIR_EAST}) = (net_routing = "XY")
          THEN AlongAt(in_pc', nx, ny) ELSE K + AlongAt(in_pc', nx, ny)
    BY <1>7, <1>10, <1>11 DEF ChannelRank, OrderRank, num_internal_pc
  <2>2. CASE in_pc = 4
    <3>1. ChannelRank(cur, in_pc, in_vc) = -1
      BY <2>2 DEF ChannelRank, num_internal_pc
    <3> QED
      BY <1>1, <1>2, <2>1, <3>1 DEF Ascends
  <2>3. CASE in_pc # 4
    <3>1. in_pc \in 0 .. 3
      BY <1>1, <2>3
    <3>2. ChannelRank(cur, in_pc, in_vc) =
            IF (in_pc \in {DIR_WEST, DIR_EAST}) = (net_routing = "XY")
            THEN AlongAt(in_pc, x, y) ELSE K + AlongAt(in_pc, x, y)
      BY <1>7, <1>11, <3>1 DEF ChannelRank, OrderRank, num_internal_pc
    <3>3. CASE net_routing = "XY"
      BY <1>1, <1>2, <1>3, <1>4, <1>5, <2>1, <3>1, <3>2, <3>3 DEF Ascends
    <3>4. CASE net_routing = "YX"
      BY <1>1, <1>2, <1>3, <1>4, <1>5, <2>1, <3>1, <3>2, <3>4 DEF Ascends
    <3> QED
      BY <1>11, <3>3, <3>4 DEF IInv, Places, GridOK
  <2> QED
    BY <2>2, <2>3
<1>12. CASE net_routing = "MIN"
  <2> DEFINE row == Row(in_pc, y, high)
             nrow == Row(in_pc', ny, nhigh)
             over == Over(in_pc, x, y)
             nover == Over(in_pc', nx, ny)
  <2>1. nrow \in 0 .. K - 1 /\ nover \in 0 .. K - 1
    BY <1>1, <1>10
  <2>2. ChannelRank(cur', in_pc', in_vc') = nrow * K + nover
    BY <1>9, <1>10, <1>12 DEF ChannelRank, num_internal_pc
  <2>3. CASE in_pc = 4
    <3>1. ChannelRank(cur, in_pc, in_vc) = -1
      BY <2>3 DEF ChannelRank, num_internal_pc
    <3>2. nrow * K + nover >= 0 /\ nrow * K + nover \in Int
      BY <1>1, <2>1, Rows DEF IInv, Places
    <3> HIDE DEF nrow, nover
    <3> QED
      BY <2>2, <3>1, <3>2 DEF Ascends
  <2>4. CASE in_pc # 4
    <3>1. in_pc \in 0 .. 3
      BY <1>1, <2>4
    <3>2. row \in 0 .. K - 1 /\ over \in 0 .. K - 1
      BY <1>1, <3>1
    <3>3. ChannelRank(cur, in_pc, in_vc) = row * K + over
      BY <1>9, <3>1, <1>12 DEF ChannelRank, num_internal_pc
    <3>4. nrow >= row + 1 \/ (nrow = row /\ nover > over)
      BY <1>1, <1>2, <1>3, <1>4, <1>6, <1>8, <1>12, <2>4
    <3> HIDE DEF row, nrow, over, nover
    <3>5. CASE nrow >= row + 1
      <4>1. row * K + over < (row + 1) * K
        BY <1>1, <3>2, Rows DEF IInv, Places
      <4>2. (row + 1) * K <= nrow * K
        BY <1>1, <2>1, <3>2, <3>5
      <4> QED
        BY <1>1, <2>1, <2>2, <3>2, <3>3, <4>1, <4>2 DEF Ascends
    <3>6. CASE nrow = row /\ nover > over
      BY <1>1, <2>1, <2>2, <3>2, <3>3, <3>6 DEF Ascends
    <3> QED
      BY <3>4, <3>5, <3>6
  <2> QED
    BY <2>3, <2>4
<1> QED
  BY <1>11, <1>12

\* Deadlock freedom: whichever ports and VCs packets are given, they wait for
\* buffers of higher rank than that of the one they hold, so no cycle of waiting
\* packets can close.
THEOREM MeshChannelOrder == GridOK /\ Spec => ChannelOrder
<1>1. IInv /\ [Next]_vars => [StageVA => Ascends]_vars
  BY Climbs
<1> QED
  BY <1>1, Inductive, PTL DEF Spec, ChannelOrder

-----------------------------------------------------------------------------
\* What the code requires of the configuration of a torus.
RingsOK == K \in Nat \ {0} /\ NumVC \in Nat \ {0}

\* selectOutPC's columns and rows are inside the grid.
LEMMA RingCoordinates ==
  ASSUME RingsOK, NEW r \in Rings!Router
  PROVE  /\ Rings!x_coord(r) \in 0 .. K - 1
         /\ Rings!y_coord(r) \in 0 .. K - 1
         /\ r = Rings!y_coord(r) * K + Rings!x_coord(r)
BY DEF RingsOK, Rings!Router, Rings!NumRouter, Rings!x_coord, Rings!y_coord

\* Every place of the grid is that of a router.
LEMMA RingPlace ==
  ASSUME RingsOK, NEW x \in 0 .. K - 1, NEW y \in 0 .. K - 1
  PROVE  /\ y * K + x \in Rings!Router
         /\ Rings!x_coord(y * K + x) = x
         /\ Rings!y_coord(y * K + x) = y
<1>1. K \in Nat \ {0} /\ Rings!Router = 0 .. K * K - 1
  BY DEF RingsOK, Rings!Router, Rings!NumRouter
<1>2. y * K + x \in 0 .. K * K - 1
  <2>1. y * K <= (K - 1) * K /\ (K - 1) * K = K * K - K
    BY <1>1
  <2> QED
    BY <1>1, <2>1
<1>3. (y * K + x) % K = x /\ (y * K + x) \div K = y
  BY <1>1, Division
<1> QED
  BY <1>1, <1>2, <1>3 DEF Rings!x_coord, Rings!y_coord

-----------------------------------------------------------------------------
\* The neighbours on a ring.
Up(a) == IF a = K - 1 THEN 0 ELSE a + 1
Down(a) == IF a = 0 THEN K - 1 ELSE a - 1

\* Where the link at a port leads (getNextConn), and that its other end leads back.
LEMMA RingNeighbour ==
  ASSUME RingsOK, NEW r \in Rings!Router, NEW pc \in 0 .. 3
  PROVE  LET n == Rings!getNextConn(r, pc)[1]
         IN  /\ n \in Rings!Router
             /\ Rings!getNextConn(r, pc) = <<n, Rings!opposite(pc)>>
             /\ Rings!getNextConn(n, Rings!opposite(pc)) = <<r, pc>>
             /\ pc = Rings!DIR_WEST  => Rings!x_coord(n) = Down(Rings!x_coord(r)) /\ Rings!y_coord(n) = Rings!y_coord(r)
             /\ pc = Rings!DIR_EAST  => Rings!x_coord(n) = Up(Rings!x_coord(r)) /\ Rings!y_coord(n) = Rings!y_coord(r)
             /\ pc = Rings!DIR_NORTH => Rings!x_coord(n) = Rings!x_coord(r) /\ Rings!y_coord(n) = Down(Rings!y_coord(r))
             /\ pc = Rings!DIR_SOUTH => Rings!x_coord(n) = Rings!x_coord(r) /\ Rings!y_coord(n) = Up(Rings!y_coord(r))
<1> DEFINE n == Rings!getNextConn(r, pc)[1]
           x == Rings!x_coord(r)
           y == Rings!y_coord(r)
           op == Rings!opposite(pc)
<1> USE DEF Rings!DIR_WEST, Rings!DIR_EAST, Rings!DIR_NORTH, Rings!DIR_SOUTH
<1>1. x \in 0 .. K - 1 /\ y \in 0 .. K - 1 /\ r = y * K + x
  BY RingCoordinates
<1>2. K \in Nat /\ K > 0 /\ r \in Int
  BY DEF RingsOK, Rings!Router, Rings!NumRouter
<1>3. op \in 0 .. 3 /\ Rings!opposite(op) = pc
  BY DEF Rings!opposite
<1>4. /\ Rings!getNextConn(r, pc) = <<n, op>>
      /\ n = IF Rings!toEdge(r, pc) = 0 THEN Rings!ahead(r, op, K - 1) ELSE Rings!ahead(r, pc, 1)
  BY DEF Rings!getNextConn
<1>5. /\ pc = Rings!DIR_WEST  => n = y * K + Down(x)
      /\ pc = Rings!DIR_EAST  => n = y * K + Up(x)
      /\ pc = Rings!DIR_NORTH => n = Down(y) * K + x
      /\ pc = Rings!DIR_SOUTH => n = Up(y) * K + x
  <2>1. /\ (y - 1) * K = y * K - K
        /\ (y + 1) * K = y * K + K
        /\ (K - 1) * K = K * K - K
    BY <1>1, <1>2
  <2>2. CASE pc = Rings!DIR_WEST
    BY <2>2, <1>1, <1>2, <1>4 DEF Rings!toEdge, Rings!ahead, Rings!opposite, Down
  <2>3. CASE pc = Rings!DIR_EAST
    BY <2>3, <1>1, <1>2, <1>4 DEF Rings!toEdge, Rings!ahead, Rings!opposite, Up
  <2>4. CASE pc = Rings!DIR_NORTH
    <3>1. CASE y = 0
      BY <3>1, <2>4, <1>1, <1>2, <1>4 DEF Rings!toEdge, Rings!ahead, Rings!opposite, Down
    <3>2. CASE y # 0
      BY <3>2, <2>1, <2>4, <1>1, <1>2, <1>4 DEF Rings!toEdge, Rings!ahead, Rings!opposite, Down
    <3> QED
      BY <3>1, <3>2
  <2>5. CASE pc = Rings!DIR_SOUTH
    <3>1. CASE y = K - 1
      <4>1. n = r - (K - 1) * K /\ Up(y) = 0
        BY <3>1, <2>5, <1>1, <1>2, <1>4 DEF Rings!toEdge, Rings!ahead, Rings!opposite, Up
      <4>2. y * K = (K - 1) * K
        BY <3>1
      <4>3. y * K \in Int
        BY <1>1, <1>2
      <4> HIDE DEF n, x, y
      <4>4. n = x
        BY <4>1, <4>2, <4>3, <1>1, <1>2
      <4> QED
        BY <4>1, <4>4, <2>5, <1>1, <1>2
    <3>2. CASE y # K - 1
      BY <3>2, <2>1, <2>5, <1>1, <1>2, <1>4 DEF Rings!toEdge, Rings!ahead, Rings!opposite, Up
    <3> QED
      BY <3>1, <3>2
  <2> QED
    BY <2>2, <2>3, <2>4, <2>5
<1> HIDE DEF x, y, n, op
<1>6. /\ Up(x) \in 0 .. K - 1 /\ Down(x) \in 0 .. K - 1
      /\ Up(y) \in 0 .. K - 1 /\ Down(y) \in 0 .. K - 1
      /\ Up(Down(x)) = x /\ Down(Up(x)) = x /\ Up(Down(y)) = y /\ Down(Up(y)) = y
  BY <1>1, <1>2 DEF Up, Down
<1>7. /\ n \in Rings!Router
      /\ pc = Rings!DIR_WEST  => Rings!x_coord(n) = Down(x) /\ Rings!y_coord(n) = y
      /\ pc = Rings!DIR_EAST  => Rings!x_coord(n) = Up(x) /\ Rings!y_coord(n) = y
      /\ pc = Rings!DIR_NORTH => Rings!x_coord(n) = x /\ Rings!y_coord(n) = Down(y)
      /\ pc = Rings!DIR_SOUTH => Rings!x_coord(n) = x /\ Rings!y_coord(n) = Up(y)
  <2>1. CASE pc = Rings!DIR_WEST
    <3>1. /\ y * K + Down(x) \in Rings!Router
          /\ Rings!x_coord(y * K + Down(x)) = Down(x)
          /\ Rings!y_coord(y * K + Down(x)) = y
      BY <1>1, <1>6, RingPlace
    <3> QED
      BY <2>1, <1>5, <3>1
  <2>2. CASE pc = Rings!DIR_EAST
    <3>1. /\ y * K + Up(x) \in Rings!Router
          /\ Rings!x_coord(y * K + Up(x)) = Up(x)
          /\ Rings!y_coord(y * K + Up(x)) = y
      BY <1>1, <1>6, RingPlace
    <3> QED
      BY <2>2, <1>5, <3>1
  <2>3. CASE pc = Rings!DIR_NORTH
    <3>1. /\ Down(y) * K + x \in Rings!Router
          /\ Rings!x_coord(Down(y) * K + x) = x
          /\ Rings!y_coord(Down(y) * K + x) = Down(y)
      BY <1>1, <1>6, RingPlace
    <3> QED
      BY <2>3, <1>5, <3>1
  <2>4. CASE pc = Rings!DIR_SOUTH
    <3>1. /\ Up(y) * K + x \in Rings!Router
          /\ Rings!x_coord(Up(y) * K + x) = x
          /\ Rings!y_coord(Up(y) * K + x) = Up(y)
      BY <1>1, <1>6, RingPlace
    <3> QED
      BY <2>4, <1>5, <3>1
  <2> QED
    BY <2>1, <2>2, <2>3, <2>4
<1>8. Rings!getNextConn(n, op) = <<r, pc>>
  <2>1. Rings!getNextConn(n, op)[2] = pc /\ Rings!getNextConn(n, op) =
          <<IF Rings!toEdge(n, op) = 0 THEN Rings!ahead(n, pc, K - 1) ELSE Rings!ahead(n, op, 1), pc>>
    BY <1>3 DEF Rings!getNextConn
  <2>2. (IF Rings!toEdge(n, op) = 0 THEN Rings!ahead(n, pc, K - 1) ELSE Rings!ahead(n, op, 1)) = r
    BY <1>1, <1>2, <1>3, <1>5, <1>7 DEF Rings!toEdge, Rings!ahead, op, Rings!opposite, Up, Down
  <2> QED
    BY <2>1, <2>2
<1> QED
  BY <1>4, <1>7, <1>8 DEF n, x, y, op

-----------------------------------------------------------------------------
\* The upper class of isOutVCDeadlockFree.
RingHigh(vc) == vc >= NumVC \div 2

\* The shorter way between two places of a ring, as getMinHopCount has it.
Ring(a, b) == IF Rings!Abs(b - a) <= K - Rings!Abs(b - a) THEN Rings!Abs(b - a) ELSE K - Rings!Abs(b - a)

\* Which way selectOutPC goes around: the shorter, and on a tie not over the
\* wrap-around link.
GoUp(a, d) == IF a <= d THEN (d - a) * 2 <= K ELSE (a - d) * 2 > K
GoDown(a, d) == IF d <= a THEN (a - d) * 2 <= K ELSE (d - a) * 2 > K

\* Whether a packet on its way up (down) that stands at a holds a high VC: the
\* class was chosen one place before.
UpHigh(a, d) == a # 0 /\ a <= d
DownHigh(a, d) == a = K - 1 \/ a < d

\* A step up brings the packet nearer, the way up remains the shorter one, and
\* the class selected for the step is the one UpHigh expects.
LEMMA UpStep ==
  ASSUME RingsOK, NEW a \in 0 .. K - 1, NEW d \in 0 .. K - 1, a # d, GoUp(a, d)
  PROVE  /\ Up(a) \in 0 .. K - 1
         /\ GoUp(Up(a), d)
         /\ Ring(Up(a), d) = Ring(a, d) - 1
         /\ a < d <=> UpHigh(Up(a), d)
BY DEF RingsOK, GoUp, Up, Ring, Rings!Abs, UpHigh

\* The same downwards.
LEMMA DownStep ==
  ASSUME RingsOK, NEW a \in 0 .. K - 1, NEW d \in 0 .. K - 1, a # d, GoDown(a, d)
  PROVE  /\ Down(a) \in 0 .. K - 1
         /\ GoDown(Down(a), d)
         /\ Ring(Down(a), d) = Ring(a, d) - 1
         /\ a < d <=> DownHigh(Down(a), d)
BY DEF RingsOK, GoDown, Down, Ring, Rings!Abs, DownHigh

\* ChannelRank along a ring.
UpRank(a, vc) == IF RingHigh(vc) THEN K + a ELSE IF a = 0 THEN K ELSE a
DownRank(a, vc) ==
  IF RingHigh(vc) THEN IF a = K - 1 THEN K ELSE K - 1 - a ELSE K + (K - 1 - a)

\* The rank grows with every step, over the wrap-around link as well, since the
\* class changes there.
LEMMA UpClimbs ==
  ASSUME RingsOK, NEW a \in 0 .. K - 1, NEW d \in 0 .. K - 1, a # d, NEW i, NEW j,
         RingHigh(i) <=> UpHigh(a, d), RingHigh(j) <=> a < d
  PROVE  UpRank(Up(a), j) > UpRank(a, i)
<1> DEFINE b == Up(a)
<1>1. b = IF a = K - 1 THEN 0 ELSE a + 1
  BY DEF Up
<1> HIDE DEF b
<1>2. UpRank(b, j) > UpRank(a, i)
  BY <1>1 DEF RingsOK, UpHigh, UpRank
<1> QED
  BY <1>2 DEF b

\* The same downwards.
LEMMA DownClimbs ==
  ASSUME RingsOK, NEW a \in 0 .. K - 1, NEW d \in 0 .. K - 1, a # d, NEW i, NEW j,
         RingHigh(i) <=> DownHigh(a, d), RingHigh(j) <=> a < d
  PROVE  DownRank(Down(a), j) > DownRank(a, i)
<1> DEFINE b == Down(a)
<1>1. b = IF a = 0 THEN K - 1 ELSE a - 1
  BY DEF Down
<1> HIDE DEF b
<1>2. DownRank(b, j) > DownRank(a, i)
  BY <1>1 DEF RingsOK, DownHigh, DownRank
<1> QED
  BY <1>2 DEF b

\* The columns' ranks begin above those of the rows.
LEMMA RankBounds ==
  ASSUME RingsOK, NEW a \in 0 .. K - 1, NEW i
  PROVE  UpRank(a, i) \in 0 .. 2 * K - 1 /\ DownRank(a, i) \in 0 .. 2 * K - 1
BY DEF RingsOK, UpRank, DownRank

-----------------------------------------------------------------------------
\* What selectOutPC may return, and where the packet must be for that.
RingDirected(r, d, pc) ==
  \/ pc = 4 /\ r = d
  \/ pc = Rings!DIR_WEST  /\ Rings!x_coord(r) # Rings!x_coord(d) /\ GoDown(Rings!x_coord(r), Rings!x_coord(d))
  \/ pc = Rings!DIR_EAST  /\ Rings!x_coord(r) # Rings!x_coord(d) /\ GoUp(Rings!x_coord(r), Rings!x_coord(d))
  \/ /\ pc = Rings!DIR_NORTH /\ Rings!y_coord(r) # Rings!y_coord(d) /\ GoDown(Rings!y_coord(r), Rings!y_coord(d))
     /\ Rings!x_coord(r) = Rings!x_coord(d)
  \/ /\ pc = Rings!DIR_SOUTH /\ Rings!y_coord(r) # Rings!y_coord(d) /\ GoUp(Rings!y_coord(r), Rings!y_coord(d))
     /\ Rings!x_coord(r) = Rings!x_coord(d)

\* It returns nothing else.
LEMMA RingSelected ==
  ASSUME RingsOK, NEW r \in Rings!Router, NEW f, f.dst \in Rings!Router, f.pos = 0,
         NEW pc \in Rings!selectOutPC(r, f)
  PROVE  RingDirected(r, f.dst, pc)
<1> DEFINE x == Rings!x_coord(r)
           y == Rings!y_coord(r)
           dx == Rings!x_coord(f.dst)
           dy == Rings!y_coord(f.dst)
<1> USE DEF Rings!DIR_WEST, Rings!DIR_EAST, Rings!DIR_NORTH, Rings!DIR_SOUTH
<1>1. x \in Int /\ y \in Int /\ dx \in Int /\ dy \in Int /\ K \in Int
  BY RingCoordinates DEF RingsOK
<1>2. x = dx /\ y = dy => r = f.dst
  BY RingCoordinates
<1>3. CASE r = f.dst
  BY <1>3 DEF Rings!selectOutPC, Rings!num_internal_pc, RingDirected
<1>4. CASE r # f.dst /\ x # dx
  <2>1. Rings!xTowards(r, f.dst) = IF dx > x THEN {Rings!DIR_EAST} ELSE {Rings!DIR_WEST}
    BY <1>1, <1>4 DEF Rings!xTowards
  <2>2. pc \in Rings!shorterWay(Rings!xTowards(r, f.dst), dx - x)
    BY <1>4, <2>1 DEF Rings!selectOutPC
  <2> HIDE DEF x, y, dx, dy
  <2>3. \/ pc = Rings!DIR_WEST /\ GoDown(x, dx)
        \/ pc = Rings!DIR_EAST /\ GoUp(x, dx)
    BY <1>1, <1>4, <2>1, <2>2 DEF Rings!shorterWay, Rings!opposite, Rings!Abs, GoUp, GoDown
  <2> QED
    BY <1>4, <2>3 DEF RingDirected, x, dx
<1>5. CASE r # f.dst /\ x = dx
  <2>1. y # dy
    BY <1>2, <1>5
  <2>2. /\ Rings!xTowards(r, f.dst) = {}
        /\ Rings!yTowards(r, f.dst) = IF dy > y THEN {Rings!DIR_SOUTH} ELSE {Rings!DIR_NORTH}
    BY <1>1, <1>5, <2>1 DEF Rings!xTowards, Rings!yTowards
  <2>3. pc \in Rings!shorterWay(Rings!yTowards(r, f.dst), dy - y)
    BY <1>5, <2>2 DEF Rings!selectOutPC
  <2> HIDE DEF x, y, dx, dy
  <2>4. \/ pc = Rings!DIR_NORTH /\ GoDown(y, dy)
        \/ pc = Rings!DIR_SOUTH /\ GoUp(y, dy)
    BY <1>1, <2>1, <2>2, <2>3 DEF Rings!shorterWay, Rings!opposite, Rings!Abs, GoUp, GoDown
  <2> QED
    BY <1>5, <2>1, <2>4 DEF RingDirected, x, y, dx, dy
<1> QED
  BY <1>3, <1>4, <1>5

-----------------------------------------------------------------------------
\* The types.
RingPlaces ==
  /\ RingsOK
  /\ flit \in [to : Rings!Router, src : Rings!Router, dst : Rings!Router, pos : {0}, up : BOOLEAN]
  /\ flit.to = flit.dst
  /\ cur \in Rings!Router
  /\ in_pc \in 0 .. 4
  /\ in_vc \in Rings!VC
  /\ out_pc \in -1 .. 4
  /\ hops \in Int
  /\ core \in -1 .. Rings!NumCore - 1

\* A port is only set while the packet is under way, and is one selectOutPC gave.
RingChosen == out_pc # Rings!INVALID => core = Rings!INVALID /\ RingDirected(cur, flit.dst, out_pc)

\* The packet is handed to its core, by the router of the core.
RingHanded == core # Rings!INVALID => core = flit.to /\ cur = flit.dst

\* The routers passed and the links to go add up.
Links(r, s) == Ring(Rings!x_coord(r), Rings!x_coord(s)) + Ring(Rings!y_coord(r), Rings!y_coord(s))

RingCounted ==
  hops + Links(cur, flit.dst)
    = Links(flit.src, flit.dst) + IF out_pc = Rings!INVALID /\ core = Rings!INVALID THEN 0 ELSE 1

\* A packet that came over a link goes on in its direction, and holds a VC of
\* the class for it; along y only in the column of its destination.
Arriving(ipc, ivc, r, d) ==
  /\ ipc = Rings!DIR_WEST => /\ GoUp(Rings!x_coord(r), Rings!x_coord(d))
                             /\ RingHigh(ivc) <=> UpHigh(Rings!x_coord(r), Rings!x_coord(d))
  /\ ipc = Rings!DIR_EAST => /\ GoDown(Rings!x_coord(r), Rings!x_coord(d))
                             /\ RingHigh(ivc) <=> DownHigh(Rings!x_coord(r), Rings!x_coord(d))
  /\ ipc = Rings!DIR_NORTH => /\ Rings!x_coord(r) = Rings!x_coord(d)
                              /\ GoUp(Rings!y_coord(r), Rings!y_coord(d))
                              /\ RingHigh(ivc) <=> UpHigh(Rings!y_coord(r), Rings!y_coord(d))
  /\ ipc = Rings!DIR_SOUTH => /\ Rings!x_coord(r) = Rings!x_coord(d)
                              /\ GoDown(Rings!y_coord(r), Rings!y_coord(d))
                              /\ RingHigh(ivc) <=> DownHigh(Rings!y_coord(r), Rings!y_coord(d))

RingHeading == Arriving(in_pc, in_vc, cur, flit.dst)

\* The inductive invariant.
RingIInv == RingPlaces /\ RingChosen /\ RingHanded /\ RingCounted /\ RingHeading

\* getMinHopCount counts the links of a shortest way, and one.
LEMMA LinksCount ==
  ASSUME RingsOK, NEW r \in Rings!Router, NEW s \in Rings!Router
  PROVE  /\ Links(r, s) \in Nat
         /\ Links(r, r) = 0
         /\ Rings!getMinHopCount(r, s) = Links(r, s) + 1
<1>1. \A a, b \in 0 .. K - 1 : Ring(a, b) \in Nat /\ Ring(a, a) = 0
  BY DEF Ring, Rings!Abs, RingsOK
<1>2. Rings!getMinHopCount(r, s) = Links(r, s) + 1
  BY DEF Rings!getMinHopCount, Links, Ring
<1> QED
  BY <1>1, <1>2, RingCoordinates DEF Links

\* The invariant holds when a core hands over a packet.
LEMMA RingStart == RingsOK /\ Rings!Init => RingIInv
<1> SUFFICES ASSUME RingsOK, Rings!Init PROVE RingIInv
  OBVIOUS
<1>1. PICK from \in Rings!Core, to \in Rings!Core :
        /\ flit = [to |-> to, src |-> Rings!core2router(from)[1],
                   dst |-> Rings!core2router(to)[1], pos |-> Rings!core2router(to)[2], up |-> TRUE]
        /\ in_pc = Rings!num_internal_pc(Rings!core2router(from)[1]) + Rings!core2router(from)[2]
  BY DEF Rings!Init
<1>2. flit = [to |-> to, src |-> from, dst |-> to, pos |-> 0, up |-> TRUE] /\ in_pc = 4
  BY <1>1 DEF Rings!core2router, Rings!num_internal_pc
<1>3. from \in Rings!Router /\ to \in Rings!Router /\ cur = from
  BY <1>2 DEF Rings!Init, Rings!Core, Rings!NumCore, Rings!Router, Rings!NumRouter
<1>4. RingPlaces
  BY <1>2, <1>3 DEF Rings!Init, RingPlaces, Rings!INVALID, RingsOK, Rings!NumCore
<1>5. RingChosen /\ RingHanded
  BY DEF Rings!Init, RingChosen, RingHanded
<1>6. RingCounted
  BY <1>2, <1>3, LinksCount DEF Rings!Init, RingCounted, Rings!INVALID
<1>7. RingHeading
  BY <1>2 DEF RingHeading, Arriving, Rings!DIR_WEST, Rings!DIR_EAST, Rings!DIR_NORTH, Rings!DIR_SOUTH
<1> QED
  BY <1>4, <1>5, <1>6, <1>7 DEF RingIInv

\* StageVA goes over the link selectOutPC chose.
LEMMA RingLink ==
  ASSUME RingIInv, Rings!StageVA
  PROVE  /\ out_pc \in 0 .. 3
         /\ cur' = Rings!getNextConn(cur, out_pc)[1]
         /\ cur' \in Rings!Router
         /\ in_pc' = Rings!opposite(out_pc)
         /\ RingDirected(cur, flit.dst, out_pc)
<1>1. out_pc \in 0 .. 3 /\ RingDirected(cur, flit.dst, out_pc)
  BY DEF RingIInv, RingPlaces, RingChosen, RingDirected, Rings!StageVA, Rings!isEjectChannel,
       Rings!num_internal_pc, Rings!INVALID
<1>2. /\ Rings!getNextConn(cur, out_pc)[1] \in Rings!Router
      /\ Rings!getNextConn(cur, out_pc)[2] = Rings!opposite(out_pc)
  BY <1>1, RingNeighbour DEF RingIInv, RingPlaces
<1> QED
  BY <1>1, <1>2 DEF Rings!StageVA

\* One step over a link: where it leads, how near it brings the packet, and how
\* the buffers rank.
LEMMA Step ==
  ASSUME RingIInv, Rings!StageVA
  PROVE  /\ Arriving(in_pc', in_vc', cur', flit.dst)
         /\ Links(cur', flit.dst) = Links(cur, flit.dst) - 1
         /\ Rings!Ascends
<1> DEFINE x == Rings!x_coord(cur)
           y == Rings!y_coord(cur)
           nx == Rings!x_coord(cur')
           ny == Rings!y_coord(cur')
           dx == Rings!x_coord(flit.dst)
           dy == Rings!y_coord(flit.dst)
<1> USE DEF Rings!DIR_WEST, Rings!DIR_EAST, Rings!DIR_NORTH, Rings!DIR_SOUTH
<1>1. /\ x \in 0 .. K - 1 /\ y \in 0 .. K - 1 /\ nx \in 0 .. K - 1 /\ ny \in 0 .. K - 1
      /\ dx \in 0 .. K - 1 /\ dy \in 0 .. K - 1
      /\ in_pc \in 0 .. 4 /\ RingsOK
  BY RingCoordinates, RingLink DEF RingIInv, RingPlaces
<1>2. \/ /\ out_pc = Rings!DIR_WEST /\ in_pc' = Rings!DIR_EAST /\ nx = Down(x) /\ ny = y
         /\ x # dx /\ GoDown(x, dx)
      \/ /\ out_pc = Rings!DIR_EAST /\ in_pc' = Rings!DIR_WEST /\ nx = Up(x) /\ ny = y
         /\ x # dx /\ GoUp(x, dx)
      \/ /\ out_pc = Rings!DIR_NORTH /\ in_pc' = Rings!DIR_SOUTH /\ nx = x /\ ny = Down(y)
         /\ x = dx /\ y # dy /\ GoDown(y, dy)
      \/ /\ out_pc = Rings!DIR_SOUTH /\ in_pc' = Rings!DIR_NORTH /\ nx = x /\ ny = Up(y)
         /\ x = dx /\ y # dy /\ GoUp(y, dy)
  <2>1. /\ out_pc = Rings!DIR_WEST  => in_pc' = Rings!DIR_EAST /\ nx = Down(x) /\ ny = y
        /\ out_pc = Rings!DIR_EAST  => in_pc' = Rings!DIR_WEST /\ nx = Up(x) /\ ny = y
        /\ out_pc = Rings!DIR_NORTH => in_pc' = Rings!DIR_SOUTH /\ nx = x /\ ny = Down(y)
        /\ out_pc = Rings!DIR_SOUTH => in_pc' = Rings!DIR_NORTH /\ nx = x /\ ny = Up(y)
    <3> DEFINE n == Rings!getNextConn(cur, out_pc)[1]
    <3>1. cur' = n /\ in_pc' = Rings!opposite(out_pc) /\ out_pc \in 0 .. 3
      BY RingLink
    <3>2. /\ out_pc = Rings!DIR_WEST  => Rings!x_coord(n) = Down(x) /\ Rings!y_coord(n) = y
          /\ out_pc = Rings!DIR_EAST  => Rings!x_coord(n) = Up(x) /\ Rings!y_coord(n) = y
          /\ out_pc = Rings!DIR_NORTH => Rings!x_coord(n) = x /\ Rings!y_coord(n) = Down(y)
          /\ out_pc = Rings!DIR_SOUTH => Rings!x_coord(n) = x /\ Rings!y_coord(n) = Up(y)
      BY <1>1, <3>1, RingNeighbour DEF RingIInv, RingPlaces
    <3> HIDE DEF n
    <3> QED
      BY <3>1, <3>2 DEF Rings!opposite
  <2> HIDE DEF x, y, nx, ny, dx, dy
  <2>2. \/ out_pc = Rings!DIR_WEST /\ x # dx /\ GoDown(x, dx)
        \/ out_pc = Rings!DIR_EAST /\ x # dx /\ GoUp(x, dx)
        \/ out_pc = Rings!DIR_NORTH /\ x = dx /\ y # dy /\ GoDown(y, dy)
        \/ out_pc = Rings!DIR_SOUTH /\ x = dx /\ y # dy /\ GoUp(y, dy)
    BY RingLink DEF RingDirected, x, y, dx, dy
  <2> QED
    BY <2>1, <2>2
<1>3. Rings!isOutVCDeadlockFree(in_vc', in_pc, in_vc, out_pc, cur, flit)
  BY DEF Rings!StageVA, Rings!UsableVCs
<1>4. /\ x # dx => (RingHigh(in_vc') <=> x < dx)
      /\ x = dx /\ y # dy => (RingHigh(in_vc') <=> y < dy)
  BY <1>3, Zenon DEF Rings!isOutVCDeadlockFree, RingHigh
<1>5. /\ in_pc = Rings!DIR_WEST => GoUp(x, dx) /\ (RingHigh(in_vc) <=> UpHigh(x, dx))
      /\ in_pc = Rings!DIR_EAST => GoDown(x, dx) /\ (RingHigh(in_vc) <=> DownHigh(x, dx))
      /\ in_pc = Rings!DIR_NORTH => x = dx /\ GoUp(y, dy) /\ (RingHigh(in_vc) <=> UpHigh(y, dy))
      /\ in_pc = Rings!DIR_SOUTH => x = dx /\ GoDown(y, dy) /\ (RingHigh(in_vc) <=> DownHigh(y, dy))
  BY DEF RingIInv, RingHeading, Arriving
<1>6. /\ Links(cur', flit.dst) = Ring(nx, dx) + Ring(ny, dy)
      /\ Links(cur, flit.dst) = Ring(x, dx) + Ring(y, dy)
  BY DEF Links
<1>7. \A a, b \in 0 .. K - 1 : Ring(a, b) \in Int
  BY <1>1 DEF Ring, Rings!Abs, RingsOK
<1> DEFINE rank == Rings!ChannelRank(cur, in_pc, in_vc)
           nrank == Rings!ChannelRank(cur', in_pc', in_vc')
<1>8. /\ in_pc = 4 => rank = -1
      /\ in_pc = Rings!DIR_WEST => rank = UpRank(x, in_vc)
      /\ in_pc = Rings!DIR_EAST => rank = DownRank(x, in_vc)
      /\ in_pc = Rings!DIR_NORTH => rank = 2 * K + UpRank(y, in_vc)
      /\ in_pc = Rings!DIR_SOUTH => rank = 2 * K + DownRank(y, in_vc)
  BY DEF Rings!ChannelRank, Rings!Around, UpRank, DownRank, RingHigh, Rings!num_internal_pc
<1>9. /\ in_pc' = Rings!DIR_WEST => nrank = UpRank(nx, in_vc')
      /\ in_pc' = Rings!DIR_EAST => nrank = DownRank(nx, in_vc')
      /\ in_pc' = Rings!DIR_NORTH => nrank = 2 * K + UpRank(ny, in_vc')
      /\ in_pc' = Rings!DIR_SOUTH => nrank = 2 * K + DownRank(ny, in_vc')
  BY DEF Rings!ChannelRank, Rings!Around, UpRank, DownRank, RingHigh, Rings!num_internal_pc
<1>10. /\ UpRank(x, in_vc) \in 0 .. 2 * K - 1 /\ DownRank(x, in_vc) \in 0 .. 2 * K - 1
       /\ UpRank(y, in_vc) \in 0 .. 2 * K - 1 /\ DownRank(y, in_vc) \in 0 .. 2 * K - 1
       /\ UpRank(nx, in_vc') \in 0 .. 2 * K - 1 /\ DownRank(nx, in_vc') \in 0 .. 2 * K - 1
       /\ UpRank(ny, in_vc') \in 0 .. 2 * K - 1 /\ DownRank(ny, in_vc') \in 0 .. 2 * K - 1
  BY <1>1, RankBounds
<1>11. K \in Nat /\ K > 0
  BY <1>1 DEF RingsOK
<1> DEFINE arriving ==
             /\ in_pc' = Rings!DIR_WEST => GoUp(nx, dx) /\ (RingHigh(in_vc') <=> UpHigh(nx, dx))
             /\ in_pc' = Rings!DIR_EAST => GoDown(nx, dx) /\ (RingHigh(in_vc') <=> DownHigh(nx, dx))
             /\ in_pc' = Rings!DIR_NORTH => nx = dx /\ GoUp(ny, dy) /\ (RingHigh(in_vc') <=> UpHigh(ny, dy))
             /\ in_pc' = Rings!DIR_SOUTH => nx = dx /\ GoDown(ny, dy) /\ (RingHigh(in_vc') <=> DownHigh(ny, dy))
<1>12. arriving => Arriving(in_pc', in_vc', cur', flit.dst)
  BY DEF Arriving
<1>13. nrank > rank => Rings!Ascends
  BY DEF Rings!Ascends
<1> HIDE DEF x, y, nx, ny, dx, dy, rank, nrank
<1> SUFFICES arriving /\ Links(cur', flit.dst) = Links(cur, flit.dst) - 1 /\ nrank > rank
  BY <1>12, <1>13
<1>14. CASE out_pc = Rings!DIR_WEST
  <2>1. /\ GoDown(nx, dx)
        /\ Ring(nx, dx) = Ring(x, dx) - 1
        /\ x < dx <=> DownHigh(nx, dx)
    BY <1>1, <1>2, <1>14, DownStep
  <2>2. arriving /\ Links(cur', flit.dst) = Links(cur, flit.dst) - 1
    BY <1>1, <1>2, <1>4, <1>6, <1>7, <1>14, <2>1
  <2>3. CASE in_pc = Rings!DIR_EAST
    <3>1. DownRank(nx, in_vc') > DownRank(x, in_vc)
      BY <1>1, <1>2, <1>4, <1>5, <1>14, <2>3, DownClimbs
    <3> QED
      BY <1>2, <1>8, <1>9, <1>10, <1>11, <1>14, <2>2, <2>3, <3>1
  <2>4. CASE in_pc # Rings!DIR_EAST
    <3>1. in_pc # Rings!DIR_WEST
      BY <1>1, <1>2, <1>5, <1>11, <1>14, <2>4 DEF GoUp, GoDown
    <3> QED
      BY <1>1, <1>2, <1>5, <1>8, <1>9, <1>10, <1>11, <1>14, <2>2, <2>4, <3>1
  <2> QED
    BY <2>3, <2>4
<1>15. CASE out_pc = Rings!DIR_EAST
  <2>1. /\ GoUp(nx, dx)
        /\ Ring(nx, dx) = Ring(x, dx) - 1
        /\ x < dx <=> UpHigh(nx, dx)
    BY <1>1, <1>2, <1>15, UpStep
  <2>2. arriving /\ Links(cur', flit.dst) = Links(cur, flit.dst) - 1
    BY <1>1, <1>2, <1>4, <1>6, <1>7, <1>15, <2>1
  <2>3. CASE in_pc = Rings!DIR_WEST
    <3>1. UpRank(nx, in_vc') > UpRank(x, in_vc)
      BY <1>1, <1>2, <1>4, <1>5, <1>15, <2>3, UpClimbs
    <3> QED
      BY <1>2, <1>8, <1>9, <1>10, <1>11, <1>15, <2>2, <2>3, <3>1
  <2>4. CASE in_pc # Rings!DIR_WEST
    <3>1. in_pc # Rings!DIR_EAST
      BY <1>1, <1>2, <1>5, <1>11, <1>15, <2>4 DEF GoUp, GoDown
    <3> QED
      BY <1>1, <1>2, <1>5, <1>8, <1>9, <1>10, <1>11, <1>15, <2>2, <2>4, <3>1
  <2> QED
    BY <2>3, <2>4
<1>16. CASE out_pc = Rings!DIR_NORTH
  <2>1. /\ GoDown(ny, dy)
        /\ Ring(ny, dy) = Ring(y, dy) - 1
        /\ y < dy <=> DownHigh(ny, dy)
    BY <1>1, <1>2, <1>16, DownStep
  <2>2. arriving /\ Links(cur', flit.dst) = Links(cur, flit.dst) - 1
    BY <1>1, <1>2, <1>4, <1>6, <1>7, <1>16, <2>1
  <2>3. CASE in_pc = Rings!DIR_SOUTH
    <3>1. DownRank(ny, in_vc') > DownRank(y, in_vc)
      BY <1>1, <1>2, <1>4, <1>5, <1>16, <2>3, DownClimbs
    <3> QED
      BY <1>2, <1>8, <1>9, <1>10, <1>11, <1>16, <2>2, <2>3, <3>1
  <2>4. CASE in_pc # Rings!DIR_SOUTH
    <3>1. in_pc # Rings!DIR_NORTH
      BY <1>1, <1>2, <1>5, <1>11, <1>16, <2>4 DEF GoUp, GoDown
    <3> QED
      BY <1>1, <1>2, <1>5, <1>8, <1>9, <1>10, <1>11, <1>16, <2>2, <2>4, <3>1
  <2> QED
    BY <2>3, <2>4
<1>17. CASE out_pc = Rings!DIR_SOUTH
  <2>1. /\ GoUp(ny, dy)
        /\ Ring(ny, dy) = Ring(y, dy) - 1
        /\ y < dy <=> UpHigh(ny, dy)
    BY <1>1, <1>2, <1>17, UpStep
  <2>2. arriving /\ Links(cur', flit.dst) = Links(cur, flit.dst) - 1
    BY <1>1, <1>2, <1>4, <1>6, <1>7, <1>17, <2>1
  <2>3. CASE in_pc = Rings!DIR_NORTH
    <3>1. UpRank(ny, in_vc') > UpRank(y, in_vc)
      BY <1>1, <1>2, <1>4, <1>5, <1>17, <2>3, UpClimbs
    <3> QED
      BY <1>2, <1>8, <1>9, <1>10, <1>11, <1>17, <2>2, <2>3, <3>1
  <2>4. CASE in_pc # Rings!DIR_NORTH
    <3>1. in_pc # Rings!DIR_SOUTH
      BY <1>1, <1>2, <1>5, <1>11, <1>17, <2>4 DEF GoUp, GoDown
    <3> QED
      BY <1>1, <1>2, <1>5, <1>8, <1>9, <1>10, <1>11, <1>17, <2>2, <2>4, <3>1
  <2> QED
    BY <2>3, <2>4
<1> QED
  BY <1>2, <1>14, <1>15, <1>16, <1>17

\* StageVA, over a link, keeps the invariant:
LEMMA RingOnward == RingIInv /\ Rings!StageVA => RingIInv'
<1> SUFFICES ASSUME RingIInv, Rings!StageVA PROVE RingIInv'
  OBVIOUS
<1>1. UNCHANGED <<flit, hops, core>> /\ out_pc' = Rings!INVALID /\ out_pc # Rings!INVALID
  BY DEF Rings!StageVA
<1>2. cur' \in Rings!Router /\ in_pc' \in 0 .. 3 /\ in_vc' \in Rings!VC
  BY RingLink DEF Rings!StageVA, Rings!UsableVCs, Rings!opposite, Rings!DIR_WEST, Rings!DIR_EAST,
       Rings!DIR_NORTH, Rings!DIR_SOUTH
<1>3. RingPlaces'
  BY <1>1, <1>2 DEF RingIInv, RingPlaces, Rings!INVALID, RingsOK
<1>4. RingChosen' /\ RingHanded'
  BY <1>1 DEF RingIInv, RingChosen, RingHanded, Rings!INVALID
<1>5. Links(cur', flit.dst) = Links(cur, flit.dst) - 1
  BY Step
<1>6. /\ Links(cur, flit.dst) \in Int /\ Links(flit.src, flit.dst) \in Int
      /\ hops \in Int
  BY LinksCount DEF RingIInv, RingPlaces
<1>7. hops + Links(cur, flit.dst) = Links(flit.src, flit.dst) + 1
  BY <1>1 DEF RingIInv, RingCounted
<1>8. hops + Links(cur', flit.dst) = Links(flit.src, flit.dst)
  BY <1>5, <1>6, <1>7
<1>9. RingCounted'
  BY <1>1, <1>6, <1>8 DEF RingIInv, RingChosen, RingCounted, Links
<1>10. RingHeading'
  BY <1>1, Step DEF RingHeading
<1> QED
  BY <1>3, <1>4, <1>9, <1>10 DEF RingIInv

\* so does StageRC, the choice of a port,
LEMMA RingRouted == RingIInv /\ Rings!StageRC => RingIInv'
<1> SUFFICES ASSUME RingIInv, Rings!StageRC PROVE RingIInv'
  OBVIOUS
<1>1. /\ UNCHANGED <<flit, cur, in_pc, in_vc, core>>
      /\ out_pc = Rings!INVALID /\ core = Rings!INVALID /\ hops' = hops + 1
      /\ out_pc' \in Rings!selectOutPC(cur, flit)
  BY DEF Rings!StageRC, Rings!steer
<1>2. RingDirected(cur, flit.dst, out_pc')
  BY <1>1, RingSelected DEF RingIInv, RingPlaces
<1>3. out_pc' \in 0 .. 4
  BY <1>2 DEF RingDirected, Rings!DIR_WEST, Rings!DIR_EAST, Rings!DIR_NORTH, Rings!DIR_SOUTH
<1>4. RingPlaces' /\ RingHanded'
  BY <1>1, <1>3 DEF RingIInv, RingPlaces, RingHanded, Rings!INVALID, RingsOK
<1>5. RingChosen'
  BY <1>1, <1>2 DEF RingChosen, RingDirected
<1>6. Links(cur, flit.dst) \in Int /\ Links(flit.src, flit.dst) \in Int
  BY LinksCount DEF RingIInv, RingPlaces
<1>7. RingCounted'
  BY <1>1, <1>3, <1>6 DEF RingIInv, RingPlaces, RingCounted, Rings!INVALID, Links
<1>8. RingHeading'
  BY <1>1 DEF RingIInv, RingHeading
<1> QED
  BY <1>4, <1>5, <1>7, <1>8 DEF RingIInv

\* and StageST, out of the network.
LEMMA RingEjected == RingIInv /\ Rings!StageST => RingIInv'
<1> SUFFICES ASSUME RingIInv, Rings!StageST PROVE RingIInv'
  OBVIOUS
<1>1. /\ UNCHANGED <<flit, cur, in_pc, in_vc, hops>>
      /\ out_pc # Rings!INVALID /\ out_pc >= 4 /\ out_pc' = Rings!INVALID
      /\ core' = cur
  BY DEF Rings!StageST, Rings!isEjectChannel, Rings!num_internal_pc, Rings!router2core
<1>2. cur = flit.dst /\ core = Rings!INVALID
  BY <1>1 DEF RingIInv, RingPlaces, RingChosen, RingDirected, Rings!DIR_WEST, Rings!DIR_EAST,
       Rings!DIR_NORTH, Rings!DIR_SOUTH
<1>3. core' \in 0 .. Rings!NumCore - 1
  BY <1>1 DEF RingIInv, RingPlaces, Rings!Router, Rings!NumRouter, Rings!NumCore
<1>4. RingPlaces'
  BY <1>1, <1>3 DEF RingIInv, RingPlaces, RingsOK, Rings!INVALID, Rings!NumCore
<1>5. RingChosen' /\ RingHanded'
  BY <1>1, <1>2 DEF RingIInv, RingPlaces, RingChosen, RingHanded, Rings!INVALID
<1>6. RingCounted'
  BY <1>1, <1>2, <1>3 DEF RingIInv, RingPlaces, RingCounted, Rings!INVALID, Links
<1>7. RingHeading'
  BY <1>1 DEF RingIInv, RingHeading
<1> QED
  BY <1>4, <1>5, <1>6, <1>7 DEF RingIInv

\* So it holds always.
LEMMA RingInductive == RingsOK /\ Rings!Spec => []RingIInv
<1>1. RingsOK /\ Rings!Init => RingIInv
  BY RingStart
<1>2. RingIInv /\ [Rings!Next]_Rings!vars => RingIInv'
  <2> SUFFICES ASSUME RingIInv, [Rings!Next]_Rings!vars PROVE RingIInv'
    OBVIOUS
  <2>1. CASE UNCHANGED Rings!vars
    BY <2>1 DEF Rings!vars, RingIInv, RingPlaces, RingChosen, RingHanded, RingCounted, Links,
         RingHeading, Arriving, RingHigh, RingsOK, RingDirected
  <2>2. CASE Rings!StageRC
    BY <2>2, RingRouted
  <2>3. CASE Rings!StageVA
    BY <2>3, RingOnward
  <2>4. CASE Rings!StageST
    BY <2>4, RingEjected
  <2> QED
    BY <2>1, <2>2, <2>3, <2>4 DEF Rings!Next, Rings!Arrived
<1> QED
  BY <1>1, <1>2, PTL DEF Rings!Spec

-----------------------------------------------------------------------------
\* stageRC counts as many hops for a packet as getMinHopCount says, and the
\* packet comes out at the core it was sent to.
THEOREM TorusMinimal == RingsOK /\ Rings!Spec => []Rings!Minimal
<1>1. RingIInv => Rings!Minimal
  <2> SUFFICES ASSUME RingIInv PROVE Rings!Minimal
    OBVIOUS
  <2>1. /\ Links(cur, flit.dst) \in Nat /\ Links(flit.src, flit.dst) \in Nat
        /\ core # Rings!INVALID => Links(cur, flit.dst) = 0
        /\ Rings!getMinHopCount(flit.src, flit.dst) = Links(flit.src, flit.dst) + 1
    BY LinksCount DEF RingIInv, RingPlaces, RingHanded
  <2> QED
    BY <2>1 DEF RingIInv, RingPlaces, RingHanded, RingCounted, Rings!Minimal
<1> QED
  BY <1>1, RingInductive, PTL

\* The credits of stageST go back along getPrevConn to the port that counts
\* them, over the wrap-around links as well.
THEOREM TorusCreditsReturn == RingsOK /\ Rings!Spec => []Rings!CreditsReturn
<1>1. RingIInv => Rings!CreditsReturn
  <2> SUFFICES ASSUME RingIInv, out_pc # Rings!INVALID, ~ Rings!isEjectChannel(cur, out_pc)
               PROVE  LET next == Rings!getNextConn(cur, out_pc)
                      IN  /\ Rings!m_valid(cur, out_pc)
                          /\ next[1] \in Rings!Router
                          /\ Rings!getPrevConn(next[1], next[2]) = <<cur, out_pc>>
    BY DEF Rings!CreditsReturn
  <2>1. out_pc \in 0 .. 3
    BY DEF RingIInv, RingPlaces, RingChosen, Rings!isEjectChannel, Rings!num_internal_pc, Rings!INVALID
  <2> QED
    BY <2>1, RingNeighbour DEF Rings!m_valid, Rings!getPrevConn, RingIInv, RingPlaces
<1> QED
  BY <1>1, RingInductive, PTL

\* From two VCs on, isOutVCDeadlockFree always leaves a packet a VC.
THEOREM TorusServed == RingsOK /\ NumVC >= 2 /\ Rings!Spec => []Rings!Served
<1>1. NumVC >= 2 /\ RingIInv => Rings!Served
  <2> SUFFICES ASSUME NumVC >= 2, RingIInv
               PROVE  \E vc \in Rings!VC : Rings!isOutVCDeadlockFree(vc, in_pc, in_vc, out_pc, cur, flit)
    BY DEF Rings!Served, Rings!UsableVCs
  <2>1. NumVC \in Nat /\ 0 \in Rings!VC /\ NumVC - 1 \in Rings!VC /\ ~ RingHigh(0) /\ RingHigh(NumVC - 1)
    BY DEF RingIInv, RingPlaces, RingsOK, Rings!VC, RingHigh
  <2>2. \/ Rings!isOutVCDeadlockFree(0, in_pc, in_vc, out_pc, cur, flit)
        \/ Rings!isOutVCDeadlockFree(NumVC - 1, in_pc, in_vc, out_pc, cur, flit)
    BY <2>1, Zenon DEF Rings!isOutVCDeadlockFree, RingHigh
  <2> QED
    BY <2>1, <2>2
<1>2. NumVC >= 2 => (NumVC >= 2)'
  OBVIOUS
<1> QED
  BY <1>1, <1>2, RingInductive, PTL DEF Rings!Spec

\* Deadlock freedom: packets wait for buffers of higher rank than that of the
\* one they hold, so no cycle of waiting packets can close, around a ring or
\* between rings.
THEOREM TorusChannelOrder == RingsOK /\ Rings!Spec => Rings!ChannelOrder
<1>1. RingIInv /\ [Rings!Next]_Rings!vars => [Rings!StageVA => Rings!Ascends]_Rings!vars
  BY Step
<1> QED
  BY <1>1, RingInductive, PTL DEF Rings!Spec, Rings!ChannelOrder
=============================================================================
