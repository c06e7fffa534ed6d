-------------------------------- MODULE Grid --------------------------------
(***************************************************************************)
(* What the mesh-like topologies share: a square of routers with a core    *)
(* each, the directions of noc_def.h, and the ports of express links.      *)
(***************************************************************************)
EXTENDS Integers

CONSTANTS
  K,     \* m_num_cols and m_num_rows: the square root of core_num
  NumVC  \* router_num_vc

DIR_WEST == 0
DIR_EAST == 1
DIR_NORTH == 2
DIR_SOUTH == 3

\* INVALID_ROUTER_ID, DIR_INVALID
NoConn == <<-1, -1>>

\* Port 4 * level + direction is that of the links over level + 1 routers.
direction(pc) == pc % 4
level(pc) == pc \div 4
Port(dir, lev) == 4 * lev + dir

x_coord(r) == r % K
y_coord(r) == r \div K

opposite(dir) ==
  CASE dir = DIR_WEST -> DIR_EAST [] dir = DIR_EAST -> DIR_WEST
    [] dir = DIR_NORTH -> DIR_SOUTH [] dir = DIR_SOUTH -> DIR_NORTH

Abs(n) == IF n < 0 THEN -n ELSE n

\* The router n columns or rows further.
ahead(r, dir, n) ==
  CASE dir = DIR_WEST -> r - n [] dir = DIR_EAST -> r + n
    [] dir = DIR_NORTH -> r - n * K [] dir = DIR_SOUTH -> r + n * K

\* The routers left on the way to that edge of the grid.
toEdge(r, dir) ==
  CASE dir = DIR_WEST -> x_coord(r) [] dir = DIR_EAST -> K - 1 - x_coord(r)
    [] dir = DIR_NORTH -> y_coord(r) [] dir = DIR_SOUTH -> K - 1 - y_coord(r)

\* The direction along each axis that leads from r to s, if one does.
xTowards(r, s) ==
  IF x_coord(s) > x_coord(r) THEN {DIR_EAST}
  ELSE IF x_coord(s) < x_coord(r) THEN {DIR_WEST} ELSE {}

yTowards(r, s) ==
  IF y_coord(s) > y_coord(r) THEN {DIR_SOUTH}
  ELSE IF y_coord(s) < y_coord(r) THEN {DIR_NORTH} ELSE {}

\* Rows and columns between two routers.
Distance(r, s) == Abs(x_coord(r) - x_coord(s)) + Abs(y_coord(r) - y_coord(s))
=============================================================================
