------------------------------ MODULE SNUCAMap ------------------------------
(***************************************************************************)
(* The cores of a CMP with a static NUCA L2 cache, and their routers in a  *)
(* mesh of 8 by 8: 256 L2 banks, 8 L1 caches and 8 directories.            *)
(***************************************************************************)
EXTENDS Integers, Sequences

num_L2bank == 256
num_L1bank == 8

NUCA_L1_map == <<1, 5, 15, 47, 62, 58, 48, 16>>

NUCA_L2_map ==
  <<0, 0, 1, 1, 2, 2, 0, 0, 1, 1, 2, 2, 9, 9, 9, 9, 4, 4, 5, 5,
    6, 6, 4, 4, 5, 5, 6, 6, 13, 13, 13, 13, 7, 7, 7, 7, 14, 14, 15, 15,
    14, 14, 15, 15, 23, 23, 23, 23, 39, 39, 39, 39, 46, 46, 47, 47, 46, 46, 47, 47,
    55, 55, 55, 55, 54, 54, 54, 54, 61, 61, 62, 62, 63, 63, 61, 61, 62, 62, 63, 63,
    50, 50, 50, 50, 57, 57, 58, 58, 59, 59, 57, 57, 58, 58, 59, 59, 40, 40, 40, 40,
    48, 48, 49, 49, 48, 48, 49, 49, 56, 56, 56, 56, 8, 8, 8, 8, 16, 16, 17, 17,
    16, 16, 17, 17, 24, 24, 24, 24, 3, 3, 10, 10, 11, 10, 10, 11, 18, 18, 19, 18,
    18, 19, 27, 27, 3, 3, 11, 12, 12, 11, 12, 12, 19, 20, 20, 19, 20, 20, 27, 27,
    21, 21, 22, 22, 21, 21, 22, 22, 28, 28, 29, 29, 30, 30, 31, 31, 28, 28, 29, 29,
    30, 30, 31, 31, 37, 37, 38, 38, 37, 37, 38, 38, 36, 36, 44, 45, 45, 44, 45, 45,
    52, 53, 53, 52, 53, 53, 60, 60, 36, 36, 43, 43, 44, 43, 43, 44, 51, 51, 52, 51,
    51, 52, 60, 60, 32, 32, 33, 33, 34, 34, 35, 35, 41, 41, 42, 42, 41, 41, 42, 42,
    25, 25, 26, 26, 25, 25, 26, 26, 32, 32, 33, 33, 34, 34, 35, 35>>

NUCA_Dir_map == <<27, 28, 35, 36, 27, 28, 35, 36>>

getCoreID(type, num) ==
  CASE type = "L2Cache" -> num
    [] type = "L1Cache" -> num_L2bank + num
    [] type = "Directory" -> num_L2bank + num_L1bank + num

\* The router that a core is attached to.
attached_router(c) ==
  IF c < num_L2bank THEN NUCA_L2_map[c + 1]
  ELSE IF c < num_L2bank + num_L1bank THEN NUCA_L1_map[c - num_L2bank + 1]
  ELSE NUCA_Dir_map[c - num_L2bank - num_L1bank + 1]

\* The cores attached to a router, in the order of its NIs' ports.
m_router_external_pc_vec ==
  [r \in 0 .. 63 |-> SelectSeq([n \in 1 .. 272 |-> n - 1], LAMBDA c : attached_router(c) = r)]
=============================================================================
