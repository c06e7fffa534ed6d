----------------------------- MODULE LinkValue -----------------------------
(***************************************************************************)
(* LinkPowerRepeatedValue: the energy of a link goes by the wires that     *)
(* change when a flit goes over it, and by the pairs of neighbouring wires *)
(* that change against each other.                                         *)
(***************************************************************************)
EXTENDS Integers, Sequences, FiniteSetsExt, Bitwise

CONSTANTS
  Bits,      \* the wires of a word, 64 in the code: a multiple of 4
  Flits,     \* the data of flits: sequences of g_cfg.flit_sz_64bit_multiple words
  NumFlits   \* the bound: flits that go over the link

VARIABLES
  m_link_trav_data,  \* the data of the last flit
  m_intra_trans, m_inter_trans,
  carried            \* the flits so far: a history

vars == <<m_link_trav_data, m_intra_trans, m_inter_trans, carried>>

iterated_bitcount[n \in Nat] == IF n = 0 THEN 0 ELSE (n % 2) + iterated_bitcount[n \div 2]

\* A table has the bits of the numbers of a quarter of a word.
bits_in_quarter == [n \in 0 .. 2^(Bits \div 4) - 1 |-> iterated_bitcount[n]]

compute_bitcount(n) ==
  LET quarter == 2^(Bits \div 4)
  IN  MapThenSumSet(LAMBDA k : bits_in_quarter[(n \div quarter^k) % quarter], 0 .. 3)

\* Mutant of interbits: wires that change against each other count once.
interbits_once == <<0, 1, 1, 0, 1, 0, 1, 1, 1, 1, 0, 1, 0, 1, 1, 0>>

\* For two neighbouring wires, 4 * before + after.
interbits == <<0, 1, 1, 0, 1, 0, 2, 1, 1, 2, 0, 1, 0, 1, 1, 0>>

\* The last pair is the last wire and the 0 that is shifted in.
compute_interbit_trans(x, y) ==
  MapThenSumSet(LAMBDA i : interbits[4 * ((x \div 2^i) % 4) + ((y \div 2^i) % 4) + 1], 0 .. Bits - 1)

Init ==
  /\ m_link_trav_data = [i \in DOMAIN (CHOOSE f \in Flits : TRUE) |-> 0]
  /\ m_intra_trans = 0
  /\ m_inter_trans = 0
  /\ carried = <<>>

traverse ==
  /\ Len(carried) < NumFlits
  /\ \E f \in Flits :
       LET old == m_link_trav_data
       IN  /\ m_intra_trans' = m_intra_trans
                + MapThenSumSet(LAMBDA i : compute_bitcount(old[i] ^^ f[i]), DOMAIN f)
           /\ m_inter_trans' = m_inter_trans
                + MapThenSumSet(LAMBDA i : compute_interbit_trans(old[i], f[i]), DOMAIN f)
           /\ m_link_trav_data' = f
           /\ carried' = Append(carried, f)

-----------------------------------------------------------------------------
wire(n, i) == (n \div 2^i) % 2

Size(n) == IF n < 0 THEN -n ELSE n

\* Wire by wire, over all flits so far: a transition is a wire that changes, and
\* the coupling of two neighbours is the change of the difference between them.
\* The words of a flit are not neighbours, but each has a neighbour that never
\* changes beyond its last wire.
WiresCounted ==
  LET before(k) == IF k = 1 THEN [i \in DOMAIN carried[1] |-> 0] ELSE carried[k - 1]
      change(k, i, w) == wire(carried[k][i], w) - wire(before(k)[i], w)
      all == (DOMAIN carried) \X (DOMAIN m_link_trav_data) \X (0 .. Bits - 1)
  IN  /\ m_intra_trans = Cardinality({x \in all : change(x[1], x[2], x[3]) # 0})
      /\ m_inter_trans =
           MapThenSumSet(LAMBDA x : Size(change(x[1], x[2], x[3])
                                         - (IF x[3] = Bits - 1 THEN 0 ELSE change(x[1], x[2], x[3] + 1))),
                         all)
=============================================================================
