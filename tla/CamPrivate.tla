----------------------------- MODULE CamPrivate -----------------------------
(***************************************************************************)
(* The encoder table of CAM_MT_PRIVATE_PER_ROUTER (CAMDataEnPrivate): the  *)
(* values that one router has sent to another, as a doubly linked list of  *)
(* entries and a map from values to entries.                               *)
(*                                                                         *)
(* With a single entry LRU replacement reads through m_prev of an entry    *)
(* that has none; NumSets is therefore at least 2.  The number of accesses *)
(* per entry and the hit counts only go to the statistics.                 *)
(***************************************************************************)
EXTENDS Integers, FiniteSets, SequencesExt

CONSTANTS
  Value,      \* contents of a block of cam_data_blk_byte bytes
  NoValue,    \* what an invalid entry holds
  Payload,    \* the payloads of packets: sequences of values
  NumSets,    \* cam_data_en_num_sets: 2 or more
  Policy,     \* cam_repl_policy: "LRU" or "LFU"
  Saturation  \* cam_LFU_saturation

VARIABLE cam  \* the table, with what it has answered for the last payload

Index == 0 .. NumSets - 1
NULL == -1
MISS == -1

\* In cam, datablk is the last payload, m_en_new_value_vec those of its values that
\* were new and en_sts_vec each block's entry or MISS.
Init ==
  cam = [m_value |-> [i \in Index |-> NoValue],
            m_next |-> [i \in Index |-> IF i = NumSets - 1 THEN NULL ELSE i + 1],
            m_prev |-> [i \in Index |-> IF i = 0 THEN NULL ELSE i - 1],
            m_freq |-> [i \in Index |-> 0],
            m_map |-> [v \in Value |-> NULL],
            head |-> 0, tail |-> NumSets - 1, datablk |-> <<>>,
            m_en_new_value_vec |-> <<>>, en_sts_vec |-> <<>>]

\* The entries in the order of the list.
Walk(t) ==
  LET at[k \in Index] == CASE k = 0 -> t.head
                           [] k > 0 /\ at[k - 1] = NULL -> NULL
                           [] OTHER -> t.m_next[at[k - 1]]
  IN  at

\* Mutant of Unlink: the entry behind still points at the one taken out.
UnlinkOneWay(t, i) ==
  IF i = t.tail
  THEN [t EXCEPT !.m_next[t.m_prev[i]] = NULL, !.tail = t.m_prev[i]]
  ELSE [t EXCEPT !.m_next[t.m_prev[i]] = t.m_next[i]]

\* Takes entry i out of the list, which must not be at its head.
Unlink(t, i) ==
  IF i = t.tail
  THEN [t EXCEPT !.m_next[t.m_prev[i]] = NULL, !.tail = t.m_prev[i]]
  ELSE [t EXCEPT !.m_next[t.m_prev[i]] = t.m_next[i], !.m_prev[t.m_next[i]] = t.m_prev[i]]

ToHead(t, i) ==
  IF i = t.head THEN t
  ELSE LET u == Unlink(t, i)
       IN  [u EXCEPT !.m_next[i] = u.head, !.m_prev[i] = NULL, !.m_prev[u.head] = i, !.head = i]

\* The entry that LFU replaces: the first invalid one, or else the first of
\* those that have been used least.
LeastUsed(t) ==
  LET at == Walk(t)
      Invalid == {k \in Index : t.m_value[at[k]] = NoValue}
      Least == {k \in Index : \A j \in Index : t.m_freq[at[k]] <= t.m_freq[at[j]]}
      First(S) == CHOOSE k \in S : \A j \in S : k <= j
  IN  at[First(IF Invalid # {} THEN Invalid ELSE Least)]

\* Mutant of Evict: the map still leads from the value that was there.
EvictKeepMap(t, i, v) ==
  [t EXCEPT !.m_map = [@ EXCEPT ![v] = i],
            !.m_value[i] = v, !.m_freq[i] = 1]

\* Entry i gets value v instead of the one it had.
Evict(t, i, v) ==
  [t EXCEPT !.m_map = [w \in Value |-> IF w = v THEN i ELSE IF w = t.m_value[i] THEN NULL ELSE @[w]],
            !.m_value[i] = v, !.m_freq[i] = 1]

Miss(t, v) ==
  LET i == IF Policy = "LRU" THEN t.tail ELSE LeastUsed(t)
      u == Evict(IF Policy = "LRU" THEN ToHead(t, i) ELSE t, i, v)
  IN  [u EXCEPT !.m_en_new_value_vec = IF v \in ToSet(@) THEN @ ELSE Append(@, v),
                !.en_sts_vec = Append(@, MISS)]

\* One more use of entry i; all counters are halved when one is saturated.
Used(t, i) ==
  LET u == [t EXCEPT !.m_freq[i] = @ + 1]
  IN  IF u.m_freq[i] >= Saturation
      THEN [u EXCEPT !.m_freq = [j \in Index |-> @[j] \div 2]] ELSE u

Hit(t, i) ==
  [(IF Policy = "LRU" THEN ToHead(t, i) ELSE Used(t, i)) EXCEPT !.en_sts_vec = Append(@, i)]

Access(t, v) == IF t.m_map[v] = NULL THEN Miss(t, v) ELSE Hit(t, t.m_map[v])

Compress ==
  \E p \in Payload :
    cam' = FoldLeft(Access, [cam EXCEPT !.datablk = p, !.m_en_new_value_vec = <<>>, !.en_sts_vec = <<>>], p)

Spec == Init /\ [][Compress]_cam

-----------------------------------------------------------------------------
\* However entries are moved, the links of the list, followed from the head,
\* lead over each entry once to the tail, and back the same way.
ListIntact ==
  LET at == Walk(cam)
  IN  /\ {at[k] : k \in Index} = Index
      /\ at[NumSets - 1] = cam.tail
      /\ \A k \in Index : at[k] # NULL /\ cam.m_prev[at[k]] = IF k = 0 THEN NULL ELSE at[k - 1]

\* The map leads from each value in the table to its entry and from no other
\* value: a value is in one entry at most, and the assertion on the size of the
\* map holds.
MapExact ==
  \A v \in Value : {i \in Index : cam.m_value[i] = v} = {cam.m_map[v]} \ {NULL}

\* With LRU replacement the list and the map implement a table of the most
\* recently used values.
Valid(i) == cam.m_value[i] # NoValue
Recency == INSTANCE LRUCache WITH
  recent <- [k \in 1 .. Cardinality({i \in Index : Valid(i)}) |-> cam.m_value[Walk(cam)[k - 1]]],
  asked <- cam.datablk,
  found <- [k \in DOMAIN cam.en_sts_vec |-> cam.en_sts_vec[k] # MISS]
MostRecent == Recency!Spec
=============================================================================
