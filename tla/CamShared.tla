----------------------------- MODULE CamShared -----------------------------
(***************************************************************************)
(* The tables of CAM_MT_SHARED_PER_ROUTER: one encoder (CAMDataEnShared)   *)
(* and one decoder (CAMDataDeShared) per router.  A decoder watches the    *)
(* values that arrive: one that comes often moves from its value locality  *)
(* buffer (VLB) into its table, and the encoder it came from is told the   *)
(* entry, by a call that takes effect at once.  Meanwhile other packets    *)
(* are on their way.  The hit and miss counts are left out.                *)
(***************************************************************************)
EXTENDS Integers, SequencesExt

CONSTANTS
  Router,
  Route,         \* the pairs <<source, destination>> that send packets
  Value,         \* contents of a block
  NoValue,       \* what an invalid entry holds
  Payload,       \* the payloads of packets: sequences of values
  EnSets,        \* cam_data_en_num_sets
  DeSets,        \* cam_data_de_num_sets
  VLBSets,       \* cam_VLB_num_sets
  Saturation,    \* cam_LFU_saturation
  VLBSaturation, \* cam_VLB_LFU_saturation
  MaxInFlight    \* bound: packets on their way

VARIABLES
  en,        \* of each router: the encoder
  de,        \* of each router: the decoder
  net,       \* packets on their way, in the order they were sent
  announced  \* history: <<decoder, encoder, value, entry>> of every replace()

vars == <<en, de, net, announced>>

EnIndex == 0 .. EnSets - 1
DeIndex == 0 .. DeSets - 1
VLBIndex == 0 .. VLBSets - 1
MISS == -1

\* An entry of an encoder knows for each decoder whether it has the value, and
\* where; one of a decoder knows which encoders it has told.
EnAlloc ==
  [m_value |-> [i \in EnIndex |-> NoValue], m_freq |-> [i \in EnIndex |-> 0],
   m_dest_valid |-> [i \in EnIndex |-> [d \in Router |-> FALSE]],
   m_dest_index |-> [i \in EnIndex |-> [d \in Router |-> MISS]]]

DeAlloc ==
  [m_value |-> [i \in DeIndex |-> NoValue], m_freq |-> [i \in DeIndex |-> 0],
   m_src_valid |-> [i \in DeIndex |-> [s \in Router |-> FALSE]],
   vlb_value |-> [i \in VLBIndex |-> NoValue], vlb_freq |-> [i \in VLBIndex |-> 0]]

Init ==
  /\ en = [r \in Router |-> EnAlloc]
  /\ de = [r \in Router |-> DeAlloc]
  /\ net = <<>>
  /\ announced = {}

\* The entry that is replaced: the first invalid one, or else the first of
\* those that have been used least.
Victim(value, freq) ==
  LET Entry == DOMAIN value
      Invalid == {i \in Entry : value[i] = NoValue}
      Least == {i \in Entry : \A j \in Entry : freq[i] <= freq[j]}
      First(S) == CHOOSE i \in S : \A j \in S : i <= j
  IN  First(IF Invalid # {} THEN Invalid ELSE Least)

Has(value, v) == \E i \in DOMAIN value : value[i] = v
EntryOf(value, v) == CHOOSE i \in DOMAIN value : value[i] = v

\* One more use of entry i; all counters are halved when one is saturated.
Used(freq, i) ==
  LET f == [freq EXCEPT ![i] = @ + 1]
  IN  IF f[i] >= Saturation THEN [j \in DOMAIN f |-> f[j] \div 2] ELSE f

\* The encoder looks up one block of a packet to router d.
EnAccess(t, v, d) ==
  IF ~ Has(t.table.m_value, v) THEN [t EXCEPT !.sts = Append(@, MISS)]
  ELSE LET i == EntryOf(t.table.m_value, v)
       IN  [t EXCEPT !.table.m_freq = Used(@, i),
                     !.sts = Append(@, IF t.table.m_dest_valid[i][d]
                                       THEN t.table.m_dest_index[i][d] ELSE MISS)]

\* Decoder d tells the encoder that v is in its entry index.  An entry that is
\* replaced keeps what it knew of the other decoders: resize() to the size a
\* vector has already changes none of its elements.
Replace(t, v, index, d) ==
  LET known == Has(t.m_value, v)
      i == IF known THEN EntryOf(t.m_value, v) ELSE Victim(t.m_value, t.m_freq)
  IN  [t EXCEPT !.m_value[i] = v,
                !.m_freq[i] = IF known THEN @ ELSE 1,
                !.m_dest_valid[i][d] = TRUE, !.m_dest_index[i][d] = index]

\* Mutant of SendReplacePkt: the encoder is told the entry behind.
SendReplacePktNext(s, v, index, d, src) ==
  [s EXCEPT !.en[src] = Replace(@, v, (index + 1) % DeSets, d),
            !.announced = @ \cup {<<d, src, v, index>>}]

SendReplacePkt(s, v, index, d, src) ==
  [s EXCEPT !.en[src] = Replace(@, v, index, d),
            !.announced = @ \cup {<<d, src, v, index>>}]

\* A value seen for the first time goes into the VLB.
VLBMiss(s, v, d) ==
  LET i == Victim(s.de[d].vlb_value, s.de[d].vlb_freq)
  IN  [s EXCEPT !.de[d].vlb_value[i] = v, !.de[d].vlb_freq[i] = 1]

\* Mutant of MoveToCAM: the value stays in the VLB as well.
MoveToCAMKeepVLB(s, v, d, src) ==
  LET i == Victim(s.de[d].m_value, s.de[d].m_freq)
  IN  SendReplacePkt([s EXCEPT !.de[d].m_value[i] = v, !.de[d].m_freq[i] = 1,
                               !.de[d].m_src_valid[i][src] = TRUE], v, i, d, src)

\* It moves from the VLB into the table.  Here, too, the entry keeps what it
\* knew of the other encoders.
MoveToCAM(s, v, d, src) ==
  LET i == Victim(s.de[d].m_value, s.de[d].m_freq)
      k == EntryOf(s.de[d].vlb_value, v)
  IN  SendReplacePkt([s EXCEPT !.de[d].m_value[i] = v, !.de[d].m_freq[i] = 1,
                               !.de[d].m_src_valid[i][src] = TRUE,
                               !.de[d].vlb_value[k] = NoValue, !.de[d].vlb_freq[k] = 0], v, i, d, src)

VLBHit(s, v, d, src) ==
  LET k == EntryOf(s.de[d].vlb_value, v)
      u == [s EXCEPT !.de[d].vlb_freq[k] = @ + 1]
  IN  IF u.de[d].vlb_freq[k] > VLBSaturation THEN MoveToCAM(u, v, d, src) ELSE u

CAMHit(s, v, d, src) ==
  LET i == EntryOf(s.de[d].m_value, v)
      u == IF s.de[d].m_src_valid[i][src] THEN s
           ELSE SendReplacePkt([s EXCEPT !.de[d].m_src_valid[i][src] = TRUE], v, i, d, src)
  IN  [u EXCEPT !.de[d].m_freq = Used(@, i)]

\* The decoder of router d is updated with one block that came from src.
DeAccess(s, v, d, src) ==
  IF Has(s.de[d].m_value, v) THEN CAMHit(s, v, d, src)
  ELSE IF Has(s.de[d].vlb_value, v) THEN VLBHit(s, v, d, src)
  ELSE VLBMiss(s, v, d)

\* An input NI of router src compresses a packet to router dst.
Compress(src, dst, payload) ==
  LET Access(t, v) == EnAccess(t, v, dst)
      t == FoldLeft(Access, [table |-> en[src], sts |-> <<>>], payload)
  IN  /\ Len(net) < MaxInFlight
      /\ en' = [en EXCEPT ![src] = t.table]
      /\ net' = Append(net, [src |-> src, dst |-> dst, payload |-> payload, en_sts_vec |-> t.sts])
      /\ UNCHANGED <<de, announced>>

\* Its output NI decompresses it.  Packets in different VCs may overtake.
Decompress(k) ==
  LET Update(s, v) == DeAccess(s, v, net[k].dst, net[k].src)
      s == FoldLeft(Update, [en |-> en, de |-> de, announced |-> announced], net[k].payload)
  IN  /\ en' = s.en /\ de' = s.de /\ announced' = s.announced
      /\ net' = RemoveAt(net, k)

Next ==
  \/ \E route \in Route, payload \in Payload : Compress(route[1], route[2], payload)
  \/ \E k \in DOMAIN net : Decompress(k)

Spec == Init /\ [][Next]_vars

-----------------------------------------------------------------------------
\* A value is in one entry of a table at most, and never in a decoder's VLB and
\* in its table: the maps from values to entries can be trusted, and the
\* assertion before a value is moved holds.
OneHome ==
  LET Once(value) == \A i, j \in DOMAIN value : value[i] = value[j] /\ value[i] # NoValue => i = j
  IN  \A r \in Router :
        /\ Once(en[r].m_value)
        /\ Once(de[r].m_value)
        /\ Once(de[r].vlb_value)
        /\ \A v \in Value : ~ (Has(de[r].m_value, v) /\ Has(de[r].vlb_value, v))

\* Where an encoder has an entry of a decoder for a value, that entry is in use
\* there, however the two tables have been replaced since.
Located ==
  \A r, d \in Router, i \in EnIndex :
    en[r].m_dest_valid[i][d] =>
      /\ en[r].m_dest_index[i][d] \in DeIndex
      /\ de[d].m_value[en[r].m_dest_index[i][d]] # NoValue

\* An encoder sends the index of an entry for a value only if the decoder has
\* told it that the value is, or was, in that entry.
Announced ==
  \A k \in DOMAIN net : \A b \in DOMAIN net[k].payload :
    net[k].en_sts_vec[b] # MISS =>
      <<net[k].dst, net[k].src, net[k].payload[b], net[k].en_sts_vec[b]>> \in announced
=============================================================================
