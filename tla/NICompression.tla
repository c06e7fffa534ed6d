---------------------------- MODULE NICompression ----------------------------
(***************************************************************************)
(* A compressing input NI (NIInputCompr), the buffer of the router behind  *)
(* it, and the output NI that its flits reach (NIOutputDecompr): how many  *)
(* flits a packet has left when some of its blocks were found in the CAM,  *)
(* which of the flits built for it go back to their pools and when, and    *)
(* how long its flits wait for the encoder.                                *)
(*                                                                         *)
(* The NI has one process (one VC); which blocks the CAM finds is open     *)
(* (CamPrivate and CamShared model the tables).  The network in between    *)
(* keeps the order of the flits of one VC and takes any time.              *)
(***************************************************************************)
EXTENDS Integers, FiniteSets, SequencesExt

CONSTANTS
  Shapes,        \* the ways in which flits, blocks and payloads may be set up
  Depth,         \* router_inbuf_depth
  NumPackets     \* bound: packets 1 .. NumPackets

VARIABLES
  shape,      \* the way in which they are set up: never changes
  pktQ,       \* packets in the NI's queue
  next,       \* the next packet the workload will write into it
  long,       \* of each packet: PACKET_TYPE_UNICAST_LONG
  pc,         \* where the NI's process is: "idle", "encode" (its first hold), "inject"
  busy,       \* cycles it still holds for
  pkt,        \* the packet it works on,
  store,      \* flit_store_vec: the numbers of the flits to be injected,
  hits,       \* the blocks the CAM found, if it was asked,
  compress_flag, encode_lat, total_hold_cycle, \* and its other local variables
  fq,         \* flits on their way, in order: <<packet, number, is it the tail>>
  CAM_sts,    \* m_CAM_sts_vec of the destination
  reclaimed,  \* of each packet and flit: how often it was given back to its pool
  done        \* packets that have come out

niVars == <<shape, pktQ, next, long, pc, busy, pkt, store, hits, compress_flag, encode_lat,
            total_hold_cycle, fq, CAM_sts, reclaimed, done>>

FlitSz == shape.flit_sz_byte                            \* a multiple of 8
BlkSz == shape.cam_data_blk_byte
PayloadSz == shape.payload                              \* bytes behind the address of a long packet
Interleaved == shape.cam_data_num_interleaved_tab
EnLatency == shape.cam_data_en_latency
Streamline == shape.cam_streamline
DynControl == shape.cam_dyn_control

Sent == 1 .. NumPackets
NumBlks == PayloadSz \div BlkSz
ShortFlits == 1
LongFlits == 1 + PayloadSz \div FlitSz
NumFlits(p) == IF long[p] THEN LongFlits ELSE ShortFlits
Number == 0 .. LongFlits - 1

NIInit ==
  /\ shape \in Shapes
  /\ pktQ = <<>> /\ next = 1 /\ long \in [Sent -> BOOLEAN]
  /\ pc = "idle" /\ busy = 0 /\ pkt = 1 /\ store = <<>> /\ hits = {}
  /\ compress_flag = FALSE /\ encode_lat = 0 /\ total_hold_cycle = 0
  /\ fq = <<>> /\ CAM_sts = TRUE
  /\ reclaimed = [p \in Sent |-> [k \in Number |-> 0]]
  /\ done = {}

\* Bytes of payload left when the blocks in found are taken out: with flits
\* larger than a block it is filled up to whole flits.  All indices together
\* take 8 bytes, if they save a flit.
Rest(found) ==
  LET left == PayloadSz - BlkSz * Cardinality(found)
  IN  IF FlitSz <= BlkSz THEN left ELSE FlitSz * ((left + FlitSz - 1) \div FlitSz)
Saved(found) == (PayloadSz - Rest(found)) \div FlitSz

\* Mutant of ComprSz: there is always room for the indices.
ComprSzAlways(found) == Rest(found) + 8

ComprSz(found) == Rest(found) + (IF Saved(found) > 0 THEN 8 ELSE 0)
ConvFlits(found) == ComprSz(found) \div FlitSz

\* The flits of a long packet that are used again: the head, as many middle
\* flits as are needed and the tail.
Rebuilt(n, found) ==
  [f \in 1 .. ConvFlits(found) + 1 |-> IF f <= ConvFlits(found) THEN f - 1 ELSE n - 1]

\* The flits that go back to their pools at once.
Unused(p, kept) == (0 .. NumFlits(p) - 1) \ ToSet(kept)

EncodeLat == IF Streamline THEN NumBlks \div Interleaved + EnLatency - 1
             ELSE (NumBlks \div Interleaved) * EnLatency

Generate ==
  /\ next <= NumPackets
  /\ pktQ' = Append(pktQ, next)
  /\ next' = next + 1
  /\ UNCHANGED <<shape, long, pc, busy, pkt, store, hits, compress_flag, encode_lat,
                 total_hold_cycle, fq, CAM_sts, reclaimed, done>>

\* Whether a packet is compressed: with dynamic control it takes a disabled
\* status, or the NI's queue, a full buffer or earlier queueing to do so.
ComprFlags(p, waiting) ==
  IF ~ long[p] THEN {FALSE}
  ELSE IF ~ DynControl \/ ~ CAM_sts \/ waiting THEN {TRUE}
  ELSE BOOLEAN

\* Mutant of SegmentPacket: flits that are no longer needed stay allocated.
SegmentPacketLeak ==
  /\ pc = "idle" /\ pktQ # <<>> /\ Len(fq) < Depth
  /\ pkt' = Head(pktQ) /\ pktQ' = Tail(pktQ)
  /\ total_hold_cycle' = 0
  /\ \E flag \in ComprFlags(Head(pktQ), Len(pktQ) > 1) :
       /\ compress_flag' = flag
       /\ encode_lat' = IF flag THEN EncodeLat ELSE 0
       /\ hits' \in IF flag THEN SUBSET (1 .. NumBlks) ELSE {{}}
       /\ store' = IF flag THEN Rebuilt(LongFlits, hits')
                   ELSE [f \in 1 .. NumFlits(Head(pktQ)) |-> f - 1]
       /\ busy' = IF flag /\ ~ Streamline THEN EncodeLat ELSE 0
  /\ pc' = "encode"
  /\ UNCHANGED <<shape, next, long, fq, CAM_sts, done, reclaimed>>

\* The NI's process takes a packet, reserves its VC, builds the flits, asks the
\* CAM and keeps the flits that are needed.  Without streamlining it holds until
\* the encoder is done.
SegmentPacket ==
  /\ pc = "idle" /\ pktQ # <<>> /\ Len(fq) < Depth
  /\ pkt' = Head(pktQ) /\ pktQ' = Tail(pktQ)
  /\ total_hold_cycle' = 0
  /\ \E flag \in ComprFlags(Head(pktQ), Len(pktQ) > 1) :
       /\ compress_flag' = flag
       /\ encode_lat' = IF flag THEN EncodeLat ELSE 0
       /\ hits' \in IF flag THEN SUBSET (1 .. NumBlks) ELSE {{}}
       /\ store' = IF flag THEN Rebuilt(LongFlits, hits')
                   ELSE [f \in 1 .. NumFlits(Head(pktQ)) |-> f - 1]
       /\ busy' = IF flag /\ ~ Streamline THEN EncodeLat ELSE 0
  /\ pc' = "encode"
  /\ reclaimed' = [reclaimed EXCEPT ![Head(pktQ)] =
                     [k \in Number |-> @[k] + (IF k \in Unused(Head(pktQ), store') THEN 1 ELSE 0)]]
  /\ UNCHANGED <<shape, next, long, fq, CAM_sts, done>>

\* Mutant of EncodeHold: nothing more is held for behind the last middle flit.
EncodeHoldNoRest ==
  IF ~ (Streamline /\ compress_flag) \/ Len(store) = 1 THEN 0
  ELSE IF total_hold_cycle >= encode_lat THEN 0 ELSE 1

\* Cycles held behind the flit that is first in store: when the encoder's
\* results are streamed, one per flit, and before the tail all that is left.
EncodeHold ==
  IF ~ (Streamline /\ compress_flag) \/ Len(store) = 1 THEN 0
  ELSE IF Len(store) = 2 THEN encode_lat - total_hold_cycle
  ELSE IF total_hold_cycle >= encode_lat THEN 0 ELSE 1

\* The first flit in store goes into the router's buffer.
Inject ==
  /\ pc # "idle" /\ busy = 0 /\ store # <<>> /\ Len(fq) < Depth
  /\ fq' = Append(fq, <<pkt, Head(store), Len(store) = 1>>)
  /\ store' = Tail(store)
  /\ total_hold_cycle' = total_hold_cycle + EncodeHold
  /\ busy' = 1 + EncodeHold
  /\ pc' = "inject"
  /\ UNCHANGED <<shape, pktQ, next, long, pkt, hits, compress_flag, encode_lat, CAM_sts,
                 reclaimed, done>>

\* The VC is free again.
Finish ==
  /\ pc = "inject" /\ busy = 0 /\ store = <<>>
  /\ pc' = "idle"
  /\ UNCHANGED <<shape, pktQ, next, long, busy, pkt, store, hits, compress_flag, encode_lat,
                 total_hold_cycle, fq, CAM_sts, reclaimed, done>>

Tick ==
  /\ busy > 0
  /\ busy' = busy - 1
  /\ UNCHANGED <<shape, pktQ, next, long, pc, pkt, store, hits, compress_flag, encode_lat,
                 total_hold_cycle, fq, CAM_sts, reclaimed, done>>

EnableCAM == CAM_sts' = FALSE
DisableCAM == CAM_sts' = TRUE

\* The output NI's decision by the contention that packets of this source have
\* met: it enables compression only where the status is clear, and disables it
\* only where it is set.
ControlCompression(contention) ==
  \/ contention /\ ~ CAM_sts /\ EnableCAM
  \/ ~ contention /\ CAM_sts /\ DisableCAM
  \/ contention = CAM_sts /\ UNCHANGED CAM_sts

\* The output NI takes a flit; with the tail it decompresses the packet.  Flit
\* and packet go back to their pools.
AssembleFlit ==
  /\ fq # <<>>
  /\ LET p == Head(fq)[1] tail == Head(fq)[3]
     IN  /\ reclaimed' = [reclaimed EXCEPT ![p][Head(fq)[2]] = @ + 1]
         /\ done' = IF tail THEN done \cup {p} ELSE done
         /\ IF tail /\ long[p] /\ DynControl
            THEN \E contention \in BOOLEAN : ControlCompression(contention)
            ELSE UNCHANGED CAM_sts
  /\ fq' = Tail(fq)
  /\ UNCHANGED <<shape, pktQ, next, long, pc, busy, pkt, store, hits, compress_flag, encode_lat,
                 total_hold_cycle>>

Idle == done = Sent /\ pc = "idle" /\ UNCHANGED niVars

NINext == Generate \/ SegmentPacket \/ Inject \/ Finish \/ Tick \/ AssembleFlit \/ Idle

NISpec == NIInit /\ [][NINext]_niVars

-----------------------------------------------------------------------------
\* However many blocks the CAM finds, and whichever, the assertions of
\* compressDataByCAM hold: some flit carries payload, the packet has not grown,
\* and its flits carry exactly the words that are left.
WordsFit ==
  pc # "idle" /\ compress_flag =>
    /\ ConvFlits(hits) \in 1 .. LongFlits - 1
    /\ ConvFlits(hits) * (FlitSz \div 8) = ComprSz(hits) \div 8

\* Every flit built for a packet goes back to its pool once: at the input NI if
\* compression has made it superfluous, or else at the output NI.
FlitsReclaimedOnce ==
  \A p \in Sent : \A k \in Number :
    /\ reclaimed[p][k] <= 1
    /\ p \in done => (reclaimed[p][k] = 1 <=> k < NumFlits(p))

\* The tail does not leave the NI before the encoder can have finished: the
\* holds for it add up to its latency, neither more nor less, be they at the
\* start or between the flits.
TailWaits ==
  pc = "inject" /\ compress_flag /\ Streamline =>
    /\ total_hold_cycle <= encode_lat
    /\ Len(store) <= 1 => total_hold_cycle = encode_lat
=============================================================================
