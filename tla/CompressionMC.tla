--------------------------- MODULE CompressionMC ---------------------------
(***************************************************************************)
(* Data compression for TLC: the shared tables of three routers, or one of *)
(* the private encoder tables, or a compressing NI for flits of 8 bytes    *)
(* and blocks as large as a flit, smaller and larger.                      *)
(***************************************************************************)
EXTENDS CamShared, NICompression

CONSTANTS
  valueA, valueB, valueC, valueD,
  Parts   \* the parts to be checked

VARIABLES
  part,   \* which of them this is: never changes
  cam     \* CamPrivate

allVars == <<part, cam, vars, niVars>>

Values4 == {valueA, valueB, valueC, valueD}
Values3 == {valueA, valueB, valueC}
Values2 == {valueA, valueB}
UpTo2Blocks(V) == {<<v>> : v \in V} \cup (V \X V)

\* Four values for a list of three entries: some are moved from its middle.
Lru == INSTANCE CamPrivate WITH Value <- Values4, Payload <- UpTo2Blocks(Values4),
         NumSets <- 3, Policy <- "LRU", Saturation <- 4
Lfu == INSTANCE CamPrivate WITH Value <- Values3, Payload <- UpTo2Blocks(Values3),
         NumSets <- 2, Policy <- "LFU", Saturation <- 4

\* The shared scheme.  One source that sends to two destinations, and two for
\* one of them, single blocks of two values, one packet at a time (SHARED); or
\* packets of two blocks from one router to another, two at a time (RACING).
Routes3 == {<<0, 1>>, <<0, 2>>, <<1, 2>>}
Single == {<<v>> : v \in Values2}
Double == Values3 \X Values3
Payloads == Single \cup Double

Calm(packets) == Len(packets) <= 1 /\ \A k \in DOMAIN packets : packets[k].payload \in Single
Racing(packets) ==
  \A k \in DOMAIN packets :
    packets[k].payload \in Double /\ packets[k].src = 0 /\ packets[k].dst = 1

Shape(flit, blk, bytes, interleaved, lat, streamline, dyn) ==
  [flit_sz_byte |-> flit, cam_data_blk_byte |-> blk, payload |-> bytes,
   cam_data_num_interleaved_tab |-> interleaved, cam_data_en_latency |-> lat,
   cam_streamline |-> streamline, cam_dyn_control |-> dyn]

\* Blocks as large as a flit, smaller and larger.
EightByteFlits == {Shape(8, 8, 24, 1, 2, TRUE, FALSE), Shape(8, 4, 16, 2, 3, TRUE, TRUE),
                   Shape(8, 16, 32, 1, 3, FALSE, TRUE)}

\* The links of 128 bits and blocks of 8 bytes that main.C configures.
DefaultFlits == {Shape(16, 8, 64, 2, 3, TRUE, FALSE)}

NoCam == cam = {}
NoNI == shape = (CHOOSE sh \in Shapes : TRUE) /\ \A p \in Sent : ~ long[p]

MCInit ==
  /\ part \in Parts
  /\ Init /\ NIInit
  /\ CASE part = "LRU" -> Lru!Init /\ NoNI
       [] part = "LFU" -> Lfu!Init /\ NoNI
       [] part \in {"SHARED", "RACING"} -> NoCam /\ NoNI
       [] part = "NI" -> NoCam

MCNext ==
  /\ UNCHANGED part
  /\ \/ part = "LRU" /\ Lru!Compress /\ UNCHANGED <<vars, niVars>>
     \/ part = "LFU" /\ Lfu!Compress /\ UNCHANGED <<vars, niVars>>
     \/ part = "SHARED" /\ Next /\ Calm(net') /\ UNCHANGED <<cam, niVars>>
     \/ part = "RACING" /\ Next /\ Racing(net') /\ UNCHANGED <<cam, niVars>>
     \/ part = "NI" /\ NINext /\ UNCHANGED <<cam, vars>>

MCSpec == MCInit /\ [][MCNext]_allVars

-----------------------------------------------------------------------------
\* However entries of a private table are moved to its head and replaced, its
\* list leads over each entry once, forwards and backwards, and its map to the
\* one entry that holds a value.
ListIntact ==
  /\ part = "LRU" => Lru!ListIntact /\ Lru!MapExact
  /\ part = "LFU" => Lfu!ListIntact /\ Lfu!MapExact

\* With LRU replacement a value is found if and only if it is one of the last
\* three different ones.
MostRecent ==
  /\ part = "LRU" => Lru!Recency!Init
  /\ [][part = "LRU" => Lru!Recency!Next]_cam
=============================================================================
