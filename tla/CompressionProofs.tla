--------------------------- MODULE CompressionProofs --------------------------
(***************************************************************************)
(* Proofs about the tables of the compression schemes, for any routers,    *)
(* values, packets and table sizes.  In the shared scheme (CamShared) a    *)
(* value has one home in each table, and what encoders know of decoders    *)
(* leads to entries in use, whichever packets are on their way; in the     *)
(* private one (CamPrivate) the linked list and the map stay intact, and   *)
(* with LRU replacement implement a table of the most recent values.  And  *)
(* about the NIs that use them (NICompression): flits return to their      *)
(* pools once, fit the words that are left, and wait for the encoder.      *)
(***************************************************************************)
EXTENDS CamShared, NICompression, FiniteSetTheorems, SequenceTheorems, WellFoundedInduction, TLAPS

\* What the code requires of the configuration, and payloads of packets.
CamOK ==
  /\ EnSets \in Nat \ {0} /\ DeSets \in Nat \ {0} /\ VLBSets \in Nat \ {0}
  /\ Route \subseteq Router \X Router
  /\ Payload \subseteq Seq(Value) /\ NoValue \notin Value

-----------------------------------------------------------------------------
(* Numbers. *)

\* Every set of numbers has a least one.
LEMMA LeastExists ==
  ASSUME NEW T \in SUBSET Nat, T # {}
  PROVE  \E m \in T : \A n \in T : m <= n
<1> DEFINE Below == {e \in Nat \X Nat : e[1] < e[2]}
<1>1. IsWellFoundedOn(Below, Nat)
  BY NatLessThanWellFounded, Zenon DEF OpToRel
<1>2. \A m, n \in Nat : n < m => <<n, m>> \in Below
  OBVIOUS
<1> HIDE DEF Below
<1>3. PICK m \in T : \A n \in T : ~ (<<n, m>> \in Below)
  BY <1>1, WFMin, Zenon
<1>4. \A n \in T : ~ (n < m)
  BY <1>2, <1>3
<1> QED
  BY <1>4

\* What holds of 0 and of each next number holds of all: the numbers up to n.
LEMMA UpTo ==
  ASSUME NEW n \in Nat, NEW Q \in SUBSET Nat, 0 \in Q,
         \A k \in Nat : k < n /\ k \in Q => k + 1 \in Q
  PROVE  \A k \in 0 .. n : k \in Q
<1> SUFFICES ASSUME NEW k \in 0 .. n, k \notin Q
             PROVE  FALSE
  OBVIOUS
<1> DEFINE bad == {j \in 0 .. n : j \notin Q}
<1>1. bad \in SUBSET Nat /\ bad # {}
  OBVIOUS
<1>2. PICK m \in bad : \A j \in bad : m <= j
  BY <1>1, LeastExists
<1>3. m \in Nat /\ m # 0 /\ m <= n /\ m \notin Q
  BY <1>2
<1>4. m - 1 \in Nat /\ m - 1 < n /\ m - 1 \in Q
  BY <1>2, <1>3
<1>5. (m - 1) + 1 \in Q
  BY <1>4
<1> QED
  BY <1>3, <1>5

-----------------------------------------------------------------------------
(* FoldLeft goes through a sequence of n elements by a recursion over the  *)
(* sets of positions that are left, the last position first.               *)

LEMMA LastIn ==
  ASSUME NEW m \in Nat, NEW S \in SUBSET (1 .. m), S # {}
  PROVE  Max(S) \in S /\ S \ {Max(S)} \in SUBSET (1 .. Max(S) - 1)
<1> DEFINE above == {k \in Nat : \A x \in S : x <= k}
<1>1. m \in above
  OBVIOUS
<1>2. PICK k \in above : \A j \in above : k <= j
  BY <1>1, LeastExists
<1>3. k \in S
  <2>1. k # 0
    <3>1. PICK x \in S : TRUE
      OBVIOUS
    <3>2. x \in 1 .. m /\ x <= k
      BY <1>2, <3>1
    <3> QED
      BY <3>2
  <2>2. CASE k \notin S
    <3>1. k \in Nat /\ \A x \in S : x \in Nat /\ x <= k /\ x # k
      BY <2>2, <1>2
    <3>2. k - 1 \in above
      BY <2>1, <3>1
    <3> QED
      BY <3>1, <3>2, <1>2
  <2> QED
    BY <2>2
<1>4. k \in S /\ \A x \in S : k >= x
  BY <1>2, <1>3
<1>5. Max(S) \in S /\ \A x \in S : Max(S) >= x
  BY <1>4, Zenon DEF Max
<1>6. \A x \in S : x \in Int /\ 1 <= x
  OBVIOUS
<1>7. \A j \in Int : (\A x \in S : j >= x) => S \ {j} \in SUBSET (1 .. j - 1)
  BY <1>6
<1> QED
  BY <1>5, <1>6, <1>7

LEMMA LastOf ==
  ASSUME NEW k \in Nat
  PROVE  Max(1 .. k + 1) = k + 1 /\ (1 .. k + 1) \ {k + 1} = 1 .. k
<1>1. Max(1 .. k + 1) \in 1 .. k + 1 /\ \A x \in 1 .. k + 1 : Max(1 .. k + 1) >= x
  <2>1. k + 1 \in 1 .. k + 1 /\ \A x \in 1 .. k + 1 : k + 1 >= x
    OBVIOUS
  <2> QED
    BY <2>1 DEF Max
<1> QED
  BY <1>1

\* The recursion has a solution within G; the element at position i does H[i].
Foldable(n, G, base, H) ==
  \E g \in [SUBSET (1 .. n) -> G] :
    \A S \in SUBSET (1 .. n) : g[S] = IF S = {} THEN base ELSE H[Max(S)][g[S \ {Max(S)}]]

LEMMA FoldExists ==
  ASSUME NEW n \in Nat, NEW G, NEW base \in G, NEW H \in [1 .. n -> [G -> G]]
  PROVE  Foldable(n, G, base, H)
<1> DEFINE D == 1 .. n
           step(g, S) == IF S = {} THEN base ELSE H[Max(S)][g[S \ {Max(S)}]]
           Good(m) == \E g \in [SUBSET D -> G] : \A S \in SUBSET (1 .. m) : g[S] = step(g, S)
           Q == {m \in Nat : Good(m)}
<1>1. \A g \in [SUBSET D -> G] : \A S \in SUBSET D : step(g, S) \in G
  <2>1. \A S \in SUBSET D : S # {} => Max(S) \in D /\ S \ {Max(S)} \in SUBSET D
    BY LastIn
  <2> QED
    BY <2>1
<1>2. 0 \in Q
  <2> DEFINE z == [S \in SUBSET D |-> base]
  <2>1. z \in [SUBSET D -> G] /\ \A S \in SUBSET (1 .. 0) : S = {} /\ S \in SUBSET D
    OBVIOUS
  <2>2. z[{}] = base
    OBVIOUS
  <2> QED
    BY <2>1, <2>2
<1>3. ASSUME NEW m \in Nat, m < n, m \in Q
      PROVE  m + 1 \in Q
  <2>1. PICK g \in [SUBSET D -> G] : \A S \in SUBSET (1 .. m) : g[S] = step(g, S)
    BY <1>3
  <2> DEFINE h == [S \in SUBSET D |-> step(g, S)]
  <2>2. h \in [SUBSET D -> G]
    BY <1>1, <2>1
  <2>3. ASSUME NEW S \in SUBSET (1 .. m + 1)
        PROVE  h[S] = step(h, S)
    <3>1. S \in SUBSET D
      BY <1>3
    <3>2. CASE S # {}
      <4>1. S \ {Max(S)} \in SUBSET (1 .. m)
        <5>1. Max(S) \in S /\ S \ {Max(S)} \in SUBSET (1 .. Max(S) - 1)
          <6>1. m + 1 \in Nat
            OBVIOUS
          <6> QED
            BY <3>2, <6>1, LastIn
        <5>2. Max(S) \in 1 .. m + 1
          BY <5>1
        <5> QED
          BY <5>1, <5>2
      <4>2. S \ {Max(S)} \in SUBSET D
        BY <3>1
      <4>3. h[S \ {Max(S)}] = g[S \ {Max(S)}]
        BY <2>1, <4>1, <4>2
      <4> QED
        BY <3>1, <3>2, <4>3
    <3>3. CASE S = {}
      BY <3>1, <3>3
    <3> QED
      BY <3>2, <3>3
  <2> HIDE DEF h, step
  <2>4. Good(m + 1)
    BY <2>2, <2>3
  <2>5. m + 1 \in Nat
    OBVIOUS
  <2> HIDE DEF Good
  <2> QED
    BY <2>4, <2>5
<1> HIDE DEF Q, Good
<1>4. n \in Q
  <2>1. Q \in SUBSET Nat
    BY DEF Q
  <2>2. \A k \in 0 .. n : k \in Q
    BY <1>2, <1>3, <2>1, UpTo
  <2> QED
    BY <2>2
<1>5. PICK g \in [SUBSET D -> G] : \A S \in SUBSET D : g[S] = step(g, S)
  BY <1>4 DEF Q, Good
<1> QED
  BY <1>5 DEF Foldable

-----------------------------------------------------------------------------
(* The types of the state. *)

Content == Value \cup {NoValue}

Encoder ==
  [m_value : [EnIndex -> Content], m_freq : [EnIndex -> Nat],
   m_dest_valid : [EnIndex -> [Router -> BOOLEAN]],
   m_dest_index : [EnIndex -> [Router -> Int]]]

Decoder ==
  [m_value : [DeIndex -> Content], m_freq : [DeIndex -> Nat],
   m_src_valid : [DeIndex -> [Router -> BOOLEAN]],
   vlb_value : [VLBIndex -> Content], vlb_freq : [VLBIndex -> Nat]]

Packet == [src : Router, dst : Router, payload : Seq(Value), en_sts_vec : Seq(Int)]

Said == Router \X Router \X Value \X DeIndex

Tables == [en : [Router -> Encoder], de : [Router -> Decoder], announced : SUBSET Said]

\* What is proved of one table, of a decoder, and of what encoders know.
Single(value) == \A i, j \in DOMAIN value : value[i] = value[j] /\ value[i] # NoValue => i = j

Apart(t) ==
  /\ Single(t.m_value)
  /\ Single(t.vlb_value)
  /\ \A v \in Value : ~ (Has(t.m_value, v) /\ Has(t.vlb_value, v))

Leads(e, ds) ==
  \A i \in EnIndex, d \in Router :
    e.m_dest_valid[i][d] => /\ e.m_dest_index[i][d] \in DeIndex
                            /\ ds[d].m_value[e.m_dest_index[i][d]] # NoValue

\* The inductive invariant, of the tables and of packets on their way.
Kept(s) ==
  /\ s \in Tables
  /\ \A r \in Router : Single(s.en[r].m_value) /\ Apart(s.de[r]) /\ Leads(s.en[r], s.de)

TablesNow == [en |-> en, de |-> de, announced |-> announced]

CamInv == Kept(TablesNow) /\ net \in Seq(Packet)

-----------------------------------------------------------------------------
(* Tables: a map from entries 0 .. n - 1 to values and one to frequencies. *)

LEMMA VictimIn ==
  ASSUME NEW n \in Nat \ {0}, NEW value, DOMAIN value = 0 .. n - 1, NEW freq \in [0 .. n - 1 -> Nat]
  PROVE  Victim(value, freq) \in 0 .. n - 1
<1> DEFINE Invalid == {i \in 0 .. n - 1 : value[i] = NoValue}
           Least == {i \in 0 .. n - 1 : \A j \in 0 .. n - 1 : freq[i] <= freq[j]}
           S == IF Invalid # {} THEN Invalid ELSE Least
<1>1. Least # {}
  <2> DEFINE used == {freq[i] : i \in 0 .. n - 1}
  <2>1. used \in SUBSET Nat /\ used # {}
    <3>1. 0 \in 0 .. n - 1
      OBVIOUS
    <3> QED
      BY <3>1
  <2>2. PICK m \in used : \A k \in used : m <= k
    BY <2>1, LeastExists
  <2>3. PICK i \in 0 .. n - 1 : freq[i] = m
    BY <2>2
  <2> QED
    BY <2>2, <2>3, SMTT(30)
<1>2. S # {} /\ S \in SUBSET Nat /\ S \subseteq 0 .. n - 1
  BY <1>1
<1>3. Victim(value, freq) = CHOOSE i \in S : \A j \in S : i <= j
  BY DEF Victim
<1> HIDE DEF S
<1>4. \E i \in S : \A j \in S : i <= j
  BY <1>2, LeastExists
<1>5. Victim(value, freq) \in S
  BY <1>3, <1>4
<1> QED
  BY <1>2, <1>5

LEMMA EntryFound ==
  ASSUME NEW value, NEW v, Has(value, v)
  PROVE  EntryOf(value, v) \in DOMAIN value /\ value[EntryOf(value, v)] = v
BY DEF Has, EntryOf

\* A value that is not in a table may get any entry of it.
LEMMA PutKeepsSingle ==
  ASSUME NEW I, NEW value \in [I -> Content], Single(value), NEW v \in Content, ~ Has(value, v),
         NEW i \in I
  PROVE  Single([value EXCEPT ![i] = v])
BY DEF Single, Has

LEMMA ClearKeepsSingle ==
  ASSUME NEW I, NEW value \in [I -> Content], Single(value), NEW i \in I
  PROVE  Single([value EXCEPT ![i] = NoValue])
BY DEF Single

LEMMA UsedType ==
  ASSUME NEW I, NEW freq \in [I -> Nat], NEW i \in I
  PROVE  Used(freq, i) \in [I -> Nat]
<1> DEFINE f == [freq EXCEPT ![i] = @ + 1]
<1>1. f \in [I -> Nat]
  OBVIOUS
<1>2. \A j \in I : f[j] \div 2 \in Nat
  <2>1. \A m \in Nat : m \div 2 \in Nat
    OBVIOUS
  <2> QED
    BY <1>1, <2>1
<1>3. Used(freq, i) = IF f[i] >= Saturation THEN [j \in DOMAIN f |-> f[j] \div 2] ELSE f
  BY DEF Used
<1> HIDE DEF f
<1> QED
  BY <1>1, <1>2, <1>3

-----------------------------------------------------------------------------
(* Compression: a lookup changes how often entries were used, and no more. *)

LookedUp(e) ==
  {t \in [table : Encoder, sts : Seq(Int)] :
     /\ t.table.m_value = e.m_value
     /\ t.table.m_dest_valid = e.m_dest_valid
     /\ t.table.m_dest_index = e.m_dest_index}

LEMMA LookUp ==
  ASSUME NEW e \in Encoder, NEW t \in LookedUp(e), NEW v \in Value, NEW d \in Router
  PROVE  EnAccess(t, v, d) \in LookedUp(e)
<1>1. t \in [table : Encoder, sts : Seq(Int)] /\ t.table \in Encoder /\ t.sts \in Seq(Int)
  BY DEF LookedUp
<1>2. /\ t.table.m_value \in [EnIndex -> Content] /\ t.table.m_freq \in [EnIndex -> Nat]
      /\ t.table.m_dest_index \in [EnIndex -> [Router -> Int]]
  BY <1>1 DEF Encoder
<1>3. \A x \in Int : Append(t.sts, x) \in Seq(Int)
  BY <1>1
<1>4. CASE ~ Has(t.table.m_value, v)
  <2>1. EnAccess(t, v, d) = [t EXCEPT !.sts = Append(t.sts, MISS)]
    BY <1>4 DEF EnAccess
  <2>2. Append(t.sts, MISS) \in Seq(Int)
    BY <1>3 DEF MISS
  <2> QED
    BY <1>1, <2>1, <2>2 DEF LookedUp
<1>5. CASE Has(t.table.m_value, v)
  <2> DEFINE i == EntryOf(t.table.m_value, v)
             x == IF t.table.m_dest_valid[i][d] THEN t.table.m_dest_index[i][d] ELSE MISS
             f == Used(t.table.m_freq, i)
  <2>1. i \in EnIndex
    BY <1>2, <1>5, EntryFound
  <2>2. x \in Int
    BY <1>2, <2>1 DEF MISS
  <2>3. f \in [EnIndex -> Nat]
    BY <1>2, <2>1, UsedType
  <2>4. EnAccess(t, v, d) = [t EXCEPT !.table.m_freq = f, !.sts = Append(t.sts, x)]
    BY <1>1, <1>5 DEF EnAccess
  <2>5. Append(t.sts, x) \in Seq(Int)
    BY <1>3, <2>2
  <2> HIDE DEF i, x, f
  <2> QED
    BY <1>1, <2>3, <2>4, <2>5, ZenonT(30) DEF LookedUp, Encoder
<1> QED
  BY <1>4, <1>5

-----------------------------------------------------------------------------
(* Decompression. *)

\* A decoder whose table gets no emptier changes nothing about what encoders know.
LEMMA LeadsOn ==
  ASSUME NEW e \in Encoder, NEW ds \in [Router -> Decoder], NEW ds2 \in [Router -> Decoder], Leads(e, ds),
         \A d \in Router, i \in DeIndex : ds[d].m_value[i] # NoValue => ds2[d].m_value[i] # NoValue
  PROVE  Leads(e, ds2)
BY DEF Leads

\* The decoder calls the encoder back, about an entry in which it has the value.
LEMMA Told ==
  ASSUME CamOK, NEW s, Kept(s), NEW v \in Value, NEW d \in Router, NEW src \in Router, NEW i \in DeIndex,
         s.de[d].m_value[i] = v
  PROVE  Kept(SendReplacePkt(s, v, i, d, src))
<1> DEFINE t == s.en[src]
           known == Has(t.m_value, v)
           k == IF known THEN EntryOf(t.m_value, v) ELSE Victim(t.m_value, t.m_freq)
           t2 == Replace(t, v, i, d)
           u == SendReplacePkt(s, v, i, d, src)
<1>1. s \in Tables /\ s.en \in [Router -> Encoder] /\ s.de \in [Router -> Decoder] /\ s.announced \in SUBSET Said
  BY DEF Kept, Tables
<1>2. t \in Encoder /\ Single(t.m_value) /\ Leads(t, s.de)
  BY <1>1 DEF Kept
<1>3. /\ t.m_value \in [EnIndex -> Content] /\ t.m_freq \in [EnIndex -> Nat]
      /\ t.m_dest_valid \in [EnIndex -> [Router -> BOOLEAN]]
      /\ t.m_dest_index \in [EnIndex -> [Router -> Int]]
  BY <1>2 DEF Encoder
<1>4. k \in EnIndex /\ (known => t.m_value[k] = v)
  <2>1. CASE known
    BY <2>1, <1>3, EntryFound
  <2>2. CASE ~ known
    BY <2>2, <1>3, VictimIn DEF CamOK, EnIndex
  <2> QED
    BY <2>1, <2>2
<1>5. /\ v \in Content /\ v # NoValue /\ i \in Int
      /\ <<d, src, v, i>> \in Said
  BY DEF CamOK, Content, Said, DeIndex
<1>6. t2 = [t EXCEPT !.m_value[k] = v, !.m_freq[k] = IF known THEN @ ELSE 1,
                     !.m_dest_valid[k][d] = TRUE, !.m_dest_index[k][d] = i]
  BY DEF Replace
<1> HIDE DEF k
<1>7. /\ t2.m_value = [t.m_value EXCEPT ![k] = v]
      /\ t2.m_freq = [t.m_freq EXCEPT ![k] = IF known THEN @ ELSE 1]
      /\ t2.m_dest_valid = [t.m_dest_valid EXCEPT ![k] = [@ EXCEPT ![d] = TRUE]]
      /\ t2.m_dest_index = [t.m_dest_index EXCEPT ![k] = [@ EXCEPT ![d] = i]]
  BY <1>2, <1>6 DEF Encoder
<1>8. t2 \in Encoder
  <2>1. t2.m_value \in [EnIndex -> Content]
    BY <1>3, <1>4, <1>5, <1>7
  <2>2. t2.m_freq \in [EnIndex -> Nat]
    BY <1>3, <1>4, <1>7
  <2>3. t2.m_dest_valid \in [EnIndex -> [Router -> BOOLEAN]]
    BY <1>3, <1>4, <1>7, SMTT(30)
  <2>4. t2.m_dest_index \in [EnIndex -> [Router -> Int]]
    BY <1>3, <1>4, <1>5, <1>7
  <2>5. t2 = [t EXCEPT !.m_value = t2.m_value, !.m_freq = t2.m_freq,
                       !.m_dest_valid = t2.m_dest_valid, !.m_dest_index = t2.m_dest_index]
    BY <1>2, <1>6, <1>7 DEF Encoder
  <2> HIDE DEF t2, t
  <2> QED
    BY <1>2, <2>1, <2>2, <2>3, <2>4, <2>5 DEF Encoder
<1>9. Single(t2.m_value)
  <2>1. CASE known
    <3>1. t2.m_value = t.m_value
      BY <2>1, <1>3, <1>4, <1>7
    <3> QED
      BY <3>1, <1>2
  <2>2. CASE ~ known
    <3> HIDE DEF t, t2
    <3>1. Single([t.m_value EXCEPT ![k] = v])
      BY <2>2, <1>2, <1>3, <1>4, <1>5, PutKeepsSingle, SMTT(30)
    <3> QED
      BY <3>1, <1>7
  <2> QED
    BY <2>1, <2>2
<1>10. Leads(t2, s.de)
  <2> SUFFICES ASSUME NEW j \in EnIndex, NEW c \in Router, t2.m_dest_valid[j][c]
               PROVE  /\ t2.m_dest_index[j][c] \in DeIndex
                      /\ s.de[c].m_value[t2.m_dest_index[j][c]] # NoValue
    BY Zenon DEF Leads
  <2>1. CASE j = k /\ c = d
    <3>1. t2.m_dest_index[j][c] = i
      BY <2>1, <1>3, <1>7, SMTT(30)
    <3> QED
      BY <3>1, <2>1, <1>5
  <2>2. CASE ~ (j = k /\ c = d)
    <3> HIDE DEF t, t2, known
    <3>1. t2.m_dest_index[j][c] = t.m_dest_index[j][c]
      <4>1. t.m_dest_index[j] \in [Router -> Int]
        BY <1>3
      <4>2. t2.m_dest_index[j] = IF j = k THEN [t.m_dest_index[j] EXCEPT ![d] = i] ELSE t.m_dest_index[j]
        BY <1>3, <1>4, <1>7
      <4> QED
        BY <2>2, <4>1, <4>2
    <3>2. t2.m_dest_valid[j][c] => t.m_dest_valid[j][c]
      <4>1. t.m_dest_valid[j] \in [Router -> BOOLEAN]
        BY <1>3
      <4>2. CASE j # k
        <5>1. t2.m_dest_valid[j] = t.m_dest_valid[j]
          BY <4>2, <1>3, <1>4, <1>7
        <5> QED
          BY <5>1, Zenon
      <4>3. CASE j = k
        <5>1. t2.m_dest_valid[j] = [t.m_dest_valid[j] EXCEPT ![d] = TRUE]
          BY <4>3, <1>3, <1>4, <1>7
        <5>2. c # d
          BY <2>2, <4>3, SMTT(30)
        <5> QED
          BY <4>1, <5>1, <5>2, Zenon
      <4> QED
        BY <4>2, <4>3, Zenon
    <3> HIDE DEF t, t2
    <3> QED
      BY <3>1, <3>2, <1>2 DEF Leads
  <2> QED
    BY <2>1, <2>2, Zenon
<1>11. u = [s EXCEPT !.en[src] = t2, !.announced = @ \cup {<<d, src, v, i>>}]
  BY <1>1, SMTT(30) DEF SendReplacePkt
<1> HIDE DEF t, t2, u, known
<1>12. /\ u.en = [s.en EXCEPT ![src] = t2] /\ u.de = s.de
       /\ u.announced = s.announced \cup {<<d, src, v, i>>}
       /\ u = [en |-> u.en, de |-> u.de, announced |-> u.announced]
  BY <1>1, <1>11 DEF Tables
<1>13. u \in Tables
  <2>1. u.en \in [Router -> Encoder]
    BY <1>1, <1>8, <1>12
  <2>2. u.announced \in SUBSET Said
    BY <1>1, <1>5, <1>12
  <2>3. u.de \in [Router -> Decoder]
    BY <1>1, <1>12
  <2> QED
    BY <2>1, <2>2, <2>3, <1>12 DEF Tables
<1>14. ASSUME NEW r \in Router
       PROVE  Single(u.en[r].m_value) /\ Apart(u.de[r]) /\ Leads(u.en[r], u.de)
  <2>1. Apart(u.de[r])
    BY <1>12 DEF Kept
  <2>2. CASE r = src
    BY <2>1, <2>2, <1>1, <1>9, <1>10, <1>12
  <2>3. CASE r # src
    <3>1. u.en[r] = s.en[r]
      BY <2>3, <1>1, <1>12
    <3> QED
      BY <2>1, <3>1, <1>12 DEF Kept
  <2> QED
    BY <2>2, <2>3
<1>15. Kept(u)
  BY <1>13, <1>14 DEF Kept
<1> QED
  BY <1>15 DEF u

\* A decoder's table changes, but gets no emptier.
LEMMA DecoderChanges ==
  ASSUME NEW s, Kept(s), NEW d \in Router, NEW t \in Decoder, Apart(t),
         \A i \in DeIndex : s.de[d].m_value[i] # NoValue => t.m_value[i] # NoValue
  PROVE  Kept([s EXCEPT !.de[d] = t]) /\ [s EXCEPT !.de[d] = t].de[d] = t
<1> DEFINE u == [s EXCEPT !.de[d] = t]
<1>1. s \in Tables /\ s.en \in [Router -> Encoder] /\ s.de \in [Router -> Decoder] /\ s.announced \in SUBSET Said
  BY DEF Kept, Tables
<1>2. /\ u.en = s.en /\ u.de = [s.de EXCEPT ![d] = t] /\ u.announced = s.announced
      /\ u = [en |-> u.en, de |-> u.de, announced |-> u.announced]
  BY <1>1 DEF Tables
<1> HIDE DEF u
<1>3. u.de \in [Router -> Decoder] /\ u.de[d] = t /\ \A r \in Router \ {d} : u.de[r] = s.de[r]
  BY <1>1, <1>2
<1>4. u \in Tables
  BY <1>1, <1>2, <1>3 DEF Tables
<1>5. ASSUME NEW r \in Router
      PROVE  Single(u.en[r].m_value) /\ Apart(u.de[r]) /\ Leads(u.en[r], u.de)
  <2>1. Single(u.en[r].m_value)
    BY <1>2 DEF Kept
  <2>2. Apart(u.de[r])
    BY <1>3 DEF Kept
  <2>3. Leads(u.en[r], u.de)
    <3>1. \A c \in Router, i \in DeIndex : s.de[c].m_value[i] # NoValue => u.de[c].m_value[i] # NoValue
      BY <1>3
    <3>2. Leads(s.en[r], s.de) /\ s.en[r] \in Encoder
      BY <1>1 DEF Kept
    <3>3. Leads(s.en[r], u.de)
      BY <3>1, <3>2, <1>1, <1>3, LeadsOn, SMTT(30)
    <3> QED
      BY <3>3, <1>2
  <2> QED
    BY <2>1, <2>2, <2>3
<1>6. Kept(u)
  BY <1>4, <1>5 DEF Kept
<1> QED
  BY <1>3, <1>6 DEF u

\* Its counters and flags change, but no value.
LEMMA ValuesStay ==
  ASSUME NEW s, Kept(s), NEW d \in Router, NEW t \in Decoder,
         t.m_value = s.de[d].m_value, t.vlb_value = s.de[d].vlb_value
  PROVE  Kept([s EXCEPT !.de[d] = t]) /\ [s EXCEPT !.de[d] = t].de[d] = t
<1>1. Apart(s.de[d])
  BY DEF Kept
<1>2. Apart(t)
  BY <1>1 DEF Apart
<1> QED
  BY <1>2, DecoderChanges

\* A decoder is what its fields are.
LEMMA DecoderFields ==
  ASSUME NEW s, Kept(s), NEW d \in Router
  PROVE  /\ s.de[d] \in Decoder
         /\ s.de[d].m_value \in [DeIndex -> Content] /\ s.de[d].m_freq \in [DeIndex -> Nat]
         /\ s.de[d].m_src_valid \in [DeIndex -> [Router -> BOOLEAN]]
         /\ s.de[d].vlb_value \in [VLBIndex -> Content] /\ s.de[d].vlb_freq \in [VLBIndex -> Nat]
         /\ s \in Tables /\ s.de \in [Router -> Decoder]
BY DEF Kept, Tables, Decoder

LEMMA MissKeeps ==
  ASSUME CamOK, NEW s, Kept(s), NEW v \in Value, NEW d \in Router,
         ~ Has(s.de[d].m_value, v), ~ Has(s.de[d].vlb_value, v)
  PROVE  Kept(VLBMiss(s, v, d))
<1> DEFINE t == s.de[d]
           i == Victim(t.vlb_value, t.vlb_freq)
           t2 == [t EXCEPT !.vlb_value = [t.vlb_value EXCEPT ![i] = v],
                           !.vlb_freq = [t.vlb_freq EXCEPT ![i] = 1]]
<1>1. /\ t \in Decoder /\ t.m_value \in [DeIndex -> Content]
      /\ t.vlb_value \in [VLBIndex -> Content] /\ t.vlb_freq \in [VLBIndex -> Nat]
      /\ s \in Tables /\ s.de \in [Router -> Decoder]
  BY DecoderFields
<1>2. i \in VLBIndex
  BY <1>1, VictimIn DEF CamOK, VLBIndex
<1>3. Apart(t)
  BY DEF Kept
<1>4. VLBMiss(s, v, d) = [s EXCEPT !.de[d] = t2]
  BY <1>1, ZenonT(60) DEF VLBMiss, Tables, Decoder
<1>5. v \in Content
  BY DEF Content
<1>6. ~ Has(t.m_value, v) /\ ~ Has(t.vlb_value, v)
  OBVIOUS
<1> HIDE DEF i, t
<1>7. /\ t2.m_value = t.m_value /\ t2.vlb_value = [t.vlb_value EXCEPT ![i] = v]
      /\ t2 \in Decoder
  BY <1>1, <1>2, <1>5 DEF Decoder
<1> HIDE DEF t2
<1>8. Apart(t2)
  <2>1. Single(t2.vlb_value)
    BY <1>1, <1>2, <1>3, <1>5, <1>6, <1>7, PutKeepsSingle DEF Apart
  <2>2. \A w \in Value : ~ (Has(t2.m_value, w) /\ Has(t2.vlb_value, w))
    BY <1>1, <1>2, <1>3, <1>6, <1>7 DEF Apart, Has
  <2> QED
    BY <2>1, <2>2, <1>3, <1>7 DEF Apart
<1> QED
  BY <1>4, <1>7, <1>8, DecoderChanges DEF t

LEMMA HitKeeps ==
  ASSUME CamOK, NEW s, Kept(s), NEW v \in Value, NEW d \in Router, NEW src \in Router,
         Has(s.de[d].m_value, v)
  PROVE  Kept(CAMHit(s, v, d, src))
<1> DEFINE t == s.de[d]
           i == EntryOf(t.m_value, v)
           t2 == [t EXCEPT !.m_src_valid = [t.m_src_valid EXCEPT ![i] = [@ EXCEPT ![src] = TRUE]]]
           s2 == [s EXCEPT !.de[d] = t2]
           u == IF t.m_src_valid[i][src] THEN s ELSE SendReplacePkt(s2, v, i, d, src)
           t3 == [u.de[d] EXCEPT !.m_freq = Used(@, i)]
<1>1. /\ t \in Decoder /\ t.m_value \in [DeIndex -> Content]
      /\ t.m_src_valid \in [DeIndex -> [Router -> BOOLEAN]]
      /\ s \in Tables /\ s.de \in [Router -> Decoder]
  BY DecoderFields
<1>2. i \in DeIndex /\ t.m_value[i] = v
  BY <1>1, EntryFound
<1>3. [s EXCEPT !.de[d].m_src_valid[i][src] = TRUE] = s2
  BY <1>1, <1>2 DEF Tables, Decoder
<1>4. CAMHit(s, v, d, src) = [u EXCEPT !.de[d].m_freq = Used(@, i)]
  BY <1>3 DEF CAMHit
<1> HIDE DEF i, t
<1>5. t2.m_value = t.m_value /\ t2.vlb_value = t.vlb_value /\ t2 \in Decoder
  <2>1. [t.m_src_valid EXCEPT ![i] = [@ EXCEPT ![src] = TRUE]] \in [DeIndex -> [Router -> BOOLEAN]]
    BY <1>1, <1>2
  <2> QED
    BY <1>1, <2>1 DEF Decoder
<1> HIDE DEF t2
<1>6. Kept(s2) /\ s2.de[d] = t2
  BY <1>5, ValuesStay DEF t
<1>7. Kept(u)
  <2>1. s2.de[d].m_value[i] = v
    BY <1>2, <1>5, <1>6
  <2> HIDE DEF s2
  <2>2. Kept(SendReplacePkt(s2, v, i, d, src))
    BY <1>2, <1>6, <2>1, Told
  <2> QED
    BY <2>2
<1> HIDE DEF u
<1>8. u \in Tables /\ u.de[d] \in Decoder /\ u.de[d].m_freq \in [DeIndex -> Nat] /\ u.de \in [Router -> Decoder]
  BY <1>7, DecoderFields
<1>9. t3 \in Decoder /\ t3.m_value = u.de[d].m_value /\ t3.vlb_value = u.de[d].vlb_value
  <2>1. Used(u.de[d].m_freq, i) \in [DeIndex -> Nat]
    BY <1>2, <1>8, UsedType
  <2> QED
    BY <1>8, <2>1 DEF Decoder
<1>10. [u EXCEPT !.de[d].m_freq = Used(@, i)] = [u EXCEPT !.de[d] = t3]
  BY <1>8 DEF Tables, Decoder
<1> HIDE DEF t3
<1>11. Kept([u EXCEPT !.de[d] = t3])
  BY <1>7, <1>9, ValuesStay
<1> QED
  BY <1>4, <1>10, <1>11

LEMMA MoveKeeps ==
  ASSUME CamOK, NEW s, Kept(s), NEW v \in Value, NEW d \in Router, NEW src \in Router,
         ~ Has(s.de[d].m_value, v), Has(s.de[d].vlb_value, v)
  PROVE  Kept(MoveToCAM(s, v, d, src))
<1> DEFINE t == s.de[d]
           i == Victim(t.m_value, t.m_freq)
           k == EntryOf(t.vlb_value, v)
           t2 == [t EXCEPT !.m_value = [t.m_value EXCEPT ![i] = v],
                           !.m_freq = [t.m_freq EXCEPT ![i] = 1],
                           !.m_src_valid = [t.m_src_valid EXCEPT ![i] = [@ EXCEPT ![src] = TRUE]],
                           !.vlb_value = [t.vlb_value EXCEPT ![k] = NoValue],
                           !.vlb_freq = [t.vlb_freq EXCEPT ![k] = 0]]
           s2 == [s EXCEPT !.de[d] = t2]
<1>1. /\ t \in Decoder /\ t.m_value \in [DeIndex -> Content] /\ t.m_freq \in [DeIndex -> Nat]
      /\ t.m_src_valid \in [DeIndex -> [Router -> BOOLEAN]]
      /\ t.vlb_value \in [VLBIndex -> Content] /\ t.vlb_freq \in [VLBIndex -> Nat]
      /\ s \in Tables /\ s.de \in [Router -> Decoder]
  BY DecoderFields
<1>2. i \in DeIndex
  BY <1>1, VictimIn DEF CamOK, DeIndex
<1>3. k \in VLBIndex /\ t.vlb_value[k] = v
  BY <1>1, EntryFound
<1>4. Apart(t)
  BY DEF Kept
<1>5. v \in Content /\ NoValue \in Content /\ v # NoValue
  BY DEF Content, CamOK
<1>6. [s EXCEPT !.de[d].m_value[i] = v, !.de[d].m_freq[i] = 1, !.de[d].m_src_valid[i][src] = TRUE,
                !.de[d].vlb_value[k] = NoValue, !.de[d].vlb_freq[k] = 0] = s2
  <2> DEFINE Put(x) == [s EXCEPT !.de[d] = x]
             src_valid == [t.m_src_valid EXCEPT ![i] = [t.m_src_valid[i] EXCEPT ![src] = TRUE]]
             a1 == [t EXCEPT !.m_value = [t.m_value EXCEPT ![i] = v]]
             a2 == [a1 EXCEPT !.m_freq = [t.m_freq EXCEPT ![i] = 1]]
             a3 == [a2 EXCEPT !.m_src_valid = src_valid]
             a4 == [a3 EXCEPT !.vlb_value = [t.vlb_value EXCEPT ![k] = NoValue]]
  <2> HIDE DEF i, k, t
  <2>1. a1 \in Decoder /\ a1.m_freq = t.m_freq
    BY <1>1, <1>2, <1>5 DEF Decoder
  <2>2. a2 \in Decoder /\ a2.m_src_valid = t.m_src_valid
    BY <1>1, <1>2, <2>1 DEF Decoder
  <2>3. a3 \in Decoder /\ a3.vlb_value = t.vlb_value
    <3>1. src_valid \in [DeIndex -> [Router -> BOOLEAN]]
      BY <1>1, <1>2
    <3> HIDE DEF src_valid
    <3> QED
      BY <1>1, <2>2, <3>1 DEF Decoder
  <2>4. a4 \in Decoder /\ a4.vlb_freq = t.vlb_freq
    BY <1>1, <1>3, <1>5, <2>3, ZenonT(60) DEF Decoder
  <2>5. [s EXCEPT !.de[d].m_value[i] = v] = Put(a1)
    BY Zenon DEF t
  <2>6. \A x \in Decoder : Put(x).de[d] = x /\ (\A y : [Put(x) EXCEPT !.de[d] = y] = Put(y))
    BY <1>1, ZenonT(60) DEF Tables
  <2> HIDE DEF Put
  <2>7. [Put(a1) EXCEPT !.de[d].m_freq[i] = 1] = Put(a2)
    <3> HIDE DEF a1
    <3>1. [Put(a1) EXCEPT !.de[d].m_freq[i] = 1]
            = [Put(a1) EXCEPT !.de[d] = [Put(a1).de[d] EXCEPT !.m_freq = [Put(a1).de[d].m_freq EXCEPT ![i] = 1]]]
      BY Zenon
    <3> QED
      BY <3>1, <2>1, <2>6
  <2>8. [Put(a2) EXCEPT !.de[d].m_src_valid[i][src] = TRUE] = Put(a3)
    <3> HIDE DEF a2
    <3>1. [Put(a2) EXCEPT !.de[d].m_src_valid[i][src] = TRUE]
            = [Put(a2) EXCEPT !.de[d] = [Put(a2).de[d] EXCEPT !.m_src_valid =
                  [Put(a2).de[d].m_src_valid EXCEPT ![i] = [Put(a2).de[d].m_src_valid[i] EXCEPT ![src] = TRUE]]]]
      BY Zenon
    <3>2. [Put(a2) EXCEPT !.de[d].m_src_valid[i][src] = TRUE]
            = [Put(a2) EXCEPT !.de[d] = [a2 EXCEPT !.m_src_valid = src_valid]]
      BY <3>1, <2>2, <2>6
    <3> HIDE DEF src_valid
    <3> QED
      BY <3>2, <2>2, <2>6
  <2>9. [Put(a3) EXCEPT !.de[d].vlb_value[k] = NoValue] = Put(a4)
    <3> HIDE DEF a3
    <3>1. [Put(a3) EXCEPT !.de[d].vlb_value[k] = NoValue]
            = [Put(a3) EXCEPT !.de[d] = [Put(a3).de[d] EXCEPT !.vlb_value = [Put(a3).de[d].vlb_value EXCEPT ![k] = NoValue]]]
      BY Zenon
    <3> QED
      BY <3>1, <2>3, <2>6
  <2>10. [Put(a4) EXCEPT !.de[d].vlb_freq[k] = 0] = s2
    <3>1. t2 = [a4 EXCEPT !.vlb_freq = [t.vlb_freq EXCEPT ![k] = 0]]
      BY <1>1 DEF Decoder
    <3>2. s2 = Put(t2)
      BY DEF Put
    <3> HIDE DEF a4, t2, s2
    <3>3. [Put(a4) EXCEPT !.de[d].vlb_freq[k] = 0]
            = [Put(a4) EXCEPT !.de[d] = [Put(a4).de[d] EXCEPT !.vlb_freq = [Put(a4).de[d].vlb_freq EXCEPT ![k] = 0]]]
      BY Zenon
    <3> QED
      BY <3>1, <3>2, <3>3, <2>4, <2>6
  <2> DEFINE b1 == [s EXCEPT !.de[d].m_value[i] = v]
             b2 == [b1 EXCEPT !.de[d].m_freq[i] = 1]
             b3 == [b2 EXCEPT !.de[d].m_src_valid[i][src] = TRUE]
             b4 == [b3 EXCEPT !.de[d].vlb_value[k] = NoValue]
  <2>11. [s EXCEPT !.de[d].m_value[i] = v, !.de[d].m_freq[i] = 1, !.de[d].m_src_valid[i][src] = TRUE,
                   !.de[d].vlb_value[k] = NoValue, !.de[d].vlb_freq[k] = 0]
           = [b4 EXCEPT !.de[d].vlb_freq[k] = 0]
    BY Zenon
  <2> HIDE DEF a1, a2, a3, a4, s2
  <2>12. b1 = Put(a1)
    BY <2>5
  <2> HIDE DEF b1
  <2>13. b2 = Put(a2)
    BY <2>7, <2>12, Zenon
  <2> HIDE DEF b2
  <2>14. b3 = Put(a3)
    BY <2>8, <2>13, Zenon
  <2> HIDE DEF b3
  <2>15. b4 = Put(a4)
    BY <2>9, <2>14, ZenonT(40)
  <2> HIDE DEF b4
  <2> QED
    BY <2>10, <2>11, <2>15, Zenon
<1>7. MoveToCAM(s, v, d, src) = SendReplacePkt(s2, v, i, d, src)
  BY <1>6, Zenon DEF MoveToCAM
<1>8. ~ Has(t.m_value, v)
  OBVIOUS
<1> HIDE DEF i, k, t
<1>9. /\ t2.m_value = [t.m_value EXCEPT ![i] = v]
      /\ t2.vlb_value = [t.vlb_value EXCEPT ![k] = NoValue]
  BY <1>1 DEF Decoder
<1>10. t2 \in Decoder
  <2>1. [t.m_src_valid EXCEPT ![i] = [@ EXCEPT ![src] = TRUE]] \in [DeIndex -> [Router -> BOOLEAN]]
    BY <1>1, <1>2
  <2>2. [t.m_value EXCEPT ![i] = v] \in [DeIndex -> Content] /\ [t.m_freq EXCEPT ![i] = 1] \in [DeIndex -> Nat]
    BY <1>1, <1>2, <1>5
  <2>3. [t.vlb_value EXCEPT ![k] = NoValue] \in [VLBIndex -> Content] /\ [t.vlb_freq EXCEPT ![k] = 0] \in [VLBIndex -> Nat]
    BY <1>1, <1>3, <1>5
  <2> QED
    BY <1>1, <2>1, <2>2, <2>3 DEF Decoder
<1> HIDE DEF t2
<1>11. Apart(t2)
  <2>1. Single(t2.m_value)
    BY <1>1, <1>2, <1>4, <1>5, <1>8, <1>9, PutKeepsSingle DEF Apart
  <2>2. Single(t2.vlb_value)
    BY <1>1, <1>3, <1>4, <1>9, ClearKeepsSingle DEF Apart
  <2>3. ~ Has(t2.vlb_value, v)
    <3>1. \A j \in VLBIndex : t.vlb_value[j] = v => j = k
      BY <1>1, <1>3, <1>4, <1>5 DEF Apart, Single
    <3> QED
      BY <3>1, <1>1, <1>3, <1>5, <1>9 DEF Has
  <2>4. ASSUME NEW w \in Value, Has(t2.m_value, w), Has(t2.vlb_value, w)
        PROVE  FALSE
    <3>1. w # v
      BY <2>3, <2>4
    <3>2. w # NoValue
      BY DEF CamOK
    <3>3. Has(t.m_value, w)
      BY <3>1, <2>4, <1>1, <1>2, <1>9 DEF Has
    <3>4. Has(t.vlb_value, w)
      BY <3>2, <2>4, <1>1, <1>3, <1>9 DEF Has
    <3> QED
      BY <3>3, <3>4, <1>4 DEF Apart
  <2> QED
    BY <2>1, <2>2, <2>4 DEF Apart
<1>12. \A j \in DeIndex : s.de[d].m_value[j] # NoValue => t2.m_value[j] # NoValue
  BY <1>1, <1>2, <1>5, <1>9 DEF t
<1>13. Kept(s2) /\ s2.de[d] = t2
  BY <1>10, <1>11, <1>12, DecoderChanges
<1>14. s2.de[d].m_value[i] = v
  BY <1>1, <1>2, <1>9, <1>13
<1> HIDE DEF s2
<1>15. Kept(SendReplacePkt(s2, v, i, d, src))
  BY <1>2, <1>13, <1>14, Told
<1> QED
  BY <1>7, <1>15

LEMMA VLBHitKeeps ==
  ASSUME CamOK, NEW s, Kept(s), NEW v \in Value, NEW d \in Router, NEW src \in Router,
         ~ Has(s.de[d].m_value, v), Has(s.de[d].vlb_value, v)
  PROVE  Kept(VLBHit(s, v, d, src))
<1> DEFINE t == s.de[d]
           k == EntryOf(t.vlb_value, v)
           t2 == [t EXCEPT !.vlb_freq = [t.vlb_freq EXCEPT ![k] = @ + 1]]
           u == [s EXCEPT !.de[d] = t2]
<1>1. /\ t \in Decoder /\ t.vlb_value \in [VLBIndex -> Content] /\ t.vlb_freq \in [VLBIndex -> Nat]
      /\ s \in Tables /\ s.de \in [Router -> Decoder]
  BY DecoderFields
<1>2. k \in VLBIndex
  BY <1>1, EntryFound
<1>3. [s EXCEPT !.de[d].vlb_freq[k] = @ + 1] = u
  BY <1>1, <1>2 DEF Tables, Decoder
<1>4. VLBHit(s, v, d, src) = IF u.de[d].vlb_freq[k] > VLBSaturation THEN MoveToCAM(u, v, d, src) ELSE u
  BY <1>3 DEF VLBHit
<1> HIDE DEF k, t
<1>5. t2.m_value = t.m_value /\ t2.vlb_value = t.vlb_value /\ t2 \in Decoder
  <2>1. [t.vlb_freq EXCEPT ![k] = @ + 1] \in [VLBIndex -> Nat]
    BY <1>1, <1>2
  <2> QED
    BY <1>1, <2>1 DEF Decoder
<1> HIDE DEF t2
<1>6. Kept(u) /\ u.de[d] = t2
  BY <1>5, ValuesStay DEF t
<1>7. ~ Has(u.de[d].m_value, v) /\ Has(u.de[d].vlb_value, v)
  BY <1>5, <1>6 DEF t
<1> HIDE DEF u
<1>8. Kept(MoveToCAM(u, v, d, src))
  BY <1>6, <1>7, MoveKeeps
<1> QED
  BY <1>4, <1>6, <1>8

LEMMA DecodeKeeps ==
  ASSUME CamOK, NEW s, Kept(s), NEW v \in Value, NEW d \in Router, NEW src \in Router
  PROVE  Kept(DeAccess(s, v, d, src))
BY MissKeeps, HitKeeps, VLBHitKeeps DEF DeAccess

-----------------------------------------------------------------------------
(* Whole payloads. *)

LEMMA PayloadLookedUp ==
  ASSUME NEW e \in Encoder, NEW p \in Seq(Value), NEW d \in Router
  PROVE  LET Access(t, v) == EnAccess(t, v, d)
         IN  FoldLeft(Access, [table |-> e, sts |-> <<>>], p) \in LookedUp(e)
<1> DEFINE Access(t, v) == EnAccess(t, v, d)
           n == Len(p)
           G == LookedUp(e)
           base == [table |-> e, sts |-> <<>>]
           H == [i \in 1 .. n |-> [t \in G |-> EnAccess(t, p[i], d)]]
           Solves(g) == g = [S \in SUBSET DOMAIN p |->
                               IF S = {} THEN base ELSE EnAccess(g[S \ {Max(S)}], p[Max(S)], d)]
           through == CHOOSE g : Solves(g)
<1>1. n \in Nat /\ DOMAIN p = 1 .. n /\ \A i \in 1 .. n : p[i] \in Value
  OBVIOUS
<1>2. base \in G
  BY DEF LookedUp
<1>3. H \in [1 .. n -> [G -> G]]
  BY <1>1, LookUp
<1>4. \E g : Solves(g)
  <2> HIDE DEF base, G
  <2>1. PICK g \in [SUBSET (1 .. n) -> G] :
          \A S \in SUBSET (1 .. n) : g[S] = IF S = {} THEN base ELSE H[Max(S)][g[S \ {Max(S)}]]
    <3> HIDE DEF H, n
    <3>1. n \in Nat
      BY <1>1
    <3>2. Foldable(n, G, base, H)
      BY <3>1, <1>2, <1>3, FoldExists
    <3> QED
      BY <3>2 DEF Foldable
  <2>2. ASSUME NEW S \in SUBSET (1 .. n), S # {}
        PROVE  H[Max(S)][g[S \ {Max(S)}]] = EnAccess(g[S \ {Max(S)}], p[Max(S)], d)
    <3>1. Max(S) \in 1 .. n /\ S \ {Max(S)} \in SUBSET (1 .. n)
      BY <1>1, <2>2, LastIn
    <3>2. g[S \ {Max(S)}] \in G
      BY <2>1, <3>1
    <3> QED
      BY <3>1, <3>2
  <2> HIDE DEF H, n
  <2>3. g = [S \in SUBSET (1 .. n) |-> g[S]]
    OBVIOUS
  <2>4. Solves(g)
    BY <1>1, <2>1, <2>2, <2>3
  <2> HIDE DEF Solves
  <2> QED
    BY <2>4
<1>5. Solves(through)
  <2> HIDE DEF Solves
  <2> QED
    BY <1>4
<1>6. FoldLeft(Access, base, p) = through[DOMAIN p]
  BY DEF FoldLeft, MapThenFoldSet
<1> HIDE DEF through, base, G
<1>7. through[{}] = base /\ \A S \in SUBSET DOMAIN p : S # {} =>
        through[S] = EnAccess(through[S \ {Max(S)}], p[Max(S)], d)
  BY <1>5
<1> DEFINE Q == {k \in Nat : k <= n => through[1 .. k] \in G}
<1>8. 0 \in Q
  BY <1>2, <1>7
<1>9. ASSUME NEW k \in Nat, k < n, k \in Q
      PROVE  k + 1 \in Q
  <2>1. through[1 .. k] \in G
    BY <1>1, <1>9
  <2>2. through[1 .. k + 1] = EnAccess(through[1 .. k], p[k + 1], d)
    <3>1. (1 .. k + 1) \in SUBSET DOMAIN p /\ 1 .. k + 1 # {}
      <4> HIDE DEF Q
      <4>1. k + 1 <= n /\ n \in Nat
        BY <1>1, <1>9
      <4>2. 1 .. k + 1 \in SUBSET (1 .. n) /\ 1 \in 1 .. k + 1
        BY <4>1
      <4> QED
        BY <1>1, <4>2
    <3> DEFINE S == 1 .. k + 1
    <3>2. Max(S) = k + 1 /\ S \ {k + 1} = 1 .. k
      BY LastOf
    <3> HIDE DEF S
    <3>3. through[S] = EnAccess(through[S \ {Max(S)}], p[Max(S)], d)
      BY <3>1, <1>7 DEF S
    <3> QED
      BY <3>2, <3>3 DEF S
  <2>3. p[k + 1] \in Value
    BY <1>1, <1>9
  <2> QED
    BY <2>1, <2>2, <2>3, LookUp DEF G
<1>10. n \in Q
  <2>1. Q \in SUBSET Nat
    OBVIOUS
  <2> HIDE DEF Q
  <2>2. \A k \in 0 .. n : k \in Q
    BY <1>1, <1>8, <1>9, <2>1, UpTo
  <2> QED
    BY <1>1, <2>2
<1>11. through[DOMAIN p] \in G
  BY <1>1, <1>10
<1> QED
  BY <1>6, <1>11 DEF G, base

LEMMA PayloadDecoded ==
  ASSUME CamOK, NEW base, Kept(base), NEW p \in Seq(Value), NEW d \in Router, NEW src \in Router
  PROVE  LET Update(s, v) == DeAccess(s, v, d, src)
         IN  Kept(FoldLeft(Update, base, p))
<1> DEFINE Update(s, v) == DeAccess(s, v, d, src)
           n == Len(p)
           G == {s \in Tables : Kept(s)}
           H == [i \in 1 .. n |-> [t \in G |-> DeAccess(t, p[i], d, src)]]
           Solves(g) == g = [S \in SUBSET DOMAIN p |->
                               IF S = {} THEN base ELSE DeAccess(g[S \ {Max(S)}], p[Max(S)], d, src)]
           through == CHOOSE g : Solves(g)
<1>1. n \in Nat /\ DOMAIN p = 1 .. n /\ \A i \in 1 .. n : p[i] \in Value
  OBVIOUS
<1>2. \A s \in G, v \in Value : DeAccess(s, v, d, src) \in G
  BY DecodeKeeps DEF Kept
<1>3. base \in G
  BY DEF Kept
<1>4. H \in [1 .. n -> [G -> G]]
  BY <1>1, <1>2
<1>5. \E g : Solves(g)
  <2> HIDE DEF G
  <2>1. PICK g \in [SUBSET (1 .. n) -> G] :
          \A S \in SUBSET (1 .. n) : g[S] = IF S = {} THEN base ELSE H[Max(S)][g[S \ {Max(S)}]]
    <3> HIDE DEF H, n
    <3>1. n \in Nat
      BY <1>1
    <3>2. Foldable(n, G, base, H)
      BY <3>1, <1>3, <1>4, FoldExists
    <3> QED
      BY <3>2 DEF Foldable
  <2>2. ASSUME NEW S \in SUBSET (1 .. n), S # {}
        PROVE  H[Max(S)][g[S \ {Max(S)}]] = DeAccess(g[S \ {Max(S)}], p[Max(S)], d, src)
    <3>1. Max(S) \in 1 .. n /\ S \ {Max(S)} \in SUBSET (1 .. n)
      BY <1>1, <2>2, LastIn
    <3>2. g[S \ {Max(S)}] \in G
      BY <2>1, <3>1
    <3> QED
      BY <3>1, <3>2
  <2> HIDE DEF H, n
  <2>3. g = [S \in SUBSET (1 .. n) |-> g[S]]
    OBVIOUS
  <2>4. Solves(g)
    BY <1>1, <2>1, <2>2, <2>3
  <2> HIDE DEF Solves
  <2> QED
    BY <2>4
<1>6. Solves(through)
  <2> HIDE DEF Solves
  <2> QED
    BY <1>5
<1>7. FoldLeft(Update, base, p) = through[DOMAIN p]
  BY DEF FoldLeft, MapThenFoldSet
<1> HIDE DEF through, G
<1>8. through[{}] = base /\ \A S \in SUBSET DOMAIN p : S # {} =>
        through[S] = DeAccess(through[S \ {Max(S)}], p[Max(S)], d, src)
  BY <1>6
<1> DEFINE Q == {k \in Nat : k <= n => through[1 .. k] \in G}
<1>9. 0 \in Q
  BY <1>3, <1>8
<1>10. ASSUME NEW k \in Nat, k < n, k \in Q
      PROVE  k + 1 \in Q
  <2>1. through[1 .. k] \in G
    BY <1>1, <1>10
  <2>2. through[1 .. k + 1] = DeAccess(through[1 .. k], p[k + 1], d, src)
    <3>1. (1 .. k + 1) \in SUBSET DOMAIN p /\ 1 .. k + 1 # {}
      <4> HIDE DEF Q
      <4>1. k + 1 <= n /\ n \in Nat
        BY <1>1, <1>10
      <4>2. 1 .. k + 1 \in SUBSET (1 .. n) /\ 1 \in 1 .. k + 1
        BY <4>1
      <4> QED
        BY <1>1, <4>2
    <3> DEFINE S == 1 .. k + 1
    <3>2. Max(S) = k + 1 /\ S \ {k + 1} = 1 .. k
      BY LastOf
    <3> HIDE DEF S
    <3>3. through[S] = DeAccess(through[S \ {Max(S)}], p[Max(S)], d, src)
      BY <3>1, <1>8 DEF S
    <3> QED
      BY <3>2, <3>3 DEF S
  <2>3. p[k + 1] \in Value
    BY <1>1, <1>10
  <2> QED
    BY <2>1, <2>2, <2>3, <1>2
<1>11. n \in Q
  <2>1. Q \in SUBSET Nat
    OBVIOUS
  <2> HIDE DEF Q
  <2>2. \A k \in 0 .. n : k \in Q
    BY <1>1, <1>9, <1>10, <2>1, UpTo
  <2> QED
    BY <1>1, <2>2
<1>12. through[DOMAIN p] \in G
  BY <1>1, <1>11
<1> QED
  BY <1>7, <1>12 DEF G

-----------------------------------------------------------------------------
(* The inductive invariant. *)

LEMMA CamStart == CamOK /\ Init => CamInv
<1> SUFFICES ASSUME CamOK, Init
             PROVE  CamInv
  OBVIOUS
<1>1. NoValue \in Content /\ MISS \in Int /\ 0 \in Nat
  BY DEF Content, MISS
<1>2. EnAlloc \in Encoder /\ EnAlloc.m_value = [i \in EnIndex |-> NoValue]
      /\ \A i \in EnIndex, d \in Router : EnAlloc.m_dest_valid[i][d] = FALSE
  BY <1>1 DEF EnAlloc, Encoder
<1>3. DeAlloc \in Decoder /\ DeAlloc.m_value = [i \in DeIndex |-> NoValue]
      /\ DeAlloc.vlb_value = [i \in VLBIndex |-> NoValue]
  BY <1>1 DEF DeAlloc, Decoder
<1>4. Single(EnAlloc.m_value)
  BY <1>2 DEF Single
<1>5. Apart(DeAlloc)
  <2>1. \A v \in Value : v # NoValue
    BY DEF CamOK
  <2> QED
    BY <1>3, <2>1 DEF Apart, Single, Has
<1>6. en = [r \in Router |-> EnAlloc] /\ de = [r \in Router |-> DeAlloc] /\ net = <<>> /\ announced = {}
  BY DEF Init
<1>7. Leads(EnAlloc, de)
  BY <1>2 DEF Leads
<1>8. TablesNow \in Tables
  BY <1>2, <1>3, <1>6 DEF TablesNow, Tables
<1>9. TablesNow.en = en /\ TablesNow.de = de
  BY DEF TablesNow
<1>10. Kept(TablesNow)
  BY <1>4, <1>5, <1>6, <1>7, <1>8, <1>9 DEF Kept
<1> QED
  BY <1>6, <1>10 DEF CamInv

LEMMA CompressKeeps ==
  ASSUME CamOK, CamInv, NEW src \in Router, NEW dst \in Router, NEW p \in Seq(Value),
         Compress(src, dst, p)
  PROVE  CamInv'
<1> DEFINE Access(t, v) == EnAccess(t, v, dst)
           t == FoldLeft(Access, [table |-> en[src], sts |-> <<>>], p)
           packet == [src |-> src, dst |-> dst, payload |-> p, en_sts_vec |-> t.sts]
<1>1. /\ Kept(TablesNow) /\ net \in Seq(Packet) /\ TablesNow \in Tables
      /\ en \in [Router -> Encoder] /\ de \in [Router -> Decoder] /\ announced \in SUBSET Said
  BY DEF CamInv, Kept, Tables, TablesNow
<1>2. t \in LookedUp(en[src])
  BY <1>1, PayloadLookedUp
<1>3. /\ en' = [en EXCEPT ![src] = t.table] /\ net' = Append(net, packet)
      /\ de' = de /\ announced' = announced
  BY DEF Compress
<1> HIDE DEF t
<1>4. t.table \in Encoder /\ t.sts \in Seq(Int)
      /\ t.table.m_value = en[src].m_value /\ t.table.m_dest_valid = en[src].m_dest_valid
      /\ t.table.m_dest_index = en[src].m_dest_index
  BY <1>2 DEF LookedUp
<1>5. net' \in Seq(Packet)
  <2>1. packet \in Packet
    BY <1>4 DEF Packet
  <2> HIDE DEF packet
  <2> QED
    BY <1>1, <1>3, <2>1
<1>6. en' \in [Router -> Encoder] /\ en'[src] = t.table /\ \A r \in Router \ {src} : en'[r] = en[r]
  BY <1>1, <1>3, <1>4
<1>7. ASSUME NEW r \in Router
      PROVE  Single(en'[r].m_value) /\ Apart(de[r]) /\ Leads(en'[r], de)
  <2>1. Single(en[r].m_value) /\ Apart(de[r]) /\ Leads(en[r], de)
    BY <1>1, SMTT(30) DEF Kept, TablesNow
  <2>2. CASE r = src
    BY <2>1, <2>2, <1>4, <1>6, SMTT(30) DEF Leads
  <2>3. CASE r # src
    BY <2>1, <2>3, <1>6
  <2> QED
    BY <2>2, <2>3
<1>8. TablesNow' = [en |-> en', de |-> de, announced |-> announced]
  BY <1>3 DEF TablesNow
<1>9. Kept(TablesNow')
  BY <1>1, <1>6, <1>7, <1>8 DEF Kept, Tables
<1> QED
  BY <1>5, <1>9 DEF CamInv

LEMMA DecompressKeeps ==
  ASSUME CamOK, CamInv, NEW k \in DOMAIN net, Decompress(k)
  PROVE  CamInv'
<1> DEFINE Update(s, v) == DeAccess(s, v, net[k].dst, net[k].src)
           u == FoldLeft(Update, [en |-> en, de |-> de, announced |-> announced], net[k].payload)
<1>1. Kept(TablesNow) /\ net \in Seq(Packet)
  BY DEF CamInv
<1>2. net[k].src \in Router /\ net[k].dst \in Router /\ net[k].payload \in Seq(Value)
  <2>1. net[k] \in Packet
    BY <1>1
  <2> QED
    BY <2>1 DEF Packet
<1>3. Kept(u)
  BY <1>1, <1>2, PayloadDecoded DEF TablesNow
<1>4. en' = u.en /\ de' = u.de /\ announced' = u.announced /\ net' = RemoveAt(net, k)
  BY DEF Decompress
<1> HIDE DEF u
<1>5. TablesNow' = u
  BY <1>3, <1>4 DEF TablesNow, Kept, Tables
<1>6. net' \in Seq(Packet)
  <2>1. Len(net) \in Nat /\ k \in 1 .. Len(net)
    BY <1>1
  <2>2. SubSeq(net, 1, k - 1) \in Seq(Packet) /\ SubSeq(net, k + 1, Len(net)) \in Seq(Packet)
    BY <1>1, <2>1
  <2> QED
    BY <1>4, <2>2 DEF RemoveAt
<1> QED
  BY <1>3, <1>5, <1>6 DEF CamInv

LEMMA CamInductive == CamOK /\ Spec => []CamInv
<1>1. CamOK /\ CamInv /\ [Next]_vars => CamInv'
  <2> SUFFICES ASSUME CamOK, CamInv, [Next]_vars
               PROVE  CamInv'
    OBVIOUS
  <2>1. CASE UNCHANGED vars
    BY <2>1 DEF vars, CamInv, TablesNow
  <2>2. CASE Next
    <3>1. ASSUME NEW route \in Route, NEW payload \in Payload, Compress(route[1], route[2], payload)
          PROVE  CamInv'
      <4>1. route[1] \in Router /\ route[2] \in Router /\ payload \in Seq(Value)
        BY DEF CamOK
      <4> QED
        BY <3>1, <4>1, CompressKeeps
    <3>2. ASSUME NEW k \in DOMAIN net, Decompress(k)
          PROVE  CamInv'
      BY <3>2, DecompressKeeps
    <3> QED
      BY <2>2, <3>1, <3>2 DEF Next
  <2> QED
    BY <2>1, <2>2
<1>2. CamOK => CamOK'
  BY DEF CamOK
<1> QED
  BY <1>1, <1>2, CamStart, PTL DEF Spec

\* In the shared scheme a value is in one entry at most of every encoder and
\* decoder, and never in a decoder's VLB as well as in its table, so that the
\* maps of CAMDataEnShared and CAMDataDeShared find it.
THEOREM ValuesHaveOneHome == CamOK /\ Spec => []OneHome
<1>1. CamInv => OneHome
  BY SMTT(30) DEF CamInv, Kept, Apart, Single, TablesNow, OneHome
<1> QED
  BY <1>1, CamInductive, PTL

\* Whatever both have replaced since, the entry that an encoder has for a
\* decoder is one that the decoder uses.
THEOREM IndicesLead == CamOK /\ Spec => []Located
<1>1. CamInv => Located
  BY DEF CamInv, Kept, Leads, TablesNow, Located
<1> QED
  BY <1>1, CamInductive, PTL

-----------------------------------------------------------------------------
(* The private scheme: one encoder table, with its list and its map.       *)

CONSTANTS NumSets, Policy
VARIABLE cam

Table == INSTANCE CamPrivate

\* What the code requires of the configuration; CamPrivate says why two entries.
TableOK ==
  /\ NumSets \in Nat \ {0, 1}
  /\ Payload \subseteq Seq(Value) /\ NoValue \notin Value

Entry == 0 .. NumSets - 1
Link == Entry \cup {-1}

Cam ==
  [m_value : [Entry -> Content], m_next : [Entry -> Link], m_prev : [Entry -> Link],
   m_freq : [Entry -> Nat], m_map : [Value -> Link], head : Entry, tail : Entry,
   datablk : Seq(Value), m_en_new_value_vec : Seq(Value), en_sts_vec : Seq(Int)]

\* The list goes through the entries in the order o.
Order(o) ==
  /\ o \in [Entry -> Entry]
  /\ \A j, k \in Entry : o[j] = o[k] => j = k
  /\ \A i \in Entry : \E k \in Entry : o[k] = i

Listed(t, o) ==
  /\ Order(o)
  /\ t.head = o[0] /\ t.tail = o[NumSets - 1]
  /\ \A k \in Entry : t.m_next[o[k]] = IF k = NumSets - 1 THEN -1 ELSE o[k + 1]
  /\ \A k \in Entry : t.m_prev[o[k]] = IF k = 0 THEN -1 ELSE o[k - 1]

\* The map leads from each value in the table to its entry.
Mapped(t) == \A v \in Value, i \in Entry : t.m_value[i] = v <=> t.m_map[v] = i

\* The inductive invariant.
Intact(t) ==
  /\ t \in Cam
  /\ \E o : Listed(t, o)
  /\ Mapped(t)

LEMMA Entries ==
  ASSUME TableOK
  PROVE  /\ NumSets \in Nat /\ NumSets >= 2 /\ 0 \in Entry /\ NumSets - 1 \in Entry
         /\ \A k \in Entry : /\ k \in Nat /\ k <= NumSets - 1
                             /\ k # 0 => k - 1 \in Entry
                             /\ k # NumSets - 1 => k + 1 \in Entry
<1>1. NumSets \in Nat /\ NumSets # 0 /\ NumSets # 1
  BY DEF TableOK
<1> QED
  BY <1>1 DEF Entry

\* In the order o, entry o[j] moves to the front.
ToFront(o, j) == [k \in Entry |-> IF k = 0 THEN o[j] ELSE IF k <= j THEN o[k - 1] ELSE o[k]]

LEMMA ToFrontOrder ==
  ASSUME TableOK, NEW o, Order(o), NEW j \in Entry
  PROVE  Order(ToFront(o, j))
<1> DEFINE q == ToFront(o, j)
           back(k) == IF k = j THEN 0 ELSE IF k < j THEN k + 1 ELSE k
<1>1. NumSets \in Nat /\ o \in [Entry -> Entry] /\ 0 \in Entry
  BY Entries DEF Order
<1>2. \A k \in Entry : k # 0 => k - 1 \in Entry
  BY Entries
<1>3. q \in [Entry -> Entry]
  BY <1>1, <1>2 DEF ToFront
<1>4. \A k \in Entry : back(k) \in Entry /\ q[back(k)] = o[k]
  BY <1>1, SMTT(30) DEF ToFront, Entry
<1>5. \A k \in Entry : \E m \in Entry : q[k] = o[m] /\ k = back(m)
  <2> SUFFICES ASSUME NEW k \in Entry
               PROVE  \E m \in Entry : q[k] = o[m] /\ k = back(m)
    OBVIOUS
  <2>1. CASE k = 0
    BY <2>1 DEF ToFront
  <2>2. CASE k # 0 /\ k <= j
    <3>1. k - 1 \in Entry /\ q[k] = o[k - 1] /\ k = back(k - 1)
      BY <2>2, <1>2 DEF ToFront, Entry
    <3> QED
      BY <3>1
  <2>3. CASE k # 0 /\ ~ (k <= j)
    <3>1. q[k] = o[k] /\ k = back(k)
      BY <2>3 DEF ToFront, Entry
    <3> QED
      BY <3>1
  <2> QED
    BY <2>1, <2>2, <2>3
<1> HIDE DEF q, back
<1>6. \A k, m \in Entry : q[k] = q[m] => k = m
  BY <1>5 DEF Order
<1>7. \A i \in Entry : \E k \in Entry : q[k] = i
  BY <1>4 DEF Order
<1>8. Order(q)
  BY <1>3, <1>6, <1>7 DEF Order
<1> QED
  BY <1>8 DEF q

LEMMA RelinkedIn ==
  ASSUME NEW t \in Cam, NEW nxt \in [Entry -> Link], NEW prev \in [Entry -> Link],
         NEW head \in Entry, NEW tail \in Entry
  PROVE  [t EXCEPT !.m_next = nxt, !.m_prev = prev, !.head = head, !.tail = tail] \in Cam
BY DEF Cam

\* What becomes of t when entry i, not at the head, moves there.
Spliced(t, u, i) ==
  /\ u = [t EXCEPT !.m_next = u.m_next, !.m_prev = u.m_prev, !.head = i, !.tail = u.tail]
  /\ u.m_next = [x \in Entry |-> IF x = i THEN t.head ELSE IF x = t.m_prev[i] THEN t.m_next[i]
                                 ELSE t.m_next[x]]
  /\ u.m_prev = [x \in Entry |-> IF x = i THEN -1 ELSE IF x = t.head THEN i
                                 ELSE IF x = t.m_next[i] THEN t.m_prev[i] ELSE t.m_prev[x]]
  /\ u.tail = IF i = t.tail THEN t.m_prev[i] ELSE t.tail

LEMMA Relinked ==
  ASSUME TableOK, NEW t \in Cam, NEW o, Listed(t, o), NEW j \in Entry, j # 0
  PROVE  Spliced(t, Table!ToHead(t, o[j]), o[j])
<1> DEFINE i == o[j]
           p == t.m_prev[i]
           n == t.m_next[i]
           h == t.head
           w == Table!Unlink(t, i)
           u == Table!ToHead(t, i)
<1>1. /\ t.m_next \in [Entry -> Link] /\ t.m_prev \in [Entry -> Link] /\ t.head \in Entry
      /\ o \in [Entry -> Entry] /\ \A k, m \in Entry : o[k] = o[m] => k = m
  BY DEF Cam, Listed, Order
<1>2. i \in Entry /\ i # h /\ h = o[0] /\ h \in Entry /\ 0 \in Entry
  <2>1. h = o[0]
    BY DEF Listed
  <2> QED
    BY <2>1, <1>1, Entries
<1>3. p = o[j - 1] /\ j - 1 \in Entry /\ p \in Entry /\ p # i
  <2>1. p = o[j - 1]
    BY DEF Listed
  <2>2. j - 1 \in Entry /\ j - 1 # j
    BY Entries
  <2> QED
    BY <2>1, <2>2, <1>1
<1>4. (i = t.tail <=> j = NumSets - 1) /\ (i = t.tail => n = -1)
      /\ (i # t.tail => n \in Entry /\ n # i /\ n # h)
  <2>1. NumSets - 1 \in Entry /\ t.tail = o[NumSets - 1]
    BY Entries DEF Listed
  <2>2. i = t.tail <=> j = NumSets - 1
    BY <2>1, <1>1
  <2>3. j = NumSets - 1 => n = -1
    BY DEF Listed
  <2>4. j # NumSets - 1 => n = o[j + 1]
    BY DEF Listed
  <2>5. j # NumSets - 1 => o[j + 1] \in Entry /\ o[j + 1] # o[j] /\ o[j + 1] # o[0]
    <3>1. j # NumSets - 1 => j + 1 \in Entry /\ j + 1 # j /\ j + 1 # 0
      BY Entries
    <3> QED
      BY <3>1, <1>1, <1>2
  <2> HIDE DEF n
  <2> QED
    BY <2>2, <2>3, <2>4, <2>5, <1>2
<1>5. u = [w EXCEPT !.m_next[i] = w.head, !.m_prev[i] = -1, !.m_prev[w.head] = i, !.head = i]
  BY <1>2 DEF Table!ToHead, Table!NULL
<1>6. CASE i = t.tail
  <2>1. w = [t EXCEPT !.m_next[p] = -1, !.tail = p]
    BY <1>6 DEF Table!Unlink, Table!NULL
  <2> HIDE DEF i, p, n, h, w, u
  <2>2. /\ w = [t EXCEPT !.m_next = [t.m_next EXCEPT ![p] = -1], !.tail = p]
        /\ w.m_next = [t.m_next EXCEPT ![p] = -1] /\ w.m_prev = t.m_prev /\ w.tail = p /\ w.head = h
    BY <2>1 DEF Cam, h
  <2>3. /\ u = [w EXCEPT !.m_next = u.m_next, !.m_prev = u.m_prev, !.head = i]
        /\ u.m_next = [w.m_next EXCEPT ![i] = h]
        /\ u.m_prev = [[w.m_prev EXCEPT ![i] = -1] EXCEPT ![h] = i]
        /\ u.tail = p
    BY <1>5, <2>2, ZenonT(30) DEF Cam
  <2>4. i # p /\ i # h /\ n = -1 /\ i \in Entry /\ h \in Entry /\ p \in Entry
    BY <1>2, <1>3, <1>4, <1>6
  <2>5. u.m_next = [x \in Entry |-> IF x = i THEN h ELSE IF x = p THEN n ELSE t.m_next[x]]
    BY <2>2, <2>3, <2>4, <1>1
  <2>6. u.m_prev = [x \in Entry |-> IF x = i THEN -1 ELSE IF x = h THEN i ELSE IF x = n THEN p ELSE t.m_prev[x]]
    <3>1. \A x \in Entry : x # n
      BY <2>4 DEF Entry
    <3> QED
      BY <3>1, <2>2, <2>3, <2>4, <1>1
  <2>7. u = [t EXCEPT !.m_next = u.m_next, !.m_prev = u.m_prev, !.head = i, !.tail = u.tail]
    BY <2>2, <2>3, ZenonT(60) DEF Cam
  <2>8. u.tail = IF i = t.tail THEN p ELSE t.tail
    BY <2>3, <1>6
  <2> QED
    BY <2>5, <2>6, <2>7, <2>8 DEF i, p, n, h, u, Spliced
<1>7. CASE i # t.tail
  <2>1. w = [t EXCEPT !.m_next[p] = n, !.m_prev[n] = p]
    BY <1>7 DEF Table!Unlink
  <2> HIDE DEF i, p, n, h, w, u
  <2>2. /\ w = [t EXCEPT !.m_next = [t.m_next EXCEPT ![p] = n], !.m_prev = [t.m_prev EXCEPT ![n] = p]]
        /\ w.m_next = [t.m_next EXCEPT ![p] = n] /\ w.m_prev = [t.m_prev EXCEPT ![n] = p]
        /\ w.tail = t.tail /\ w.head = h
    BY <2>1 DEF Cam, h
  <2>3. /\ u = [w EXCEPT !.m_next = u.m_next, !.m_prev = u.m_prev, !.head = i]
        /\ u.m_next = [w.m_next EXCEPT ![i] = h]
        /\ u.m_prev = [[w.m_prev EXCEPT ![i] = -1] EXCEPT ![h] = i]
        /\ u.tail = t.tail
    BY <1>5, <2>2, ZenonT(30) DEF Cam
  <2>4. /\ i # p /\ i # h /\ n # i /\ n # h
        /\ i \in Entry /\ h \in Entry /\ p \in Entry /\ n \in Entry
    BY <1>2, <1>3, <1>4, <1>7
  <2>5. u.m_next = [x \in Entry |-> IF x = i THEN h ELSE IF x = p THEN n ELSE t.m_next[x]]
    BY <2>2, <2>3, <2>4, <1>1
  <2>6. u.m_prev = [x \in Entry |-> IF x = i THEN -1 ELSE IF x = h THEN i ELSE IF x = n THEN p ELSE t.m_prev[x]]
    BY <2>2, <2>3, <2>4, <1>1
  <2>7. u = [t EXCEPT !.m_next = u.m_next, !.m_prev = u.m_prev, !.head = i, !.tail = u.tail]
    BY <2>2, <2>3, ZenonT(60) DEF Cam
  <2>8. u.tail = IF i = t.tail THEN p ELSE t.tail
    BY <2>3, <1>7
  <2> QED
    BY <2>5, <2>6, <2>7, <2>8 DEF i, p, n, h, u, Spliced
<1> QED
  BY <1>6, <1>7

\* The table u is t with its j-th entry at the front of the list.
AtFront(t, o, j, u) ==
  /\ u \in Cam /\ Listed(u, ToFront(o, j))
  /\ u = [t EXCEPT !.m_next = u.m_next, !.m_prev = u.m_prev, !.head = u.head, !.tail = u.tail]

\* It moves the entry to the front of the list, and changes nothing else.
LEMMA Fronted ==
  ASSUME TableOK, NEW t \in Cam, NEW o, Listed(t, o), NEW j \in Entry
  PROVE  AtFront(t, o, j, Table!ToHead(t, o[j]))
<1> USE DEF AtFront
<1> DEFINE u == Table!ToHead(t, o[j])
           i == o[j]
           q == ToFront(o, j)
<1>1. /\ t.m_next \in [Entry -> Link] /\ t.m_prev \in [Entry -> Link] /\ t.head \in Entry /\ t.tail \in Entry
      /\ Order(o) /\ o \in [Entry -> Entry] /\ \A k, m \in Entry : o[k] = o[m] => k = m
  BY DEF Cam, Listed, Order
<1>2. /\ t.head = o[0] /\ t.tail = o[NumSets - 1]
      /\ \A k \in Entry : t.m_next[o[k]] = IF k = NumSets - 1 THEN -1 ELSE o[k + 1]
      /\ \A k \in Entry : t.m_prev[o[k]] = IF k = 0 THEN -1 ELSE o[k - 1]
  BY DEF Listed
<1>3. CASE j = 0
  <2>1. u = t
    BY <1>2, <1>3 DEF Table!ToHead
  <2>2. q = o
    <3>1. \A k \in Entry : q[k] = o[k]
      BY <1>3, Entries DEF ToFront
    <3>2. q = [k \in Entry |-> q[k]]
      BY DEF ToFront
    <3> HIDE DEF q
    <3> QED
      BY <3>1, <3>2, <1>1
  <2>3. t = [t EXCEPT !.m_next = t.m_next, !.m_prev = t.m_prev, !.head = t.head, !.tail = t.tail]
    BY DEF Cam
  <2> HIDE DEF u, q
  <2> QED
    BY <2>1, <2>2, <2>3 DEF u, q
<1>4. CASE j # 0
  <2> DEFINE p == t.m_prev[i]
             n == t.m_next[i]
             h == t.head
  <2>1. /\ u = [t EXCEPT !.m_next = u.m_next, !.m_prev = u.m_prev, !.head = i, !.tail = u.tail]
        /\ u.m_next = [x \in Entry |-> IF x = i THEN h ELSE IF x = p THEN n ELSE t.m_next[x]]
        /\ u.m_prev = [x \in Entry |-> IF x = i THEN -1 ELSE IF x = h THEN i
                                       ELSE IF x = n THEN p ELSE t.m_prev[x]]
        /\ u.tail = IF i = t.tail THEN p ELSE t.tail
    <3>1. Spliced(t, u, i)
      BY <1>4, Relinked
    <3> HIDE DEF u
    <3> QED
      BY <3>1, Zenon DEF Spliced
  <2> HIDE DEF u
  <2>2. h = o[0] /\ p = o[j - 1] /\ j - 1 \in Entry /\ 0 \in Entry /\ i = o[j]
        /\ NumSets \in Nat /\ NumSets - 1 \in Entry
        /\ n = IF j = NumSets - 1 THEN -1 ELSE o[j + 1]
    BY <1>2, <1>4, Entries
  <2>3. i \in Entry /\ p \in Entry /\ h \in Entry /\ n \in Link
    BY <1>1, <2>2 DEF Link
  <2> HIDE DEF i, p, n, h
  <2>4. u.m_next \in [Entry -> Link] /\ u.m_prev \in [Entry -> Link] /\ u.tail \in Entry /\ u.head = i
    <3>1. u.m_next \in [Entry -> Link]
      BY <1>1, <2>1, <2>3 DEF Link
    <3>2. u.m_prev \in [Entry -> Link]
      BY <1>1, <2>1, <2>3 DEF Link
    <3>3. u.tail \in Entry
      BY <1>1, <2>1, <2>3
    <3>4. u.head = i
      BY <2>1, ZenonT(60) DEF Cam
    <3> QED
      BY <3>1, <3>2, <3>3, <3>4
  <2>5. u \in Cam
    <3>1. u = [t EXCEPT !.m_next = u.m_next, !.m_prev = u.m_prev, !.head = i, !.tail = u.tail]
      BY <2>1
    <3>2. [t EXCEPT !.m_next = u.m_next, !.m_prev = u.m_prev, !.head = i, !.tail = u.tail] \in Cam
      BY <2>3, <2>4, RelinkedIn
    <3> QED
      BY <3>1, <3>2
  <2>6. Order(q)
    BY <1>1, ToFrontOrder
  <2>7. q[0] = i /\ \A k \in Entry : k # 0 => q[k] = IF k <= j THEN o[k - 1] ELSE o[k]
    BY <2>2 DEF ToFront
  <2> HIDE DEF q
  <2>8. u.tail = q[NumSets - 1]
    <3>1. i = t.tail <=> j = NumSets - 1
      BY <1>1, <1>2, <2>2
    <3>2. NumSets - 1 # 0 /\ (j # NumSets - 1 => ~ (NumSets - 1 <= j)) /\ NumSets - 1 <= NumSets - 1
      <4>1. NumSets \in Nat /\ NumSets >= 2 /\ j \in Nat /\ j <= NumSets - 1
        BY Entries
      <4> QED
        BY <4>1
    <3> QED
      BY <3>1, <3>2, <2>1, <2>2, <2>7, <1>2
  <2>9. ASSUME NEW k \in Entry
        PROVE  u.m_next[q[k]] = IF k = NumSets - 1 THEN -1 ELSE q[k + 1]
    <3>0. k \in Nat /\ j \in Nat /\ k <= NumSets - 1 /\ j <= NumSets - 1 /\ NumSets \in Nat /\ NumSets >= 2
          /\ j # 0 /\ (k # 0 => k - 1 \in Entry) /\ (k # NumSets - 1 => k + 1 \in Entry)
      BY <1>4, Entries
    <3>1. CASE k = 0
      <4>1. q[k + 1] = o[0] /\ k # NumSets - 1
        BY <3>0, <3>1, <2>7
      <4>2. u.m_next[i] = h
        BY <2>1, <2>3
      <4> QED
        BY <3>1, <4>1, <4>2, <2>2, <2>7
    <3>2. CASE k # 0 /\ k < j
      <4>1. q[k] = o[k - 1] /\ q[k + 1] = o[k] /\ k # NumSets - 1 /\ k - 1 \in Entry /\ k - 1 # j /\ k - 1 # j - 1
            /\ k - 1 # NumSets - 1 /\ (k - 1) + 1 = k
        BY <3>0, <3>2, <2>7
      <4>2. o[k - 1] # i /\ o[k - 1] # p /\ o[k - 1] \in Entry
        BY <4>1, <1>1, <2>2
      <4>3. u.m_next[o[k - 1]] = t.m_next[o[k - 1]]
        BY <4>2, <2>1
      <4>4. t.m_next[o[k - 1]] = o[k]
        BY <4>1, <1>2
      <4> QED
        BY <4>1, <4>3, <4>4
    <3>3. CASE k # 0 /\ k = j
      <4>1. q[k] = p
        BY <3>3, <3>0, <2>2, <2>7
      <4>2. p # i
        <5>1. j - 1 # j
          BY <3>0
        <5> QED
          BY <5>1, <1>1, <2>2
      <4>3. u.m_next[p] = n
        BY <4>2, <2>1, <2>3
      <4>4. j # NumSets - 1 => q[k + 1] = o[j + 1]
        BY <3>3, <3>0, <2>7
      <4> QED
        BY <4>1, <4>3, <4>4, <3>3, <2>2
    <3>4. CASE k > j
      <4>1. q[k] = o[k] /\ k # j /\ k # j - 1 /\ (k # NumSets - 1 => q[k + 1] = o[k + 1])
        BY <3>0, <3>4, <2>7
      <4>2. o[k] # i /\ o[k] # p /\ o[k] \in Entry
        BY <4>1, <1>1, <2>2
      <4>3. u.m_next[o[k]] = t.m_next[o[k]]
        BY <4>2, <2>1
      <4> QED
        BY <4>1, <4>3, <1>2
    <3> QED
      BY <3>0, <3>1, <3>2, <3>3, <3>4
  <2>10. ASSUME NEW k \in Entry
         PROVE  u.m_prev[q[k]] = IF k = 0 THEN -1 ELSE q[k - 1]
    <3>0. k \in Nat /\ j \in Nat /\ k <= NumSets - 1 /\ j <= NumSets - 1 /\ NumSets \in Nat /\ NumSets >= 2
          /\ j # 0 /\ (k # 0 => k - 1 \in Entry)
      BY <1>4, Entries
    <3>1. CASE k = 0
      <4>1. u.m_prev[i] = -1
        BY <2>1, <2>3
      <4> QED
        BY <3>1, <4>1, <2>7
    <3>2. CASE k = 1
      <4>1. q[k] = h /\ q[k - 1] = i /\ k # 0
        BY <3>0, <3>2, <2>2, <2>7
      <4>2. h # i
        BY <3>0, <1>1, <2>2
      <4>3. u.m_prev[h] = i
        BY <4>2, <2>1, <2>3
      <4> QED
        BY <4>1, <4>3
    <3>3. CASE k > 1 /\ k <= j
      <4>1. q[k] = o[k - 1] /\ q[k - 1] = o[k - 2] /\ k - 1 \in Entry /\ k - 1 # j /\ k - 1 # 0 /\ (k - 1) - 1 = k - 2
            /\ (j # NumSets - 1 => k - 1 # j + 1 /\ j + 1 \in Entry)
        <5>1. k - 1 # 0 /\ k - 1 <= j /\ (k - 1) - 1 = k - 2
          BY <3>0, <3>3
        <5> QED
          BY <5>1, <3>0, <3>3, <2>7, Entries
      <4>2. o[k - 1] # i /\ o[k - 1] # h /\ o[k - 1] # n /\ o[k - 1] \in Entry
        <5>1. o[k - 1] \in Entry /\ o[k - 1] # -1
          <6>1. o[k - 1] \in Entry
            BY <4>1, <1>1
          <6> QED
            BY <6>1 DEF Entry
        <5> QED
          BY <5>1, <4>1, <1>1, <2>2
      <4>3. u.m_prev[o[k - 1]] = t.m_prev[o[k - 1]]
        BY <4>2, <2>1
      <4>4. t.m_prev[o[k - 1]] = o[k - 2]
        BY <4>1, <1>2
      <4> QED
        BY <4>1, <4>3, <4>4, <3>3
    <3>4. CASE k > j
      <4>1. q[k] = o[k] /\ k # j /\ k # 0 /\ q[k - 1] = IF k = j + 1 THEN o[j - 1] ELSE o[k - 1]
        BY <3>0, <3>4, <2>7
      <4>2. o[k] # i /\ o[k] # h /\ o[k] \in Entry
        BY <4>1, <1>1, <2>2
      <4>3. o[k] = n <=> k = j + 1
        <5>1. CASE j = NumSets - 1
          BY <5>1, <3>0, <3>4
        <5>2. CASE j # NumSets - 1
          <6>1. j + 1 \in Entry
            BY <5>2, Entries
          <6> QED
            BY <5>2, <6>1, <1>1, <2>2
        <5> QED
          BY <5>1, <5>2
      <4>4. u.m_prev[o[k]] = IF o[k] = n THEN p ELSE t.m_prev[o[k]]
        BY <4>2, <2>1
      <4> QED
        BY <4>1, <4>3, <4>4, <1>2, <2>2
    <3> QED
      BY <3>0, <3>1, <3>2, <3>3, <3>4
  <2>11. Listed(u, q)
    BY <2>4, <2>6, <2>7, <2>8, <2>9, <2>10 DEF Listed
  <2>12. u = [t EXCEPT !.m_next = u.m_next, !.m_prev = u.m_prev, !.head = u.head, !.tail = u.tail]
    BY <2>1, <2>4
  <2> QED
    BY <2>5, <2>11, <2>12 DEF u, q
<1> QED
  BY <1>3, <1>4

\* Followed from the head, the links give the order.
LEMMA WalkIs ==
  ASSUME TableOK, NEW t \in Cam, NEW o, Listed(t, o)
  PROVE  Table!Walk(t) = o
<1> DEFINE nxt(at, k) == CASE k = 0 -> t.head
                            [] k > 0 /\ at[k - 1] = -1 -> -1
                            [] OTHER -> t.m_next[at[k - 1]]
           Walks(at) == at = [k \in Entry |-> nxt(at, k)]
           way == CHOOSE at : Walks(at)
<1>1. Table!Walk(t) = way
  BY DEF Table!Walk, Table!Index, Table!NULL, Entry
<1>2. /\ o \in [Entry -> Entry] /\ t.head = o[0]
      /\ \A k \in Entry : t.m_next[o[k]] = IF k = NumSets - 1 THEN -1 ELSE o[k + 1]
  BY DEF Listed, Order
<1>3. \A k \in Entry : k # 0 => /\ k > 0 /\ k - 1 \in Entry /\ (k - 1) + 1 = k /\ k - 1 # NumSets - 1
                                /\ o[k - 1] # -1
  <2>1. NumSets \in Nat /\ \A k \in Entry : k \in Nat /\ k <= NumSets - 1 /\ k # -1
    <3>1. NumSets \in Nat /\ \A k \in Entry : k \in Nat /\ k <= NumSets - 1
      BY Entries
    <3> QED
      BY <3>1
  <2>2. \A k \in Entry : k # 0 => k - 1 \in Entry
    BY Entries
  <2>3. \A k \in Entry : k # 0 => o[k - 1] \in Entry
    BY <2>2, <1>2
  <2> QED
    BY <2>1, <2>2, <2>3
<1>4. \A k \in Entry : nxt(o, k) = o[k]
  BY <1>2, <1>3
<1>5. Walks(o)
  <2>1. o = [k \in Entry |-> o[k]]
    BY <1>2
  <2> HIDE DEF nxt
  <2> QED
    BY <1>4, <2>1
<1>6. Walks(way)
  <2> HIDE DEF Walks
  <2> QED
    BY <1>5
<1>7. \A k \in Entry : way[k] = nxt(way, k)
  <2> HIDE DEF nxt, way
  <2> QED
    BY <1>6
<1> HIDE DEF way
<1> DEFINE Q == {k \in Nat : k <= NumSets - 1 => way[k] = o[k]}
<1>8. 0 \in Q
  <2>1. 0 \in Entry
    BY Entries
  <2> QED
    BY <1>2, <1>7, <2>1
<1>9. ASSUME NEW k \in Nat, k < NumSets - 1, k \in Q
      PROVE  k + 1 \in Q
  <2>1. k \in Entry /\ k + 1 \in Entry /\ k + 1 # 0 /\ (k + 1) - 1 = k /\ k # NumSets - 1 /\ NumSets \in Nat
    BY <1>9, Entries DEF Entry
  <2>2. way[k] = o[k]
    BY <1>9, <2>1
  <2>3. nxt(way, k + 1) = nxt(o, k + 1)
    BY <2>1, <2>2
  <2>4. way[k + 1] = o[k + 1]
    <3> HIDE DEF nxt
    <3> QED
      BY <1>4, <1>7, <2>1, <2>3
  <2> QED
    BY <2>4
<1>10. \A k \in Entry : way[k] = o[k]
  <2>1. Q \in SUBSET Nat /\ NumSets - 1 \in Nat
    BY Entries
  <2> HIDE DEF Q
  <2>2. \A k \in 0 .. NumSets - 1 : k \in Q
    BY <1>8, <1>9, <2>1, UpTo
  <2>3. \A k \in Entry : k \in Nat /\ k <= NumSets - 1
    BY Entries
  <2> QED
    BY <2>2, <2>3 DEF Q, Entry
<1>11. way = [k \in Entry |-> way[k]]
  BY <1>6
<1>12. way = o
  <2> HIDE DEF nxt, Walks
  <2> QED
    BY <1>2, <1>10, <1>11
<1> QED
  BY <1>1, <1>12

LEMMA LeastUsedIn ==
  ASSUME TableOK, NEW t \in Cam, NEW o, Listed(t, o)
  PROVE  Table!LeastUsed(t) \in Entry
<1> DEFINE Invalid == {k \in Entry : t.m_value[o[k]] = NoValue}
           Least == {k \in Entry : \A j \in Entry : t.m_freq[o[k]] <= t.m_freq[o[j]]}
           S == IF Invalid # {} THEN Invalid ELSE Least
           first == CHOOSE k \in S : \A j \in S : k <= j
<1>1. Table!LeastUsed(t) = o[first]
  BY WalkIs, ZenonT(60) DEF Table!LeastUsed, Table!Index, Entry
<1>2. o \in [Entry -> Entry] /\ t.m_freq \in [Entry -> Nat] /\ 0 \in Entry
  BY Entries DEF Listed, Order, Cam
<1>3. Least # {}
  <2> DEFINE used == {t.m_freq[o[k]] : k \in Entry}
  <2>1. used \in SUBSET Nat /\ used # {}
    BY <1>2
  <2>2. PICK m \in used : \A k \in used : m <= k
    BY <2>1, LeastExists
  <2>3. PICK k \in Entry : t.m_freq[o[k]] = m
    BY <2>2
  <2> QED
    BY <2>2, <2>3
<1>4. S # {} /\ S \in SUBSET Nat /\ S \subseteq Entry
  BY <1>3, Entries
<1> HIDE DEF S
<1>5. first \in S
  <2>1. \E k \in S : \A j \in S : k <= j
    BY <1>4, LeastExists
  <2> QED
    BY <2>1
<1> HIDE DEF first
<1> QED
  BY <1>1, <1>2, <1>4, <1>5

-----------------------------------------------------------------------------
(* Lookups of the private scheme. *)

\* Changes of other fields leave the list as it is.
LEMMA ListStays ==
  ASSUME NEW t, NEW u, NEW o, Listed(t, o),
         u.m_next = t.m_next, u.m_prev = t.m_prev, u.head = t.head, u.tail = t.tail
  PROVE  Listed(u, o)
BY DEF Listed

\* Moving entries leaves the map exact.
LEMMA FrontKeeps ==
  ASSUME TableOK, NEW t, Intact(t), NEW i \in Entry
  PROVE  LET u == Table!ToHead(t, i)
         IN  /\ Intact(u) /\ u.m_value = t.m_value /\ u.m_map = t.m_map
<1> DEFINE u == Table!ToHead(t, i)
<1>1. PICK o : Listed(t, o)
  BY DEF Intact
<1>2. PICK j \in Entry : o[j] = i
  BY <1>1 DEF Listed, Order
<1>3. t \in Cam /\ Mapped(t)
  BY DEF Intact
<1>4. /\ u \in Cam /\ Listed(u, ToFront(o, j))
      /\ u = [t EXCEPT !.m_next = u.m_next, !.m_prev = u.m_prev, !.head = u.head, !.tail = u.tail]
  <2>1. AtFront(t, o, j, Table!ToHead(t, o[j]))
    BY <1>1, <1>3, Fronted, Zenon
  <2> QED
    BY <1>2, <2>1 DEF AtFront
<1> HIDE DEF u
<1>5. u.m_value = t.m_value /\ u.m_map = t.m_map
  BY <1>3, <1>4 DEF Cam
<1>6. Mapped(u)
  BY <1>3, <1>5 DEF Mapped
<1>7. Intact(u)
  BY <1>4, <1>6 DEF Intact
<1> QED
  BY <1>5, <1>7 DEF u

\* A table that differs in its statistics and its answers only.
LEMMA AnswersKeep ==
  ASSUME NEW t, Intact(t), NEW u \in Cam,
         u.m_value = t.m_value, u.m_map = t.m_map,
         u.m_next = t.m_next, u.m_prev = t.m_prev, u.head = t.head, u.tail = t.tail
  PROVE  Intact(u)
<1>1. PICK o : Listed(t, o)
  BY DEF Intact
<1>2. Listed(u, o)
  BY <1>1, ListStays
<1>3. Mapped(u)
  BY DEF Intact, Mapped
<1> QED
  BY <1>2, <1>3 DEF Intact

\* A value that is in no entry may replace any other.
LEMMA EvictKeeps ==
  ASSUME TableOK, NEW t, Intact(t), NEW i \in Entry, NEW v \in Value, t.m_map[v] = -1
  PROVE  Intact(Table!Evict(t, i, v))
<1> DEFINE u == Table!Evict(t, i, v)
           map == [w \in Value |-> IF w = v THEN i ELSE IF w = t.m_value[i] THEN -1 ELSE t.m_map[w]]
           value == [t.m_value EXCEPT ![i] = v]
           freq == [t.m_freq EXCEPT ![i] = 1]
<1>1. /\ t \in Cam /\ Mapped(t) /\ t.m_value \in [Entry -> Content] /\ t.m_map \in [Value -> Link]
      /\ t.m_freq \in [Entry -> Nat]
  BY DEF Intact, Cam
<1>2. u = [t EXCEPT !.m_map = map, !.m_value = value, !.m_freq = freq]
  BY <1>1 DEF Table!Evict, Table!NULL
<1>3. map \in [Value -> Link] /\ value \in [Entry -> Content] /\ freq \in [Entry -> Nat]
  <2>1. i \in Link /\ -1 \in Link /\ v \in Content
    BY DEF Link, Content
  <2>2. map \in [Value -> Link]
    BY <1>1, <2>1
  <2>3. value \in [Entry -> Content]
    BY <1>1, <2>1
  <2>4. freq \in [Entry -> Nat]
    BY <1>1
  <2> QED
    BY <2>2, <2>3, <2>4
<1>4. \A w \in Value, j \in Entry : value[j] = w <=> map[w] = j
  <2>1. \A j \in Entry : j # -1
    BY DEF Entry
  <2>2. \A w \in Value, j \in Entry : t.m_value[j] = w <=> t.m_map[w] = j
    BY <1>1 DEF Mapped
  <2> SUFFICES ASSUME NEW w \in Value, NEW j \in Entry
               PROVE  value[j] = w <=> map[w] = j
    OBVIOUS
  <2>3. value[j] = IF j = i THEN v ELSE t.m_value[j]
    BY <1>1
  <2>4. map[w] = IF w = v THEN i ELSE IF w = t.m_value[i] THEN -1 ELSE t.m_map[w]
    OBVIOUS
  <2> HIDE DEF value, map
  <2> QED
    BY <2>1, <2>2, <2>3, <2>4
<1> HIDE DEF u, map, value, freq
<1>5. u \in Cam
  BY <1>1, <1>2, <1>3 DEF Cam
<1>6. /\ u.m_value = value /\ u.m_map = map
      /\ u.m_next = t.m_next /\ u.m_prev = t.m_prev /\ u.head = t.head /\ u.tail = t.tail
  BY <1>1, <1>2 DEF Cam
<1>7. Mapped(u)
  BY <1>4, <1>6 DEF Mapped
<1>8. PICK o : Listed(t, o)
  BY DEF Intact
<1>9. Listed(u, o)
  BY <1>6, <1>8, ListStays
<1> QED
  BY <1>5, <1>7, <1>9 DEF Intact, u

LEMMA TableMissKeeps ==
  ASSUME TableOK, NEW t, Intact(t), NEW v \in Value, t.m_map[v] = -1
  PROVE  Intact(Table!Miss(t, v))
<1> DEFINE i == IF Policy = "LRU" THEN t.tail ELSE Table!LeastUsed(t)
           s == IF Policy = "LRU" THEN Table!ToHead(t, i) ELSE t
           u == Table!Evict(s, i, v)
           new == IF v \in Table!ToSet(u.m_en_new_value_vec) THEN u.m_en_new_value_vec
                  ELSE Append(u.m_en_new_value_vec, v)
           sts == Append(u.en_sts_vec, -1)
           w == Table!Miss(t, v)
<1>1. i \in Entry
  <2>1. PICK o : Listed(t, o)
    BY DEF Intact
  <2>2. t \in Cam /\ t.tail \in Entry
    BY DEF Intact, Cam
  <2>3. Table!LeastUsed(t) \in Entry
    BY <2>1, <2>2, LeastUsedIn
  <2> QED
    BY <2>2, <2>3
<1>2. w = [u EXCEPT !.m_en_new_value_vec = new, !.en_sts_vec = sts]
  BY DEF Table!Miss, Table!MISS
<1> HIDE DEF i, w
<1>3. Intact(s) /\ s.m_map = t.m_map
  <2>1. Intact(Table!ToHead(t, i)) /\ Table!ToHead(t, i).m_map = t.m_map
    BY <1>1, FrontKeeps
  <2> QED
    BY <2>1
<1> HIDE DEF s
<1>4. Intact(u)
  BY <1>1, <1>3, EvictKeeps
<1> HIDE DEF u
<1>5. u \in Cam /\ u.m_en_new_value_vec \in Seq(Value) /\ u.en_sts_vec \in Seq(Int)
  BY <1>4 DEF Intact, Cam
<1>6. new \in Seq(Value)
  BY <1>5
<1>7. sts \in Seq(Int)
  BY <1>5
<1> HIDE DEF new, sts
<1>8. w \in Cam
  BY <1>2, <1>5, <1>6, <1>7 DEF Cam
<1>9. /\ w.m_value = u.m_value /\ w.m_map = u.m_map
      /\ w.m_next = u.m_next /\ w.m_prev = u.m_prev /\ w.head = u.head /\ w.tail = u.tail
  BY <1>2, <1>5 DEF Cam
<1>10. Intact(w)
  BY <1>4, <1>8, <1>9, AnswersKeep
<1> QED
  BY <1>10 DEF w

LEMMA TableHitKeeps ==
  ASSUME TableOK, NEW t, Intact(t), NEW i \in Entry
  PROVE  Intact(Table!Hit(t, i))
<1> DEFINE freq == [t.m_freq EXCEPT ![i] = @ + 1]
           s == Table!Used(t, i)
           u == IF Policy = "LRU" THEN Table!ToHead(t, i) ELSE s
           sts == Append(u.en_sts_vec, i)
           w == Table!Hit(t, i)
<1>1. t \in Cam /\ t.m_freq \in [Entry -> Nat]
  BY DEF Intact, Cam
<1>2. freq \in [Entry -> Nat]
  BY <1>1
<1>3. [j \in Entry |-> freq[j] \div 2] \in [Entry -> Nat]
  <2>1. \A m \in Nat : m \div 2 \in Nat
    OBVIOUS
  <2> HIDE DEF freq
  <2> QED
    BY <1>2, <2>1
<1>4. \E f \in [Entry -> Nat] : s = [t EXCEPT !.m_freq = f]
  <2> DEFINE r == [t EXCEPT !.m_freq[i] = @ + 1]
             half == [j \in Entry |-> freq[j] \div 2]
  <2>1. s = IF r.m_freq[i] >= Saturation
            THEN [r EXCEPT !.m_freq = [j \in Entry |-> r.m_freq[j] \div 2]] ELSE r
    BY DEF Table!Used, Table!Index, Entry
  <2>2. r = [t EXCEPT !.m_freq = freq]
    BY <1>1
  <2> HIDE DEF r, freq, s
  <2>3. r.m_freq = freq
    BY <1>1, <2>2 DEF Cam
  <2>4. [r EXCEPT !.m_freq = half] = [t EXCEPT !.m_freq = half]
    BY <1>1, <2>2 DEF Cam
  <2>5. s = [t EXCEPT !.m_freq = freq] \/ s = [t EXCEPT !.m_freq = half]
    BY <2>1, <2>2, <2>3, <2>4
  <2> HIDE DEF half
  <2> QED
    BY <1>2, <1>3, <2>5 DEF half
<1> HIDE DEF s, freq
<1>5. Intact(s)
  <2>1. PICK f \in [Entry -> Nat] : s = [t EXCEPT !.m_freq = f]
    BY <1>4
  <2>2. s \in Cam
    BY <1>1, <2>1 DEF Cam
  <2>3. /\ s.m_value = t.m_value /\ s.m_map = t.m_map
        /\ s.m_next = t.m_next /\ s.m_prev = t.m_prev /\ s.head = t.head /\ s.tail = t.tail
    BY <1>1, <2>1 DEF Cam
  <2> QED
    BY <2>2, <2>3, AnswersKeep
<1>6. Intact(u)
  <2>1. Intact(Table!ToHead(t, i))
    BY FrontKeeps
  <2> QED
    BY <1>5, <2>1
<1>7. w = [u EXCEPT !.en_sts_vec = sts]
  BY DEF Table!Hit, s
<1> HIDE DEF u, w
<1>8. u \in Cam /\ u.en_sts_vec \in Seq(Int) /\ i \in Int
  <2>1. i \in Nat
    BY Entries
  <2> QED
    BY <1>6, <2>1, SMTT(30) DEF Intact, Cam
<1>9. sts \in Seq(Int)
  BY <1>8
<1> HIDE DEF sts
<1>10. w \in Cam
  BY <1>7, <1>8, <1>9 DEF Cam
<1>11. /\ w.m_value = u.m_value /\ w.m_map = u.m_map
       /\ w.m_next = u.m_next /\ w.m_prev = u.m_prev /\ w.head = u.head /\ w.tail = u.tail
  BY <1>7, <1>8 DEF Cam
<1>12. Intact(w)
  BY <1>6, <1>10, <1>11, AnswersKeep
<1> QED
  BY <1>12 DEF w

LEMMA AccessKeeps ==
  ASSUME TableOK, NEW t, Intact(t), NEW v \in Value
  PROVE  Intact(Table!Access(t, v))
<1>1. CASE t.m_map[v] = -1
  BY <1>1, TableMissKeeps DEF Table!Access, Table!NULL
<1>2. CASE t.m_map[v] # -1
  <2>1. t.m_map[v] \in Entry
    BY <1>2 DEF Intact, Cam, Link
  <2>2. Intact(Table!Hit(t, t.m_map[v]))
    BY <2>1, TableHitKeeps
  <2> QED
    BY <1>2, <2>2 DEF Table!Access, Table!NULL
<1> QED
  BY <1>1, <1>2

\* Whole payloads, as PayloadDecoded: tables d that follow each other.
Accesses(d, base, p) ==
  /\ d[0] = base /\ d[Len(p)] = Table!FoldLeft(Table!Access, base, p)
  /\ \A k \in 0 .. Len(p) : Intact(d[k])
  /\ \A k \in 0 .. Len(p) : k < Len(p) => d[k + 1] = Table!Access(d[k], p[k + 1])

LEMMA PayloadAccessed ==
  ASSUME TableOK, NEW base, Intact(base), NEW p \in Seq(Value)
  PROVE  \E d : Accesses(d, base, p)
<1> DEFINE n == Len(p)
           G == {t \in Cam : Intact(t)}
           H == [i \in 1 .. n |-> [t \in G |-> Table!Access(t, p[i])]]
           Solves(g) == g = [S \in SUBSET DOMAIN p |->
                               IF S = {} THEN base ELSE Table!Access(g[S \ {Max(S)}], p[Max(S)])]
           through == CHOOSE g : Solves(g)
<1>1. n \in Nat /\ DOMAIN p = 1 .. n /\ \A i \in 1 .. n : p[i] \in Value
  OBVIOUS
<1>2. \A t \in G, v \in Value : Table!Access(t, v) \in G
  <2>1. \A t, v : Intact(t) /\ v \in Value => Intact(Table!Access(t, v))
    BY AccessKeeps
  <2> QED
    BY <2>1 DEF Intact
<1>3. base \in G
  BY DEF Intact
<1>4. H \in [1 .. n -> [G -> G]]
  BY <1>1, <1>2
<1>5. \E g : Solves(g)
  <2> HIDE DEF G
  <2>1. PICK g \in [SUBSET (1 .. n) -> G] :
          \A S \in SUBSET (1 .. n) : g[S] = IF S = {} THEN base ELSE H[Max(S)][g[S \ {Max(S)}]]
    <3> HIDE DEF H, n
    <3>1. n \in Nat
      BY <1>1
    <3>2. Foldable(n, G, base, H)
      BY <3>1, <1>3, <1>4, FoldExists
    <3> QED
      BY <3>2 DEF Foldable
  <2>2. ASSUME NEW S \in SUBSET (1 .. n), S # {}
        PROVE  H[Max(S)][g[S \ {Max(S)}]] = Table!Access(g[S \ {Max(S)}], p[Max(S)])
    <3>1. Max(S) \in 1 .. n /\ S \ {Max(S)} \in SUBSET (1 .. n)
      BY <1>1, <2>2, LastIn
    <3>2. g[S \ {Max(S)}] \in G
      BY <2>1, <3>1
    <3> QED
      BY <3>1, <3>2
  <2> HIDE DEF H, n
  <2>3. g = [S \in SUBSET (1 .. n) |-> g[S]]
    OBVIOUS
  <2>4. Solves(g)
    BY <1>1, <2>1, <2>2, <2>3
  <2> HIDE DEF Solves
  <2> QED
    BY <2>4
<1>6. Solves(through)
  <2> HIDE DEF Solves
  <2> QED
    BY <1>5
<1>7. Table!FoldLeft(Table!Access, base, p) = through[DOMAIN p]
  BY DEF Table!FoldLeft, Table!MapThenFoldSet, Table!Max, Max
<1> HIDE DEF through, G
<1>8. through[{}] = base /\ \A S \in SUBSET DOMAIN p : S # {} =>
        through[S] = Table!Access(through[S \ {Max(S)}], p[Max(S)])
  BY <1>6
<1> DEFINE Q == {k \in Nat : k <= n => through[1 .. k] \in G}
<1>9. 0 \in Q
  BY <1>3, <1>8
<1>10. ASSUME NEW k \in Nat, k < n
       PROVE  through[1 .. k + 1] = Table!Access(through[1 .. k], p[k + 1])
  <2>1. (1 .. k + 1) \in SUBSET DOMAIN p /\ 1 .. k + 1 # {}
    <3> HIDE DEF Q
    <3>1. k + 1 <= n /\ n \in Nat
      BY <1>1, <1>10
    <3>2. 1 .. k + 1 \in SUBSET (1 .. n) /\ 1 \in 1 .. k + 1
      BY <3>1
    <3> QED
      BY <1>1, <3>2
  <2> DEFINE S == 1 .. k + 1
  <2>2. Max(S) = k + 1 /\ S \ {k + 1} = 1 .. k
    BY LastOf
  <2> HIDE DEF S
  <2>3. through[S] = Table!Access(through[S \ {Max(S)}], p[Max(S)])
    BY <2>1, <1>8 DEF S
  <2> QED
    BY <2>2, <2>3 DEF S
<1>11. ASSUME NEW k \in Nat, k < n, k \in Q
       PROVE  k + 1 \in Q
  <2>1. through[1 .. k] \in G
    BY <1>1, <1>11
  <2>2. p[k + 1] \in Value
    BY <1>1, <1>11
  <2> QED
    BY <2>1, <2>2, <1>2, <1>10, <1>11
<1>12. \A k \in 0 .. n : through[1 .. k] \in G
  <2>1. Q \in SUBSET Nat
    OBVIOUS
  <2>2. \A k \in 0 .. n : k \in Nat /\ k <= n
    BY <1>1
  <2> HIDE DEF Q
  <2>3. \A k \in 0 .. n : k \in Q
    BY <1>1, <1>9, <1>11, <2>1, UpTo
  <2> QED
    BY <2>2, <2>3 DEF Q
<1> DEFINE d == [k \in 0 .. n |-> through[1 .. k]]
<1>13. /\ 0 \in 0 .. n /\ n \in 0 .. n /\ 1 .. 0 = {}
       /\ \A k \in 0 .. n : k \in Nat /\ (k < n => k + 1 \in 0 .. n)
  BY <1>1
<1>14. d[0] = base /\ d[n] = Table!FoldLeft(Table!Access, base, p)
  BY <1>1, <1>7, <1>8, <1>13
<1>15. \A k \in 0 .. n : Intact(d[k])
  BY <1>12 DEF G
<1>16. \A k \in 0 .. n : k < n => d[k + 1] = Table!Access(d[k], p[k + 1])
  BY <1>10, <1>13
<1>17. Accesses(d, base, p)
  <2> HIDE DEF d
  <2> QED
    BY <1>14, <1>15, <1>16 DEF Accesses
<1> QED
  BY <1>17

LEMMA TableStart == TableOK /\ Table!Init => Intact(cam)
<1> SUFFICES ASSUME TableOK, Table!Init
             PROVE  Intact(cam)
  OBVIOUS
<1> DEFINE o == [k \in Entry |-> k]
<1>1. /\ cam.m_value = [i \in Entry |-> NoValue]
      /\ cam.m_next = [i \in Entry |-> IF i = NumSets - 1 THEN -1 ELSE i + 1]
      /\ cam.m_prev = [i \in Entry |-> IF i = 0 THEN -1 ELSE i - 1]
      /\ cam.m_freq = [i \in Entry |-> 0] /\ cam.m_map = [v \in Value |-> -1]
      /\ cam.head = 0 /\ cam.tail = NumSets - 1
  BY DEF Table!Init, Table!Index, Table!NULL, Entry
<1>2. /\ 0 \in Entry /\ NumSets - 1 \in Entry
      /\ \A k \in Entry : (k # 0 => k - 1 \in Entry) /\ (k # NumSets - 1 => k + 1 \in Entry)
  BY Entries
<1>3. cam \in Cam
  <2>1. NoValue \in Content /\ -1 \in Link /\ \A k \in Entry : k \in Link
    BY DEF Content, Link
  <2>2. cam.m_value \in [Entry -> Content] /\ cam.m_freq \in [Entry -> Nat] /\ cam.m_map \in [Value -> Link]
    BY <1>1, <2>1
  <2>3. cam.m_next \in [Entry -> Link] /\ cam.m_prev \in [Entry -> Link]
    BY <1>1, <1>2, <2>1
  <2>4. cam.datablk = <<>> /\ cam.m_en_new_value_vec = <<>> /\ cam.en_sts_vec = <<>>
    BY DEF Table!Init
  <2>5. cam = [m_value |-> cam.m_value, m_next |-> cam.m_next, m_prev |-> cam.m_prev,
               m_freq |-> cam.m_freq, m_map |-> cam.m_map, head |-> cam.head, tail |-> cam.tail,
               datablk |-> cam.datablk, m_en_new_value_vec |-> cam.m_en_new_value_vec,
               en_sts_vec |-> cam.en_sts_vec]
    BY DEF Table!Init
  <2>6. cam.head \in Entry /\ cam.tail \in Entry
    BY <1>1, <1>2
  <2>7. <<>> \in Seq(Value) /\ <<>> \in Seq(Int)
    OBVIOUS
  <2> QED
    BY <2>2, <2>3, <2>4, <2>5, <2>6, <2>7 DEF Cam
<1>4. Order(o)
  BY DEF Order
<1>5. \A k \in Entry : o[k] = k
  OBVIOUS
<1> HIDE DEF o
<1>6. Listed(cam, o)
  BY <1>1, <1>2, <1>4, <1>5 DEF Listed
<1>7. Mapped(cam)
  <2>1. \A v \in Value, i \in Entry : v # NoValue /\ i # -1
    BY DEF TableOK, Entry
  <2> QED
    BY <1>1, <2>1 DEF Mapped
<1> QED
  BY <1>3, <1>6, <1>7 DEF Intact

LEMMA TableInductive == TableOK /\ Table!Spec => []Intact(cam)
<1>1. TableOK /\ Intact(cam) /\ [Table!Compress]_cam => Intact(cam)'
  <2> SUFFICES ASSUME TableOK, Intact(cam), [Table!Compress]_cam
               PROVE  Intact(cam')
    BY DEF Intact, Mapped, Listed, Order, Cam
  <2>1. CASE UNCHANGED cam
    BY <2>1
  <2>2. CASE Table!Compress
    <3>1. PICK p \in Payload :
            cam' = Table!FoldLeft(Table!Access,
                     [cam EXCEPT !.datablk = p, !.m_en_new_value_vec = <<>>, !.en_sts_vec = <<>>], p)
      BY <2>2 DEF Table!Compress
    <3> DEFINE base == [cam EXCEPT !.datablk = p, !.m_en_new_value_vec = <<>>, !.en_sts_vec = <<>>]
    <3>2. p \in Seq(Value)
      BY DEF TableOK
    <3>3. cam \in Cam
      BY DEF Intact
    <3>4. base \in Cam
      <4>1. <<>> \in Seq(Value) /\ <<>> \in Seq(Int)
        OBVIOUS
      <4> QED
        BY <3>2, <3>3, <4>1 DEF Cam
    <3>5. /\ base.m_value = cam.m_value /\ base.m_map = cam.m_map
          /\ base.m_next = cam.m_next /\ base.m_prev = cam.m_prev /\ base.head = cam.head /\ base.tail = cam.tail
      BY <3>3 DEF Cam
    <3> HIDE DEF base
    <3>6. Intact(base)
      BY <3>4, <3>5, AnswersKeep
    <3>7. Intact(Table!FoldLeft(Table!Access, base, p))
      <4>1. PICK d : Accesses(d, base, p)
        BY <3>2, <3>6, PayloadAccessed
      <4>2. Len(p) \in 0 .. Len(p)
        BY <3>2
      <4> QED
        BY <4>1, <4>2 DEF Accesses
    <3> QED
      BY <3>1, <3>7 DEF base
  <2> QED
    BY <2>1, <2>2
<1>2. TableOK => TableOK'
  BY DEF TableOK
<1> QED
  BY <1>1, <1>2, TableStart, PTL DEF Table!Spec

\* However the entries of CAMDataEnPrivate are moved to the front and taken from
\* the back, its list leads over each entry once to the tail, and back.
THEOREM ListStaysIntact == TableOK /\ Table!Spec => []Table!ListIntact
<1>1. TableOK /\ Intact(cam) => Table!ListIntact
  <2> SUFFICES ASSUME TableOK, Intact(cam)
               PROVE  Table!ListIntact
    OBVIOUS
  <2>1. PICK o : Listed(cam, o)
    BY DEF Intact
  <2>2. Table!Walk(cam) = o
    BY <2>1, WalkIs DEF Intact
  <2>3. Order(o) /\ cam.tail = o[NumSets - 1]
        /\ \A k \in Entry : cam.m_prev[o[k]] = IF k = 0 THEN -1 ELSE o[k - 1]
    BY <2>1 DEF Listed
  <2>4. {o[k] : k \in Entry} = Entry
    BY <2>3 DEF Order
  <2>5. \A k \in Entry : o[k] # -1
    <3>1. \A k \in Entry : o[k] \in Entry
      BY <2>3 DEF Order
    <3> QED
      BY <3>1 DEF Entry
  <2> QED
    BY <2>2, <2>3, <2>4, <2>5 DEF Table!ListIntact, Table!Index, Table!NULL, Entry
<1>2. TableOK => TableOK'
  BY DEF TableOK
<1> QED
  BY <1>1, <1>2, TableInductive, PTL

\* Its map leads from each value in the table to the one entry that holds it,
\* and from no other value, so that what it answers is where the value is.
THEOREM ValuesHaveOneEntry == TableOK /\ Table!Spec => []Table!MapExact
<1>1. TableOK /\ Intact(cam) => Table!MapExact
  <2> SUFFICES ASSUME TableOK, Intact(cam), NEW v \in Value
               PROVE  {i \in Entry : cam.m_value[i] = v} = {cam.m_map[v]} \ {-1}
    BY DEF Table!MapExact, Table!Index, Table!NULL, Entry
  <2>1. cam.m_map[v] \in Link /\ \A i \in Entry : cam.m_value[i] = v <=> cam.m_map[v] = i
    BY DEF Intact, Cam, Mapped
  <2>2. \A i \in Entry : i # -1
    BY DEF Entry
  <2> QED
    BY <2>1, <2>2 DEF Link
<1>2. TableOK => TableOK'
  BY DEF TableOK
<1> QED
  BY <1>1, <1>2, TableInductive, PTL

-----------------------------------------------------------------------------
(* With LRU replacement: a table of the most recently used values.         *)

\* The values in a table, in the order of its list, as Recency reads them.
Held(t) ==
  [k \in 1 .. Table!Cardinality({i \in Table!Index : t.m_value[i] # NoValue}) |->
     t.m_value[Table!Walk(t)[k - 1]]]

\* They are those of r; the entries behind them are invalid.
InOrder(t, o, r) == \A k \in Entry : t.m_value[o[k]] = IF k < Len(r) THEN r[k + 1] ELSE NoValue

Holds(t, r) ==
  /\ r \in Seq(Value) /\ Len(r) <= NumSets
  /\ \E o : Listed(t, o) /\ InOrder(t, o, r)

LEMMA HoldsIs ==
  ASSUME TableOK, NEW t, t \in Cam, NEW r, Holds(t, r)
  PROVE  Held(t) = r
<1>1. PICK o : Listed(t, o) /\ InOrder(t, o, r)
  BY DEF Holds
<1>2. \A k \in Entry : t.m_value[o[k]] = IF k < Len(r) THEN r[k + 1] ELSE NoValue
  BY <1>1 DEF InOrder
<1>3. /\ Table!Walk(t) = o /\ Order(o) /\ o \in [Entry -> Entry]
      /\ \A j, k \in Entry : o[j] = o[k] => j = k
      /\ \A i \in Entry : \E k \in Entry : o[k] = i
  BY <1>1, WalkIs DEF Listed, Order
<1> DEFINE n == Len(r)
           V == {i \in Entry : t.m_value[i] # NoValue}
           f == [k \in 1 .. n |-> o[k - 1]]
<1>4. n \in Nat /\ n <= NumSets /\ NumSets \in Nat /\ r \in Seq(Value) /\ \A k \in 1 .. n : r[k] \in Value
  BY Entries DEF Holds
<1>5. \A k \in 1 .. n : k - 1 \in Entry /\ k - 1 < n /\ (k - 1) + 1 = k
  BY <1>4 DEF Entry
<1>6. \A k \in Entry : o[k] \in V <=> k < n
  <2>1. \A k \in Entry : k < n => r[k + 1] \in Value
    BY <1>4 DEF Entry
  <2>2. NoValue \notin Value
    BY DEF TableOK
  <2> HIDE DEF n
  <2> QED
    BY <1>2, <1>3, <2>1, <2>2 DEF n
<1>7. f \in [1 .. n -> V]
  BY <1>3, <1>5, <1>6
<1>8. \A j, k \in 1 .. n : f[j] = f[k] => j = k
  <2>1. \A j, k \in 1 .. n : o[j - 1] = o[k - 1] => j - 1 = k - 1
    BY <1>3, <1>5
  <2> QED
    BY <2>1, <1>4
<1>9. \A i \in V : \E k \in 1 .. n : f[k] = i
  <2> SUFFICES ASSUME NEW i \in V
               PROVE  \E k \in 1 .. n : f[k] = i
    OBVIOUS
  <2>1. PICK k \in Entry : o[k] = i
    BY <1>3
  <2>2. k < n /\ k \in Nat
    BY <1>6, <2>1, Entries
  <2>3. k + 1 \in 1 .. n /\ (k + 1) - 1 = k
    BY <1>4, <2>2
  <2>4. f[k + 1] = i
    BY <2>1, <2>3
  <2> QED
    BY <2>3, <2>4
<1>10. ExistsBijection(1 .. n, V)
  <2> HIDE DEF f, V
  <2> QED
    BY <1>7, <1>8, <1>9 DEF ExistsBijection, Bijection, Injection, Surjection, IsInjective
<1>11. Table!Cardinality(V) = n
  <2> HIDE DEF V, n
  <2>1. Cardinality(V) = n
    BY <1>4, <1>10, FS_CountingElements
  <2> QED
    BY <2>1 DEF Cardinality, Table!Cardinality
<1>12. \A k \in 1 .. n : t.m_value[o[k - 1]] = r[k]
  BY <1>2, <1>5
<1>13. Held(t) = [k \in 1 .. n |-> t.m_value[o[k - 1]]]
  <2> HIDE DEF n
  <2> QED
    BY <1>3, <1>11 DEF Held, Table!Index, Entry
<1>14. r = [k \in 1 .. n |-> r[k]]
  BY <1>4
<1> QED
  BY <1>12, <1>13, <1>14

\* What looking up a value makes of the most recent ones: if it is at j it gets
\* to the front from there, and if it is new everything moves on.
Only(r, v, j) == j \in 1 .. Len(r) /\ r[j] = v /\ \A m \in 1 .. Len(r) : r[m] = v => m = j

Raised(q, r, v, j) ==
  /\ q \in Seq(Value) /\ Len(q) = Len(r)
  /\ \A k \in 1 .. Len(r) : q[k] = IF k = 1 THEN v ELSE IF k <= j THEN r[k - 1] ELSE r[k]

Added(q, r, v) ==
  /\ q \in Seq(Value) /\ Len(q) = IF Len(r) < NumSets THEN Len(r) + 1 ELSE NumSets
  /\ \A k \in 1 .. Len(q) : q[k] = IF k = 1 THEN v ELSE r[k - 1]

LEMMA KnownLookup ==
  ASSUME NumSets \in Nat, NEW a, a.recent \in Seq(Value), Len(a.recent) <= NumSets, NEW v \in Value,
         NEW j, Only(a.recent, v, j)
  PROVE  Raised(Table!Recency!Lookup(a, v).recent, a.recent, v, j)
<1> DEFINE r == a.recent
<1>1. /\ r \in Seq(Value) /\ Len(r) <= NumSets /\ j \in 1 .. Len(r) /\ r[j] = v
      /\ \A m \in 1 .. Len(r) : r[m] = v => m = j
  BY DEF Only
<1>2. a.recent = r
  OBVIOUS
<1> HIDE DEF r
<1> DEFINE n == Len(r)
           l1 == SubSeq(r, 1, j - 1)
           l2 == SubSeq(r, j + 1, n)
           I == {m \in 1 .. n : r[m] = v}
           order == <<v>> \o Table!Recency!RemoveFirst(r, v)
<1>3. n \in Nat /\ \A m \in 1 .. n : r[m] \in Value
  BY <1>1
<1>4. I = {j}
  BY <1>1
<1>5. Table!Recency!Min(I) = j
  <2> HIDE DEF I
  <2>1. \A m \in I : m = j
    BY <1>4, SMTT(30)
  <2> QED
    BY <1>4, <2>1, <1>3 DEF Table!Recency!Min
<1>6. Table!Recency!RemoveFirst(r, v) = l1 \o l2
  <2> HIDE DEF n, I
  <2>1. Table!Recency!SelectInSeq(r, LAMBDA w : w = v) = j
    BY <1>4, <1>5 DEF Table!Recency!SelectInSeq, n, I
  <2> QED
    BY <1>1, <2>1 DEF Table!Recency!RemoveFirst, Table!Recency!RemoveAt, n
<1>7. l1 \in Seq(Value) /\ Len(l1) = j - 1 /\ \A i \in 1 .. j - 1 : l1[i] = r[i]
  <2>1. \A i \in 1 .. j - 1 : r[i] \in Value /\ 1 + i - 1 = i
    BY <1>1, <1>3
  <2>2. 1 \in Int /\ j - 1 \in Int /\ (j - 1) - 1 + 1 = j - 1 /\ (IF 1 <= j - 1 THEN (j - 1) - 1 + 1 ELSE 0) = j - 1
    BY <1>1, <1>3
  <2>3. /\ l1 \in Seq(Value) /\ Len(l1) = (IF 1 <= j - 1 THEN (j - 1) - 1 + 1 ELSE 0)
        /\ \A i \in 1 .. (j - 1) - 1 + 1 : l1[i] = r[1 + i - 1]
    BY <2>1, <2>2, SubSeqProperties
  <2> HIDE DEF l1
  <2> QED
    BY <2>1, <2>2, <2>3
<1>8. l2 \in Seq(Value) /\ Len(l2) = n - j /\ \A i \in 1 .. n - j : l2[i] = r[j + i]
  <2>1. \A i \in j + 1 .. n : r[i] \in Value
    BY <1>1, <1>3
  <2>2. /\ j + 1 \in Int /\ n \in Int /\ n - (j + 1) + 1 = n - j
        /\ (IF j + 1 <= n THEN n - (j + 1) + 1 ELSE 0) = n - j /\ \A i \in Int : j + 1 + i - 1 = j + i
    BY <1>1, <1>3
  <2>3. /\ l2 \in Seq(Value) /\ Len(l2) = (IF j + 1 <= n THEN n - (j + 1) + 1 ELSE 0)
        /\ \A i \in 1 .. n - (j + 1) + 1 : l2[i] = r[j + 1 + i - 1]
    <3> DEFINE m == j + 1
    <3>1. m \in Int /\ n \in Int /\ \A i \in m .. n : r[i] \in Value
      BY <2>1, <2>2
    <3> HIDE DEF m, n
    <3>2. /\ SubSeq(r, m, n) \in Seq(Value) /\ Len(SubSeq(r, m, n)) = (IF m <= n THEN n - m + 1 ELSE 0)
          /\ \A i \in 1 .. n - m + 1 : SubSeq(r, m, n)[i] = r[m + i - 1]
      BY <3>1, SubSeqProperties
    <3> QED
      BY <3>2 DEF m
  <2> HIDE DEF l2, n
  <2>4. 1 .. n - (j + 1) + 1 = 1 .. n - j /\ \A i \in 1 .. n - j : i \in Int
    BY <2>2
  <2> QED
    BY <2>2, <2>3, <2>4
<1> HIDE DEF l1, l2, n, I
<1>9. /\ l1 \o l2 \in Seq(Value) /\ Len(l1 \o l2) = n - 1
      /\ \A i \in 1 .. n - 1 : (l1 \o l2)[i] = IF i <= j - 1 THEN r[i] ELSE r[i + 1]
  <2>1. j \in 1 .. n
    BY <1>1 DEF n
  <2>2. /\ l1 \o l2 \in Seq(Value) /\ Len(l1 \o l2) = Len(l1) + Len(l2)
        /\ \A i \in 1 .. Len(l1) + Len(l2) : (l1 \o l2)[i] = IF i <= Len(l1) THEN l1[i] ELSE l2[i - Len(l1)]
    BY <1>7, <1>8, ConcatProperties, SMTT(30)
  <2>3. Len(l1) + Len(l2) = n - 1
    BY <1>3, <1>7, <1>8, <2>1
  <2>4. \A i \in 1 .. n - 1 : /\ i <= j - 1 => i \in 1 .. j - 1
                              /\ ~ (i <= j - 1) => i - (j - 1) \in 1 .. n - j /\ j + (i - (j - 1)) = i + 1
    BY <1>3, <2>1
  <2> QED
    BY <1>7, <1>8, <2>2, <2>3, <2>4, SMTT(30)
<1>10. /\ order \in Seq(Value) /\ Len(order) = n
      /\ \A k \in 1 .. n : order[k] = IF k = 1 THEN v ELSE IF k <= j THEN r[k - 1] ELSE r[k]
  <2> DEFINE l == l1 \o l2
  <2>1. j \in 1 .. n
    BY <1>1 DEF n
  <2>2. <<v>> \in Seq(Value) /\ Len(<<v>>) = 1 /\ <<v>>[1] = v
    OBVIOUS
  <2>3. l \in Seq(Value) /\ Len(l) = n - 1 /\ \A i \in 1 .. n - 1 : l[i] = IF i <= j - 1 THEN r[i] ELSE r[i + 1]
    BY <1>9
  <2>4. order = <<v>> \o l
    BY <1>6
  <2> HIDE DEF l, order
  <2>5. /\ order \in Seq(Value) /\ Len(order) = 1 + (n - 1)
        /\ \A k \in 1 .. 1 + (n - 1) : order[k] = IF k <= 1 THEN <<v>>[k] ELSE l[k - 1]
    BY <2>2, <2>3, <2>4, ConcatProperties
  <2>6. \A k \in 1 .. n : /\ k <= 1 <=> k = 1
                          /\ k # 1 => /\ k - 1 \in 1 .. n - 1 /\ (k - 1 <= j - 1 <=> k <= j) /\ (k - 1) + 1 = k
    BY <1>3, <2>1
  <2>7. 1 + (n - 1) = n
    BY <1>3
  <2> QED
    BY <2>2, <2>3, <2>5, <2>6, <2>7
<1>11. Table!Recency!Lookup(a, v).recent = order
  <2>1. ~ (Len(order) > NumSets)
    BY <1>1, <1>3, <1>10 DEF n
  <2> HIDE DEF order
  <2>2. order = <<v>> \o Table!Recency!RemoveFirst(a.recent, v)
    BY <1>2 DEF order
  <2> QED
    BY <2>1, <2>2 DEF Table!Recency!Lookup
<1> QED
  BY <1>2, <1>10, <1>11 DEF n, Raised

LEMMA NewLookup ==
  ASSUME NumSets \in Nat \ {0}, NEW a, a.recent \in Seq(Value), Len(a.recent) <= NumSets, NEW v \in Value,
         \A m \in 1 .. Len(a.recent) : a.recent[m] # v
  PROVE  Added(Table!Recency!Lookup(a, v).recent, a.recent, v)
<1> DEFINE r == a.recent
           n == Len(r)
           order == <<v>> \o r
           q == Table!Recency!Lookup(a, v).recent
<1>1. n \in Nat /\ Table!Recency!RemoveFirst(r, v) = r
  BY DEF Table!Recency!RemoveFirst
<1>2. /\ order \in Seq(Value) /\ Len(order) = n + 1
      /\ \A k \in 1 .. n + 1 : order[k] = IF k = 1 THEN v ELSE r[k - 1]
  OBVIOUS
<1>3. q = IF Len(order) > NumSets THEN SubSeq(order, 1, Len(order) - 1) ELSE order
  BY <1>1 DEF Table!Recency!Lookup, Table!Recency!Front
<1> HIDE DEF order, q
<1>4. CASE n < NumSets
  <2>1. q = order
    BY <1>1, <1>2, <1>3, <1>4
  <2> QED
    BY <1>1, <1>2, <1>4, <2>1 DEF q, Added
<1>5. CASE ~ (n < NumSets)
  <2>1. n = NumSets /\ q = SubSeq(order, 1, n)
    BY <1>1, <1>2, <1>3, <1>5
  <2>2. \A i \in 1 .. n : order[i] \in Value
    BY <1>1, <1>2
  <2>3. q \in Seq(Value) /\ Len(q) = n /\ \A i \in 1 .. n : q[i] = order[i]
    <3> HIDE DEF n
    <3> QED
      BY <1>1, <1>2, <2>1
  <2> QED
    BY <1>1, <1>2, <1>5, <2>1, <2>3 DEF q, Added
<1> QED
  BY <1>4, <1>5

\* Where a value that the table has is in the list.
LEMMA HeldAt ==
  ASSUME TableOK, NEW t, Intact(t), NEW r \in Seq(Value), NEW o, Listed(t, o), InOrder(t, o, r),
         Len(r) <= NumSets, NEW v \in Value
  PROVE  /\ \A k \in Entry : o[k] = t.m_map[v] => k < Len(r) /\ r[k + 1] = v
         /\ \A m \in 1 .. Len(r) : r[m] = v => m - 1 \in Entry /\ o[m - 1] = t.m_map[v]
<1> DEFINE n == Len(r)
<1>1. \A i \in Entry : t.m_value[i] = v <=> t.m_map[v] = i
  BY DEF Intact, Mapped
<1>2. o \in [Entry -> Entry] /\ n \in Nat /\ n <= NumSets /\ NumSets \in Nat /\ v # NoValue
  BY Entries DEF Listed, Order, TableOK
<1>3. ASSUME NEW k \in Entry, o[k] = t.m_map[v]
      PROVE  k < n /\ r[k + 1] = v
  <2>1. t.m_value[o[k]] = v
    BY <1>1, <1>2, <1>3
  <2>2. t.m_value[o[k]] = IF k < n THEN r[k + 1] ELSE NoValue
    BY DEF InOrder
  <2> QED
    BY <1>2, <2>1, <2>2
<1>4. ASSUME NEW m \in 1 .. n, r[m] = v
      PROVE  m - 1 \in Entry /\ o[m - 1] = t.m_map[v]
  <2>1. m - 1 \in Entry /\ m - 1 < n /\ (m - 1) + 1 = m
    BY <1>2 DEF Entry
  <2>2. t.m_value[o[m - 1]] = v
    BY <1>4, <2>1 DEF InOrder
  <2>3. o[m - 1] \in Entry
    BY <1>2, <2>1
  <2> QED
    BY <1>1, <2>1, <2>2, <2>3
<1> QED
  BY <1>3, <1>4

\* A lookup does to the table what Lookup does to the most recent values.
Follows(t, u, a, v) ==
  /\ Holds(u, Table!Recency!Lookup(a, v).recent)
  /\ u.datablk = t.datablk
  /\ \E s \in Int : u.en_sts_vec = Append(t.en_sts_vec, s) /\ (s # -1 <=> v \in Table!Recency!ToSet(a.recent))

LEMMA HitFollows ==
  ASSUME TableOK, Policy = "LRU", NEW t, Intact(t), NEW a, Holds(t, a.recent), NEW v \in Value, t.m_map[v] # -1
  PROVE  Follows(t, Table!Hit(t, t.m_map[v]), a, v)
<1> DEFINE r == a.recent
           i == t.m_map[v]
           u == Table!ToHead(t, i)
           w == Table!Hit(t, i)
           q == Table!Recency!Lookup(a, v).recent
<1>1. t \in Cam /\ i \in Entry /\ r \in Seq(Value) /\ Len(r) <= NumSets
      /\ t.en_sts_vec \in Seq(Int)
  BY DEF Intact, Cam, Link, Holds
<1>2. PICK o : Listed(t, o) /\ InOrder(t, o, r)
  BY DEF Holds
<1>3. \A k \in Entry : t.m_value[o[k]] = IF k < Len(r) THEN r[k + 1] ELSE NoValue
  BY <1>2 DEF InOrder
<1>4. Order(o) /\ o \in [Entry -> Entry] /\ \A j, k \in Entry : o[j] = o[k] => j = k
  BY <1>2 DEF Listed, Order
<1>5. PICK j \in Entry : o[j] = i
  BY <1>1, <1>2 DEF Listed, Order
<1>6. /\ Len(r) \in Nat /\ NumSets \in Nat \ {0} /\ j \in Nat /\ \A k \in Entry : k \in Nat
      /\ \A k \in Entry : k # 0 => k - 1 \in Entry /\ k - 1 \in Nat /\ (k - 1) + 1 = k
  <2>1. Len(r) \in Nat
    BY <1>1
  <2>2. NumSets \in Nat /\ NumSets >= 2 /\ \A k \in Entry : k \in Nat /\ (k # 0 => k - 1 \in Entry)
    BY Entries
  <2> QED
    BY <2>1, <2>2
<1> HIDE DEF i, w, u, q, r
<1>7. /\ \A k \in Entry : o[k] = i => k < Len(r) /\ r[k + 1] = v
      /\ \A m \in 1 .. Len(r) : r[m] = v => m - 1 \in Entry /\ o[m - 1] = i
  BY <1>1, <1>2, HeldAt DEF i
<1>8. j < Len(r) /\ r[j + 1] = v /\ j + 1 \in 1 .. Len(r) /\ \A m \in 1 .. Len(r) : r[m] = v => m = j + 1
  <2>1. j < Len(r) /\ r[j + 1] = v
    BY <1>5, <1>7
  <2>2. j + 1 \in 1 .. Len(r)
    BY <2>1, <1>6
  <2>3. ASSUME NEW m \in 1 .. Len(r), r[m] = v
        PROVE  m = j + 1
    <3>1. m - 1 = j
      BY <1>4, <1>5, <1>7, <2>3
    <3> QED
      BY <3>1, <1>6
  <2> QED
    BY <2>1, <2>2, <2>3
<1>9. /\ q \in Seq(Value) /\ Len(q) = Len(r)
      /\ \A k \in 1 .. Len(r) : q[k] = IF k = 1 THEN v ELSE IF k <= j + 1 THEN r[k - 1] ELSE r[k]
  <2>1. Only(r, v, j + 1)
    BY <1>8 DEF Only
  <2>2. Raised(q, r, v, j + 1)
    BY <1>1, <1>6, <2>1, KnownLookup DEF q, r
  <2> QED
    BY <2>2 DEF Raised
<1>10. /\ u \in Cam /\ Listed(u, ToFront(o, j))
      /\ u = [t EXCEPT !.m_next = u.m_next, !.m_prev = u.m_prev, !.head = u.head, !.tail = u.tail]
  <2>1. AtFront(t, o, j, Table!ToHead(t, o[j]))
    <3>1. t \in Cam
      BY <1>1
    <3>2. Listed(t, o)
      BY <1>2
    <3> QED
      BY <3>1, <3>2, Fronted, Zenon
  <2> QED
    BY <1>5, <2>1 DEF u, AtFront
<1>11. u.m_value = t.m_value /\ u.en_sts_vec = t.en_sts_vec /\ u.datablk = t.datablk
  BY <1>1, <1>10 DEF Cam
<1>12. w = [u EXCEPT !.en_sts_vec = Append(u.en_sts_vec, i)]
  BY DEF Table!Hit, w, u
<1>13. /\ w.m_value = t.m_value /\ w.en_sts_vec = Append(t.en_sts_vec, i) /\ w.datablk = t.datablk
       /\ w.m_next = u.m_next /\ w.m_prev = u.m_prev /\ w.head = u.head /\ w.tail = u.tail
  BY <1>10, <1>11, <1>12 DEF Cam
<1>14. Listed(w, ToFront(o, j))
  BY <1>10, <1>13, ListStays
<1>15. ASSUME NEW k \in Entry
       PROVE  w.m_value[ToFront(o, j)[k]] = IF k < Len(q) THEN q[k + 1] ELSE NoValue
  <2>1. ToFront(o, j)[k] = IF k = 0 THEN o[j] ELSE IF k <= j THEN o[k - 1] ELSE o[k]
    BY DEF ToFront
  <2>2. k < Len(r) => k + 1 \in 1 .. Len(r) /\ (k + 1 <= j + 1 <=> k <= j) /\ (k + 1 = 1 <=> k = 0) /\ (k + 1) - 1 = k
    BY <1>6
  <2>3. k < Len(r) => q[k + 1] = IF k = 0 THEN v ELSE IF k <= j THEN r[k] ELSE r[k + 1]
    BY <1>9, <2>2
  <2>4. CASE k = 0
    <3>1. t.m_value[o[j]] = v /\ k < Len(r)
      BY <1>3, <1>6, <1>8, <2>4
    <3> QED
      BY <1>9, <1>13, <2>1, <2>3, <2>4, <3>1
  <2>5. CASE k # 0 /\ k <= j
    <3>1. k - 1 \in Entry /\ k - 1 < Len(r) /\ (k - 1) + 1 = k /\ k < Len(r)
      BY <1>6, <1>8, <2>5
    <3>2. t.m_value[o[k - 1]] = r[k]
      BY <1>3, <3>1
    <3> QED
      BY <1>9, <1>13, <2>1, <2>3, <2>5, <3>1, <3>2
  <2>6. CASE k # 0 /\ ~ (k <= j)
    <3>1. t.m_value[o[k]] = IF k < Len(r) THEN r[k + 1] ELSE NoValue
      BY <1>3
    <3> QED
      BY <1>9, <1>13, <2>1, <2>3, <2>6, <3>1
  <2> QED
    BY <2>4, <2>5, <2>6
<1>16. Holds(w, q)
  BY <1>1, <1>9, <1>14, <1>15 DEF Holds, InOrder
<1>17. i \in Int /\ i # -1 /\ v \in Table!Recency!ToSet(r)
  <2>1. i \in Int /\ i # -1
    BY <1>1, <1>6
  <2>2. j + 1 \in DOMAIN r
    BY <1>1, <1>8
  <2> QED
    BY <1>8, <2>1, <2>2 DEF Table!Recency!ToSet
<1> QED
  BY <1>13, <1>16, <1>17 DEF Follows, w, q, i, r

LEMMA MissFollows ==
  ASSUME TableOK, Policy = "LRU", NEW t, Intact(t), NEW a, Holds(t, a.recent), NEW v \in Value, t.m_map[v] = -1
  PROVE  Follows(t, Table!Miss(t, v), a, v)
<1> DEFINE r == a.recent
           i == t.tail
           j == NumSets - 1
           u == Table!ToHead(t, i)
           e == Table!Evict(u, i, v)
           w == Table!Miss(t, v)
           q == Table!Recency!Lookup(a, v).recent
           new == IF v \in Table!ToSet(e.m_en_new_value_vec) THEN e.m_en_new_value_vec
                  ELSE Append(e.m_en_new_value_vec, v)
<1>1. t \in Cam /\ i \in Entry /\ r \in Seq(Value) /\ Len(r) <= NumSets /\ t.en_sts_vec \in Seq(Int)
  BY DEF Intact, Cam, Holds
<1>2. PICK o : Listed(t, o) /\ InOrder(t, o, r)
  BY DEF Holds
<1>3. \A k \in Entry : t.m_value[o[k]] = IF k < Len(r) THEN r[k + 1] ELSE NoValue
  BY <1>2 DEF InOrder
<1>4. Order(o) /\ o \in [Entry -> Entry] /\ \A l, k \in Entry : o[l] = o[k] => l = k
  BY <1>2 DEF Listed, Order
<1>5. /\ Len(r) \in Nat /\ NumSets \in Nat \ {0} /\ j \in Nat /\ j \in Entry /\ j + 1 = NumSets
      /\ \A k \in Entry : k \in Nat /\ k <= j
      /\ \A k \in Entry : k # 0 => k - 1 \in Entry /\ k - 1 \in Nat /\ (k - 1) + 1 = k
  <2>1. Len(r) \in Nat
    BY <1>1
  <2>2. NumSets \in Nat /\ NumSets >= 2 /\ j \in Entry
        /\ \A k \in Entry : k \in Nat /\ k <= NumSets - 1 /\ (k # 0 => k - 1 \in Entry)
    BY Entries
  <2> QED
    BY <2>1, <2>2
<1>6. o[j] = i
  BY <1>2 DEF Listed
<1> HIDE DEF i, j, w, u, q, r, e
<1>7. \A m \in 1 .. Len(r) : r[m] # v
  <2>1. \A m \in 1 .. Len(r) : r[m] = v => m - 1 \in Entry /\ o[m - 1] = t.m_map[v]
    BY <1>1, <1>2, HeldAt
  <2>2. \A k \in Entry : o[k] # -1
    BY <1>4, <1>5
  <2> QED
    BY <2>1, <2>2
<1>8. /\ q \in Seq(Value) /\ Len(q) = (IF Len(r) < NumSets THEN Len(r) + 1 ELSE NumSets)
      /\ \A k \in 1 .. Len(q) : q[k] = IF k = 1 THEN v ELSE r[k - 1]
  <2>1. Added(q, r, v)
    BY <1>1, <1>5, <1>7, NewLookup DEF q, r
  <2> QED
    BY <2>1 DEF Added
<1>9. /\ u \in Cam /\ Listed(u, ToFront(o, j))
      /\ u = [t EXCEPT !.m_next = u.m_next, !.m_prev = u.m_prev, !.head = u.head, !.tail = u.tail]
  <2>1. AtFront(t, o, j, Table!ToHead(t, o[j]))
    <3>1. t \in Cam
      BY <1>1
    <3>2. Listed(t, o)
      BY <1>2
    <3>3. j \in Entry
      BY <1>5
    <3> QED
      BY <3>1, <3>2, <3>3, Fronted, Zenon
  <2> QED
    BY <1>6, <2>1 DEF u, AtFront
<1>10. u.m_value = t.m_value /\ u.en_sts_vec = t.en_sts_vec /\ u.datablk = t.datablk
       /\ t.m_value \in [Entry -> Content]
  BY <1>1, <1>9 DEF Cam
<1>11. /\ e.m_value = [t.m_value EXCEPT ![i] = v] /\ e.en_sts_vec = t.en_sts_vec /\ e.datablk = t.datablk
       /\ e.m_next = u.m_next /\ e.m_prev = u.m_prev /\ e.head = u.head /\ e.tail = u.tail
       /\ DOMAIN e = DOMAIN u
  <2> DEFINE map == [x \in Value |-> IF x = v THEN i ELSE IF x = u.m_value[i] THEN Table!NULL ELSE u.m_map[x]]
             value == [u.m_value EXCEPT ![i] = v]
             freq == [u.m_freq EXCEPT ![i] = 1]
  <2>1. e = [u EXCEPT !.m_map = map, !.m_value = value, !.m_freq = freq]
    BY <1>9 DEF Table!Evict, e
  <2> HIDE DEF map, value, freq
  <2>2. e.m_value = value /\ e.en_sts_vec = u.en_sts_vec /\ e.datablk = u.datablk
        /\ e.m_next = u.m_next /\ e.m_prev = u.m_prev /\ e.head = u.head /\ e.tail = u.tail
        /\ DOMAIN e = DOMAIN u
    BY <1>9, <2>1 DEF Cam
  <2> QED
    BY <1>10, <2>2 DEF value
<1>12. w = [e EXCEPT !.m_en_new_value_vec = new, !.en_sts_vec = Append(e.en_sts_vec, -1)]
  BY DEF Table!Miss, Table!MISS, w, e, u, i
<1>13. /\ w.m_value = e.m_value /\ w.en_sts_vec = Append(t.en_sts_vec, -1) /\ w.datablk = t.datablk
       /\ w.m_next = u.m_next /\ w.m_prev = u.m_prev /\ w.head = u.head /\ w.tail = u.tail
  <2> HIDE DEF new
  <2>1. DOMAIN e = {"m_value", "m_next", "m_prev", "m_freq", "m_map", "head", "tail", "datablk",
                    "m_en_new_value_vec", "en_sts_vec"}
    BY <1>9, <1>11 DEF Cam
  <2> QED
    BY <1>11, <1>12, <2>1
<1>14. Listed(w, ToFront(o, j))
  BY <1>9, <1>13, ListStays
<1>15. ASSUME NEW k \in Entry
       PROVE  w.m_value[ToFront(o, j)[k]] = IF k < Len(q) THEN q[k + 1] ELSE NoValue
  <2>1. ToFront(o, j)[k] = IF k = 0 THEN i ELSE o[k - 1]
    BY <1>5, <1>6 DEF ToFront
  <2>2. \A x \in Entry : w.m_value[x] = IF x = i THEN v ELSE t.m_value[x]
    BY <1>1, <1>10, <1>11, <1>13
  <2>3. CASE k = 0
    <3>1. 0 < Len(q) /\ 1 \in 1 .. Len(q)
      BY <1>5, <1>8
    <3>2. q[1] = v
      BY <1>8, <3>1
    <3> QED
      BY <1>1, <2>1, <2>2, <2>3, <3>1, <3>2
  <2>4. CASE k # 0
    <3>1. k - 1 \in Entry /\ k - 1 # j /\ k \in Nat /\ (k - 1) + 1 = k
      BY <1>5, <2>4
    <3>2. o[k - 1] # i /\ o[k - 1] \in Entry
      BY <1>4, <1>5, <1>6, <3>1
    <3>3. t.m_value[o[k - 1]] = IF k - 1 < Len(r) THEN r[k] ELSE NoValue
      BY <1>3, <3>1
    <3>4. /\ k - 1 < Len(r) <=> k < Len(q)
          /\ k < Len(q) => k + 1 \in 1 .. Len(q) /\ k + 1 # 1 /\ (k + 1) - 1 = k
      BY <1>1, <1>5, <1>8, <3>1, SMTT(30)
    <3>5. k < Len(q) => q[k + 1] = r[k]
      BY <1>8, <3>4
    <3> QED
      BY <2>1, <2>2, <2>4, <3>2, <3>3, <3>4, <3>5
  <2> QED
    BY <2>3, <2>4
<1>16. Len(q) <= NumSets
  BY <1>5, <1>8
<1>17. Holds(w, q)
  BY <1>8, <1>14, <1>15, <1>16 DEF Holds, InOrder
<1>18. v \notin Table!Recency!ToSet(r)
  <2>1. DOMAIN r = 1 .. Len(r)
    BY <1>1
  <2> QED
    BY <1>7, <2>1 DEF Table!Recency!ToSet
<1> QED
  BY <1>13, <1>17, <1>18 DEF Follows, w, q, r

LEMMA AccessFollows ==
  ASSUME TableOK, Policy = "LRU", NEW t, Intact(t), NEW a, Holds(t, a.recent), NEW v \in Value
  PROVE  Follows(t, Table!Access(t, v), a, v)
<1>1. CASE t.m_map[v] = -1
  BY <1>1, MissFollows DEF Table!Access, Table!NULL
<1>2. CASE t.m_map[v] # -1
  BY <1>2, HitFollows DEF Table!Access, Table!NULL
<1> QED
  BY <1>1, <1>2

\* What the most recent values may be, whatever is looked up.
Recent == [recent : Seq(Value), found : Seq(BOOLEAN)]

LEMMA LookupIn ==
  ASSUME NumSets \in Nat \ {0}, NEW a \in Recent, NEW v \in Value
  PROVE  Table!Recency!Lookup(a, v) \in Recent
<1> DEFINE r == a.recent
           I == {m \in 1 .. Len(r) : r[m] = v}
           rest == Table!Recency!RemoveFirst(r, v)
           order == <<v>> \o rest
<1>1. r \in Seq(Value) /\ a.found \in Seq(BOOLEAN)
  BY DEF Recent
<1> HIDE DEF r
<1>2. rest \in Seq(Value)
  <2>1. CASE I = {}
    BY <1>1, <2>1 DEF Table!Recency!RemoveFirst
  <2>2. CASE I # {}
    <3> DEFINE k == Table!Recency!Min(I)
    <3>1. k \in I
      <4>1. I \in SUBSET Nat
        OBVIOUS
      <4> HIDE DEF I
      <4>2. \E m \in I : \A l \in I : m <= l
        BY <2>2, <4>1, LeastExists
      <4> QED
        BY <4>2 DEF Table!Recency!Min
    <3>2. Table!Recency!SelectInSeq(r, LAMBDA w : w = v) = k
      BY <2>2 DEF Table!Recency!SelectInSeq
    <3>3. k \in 1 .. Len(r) /\ r[k] = v
      BY <3>1
    <3> HIDE DEF k
    <3>4. rest = SubSeq(r, 1, k - 1) \o SubSeq(r, k + 1, Len(r))
      BY <3>2, <3>3 DEF Table!Recency!RemoveFirst, Table!Recency!RemoveAt
    <3>5. SubSeq(r, 1, k - 1) \in Seq(Value) /\ SubSeq(r, k + 1, Len(r)) \in Seq(Value)
      BY <1>1, <3>3
    <3> HIDE DEF rest
    <3> QED
      BY <3>4, <3>5, ConcatProperties
  <2> QED
    BY <2>1, <2>2
<1> HIDE DEF rest
<1>3. order \in Seq(Value) /\ Len(order) > 0
  BY <1>2
<1>4. SubSeq(order, 1, Len(order) - 1) \in Seq(Value)
  <2> HIDE DEF order
  <2> QED
    BY <1>3
<1>5. Table!Recency!Lookup(a, v) =
        [recent |-> IF Len(order) > NumSets THEN SubSeq(order, 1, Len(order) - 1) ELSE order,
         found |-> Append(a.found, v \in Table!Recency!ToSet(r))]
  BY DEF Table!Recency!Lookup, Table!Recency!Front, r, rest
<1>6. Append(a.found, v \in Table!Recency!ToSet(r)) \in Seq(BOOLEAN)
  <2>1. (v \in Table!Recency!ToSet(r)) \in BOOLEAN
    OBVIOUS
  <2> QED
    BY <1>1, <2>1, AppendProperties, Zenon
<1> HIDE DEF order
<1> QED
  BY <1>3, <1>4, <1>5, <1>6 DEF Recent

\* As PayloadAccessed.
Lookups(d, base, p) ==
  /\ d[0] = base /\ d[Len(p)] = Table!Recency!FoldLeft(Table!Recency!Lookup, base, p)
  /\ \A k \in 0 .. Len(p) : d[k] \in Recent
  /\ \A k \in 0 .. Len(p) : k < Len(p) => d[k + 1] = Table!Recency!Lookup(d[k], p[k + 1])

LEMMA PayloadRecalled ==
  ASSUME NumSets \in Nat \ {0}, NEW base \in Recent, NEW p \in Seq(Value)
  PROVE  \E d : Lookups(d, base, p)
<1> DEFINE n == Len(p)
           H == [i \in 1 .. n |-> [t \in Recent |-> Table!Recency!Lookup(t, p[i])]]
           Solves(g) == g = [S \in SUBSET DOMAIN p |->
                               IF S = {} THEN base ELSE Table!Recency!Lookup(g[S \ {Max(S)}], p[Max(S)])]
           through == CHOOSE g : Solves(g)
<1>1. n \in Nat /\ DOMAIN p = 1 .. n /\ \A i \in 1 .. n : p[i] \in Value
  OBVIOUS
<1>2. \A t \in Recent, v \in Value : Table!Recency!Lookup(t, v) \in Recent
  BY LookupIn
<1>3. H \in [1 .. n -> [Recent -> Recent]]
  BY <1>1, <1>2
<1>4. \E g : Solves(g)
  <2>1. PICK g \in [SUBSET (1 .. n) -> Recent] :
          \A S \in SUBSET (1 .. n) : g[S] = IF S = {} THEN base ELSE H[Max(S)][g[S \ {Max(S)}]]
    <3> HIDE DEF H, n
    <3>1. n \in Nat
      BY <1>1
    <3>2. Foldable(n, Recent, base, H)
      BY <3>1, <1>3, FoldExists
    <3> QED
      BY <3>2 DEF Foldable
  <2>2. ASSUME NEW S \in SUBSET (1 .. n), S # {}
        PROVE  H[Max(S)][g[S \ {Max(S)}]] = Table!Recency!Lookup(g[S \ {Max(S)}], p[Max(S)])
    <3>1. Max(S) \in 1 .. n /\ S \ {Max(S)} \in SUBSET (1 .. n)
      BY <1>1, <2>2, LastIn
    <3>2. g[S \ {Max(S)}] \in Recent
      BY <2>1, <3>1
    <3> QED
      BY <3>1, <3>2
  <2> HIDE DEF H, n
  <2>3. g = [S \in SUBSET (1 .. n) |-> g[S]]
    OBVIOUS
  <2>4. Solves(g)
    BY <1>1, <2>1, <2>2, <2>3
  <2> HIDE DEF Solves
  <2> QED
    BY <2>4
<1>5. Solves(through)
  <2> HIDE DEF Solves
  <2> QED
    BY <1>4
<1>6. Table!Recency!FoldLeft(Table!Recency!Lookup, base, p) = through[DOMAIN p]
  BY DEF Table!Recency!FoldLeft, Table!Recency!MapThenFoldSet, Table!Recency!Max, Max
<1> HIDE DEF through
<1>7. through[{}] = base /\ \A S \in SUBSET DOMAIN p : S # {} =>
        through[S] = Table!Recency!Lookup(through[S \ {Max(S)}], p[Max(S)])
  BY <1>5
<1> DEFINE Q == {k \in Nat : k <= n => through[1 .. k] \in Recent}
<1>8. 0 \in Q
  BY <1>7
<1>9. ASSUME NEW k \in Nat, k < n
      PROVE  through[1 .. k + 1] = Table!Recency!Lookup(through[1 .. k], p[k + 1])
  <2>1. (1 .. k + 1) \in SUBSET DOMAIN p /\ 1 .. k + 1 # {}
    <3> HIDE DEF Q
    <3>1. k + 1 <= n /\ n \in Nat
      BY <1>1, <1>9
    <3>2. 1 .. k + 1 \in SUBSET (1 .. n) /\ 1 \in 1 .. k + 1
      BY <3>1
    <3> QED
      BY <1>1, <3>2
  <2> DEFINE S == 1 .. k + 1
  <2>2. Max(S) = k + 1 /\ S \ {k + 1} = 1 .. k
    BY LastOf
  <2> HIDE DEF S
  <2>3. through[S] = Table!Recency!Lookup(through[S \ {Max(S)}], p[Max(S)])
    BY <2>1, <1>7 DEF S
  <2> QED
    BY <2>2, <2>3 DEF S
<1>10. ASSUME NEW k \in Nat, k < n, k \in Q
       PROVE  k + 1 \in Q
  <2>1. through[1 .. k] \in Recent
    BY <1>1, <1>10
  <2>2. p[k + 1] \in Value
    BY <1>1, <1>10
  <2> QED
    BY <2>1, <2>2, <1>2, <1>9, <1>10
<1>11. \A k \in 0 .. n : through[1 .. k] \in Recent
  <2>1. Q \in SUBSET Nat
    OBVIOUS
  <2>2. \A k \in 0 .. n : k \in Nat /\ k <= n
    BY <1>1
  <2> HIDE DEF Q
  <2>3. \A k \in 0 .. n : k \in Q
    BY <1>1, <1>8, <1>10, <2>1, UpTo
  <2> QED
    BY <2>2, <2>3 DEF Q
<1> DEFINE d == [k \in 0 .. n |-> through[1 .. k]]
<1>12. /\ 0 \in 0 .. n /\ n \in 0 .. n /\ 1 .. 0 = {}
       /\ \A k \in 0 .. n : k \in Nat /\ (k < n => k + 1 \in 0 .. n)
  BY <1>1
<1>13. d[0] = base /\ d[n] = Table!Recency!FoldLeft(Table!Recency!Lookup, base, p)
  BY <1>1, <1>6, <1>7, <1>12
<1>14. \A k \in 0 .. n : d[k] \in Recent
  BY <1>11
<1>15. \A k \in 0 .. n : k < n => d[k + 1] = Table!Recency!Lookup(d[k], p[k + 1])
  BY <1>9, <1>12
<1>16. Lookups(d, base, p)
  <2> HIDE DEF d
  <2> QED
    BY <1>13, <1>14, <1>15 DEF Lookups
<1> QED
  BY <1>16

\* The answers to a payload say which of its values were found.
Answered(sts, found) ==
  /\ sts \in Seq(Int) /\ found \in Seq(BOOLEAN) /\ Len(found) = Len(sts)
  /\ \A k \in 1 .. Len(sts) : found[k] <=> sts[k] # -1

LEMMA AnswersAre ==
  ASSUME NEW sts, NEW found, Answered(sts, found)
  PROVE  [k \in DOMAIN sts |-> sts[k] # -1] = found
<1>1. DOMAIN sts = 1 .. Len(sts) /\ DOMAIN found = 1 .. Len(sts)
  BY DEF Answered
<1>2. \A k \in 1 .. Len(sts) : found[k] \in BOOLEAN
  BY <1>1 DEF Answered
<1>3. \A k \in 1 .. Len(sts) : (sts[k] # -1) = found[k]
  BY <1>2, Zenon DEF Answered
<1>4. found = [k \in DOMAIN found |-> found[k]]
  BY DEF Answered
<1> QED
  BY <1>1, <1>3, <1>4, Zenon

LEMMA AnswersGrow ==
  ASSUME NEW sts, NEW found, Answered(sts, found), NEW s \in Int, NEW hit \in BOOLEAN, s # -1 <=> hit
  PROVE  Answered(Append(sts, s), Append(found, hit))
<1> DEFINE q == Append(sts, s)
           f == Append(found, hit)
           n == Len(sts)
<1>1. /\ q \in Seq(Int) /\ Len(q) = n + 1 /\ n \in Nat
      /\ \A k \in 1 .. n : q[k] = sts[k]
      /\ q[n + 1] = s
  BY AppendProperties DEF Answered
<1>2. /\ f \in Seq(BOOLEAN) /\ Len(f) = n + 1
      /\ \A k \in 1 .. n : f[k] = found[k]
      /\ f[n + 1] = hit
  <2>1. found \in Seq(BOOLEAN) /\ Len(found) = n
    BY DEF Answered
  <2>2. /\ f \in Seq(BOOLEAN) /\ Len(f) = Len(found) + 1
        /\ \A k \in 1 .. Len(found) : f[k] = found[k]
        /\ f[Len(found) + 1] = hit
    <3>1. ASSUME NEW S, NEW g \in Seq(S), NEW h \in S
          PROVE  /\ Append(g, h) \in Seq(S) /\ Len(Append(g, h)) = Len(g) + 1
                 /\ \A k \in 1 .. Len(g) : Append(g, h)[k] = g[k]
                 /\ Append(g, h)[Len(g) + 1] = h
      BY AppendProperties
    <3>2. Append(found, hit) \in Seq(BOOLEAN)
      BY <2>1, <3>1
    <3>3. Len(Append(found, hit)) = Len(found) + 1
      BY <2>1, <3>1
    <3>4. \A k \in 1 .. Len(found) : Append(found, hit)[k] = found[k]
      BY <2>1, <3>1
    <3>5. Append(found, hit)[Len(found) + 1] = hit
      BY <2>1, <3>1
    <3> QED
      BY <3>2, <3>3, <3>4, <3>5
  <2> HIDE DEF f, n
  <2> QED
    BY <2>1, <2>2, Zenon
<1>3. \A k \in 1 .. n + 1 : k \in 1 .. n \/ k = n + 1
  BY <1>1
<1>4. \A k \in 1 .. n : found[k] <=> sts[k] # -1
  BY DEF Answered
<1> HIDE DEF q, f, n
<1>5. \A k \in 1 .. n + 1 : f[k] <=> q[k] # -1
  BY <1>1, <1>2, <1>3, <1>4, Zenon
<1>6. Answered(q, f)
  BY <1>1, <1>2, <1>5, Zenon DEF Answered
<1> QED
  BY <1>6 DEF q, f

\* A table and what it should be, of the same part of a payload.
Matches(t, a, p) == Holds(t, a.recent) /\ t.datablk = p /\ Answered(t.en_sts_vec, a.found)

LEMMA MatchGoesOn ==
  ASSUME TableOK, Policy = "LRU", NEW t, Intact(t), NEW a, NEW p, Matches(t, a, p), NEW v \in Value
  PROVE  Matches(Table!Access(t, v), Table!Recency!Lookup(a, v), p)
<1> DEFINE u == Table!Access(t, v)
           b == Table!Recency!Lookup(a, v)
           hit == v \in Table!Recency!ToSet(a.recent)
<1>1. Follows(t, u, a, v)
  BY AccessFollows DEF Matches
<1>2. b.found = Append(a.found, hit)
  BY DEF Table!Recency!Lookup
<1> HIDE DEF u, b
<1>3. PICK s \in Int : u.en_sts_vec = Append(t.en_sts_vec, s) /\ (s # -1 <=> hit)
  BY <1>1 DEF Follows
<1>4. hit \in BOOLEAN
  OBVIOUS
<1>5. Answered(u.en_sts_vec, b.found)
  <2> HIDE DEF hit
  <2>1. Answered(Append(t.en_sts_vec, s), Append(a.found, hit))
    BY <1>3, <1>4, AnswersGrow, Zenon DEF Matches
  <2> QED
    BY <1>2, <1>3, <2>1, Zenon
<1>6. Holds(u, b.recent) /\ u.datablk = p
  BY <1>1 DEF Follows, Matches, b
<1> QED
  BY <1>5, <1>6 DEF Matches, u, b

LEMMA PayloadFollows ==
  ASSUME TableOK, Policy = "LRU", NEW p \in Seq(Value), NEW base, Intact(base),
         NEW start \in Recent, Matches(base, start, p)
  PROVE  Matches(Table!FoldLeft(Table!Access, base, p),
                 Table!Recency!FoldLeft(Table!Recency!Lookup, start, p), p)
<1>1. PICK d : Accesses(d, base, p)
  BY PayloadAccessed
<1>2. NumSets \in Nat \ {0}
  BY DEF TableOK
<1>3. PICK e : Lookups(e, start, p)
  BY <1>2, PayloadRecalled
<1> DEFINE n == Len(p)
           Q == {k \in Nat : k <= n => Matches(d[k], e[k], p)}
<1>4. n \in Nat /\ \A k \in 1 .. n : p[k] \in Value
  OBVIOUS
<1>5. 0 \in Q
  BY <1>1, <1>3 DEF Accesses, Lookups
<1>6. ASSUME NEW k \in Nat, k < n, k \in Q
      PROVE  k + 1 \in Q
  <2>1. k \in 0 .. n /\ Matches(d[k], e[k], p) /\ p[k + 1] \in Value
    BY <1>4, <1>6
  <2>2. d[k + 1] = Table!Access(d[k], p[k + 1]) /\ Intact(d[k])
    BY <1>1, <1>6, <2>1 DEF Accesses
  <2>3. e[k + 1] = Table!Recency!Lookup(e[k], p[k + 1])
    BY <1>3, <1>6, <2>1 DEF Lookups
  <2>4. Matches(d[k + 1], e[k + 1], p)
    BY <2>1, <2>2, <2>3, MatchGoesOn
  <2> QED
    BY <2>4
<1>7. n \in Q
  <2>1. Q \in SUBSET Nat /\ n \in 0 .. n
    BY <1>4
  <2> HIDE DEF Q
  <2> QED
    BY <1>4, <1>5, <1>6, <2>1, UpTo
<1>8. Matches(d[n], e[n], p)
  BY <1>4, <1>7
<1> QED
  BY <1>1, <1>3, <1>8 DEF Accesses, Lookups

\* What Recency reads is what a table holds and answers.
Shows(t, a) == Held(t) = a.recent /\ [k \in DOMAIN t.en_sts_vec |-> t.en_sts_vec[k] # -1] = a.found

LEMMA MatchShows ==
  ASSUME TableOK, NEW t, Intact(t), NEW a, NEW p, Matches(t, a, p)
  PROVE  Shows(t, a)
<1>1. Held(t) = a.recent
  BY HoldsIs DEF Matches, Intact
<1>2. [k \in DOMAIN t.en_sts_vec |-> t.en_sts_vec[k] # -1] = a.found
  BY AnswersAre DEF Matches
<1> QED
  BY <1>1, <1>2 DEF Shows

LEMMA StartHolds == TableOK /\ Table!Init => Holds(cam, <<>>)
<1> SUFFICES ASSUME TableOK, Table!Init
             PROVE  Holds(cam, <<>>)
  OBVIOUS
<1>1. Intact(cam)
  BY TableStart
<1>2. PICK o : Listed(cam, o)
  BY <1>1 DEF Intact
<1>3. o \in [Entry -> Entry] /\ cam.m_value = [i \in Entry |-> NoValue]
  BY <1>2 DEF Listed, Order, Table!Init, Table!Index, Entry
<1>4. <<>> \in Seq(Value) /\ Len(<<>>) = 0 /\ Len(<<>>) <= NumSets /\ \A k \in Entry : ~ (k < 0)
  <2>1. NumSets \in Nat /\ \A k \in Entry : k \in Nat
    BY Entries
  <2> QED
    BY <2>1
<1>5. InOrder(cam, o, <<>>)
  BY <1>3, <1>4 DEF InOrder
<1> QED
  BY <1>2, <1>4, <1>5 DEF Holds

\* A payload looked up in a table of the most recently used values.
LEMMA CompressFollows ==
  ASSUME TableOK, Policy = "LRU", Intact(cam), NEW r, Holds(cam, r), Table!Compress
  PROVE  \E p \in Payload :
           LET a == Table!Recency!FoldLeft(Table!Recency!Lookup, [recent |-> r, found |-> <<>>], p)
           IN  Matches(cam', a, p) /\ Shows(cam', a)
<1>1. PICK p \in Payload :
        cam' = Table!FoldLeft(Table!Access,
                 [cam EXCEPT !.datablk = p, !.m_en_new_value_vec = <<>>, !.en_sts_vec = <<>>], p)
  BY DEF Table!Compress
<1> DEFINE base == [cam EXCEPT !.datablk = p, !.m_en_new_value_vec = <<>>, !.en_sts_vec = <<>>]
           start == [recent |-> r, found |-> <<>>]
           a == Table!Recency!FoldLeft(Table!Recency!Lookup, start, p)
<1>2. p \in Seq(Value) /\ cam \in Cam
  BY DEF TableOK, Intact
<1>3. base \in Cam
  <2>1. <<>> \in Seq(Value) /\ <<>> \in Seq(Int)
    OBVIOUS
  <2> QED
    BY <1>2, <2>1 DEF Cam
<1>4. /\ base.m_value = cam.m_value /\ base.m_map = cam.m_map
      /\ base.m_next = cam.m_next /\ base.m_prev = cam.m_prev /\ base.head = cam.head /\ base.tail = cam.tail
      /\ base.datablk = p /\ base.en_sts_vec = <<>>
  BY <1>2 DEF Cam
<1>5. start \in Recent /\ start.recent = r /\ start.found = <<>>
  <2>1. r \in Seq(Value) /\ <<>> \in Seq(BOOLEAN)
    BY DEF Holds
  <2> QED
    BY <2>1 DEF Recent
<1> HIDE DEF base, start
<1>6. Intact(base)
  BY <1>3, <1>4, AnswersKeep
<1>7. Matches(base, start, p)
  <2>1. PICK o : Listed(cam, o) /\ InOrder(cam, o, r)
    BY DEF Holds
  <2>2. Listed(base, o) /\ InOrder(base, o, r)
    BY <1>4, <2>1, ListStays DEF InOrder
  <2>3. Holds(base, r)
    BY <2>2 DEF Holds
  <2>4. Answered(<<>>, <<>>)
    BY DEF Answered
  <2> QED
    BY <1>4, <1>5, <2>3, <2>4 DEF Matches
<1>8. Matches(Table!FoldLeft(Table!Access, base, p), a, p)
  BY <1>2, <1>5, <1>6, <1>7, PayloadFollows
<1>9. Intact(Table!FoldLeft(Table!Access, base, p))
  <2>1. PICK d : Accesses(d, base, p)
    BY <1>2, <1>6, PayloadAccessed
  <2>2. Len(p) \in 0 .. Len(p)
    BY <1>2
  <2> QED
    BY <2>1, <2>2 DEF Accesses
<1>10. cam' = Table!FoldLeft(Table!Access, base, p)
  BY <1>1 DEF base
<1> HIDE DEF a
<1>11. Matches(cam', a, p) /\ Shows(cam', a)
  BY <1>8, <1>9, <1>10, MatchShows
<1> QED
  BY <1>11 DEF a, start

\* With LRU replacement the list of CAMDataEnPrivate and its map implement a
\* table of the most recently used values: each payload looked up finds those
\* of its values that are among the last NumSets different ones, and no others.
THEOREM TableIsMostRecent == TableOK /\ Policy = "LRU" /\ Table!Spec => Table!MostRecent
<1> DEFINE Now == \E r : Holds(cam, r)
<1>1. TableOK /\ Table!Init => Now /\ Table!Recency!Init
  <2> SUFFICES ASSUME TableOK, Table!Init
               PROVE  Now /\ Table!Recency!Init
    OBVIOUS
  <2>1. Holds(cam, <<>>)
    BY StartHolds
  <2>2. Held(cam) = <<>>
    BY <2>1, TableStart, HoldsIs DEF Intact
  <2>3. cam.datablk = <<>> /\ cam.en_sts_vec = <<>>
    BY DEF Table!Init
  <2>4. [k \in DOMAIN cam.en_sts_vec |-> cam.en_sts_vec[k] # -1] = <<>>
    BY <2>3
  <2>5. Table!Recency!Init
    BY <2>2, <2>3, <2>4 DEF Table!Recency!Init, Table!Valid, Table!MISS, Held
  <2> QED
    BY <2>1, <2>5
<1>2. TableOK /\ Policy = "LRU" /\ Intact(cam) /\ Now /\ [Table!Compress]_cam => Now'
  <2> SUFFICES ASSUME TableOK, Policy = "LRU", Intact(cam), Now, [Table!Compress]_cam
               PROVE  \E r : Holds(cam', r)
    BY DEF Holds, Listed, InOrder, Order
  <2>1. PICK r : Holds(cam, r)
    OBVIOUS
  <2>2. CASE UNCHANGED cam
    BY <2>1, <2>2
  <2>3. CASE Table!Compress
    <3>1. PICK p \in Payload :
            LET a == Table!Recency!FoldLeft(Table!Recency!Lookup, [recent |-> r, found |-> <<>>], p)
            IN  Matches(cam', a, p) /\ Shows(cam', a)
      BY <2>1, <2>3, CompressFollows
    <3> QED
      BY <3>1 DEF Matches
  <2> QED
    BY <2>2, <2>3
<1>3. TableOK /\ Policy = "LRU" /\ Intact(cam) /\ Now /\ [Table!Compress]_cam
        => [Table!Recency!Next]_<<cam.datablk,
             [k \in 1 .. Table!Cardinality({i \in Table!Index : Table!Valid(i)}) |-> cam.m_value[Table!Walk(cam)[k - 1]]],
             [k \in DOMAIN cam.en_sts_vec |-> cam.en_sts_vec[k] # Table!MISS]>>
  <2> DEFINE seen == <<cam.datablk,
                       [k \in 1 .. Table!Cardinality({i \in Table!Index : Table!Valid(i)}) |->
                          cam.m_value[Table!Walk(cam)[k - 1]]],
                       [k \in DOMAIN cam.en_sts_vec |-> cam.en_sts_vec[k] # Table!MISS]>>
  <2> SUFFICES ASSUME TableOK, Policy = "LRU", Intact(cam), Now, Table!Compress
               PROVE  Table!Recency!Next
    <3>1. UNCHANGED cam => UNCHANGED seen
      BY DEF Table!Valid, Table!Walk
    <3> QED
      BY <3>1
  <2>1. PICK r : Holds(cam, r)
    OBVIOUS
  <2>2. Held(cam) = r
    BY <2>1, HoldsIs DEF Intact
  <2>3. PICK p \in Payload :
          LET a == Table!Recency!FoldLeft(Table!Recency!Lookup, [recent |-> r, found |-> <<>>], p)
          IN  Matches(cam', a, p) /\ Shows(cam', a)
    BY <2>1, CompressFollows
  <2> DEFINE a == Table!Recency!FoldLeft(Table!Recency!Lookup, [recent |-> r, found |-> <<>>], p)
  <2>4. /\ cam'.datablk = p /\ Held(cam') = a.recent
        /\ [k \in DOMAIN cam'.en_sts_vec |-> cam'.en_sts_vec[k] # -1] = a.found
    BY <2>3 DEF Matches, Shows
  <2> HIDE DEF a
  <2> QED
    BY <2>2, <2>4 DEF Table!Recency!Next, Table!Valid, Table!MISS, Held, a
<1>4. TableOK => TableOK'
  BY DEF TableOK
<1>5. Policy = "LRU" => (Policy = "LRU")'
  OBVIOUS
<1> HIDE DEF Now
<1> QED
  BY <1>1, <1>2, <1>3, <1>4, <1>5, TableInductive, PTL DEF Table!Spec, Table!MostRecent, Table!Recency!Spec

-----------------------------------------------------------------------------
(* Compressing network interfaces (NICompression). *)

\* What the code requires of flits and blocks: flits are words, payloads are
\* whole flits and whole blocks.
ShapesOK ==
  /\ \A s \in Shapes :
       /\ s.flit_sz_byte \in Nat \ {0} /\ s.flit_sz_byte % 8 = 0
       /\ s.cam_data_blk_byte \in Nat \ {0}
       /\ s.payload \in Nat \ {0}
       /\ s.payload % s.flit_sz_byte = 0 /\ s.payload % s.cam_data_blk_byte = 0
       /\ s.cam_data_num_interleaved_tab \in Nat \ {0}
       /\ s.cam_data_en_latency \in Nat \ {0}
  /\ NumPackets \in Nat

\* What is true of the sizes in every state, under names that no step changes.
Sizes ==
  /\ FlitSz \in Nat /\ FlitSz >= 8 /\ BlkSz \in Nat \ {0} /\ PayloadSz \in Nat \ {0}
  /\ \E n \in Nat \ {0} : PayloadSz = FlitSz * n /\ LongFlits = n + 1
  /\ \E n \in Nat \ {0} : PayloadSz = BlkSz * n /\ NumBlks = n
  /\ Interleaved \in Nat \ {0} /\ EnLatency \in Nat \ {0}

\* Division by a positive number.
LEMMA Divided ==
  ASSUME NEW a \in Nat, NEW b \in Nat, b > 0
  PROVE  /\ a \div b \in Nat
         /\ b * (a \div b) <= a /\ a < b * (a \div b) + b
  OBVIOUS

LEMMA TimesMono ==
  ASSUME NEW b \in Nat, NEW x \in Int, NEW y \in Int, x <= y
  PROVE  b * x <= b * y
  OBVIOUS

LEMMA DivUnique ==
  ASSUME NEW a \in Nat, NEW b \in Nat, b > 0, NEW q \in Nat, a = b * q
  PROVE  a \div b = q
  OBVIOUS

LEMMA SizesHold ==
  ASSUME ShapesOK, shape \in Shapes
  PROVE  Sizes
<1> DEFINE f == shape.flit_sz_byte
           b == shape.cam_data_blk_byte
           y == shape.payload
<1>1. /\ f \in Nat \ {0} /\ f % 8 = 0 /\ b \in Nat \ {0} /\ y \in Nat \ {0}
      /\ y % f = 0 /\ y % b = 0
      /\ Interleaved \in Nat \ {0} /\ EnLatency \in Nat \ {0}
  BY DEF ShapesOK, Interleaved, EnLatency
<1> HIDE DEF f, b, y
<1>2. f >= 8
  BY <1>1
<1>3. ASSUME NEW d \in Nat \ {0}, y % d = 0
      PROVE  \E n \in Nat \ {0} : y = d * n /\ y \div d = n
  <2>1. y \div d \in Nat /\ y = d * (y \div d)
    BY <1>1, <1>3
  <2>2. y \div d # 0
    BY <1>1, <2>1
  <2> QED
    BY <2>1, <2>2
<1>4. \E n \in Nat \ {0} : y = f * n /\ y \div f = n
  BY <1>1, <1>3
<1>5. \E n \in Nat \ {0} : y = b * n /\ y \div b = n
  BY <1>1, <1>3
<1>6. \E n \in Nat \ {0} : y = f * n /\ 1 + y \div f = n + 1
  BY <1>4
<1> QED
  BY <1>1, <1>2, <1>5, <1>6 DEF Sizes, FlitSz, BlkSz, PayloadSz, LongFlits, NumBlks, f, b, y

\* What the CAM leaves is at most the payload, and never less than nothing.
LEMMA RestIn ==
  ASSUME Sizes, NEW found \in SUBSET (1 .. NumBlks)
  PROVE  /\ Rest(found) \in Nat /\ Rest(found) <= PayloadSz
         /\ FlitSz > BlkSz => \E q \in Nat : Rest(found) = FlitSz * q
         /\ FlitSz <= BlkSz =>
              Rest(found) = PayloadSz \/ (found # {} /\ Rest(found) + FlitSz <= PayloadSz)
<1> DEFINE c == Cardinality(found)
           left == PayloadSz - BlkSz * c
<1>1. PICK n \in Nat \ {0} : PayloadSz = BlkSz * n /\ NumBlks = n
  BY DEF Sizes
<1>2. PICK k \in Nat \ {0} : PayloadSz = FlitSz * k
  BY DEF Sizes
<1>3. c \in Nat /\ c <= n /\ (found = {} <=> c = 0)
  <2>1. IsFiniteSet(1 .. NumBlks) /\ Cardinality(1 .. NumBlks) = n
    BY <1>1, FS_Interval
  <2> QED
    BY <2>1, FS_Subset, FS_CardinalityType, FS_EmptySet
<1> HIDE DEF c
<1>4. FlitSz \in Nat /\ FlitSz >= 8 /\ BlkSz \in Nat \ {0} /\ PayloadSz \in Nat
  BY DEF Sizes
<1>5. BlkSz * c \in Nat /\ BlkSz * c <= PayloadSz
  BY <1>1, <1>3, <1>4, TimesMono
<1>6. left \in Nat /\ left <= PayloadSz
  BY <1>4, <1>5
<1>7. c # 0 => left + BlkSz <= PayloadSz
  <2>1. c # 0 => BlkSz * 1 <= BlkSz * c
    BY <1>3, <1>4, TimesMono
  <2> QED
    BY <1>4, <1>5, <2>1
<1>8. c = 0 => left = PayloadSz
  BY <1>4
<1> HIDE DEF left
<1>9. CASE FlitSz <= BlkSz
  <2>1. Rest(found) = left
    BY <1>9 DEF Rest, left, c
  <2> QED
    BY <1>3, <1>4, <1>6, <1>7, <1>8, <1>9, <2>1
<1>10. CASE FlitSz > BlkSz
  <2> DEFINE q == (left + FlitSz - 1) \div FlitSz
  <2>1. Rest(found) = FlitSz * q
    BY <1>4, <1>10 DEF Rest, left, c
  <2>2. left + FlitSz - 1 \in Nat
    BY <1>4, <1>6
  <2>3. q \in Nat /\ FlitSz * q <= left + FlitSz - 1
    BY <1>4, <2>2, Divided
  <2> HIDE DEF q
  <2>4. FlitSz * q < FlitSz * (k + 1)
    <3>1. FlitSz * (k + 1) = FlitSz * k + FlitSz
      BY <1>4
    <3>2. FlitSz * k \in Nat /\ FlitSz * q \in Nat
      BY <1>4, <2>3
    <3> QED
      BY <1>2, <1>4, <1>6, <2>3, <3>1, <3>2
  <2>5. q <= k
    <3>1. CASE k + 1 <= q
      BY <1>4, <2>3, <2>4, <3>1, TimesMono
    <3> QED
      BY <2>3, <3>1
  <2>6. FlitSz * q <= PayloadSz /\ FlitSz * q \in Nat
    BY <1>2, <1>4, <2>3, <2>5, TimesMono
  <2> QED
    BY <1>4, <1>10, <2>1, <2>3, <2>6
<1> QED
  BY <1>4, <1>9, <1>10

\* The tail of a packet never has to be a flit that does not exist.
LEMMA PacketShrinks ==
  ASSUME Sizes, NEW found \in SUBSET (1 .. NumBlks)
  PROVE  /\ ComprSz(found) \in Nat /\ ComprSz(found) <= PayloadSz
         /\ ConvFlits(found) \in 0 .. LongFlits - 1
<1> DEFINE r == Rest(found)
           v == Saved(found)
           z == ComprSz(found)
<1>1. FlitSz \in Nat /\ FlitSz >= 8 /\ PayloadSz \in Nat /\ r \in Nat /\ r <= PayloadSz
  BY RestIn DEF Sizes
<1>2. PICK k \in Nat \ {0} : PayloadSz = FlitSz * k /\ LongFlits = k + 1
  BY DEF Sizes
<1>3. v = (PayloadSz - r) \div FlitSz
  BY DEF Saved
<1>4. z = r + (IF v > 0 THEN 8 ELSE 0)
  BY DEF ComprSz
<1> HIDE DEF r, v, z
<1>5. PayloadSz - r \in Nat
  BY <1>1
<1>6. v \in Nat /\ FlitSz * v <= PayloadSz - r
  BY <1>1, <1>3, <1>5, Divided
<1>7. v > 0 => FlitSz <= PayloadSz - r
  <2>1. v > 0 => FlitSz * 1 <= FlitSz * v
    BY <1>1, <1>6, TimesMono
  <2>2. FlitSz * v \in Nat
    BY <1>1, <1>6
  <2> QED
    BY <1>1, <1>5, <1>6, <2>1, <2>2
<1>8. z \in Nat /\ z <= PayloadSz
  BY <1>1, <1>4, <1>6, <1>7
<1> DEFINE q == z \div FlitSz
<1>9. q \in Nat /\ FlitSz * q <= z
  BY <1>1, <1>8, Divided
<1>10. q <= k
  <2> HIDE DEF q
  <2>1. CASE k + 1 <= q
    <3>1. FlitSz * (k + 1) <= FlitSz * q
      BY <1>1, <1>9, <2>1, TimesMono
    <3>2. FlitSz * (k + 1) = FlitSz * k + FlitSz
      BY <1>1
    <3>3. FlitSz * k \in Nat /\ FlitSz * q \in Nat
      BY <1>1, <1>9
    <3> QED
      BY <1>1, <1>2, <1>8, <1>9, <3>1, <3>2, <3>3
  <2> QED
    BY <1>9, <2>1
<1>11. ConvFlits(found) = q
  BY DEF ConvFlits, z
<1> QED
  BY <1>2, <1>8, <1>9, <1>10, <1>11 DEF z

\* With flits of one word, the flits that are left carry exactly the words left,
\* and there is at least one: whatever is found, or the indices of it.
LEMMA WordsLeft ==
  ASSUME Sizes, FlitSz = 8, NEW found \in SUBSET (1 .. NumBlks)
  PROVE  /\ ConvFlits(found) \in 1 .. LongFlits - 1
         /\ ConvFlits(found) * (FlitSz \div 8) = ComprSz(found) \div 8
<1> DEFINE r == Rest(found)
           z == ComprSz(found)
<1>1. r \in Nat /\ r <= PayloadSz /\ PayloadSz \in Nat \ {0} /\ BlkSz \in Nat \ {0}
  BY RestIn DEF Sizes
<1>2. PICK k \in Nat \ {0} : PayloadSz = 8 * k
  BY DEF Sizes
<1>3. z = r + (IF (PayloadSz - r) \div 8 > 0 THEN 8 ELSE 0)
  BY DEF ComprSz, Saved
<1>4. \/ \E q \in Nat : r = 8 * q
      \/ r = PayloadSz \/ r + 8 <= PayloadSz
  BY <1>1, RestIn DEF Sizes
<1> HIDE DEF r, z
<1>5. z >= 8 /\ z \in Nat
  BY <1>1, <1>2, <1>3, <1>4
<1>6. z \div 8 >= 1
  BY <1>5
<1>7. ConvFlits(found) = z \div 8
  BY DEF ConvFlits, z
<1>8. 8 \div 8 = 1 /\ (z \div 8) * 1 = z \div 8
  BY <1>5
<1>9. ConvFlits(found) \in 0 .. LongFlits - 1
  BY PacketShrinks
<1>10. LongFlits \in Nat
  BY DEF Sizes
<1> QED
  BY <1>6, <1>7, <1>8, <1>9, <1>10 DEF z

-----------------------------------------------------------------------------
(* Flits and their pools. *)

\* The packet that is taken next.
First == next - Len(pktQ)

NITypes ==
  /\ shape \in Shapes /\ Sizes
  /\ next \in 1 .. NumPackets + 1 /\ pktQ \in Seq(Nat) /\ Len(pktQ) < next
  /\ \A i \in 1 .. Len(pktQ) : pktQ[i] = First + i - 1
  /\ long \in [Sent -> BOOLEAN]
  /\ store \in Seq(Number)
  /\ fq \in Seq(Sent \X Number \X BOOLEAN)
  /\ reclaimed \in [Sent -> [Number -> Nat]]
  /\ done \in SUBSET Sent

\* The flits still to be injected are some of the last packet taken, in order.
StoreInOrder ==
  /\ store # <<>> => pkt \in Sent /\ pkt = First - 1 /\ pc # "idle"
  /\ \A m \in DOMAIN store : store[m] < NumFlits(pkt)
  /\ \A m, n \in DOMAIN store : m < n => store[m] < store[n]

\* The flits on their way are in order, up to those, and nothing of a packet
\* comes behind its tail.
FlitsInOrder ==
  /\ \A i \in DOMAIN fq : fq[i][1] < First /\ fq[i][2] < NumFlits(fq[i][1])
  /\ \A i, j \in DOMAIN fq :
       i < j => \/ fq[i][1] < fq[j][1]
                \/ fq[i][1] = fq[j][1] /\ fq[i][2] < fq[j][2] /\ ~ fq[i][3]
  /\ \A i \in DOMAIN fq, m \in DOMAIN store :
       fq[i][1] = pkt => fq[i][2] < store[m] /\ ~ fq[i][3]

\* Flits that somebody still has.
Stored(p, k) == p = pkt /\ \E m \in DOMAIN store : store[m] = k
OnItsWay(p, k) == \E i \in DOMAIN fq : fq[i][1] = p /\ fq[i][2] = k
Owed(p, k) == Stored(p, k) \/ OnItsWay(p, k)

\* All others that were built have been given back, once.
Reclaims ==
  /\ \A p \in Sent : \A k \in Number :
       reclaimed[p][k] = IF p < First /\ k < NumFlits(p) /\ ~ Owed(p, k) THEN 1 ELSE 0
  /\ \A p \in done : p < First /\ \A k \in Number : ~ Owed(p, k)

PoolInv == NITypes /\ StoreInOrder /\ FlitsInOrder /\ Reclaims

\* Sizes are those of the shape, and no step changes that.
LEMMA SameShape ==
  ASSUME shape' = shape, long' = long
  PROVE  /\ FlitSz' = FlitSz /\ PayloadSz' = PayloadSz /\ LongFlits' = LongFlits /\ NumBlks' = NumBlks
         /\ Streamline' = Streamline
         /\ Sizes' = Sizes /\ Number' = Number /\ \A p : NumFlits(p)' = NumFlits(p)
  BY DEF FlitSz, BlkSz, PayloadSz, LongFlits, NumBlks, Streamline, Interleaved, EnLatency, Sizes, Number, NumFlits, ShortFlits

LEMMA SameSizes ==
  ASSUME shape' = shape, NEW found
  PROVE  ConvFlits(found)' = ConvFlits(found) /\ ComprSz(found)' = ComprSz(found)
  BY DEF FlitSz, BlkSz, PayloadSz, ConvFlits, ComprSz, Saved, Rest

LEMMA FlitNumbers ==
  ASSUME Sizes
  PROVE  /\ LongFlits \in Nat /\ LongFlits >= 2 /\ Number = 0 .. LongFlits - 1
         /\ \A p : NumFlits(p) \in 1 .. LongFlits /\ NumFlits(p) \in Nat
  BY DEF Sizes, Number, NumFlits, ShortFlits

LEMMA PoolsStart == ASSUME ShapesOK, NIInit PROVE PoolInv
<1>1. shape \in Shapes /\ Sizes
  BY SizesHold DEF NIInit
<1>2. /\ next = 1 /\ pktQ = <<>> /\ store = <<>> /\ fq = <<>> /\ done = {} /\ First = 1
      /\ Len(pktQ) = 0 /\ NumPackets \in Nat /\ DOMAIN store = {} /\ DOMAIN fq = {}
  BY DEF NIInit, First, ShapesOK
<1>3. NITypes
  BY <1>1, <1>2 DEF NITypes, NIInit
<1>4. StoreInOrder /\ FlitsInOrder
  BY <1>2 DEF StoreInOrder, FlitsInOrder
<1>5. \A p \in Sent : ~ (p < First)
  BY <1>2 DEF Sent
<1>6. Reclaims
  BY <1>2, <1>5 DEF Reclaims, NIInit
<1> QED
  BY <1>3, <1>4, <1>6 DEF PoolInv

\* Nothing about flits changes.
LEMMA PoolsStay ==
  ASSUME PoolInv, UNCHANGED <<shape, long, pkt, store, fq, reclaimed, done>>, First' = First,
         next' \in 1 .. NumPackets + 1, pktQ' \in Seq(Nat), Len(pktQ') < next',
         \A i \in 1 .. Len(pktQ') : pktQ'[i] = First + i - 1,
         store # <<>> => pc' # "idle"
  PROVE  PoolInv'
<1>1. Number' = Number /\ (\A p : NumFlits(p)' = NumFlits(p)) /\ Sent' = Sent /\ Sizes' = Sizes
  BY SameShape DEF Sent
<1>2. NITypes'
  BY <1>1 DEF PoolInv, NITypes
<1>3. StoreInOrder'
  BY <1>1 DEF PoolInv, StoreInOrder
<1>4. FlitsInOrder'
  BY <1>1 DEF PoolInv, FlitsInOrder
<1>5. \A p, k : Owed(p, k)' = Owed(p, k)
  BY DEF Owed, Stored, OnItsWay
<1>6. Reclaims'
  BY <1>1, <1>5 DEF PoolInv, Reclaims
<1> QED
  BY <1>2, <1>3, <1>4, <1>6 DEF PoolInv

LEMMA GenerateKeepsPools == ASSUME PoolInv, NumPackets \in Nat, Generate PROVE PoolInv'
<1>1. /\ next \in Nat /\ next >= 1 /\ next <= NumPackets /\ pktQ \in Seq(Nat) /\ Len(pktQ) < next
      /\ pktQ' = Append(pktQ, next) /\ next' = next + 1
      /\ UNCHANGED <<shape, long, pkt, store, fq, reclaimed, done, pc>>
  BY DEF PoolInv, NITypes, Generate
<1>2. Len(pktQ') = Len(pktQ) + 1 /\ pktQ' \in Seq(Nat) /\ Len(pktQ) \in Nat
  BY <1>1
<1>3. First' = First /\ First = next - Len(pktQ)
  BY <1>1, <1>2 DEF First
<1>4. ASSUME NEW i \in 1 .. Len(pktQ')
      PROVE  pktQ'[i] = First + i - 1
  <2>1. CASE i \in 1 .. Len(pktQ)
    BY <1>1, <2>1 DEF PoolInv, NITypes
  <2>2. CASE i = Len(pktQ) + 1
    BY <1>1, <1>2, <1>3, <2>2
  <2> QED
    BY <1>2, <2>1, <2>2
<1>5. next' \in 1 .. NumPackets + 1 /\ Len(pktQ') < next'
  BY <1>1, <1>2
<1>6. store # <<>> => pc' # "idle"
  BY <1>1 DEF PoolInv, StoreInOrder
<1> QED
  BY <1>1, <1>2, <1>3, <1>4, <1>5, <1>6, PoolsStay

\* What segmentPacket keeps of a packet: its flits, or some of them, in order.
KeptOf(p, s) ==
  /\ s \in Seq(Number)
  /\ \A m \in DOMAIN s : s[m] < NumFlits(p)
  /\ \A m, n \in DOMAIN s : m < n => s[m] < s[n]

LEMMA WholeKept ==
  ASSUME Sizes, NEW p
  PROVE  KeptOf(p, [f \in 1 .. NumFlits(p) |-> f - 1])
<1> DEFINE n == NumFlits(p)
           s == [f \in 1 .. n |-> f - 1]
<1>1. n \in Nat /\ n <= LongFlits /\ LongFlits \in Nat /\ Number = 0 .. LongFlits - 1
  BY FlitNumbers
<1> HIDE DEF n
<1>2. s \in [1 .. n -> Number]
  BY <1>1
<1>3. s \in Seq(Number)
  BY <1>1, <1>2
<1>4. \A m \in 1 .. n : s[m] < n
  BY <1>1
<1> QED
  BY <1>2, <1>3, <1>4 DEF KeptOf, n

LEMMA RebuiltKept ==
  ASSUME Sizes, NEW p, NumFlits(p) = LongFlits, NEW found \in SUBSET (1 .. NumBlks)
  PROVE  KeptOf(p, Rebuilt(LongFlits, found)) /\ Len(Rebuilt(LongFlits, found)) = ConvFlits(found) + 1
<1> DEFINE c == ConvFlits(found)
           s == Rebuilt(LongFlits, found)
<1>1. c \in 0 .. LongFlits - 1
  BY PacketShrinks
<1>2. s = [f \in 1 .. c + 1 |-> IF f <= c THEN f - 1 ELSE LongFlits - 1]
  BY DEF Rebuilt
<1> HIDE DEF c, s
<1>3. LongFlits \in Nat /\ LongFlits >= 2 /\ Number = 0 .. LongFlits - 1
  BY FlitNumbers
<1>4. c \in Nat /\ c <= LongFlits - 1
  BY <1>1, <1>3
<1>5. ASSUME NEW f \in 1 .. c + 1
      PROVE  s[f] \in Number /\ s[f] < LongFlits /\ (f <= c => s[f] = f - 1) /\ (f > c => s[f] = LongFlits - 1)
  BY <1>2, <1>3, <1>4
<1>6. s \in [1 .. c + 1 -> Number]
  BY <1>2, <1>5
<1>7. s \in Seq(Number) /\ Len(s) = c + 1 /\ DOMAIN s = 1 .. c + 1
  BY <1>4, <1>6
<1>8. ASSUME NEW m \in 1 .. c + 1, NEW n \in 1 .. c + 1, m < n
      PROVE  s[m] < s[n]
  <2>1. m <= c /\ s[m] = m - 1
    BY <1>4, <1>5, <1>8
  <2>2. CASE n <= c
    BY <1>5, <1>8, <2>1, <2>2
  <2>3. CASE n > c
    BY <1>3, <1>4, <1>5, <2>1, <2>3
  <2> QED
    BY <1>4, <2>2, <2>3
<1> QED
  BY <1>5, <1>7, <1>8 DEF KeptOf, c, s

LEMMA SegmentKeepsPools == ASSUME PoolInv, NumPackets \in Nat, SegmentPacket PROVE PoolInv'
<1> DEFINE p == Head(pktQ)
<1>1. /\ Sizes /\ next \in 1 .. NumPackets + 1 /\ pktQ \in Seq(Nat) /\ Len(pktQ) < next
      /\ \A i \in 1 .. Len(pktQ) : pktQ[i] = First + i - 1
      /\ pc = "idle" /\ pktQ # <<>> /\ pktQ' = Tail(pktQ) /\ pkt' = p /\ pc' = "encode"
      /\ UNCHANGED <<shape, next, long, fq, done>>
  BY DEF PoolInv, NITypes, SegmentPacket
<1>2. store = <<>>
  BY <1>1 DEF PoolInv, StoreInOrder
<1>3. First = next - Len(pktQ) /\ Len(pktQ) \in Nat /\ Len(pktQ) >= 1
  BY <1>1 DEF First
<1>4. p = First /\ p \in Sent /\ p \in Nat
  <2>1. p = pktQ[1] /\ 1 \in 1 .. Len(pktQ)
    BY <1>1, <1>3
  <2>2. p = First + 1 - 1
    BY <1>1, <2>1
  <2>3. next \in Nat /\ next <= NumPackets + 1 /\ First \in Nat /\ First >= 1 /\ First <= NumPackets
    BY <1>1, <1>3
  <2> QED
    BY <2>2, <2>3 DEF Sent
<1>5. Len(pktQ') = Len(pktQ) - 1 /\ pktQ' \in Seq(Nat) /\ First' = First + 1
  BY <1>1, <1>3 DEF First
<1>6. ASSUME NEW i \in 1 .. Len(pktQ')
      PROVE  pktQ'[i] = First' + i - 1
  BY <1>1, <1>3, <1>4, <1>5
<1>7. PICK flag \in ComprFlags(p, Len(pktQ) > 1) :
        /\ hits' \in IF flag THEN SUBSET (1 .. NumBlks) ELSE {{}}
        /\ store' = IF flag THEN Rebuilt(LongFlits, hits') ELSE [f \in 1 .. NumFlits(p) |-> f - 1]
  BY DEF SegmentPacket
<1>8. reclaimed' = [reclaimed EXCEPT ![p] =
                      [k \in Number |-> @[k] + (IF k \in Unused(p, store') THEN 1 ELSE 0)]]
  BY DEF SegmentPacket
<1> HIDE DEF p
<1>9. flag \in BOOLEAN /\ (flag => long[p])
  BY <1>7 DEF ComprFlags
<1>10. KeptOf(p, store')
  <2>1. CASE flag
    <3>1. NumFlits(p) = LongFlits
      BY <1>9, <2>1 DEF NumFlits
    <3> QED
      BY <1>1, <1>7, <2>1, <3>1, RebuiltKept
  <2>2. CASE ~ flag
    <3>1. store' = [f \in 1 .. NumFlits(p) |-> f - 1]
      BY <1>7, <2>2
    <3> QED
      BY <1>1, <3>1, WholeKept
  <2> QED
    BY <1>9, <2>1, <2>2
<1>11. Number' = Number /\ (\A q : NumFlits(q)' = NumFlits(q)) /\ Sizes' = Sizes /\ Sent' = Sent
  BY <1>1, SameShape DEF Sent
<1>12. /\ Number = 0 .. LongFlits - 1 /\ LongFlits \in Nat
       /\ \A q : NumFlits(q) \in 1 .. LongFlits /\ NumFlits(q) \in Nat
  BY <1>1, FlitNumbers
<1>13. reclaimed' \in [Sent -> [Number -> Nat]]
  BY <1>4, <1>8 DEF PoolInv, NITypes
<1>14. NITypes'
  BY <1>1, <1>3, <1>5, <1>6, <1>10, <1>11, <1>13, SMTT(30) DEF PoolInv, NITypes, KeptOf
<1>15. StoreInOrder'
  BY <1>1, <1>3, <1>4, <1>5, <1>10, <1>11 DEF StoreInOrder, KeptOf
<1>16. \A i \in DOMAIN fq : fq[i][1] < First /\ fq[i][1] \in Nat /\ fq[i][1] # p
  <2> SUFFICES ASSUME NEW i \in DOMAIN fq
               PROVE  fq[i][1] < First /\ fq[i][1] \in Nat /\ fq[i][1] # p
    OBVIOUS
  <2>1. fq[i] \in Sent \X Number \X BOOLEAN
    BY DEF PoolInv, NITypes
  <2>2. fq[i][1] < First /\ fq[i][1] \in Nat
    BY <2>1 DEF PoolInv, FlitsInOrder, Sent
  <2> QED
    BY <1>4, <2>2
<1>17. FlitsInOrder'
  <2>1. \A i \in DOMAIN fq : fq[i][1] < First'
    BY <1>4, <1>5, <1>16
  <2> QED
    BY <1>1, <1>11, <1>16, <2>1 DEF PoolInv, FlitsInOrder
<1>18. ASSUME NEW q \in Sent, NEW k \in Number
       PROVE  /\ q = p => (Owed(q, k)' <=> \E m \in DOMAIN store' : store'[m] = k)
              /\ q # p => (Owed(q, k)' <=> Owed(q, k))
              /\ ~ Owed(p, k)
  <2>1. OnItsWay(q, k)' <=> OnItsWay(q, k)
    BY <1>1 DEF OnItsWay
  <2>2. ~ OnItsWay(p, k) /\ ~ Stored(p, k) /\ ~ Stored(q, k)
    BY <1>2, <1>16 DEF OnItsWay, Stored
  <2>3. Stored(q, k)' <=> q = p /\ \E m \in DOMAIN store' : store'[m] = k
    BY <1>1 DEF Stored
  <2> QED
    BY <2>1, <2>2, <2>3 DEF Owed
<1>19. ASSUME NEW q \in Sent, NEW k \in Number
       PROVE  reclaimed'[q][k] = IF q < First' /\ k < NumFlits(q) /\ ~ Owed(q, k)' THEN 1 ELSE 0
  <2>1. reclaimed \in [Sent -> [Number -> Nat]]
    BY DEF PoolInv, NITypes
  <2>2. reclaimed[q][k] = IF q < First /\ k < NumFlits(q) /\ ~ Owed(q, k) THEN 1 ELSE 0
    BY DEF PoolInv, Reclaims
  <2>3. CASE q # p
    <3>1. q < First' <=> q < First
      BY <1>3, <1>4, <1>5, <2>3, SMTT(30) DEF Sent
    <3>2. reclaimed'[q] = reclaimed[q] /\ (Owed(q, k)' <=> Owed(q, k))
      BY <1>8, <1>18, <2>1, <2>3
    <3> QED
      BY <2>2, <3>1, <3>2
  <2>4. CASE q = p
    <3>1. q < First' /\ ~ (q < First)
      BY <1>4, <1>5, <2>4
    <3>2. reclaimed[q][k] = 0
      BY <2>2, <3>1
    <3>3. reclaimed'[q][k] = IF k \in Unused(p, store') THEN 1 ELSE 0
      BY <1>4, <1>8, <2>1, <2>4, <3>2
    <3>4. k \in Unused(p, store') <=> k < NumFlits(p) /\ ~ \E m \in DOMAIN store' : store'[m] = k
      BY <1>12 DEF Unused, ToSet
    <3> QED
      BY <1>18, <2>4, <3>1, <3>3, <3>4
  <2> QED
    BY <2>3, <2>4
<1>20. \A q \in done : q < First' /\ \A k \in Number : ~ Owed(q, k)'
  <2>1. ASSUME NEW q \in done
        PROVE  q \in Sent /\ q < First' /\ q # p /\ \A k \in Number : ~ Owed(q, k)
    <3>1. q \in Sent /\ q < First /\ \A k \in Number : ~ Owed(q, k)
      BY DEF PoolInv, NITypes, Reclaims
    <3> QED
      BY <1>4, <1>5, <3>1 DEF Sent
  <2> QED
    BY <1>18, <2>1
<1>21. Reclaims'
  BY <1>1, <1>11, <1>19, <1>20 DEF Reclaims
<1> QED
  BY <1>14, <1>15, <1>17, <1>21 DEF PoolInv

LEMMA InjectKeepsPools == ASSUME PoolInv, Inject PROVE PoolInv'
<1> DEFINE f == <<pkt, Head(store), Len(store) = 1>>
           n == Len(fq)
<1>1. /\ store # <<>> /\ store \in Seq(Number) /\ fq \in Seq(Sent \X Number \X BOOLEAN)
      /\ fq' = Append(fq, f) /\ store' = Tail(store) /\ pc' = "inject"
      /\ UNCHANGED <<shape, pktQ, next, long, pkt, reclaimed, done>>
  BY DEF PoolInv, NITypes, Inject
<1>2. /\ Number' = Number /\ (\A q : NumFlits(q)' = NumFlits(q)) /\ Sizes' = Sizes /\ Sent' = Sent
      /\ First' = First
  BY <1>1, SameShape DEF Sent, First
<1>3. /\ Len(store) \in Nat /\ Len(store) >= 1 /\ DOMAIN store = 1 .. Len(store) /\ Head(store) = store[1]
      /\ store' \in Seq(Number) /\ Len(store') = Len(store) - 1 /\ DOMAIN store' = 1 .. Len(store')
      /\ \A m \in 1 .. Len(store') : store'[m] = store[m + 1]
  BY <1>1
<1>4. pkt \in Sent /\ pkt = First - 1 /\ store[1] \in Number /\ store[1] < NumFlits(pkt)
  BY <1>1, <1>3 DEF PoolInv, StoreInOrder
<1>5. f \in Sent \X Number \X BOOLEAN
  BY <1>3, <1>4
<1>6. /\ n \in Nat /\ DOMAIN fq = 1 .. n
      /\ fq' \in Seq(Sent \X Number \X BOOLEAN) /\ DOMAIN fq' = 1 .. n + 1
      /\ fq'[n + 1] = f /\ \A i \in 1 .. n : fq'[i] = fq[i]
  BY <1>1, <1>5
<1>7. f[1] = pkt /\ f[2] = store[1] /\ f[3] = (Len(store) = 1)
  BY <1>3
<1> HIDE DEF f, n
<1>8. First \in Int
  BY DEF PoolInv, NITypes, First
<1>9. NITypes'
  <2>1. \A i \in 1 .. Len(pktQ') : pktQ'[i] = First' + i - 1
    BY <1>1, <1>2 DEF PoolInv, NITypes
  <2> QED
    BY <1>1, <1>2, <1>3, <1>6, <2>1 DEF PoolInv, NITypes
<1>10. ASSUME NEW m \in DOMAIN store', NEW k \in DOMAIN store', m < k
       PROVE  store'[m] < store'[k]
  <2>1. m + 1 \in DOMAIN store /\ k + 1 \in DOMAIN store /\ m + 1 < k + 1
    BY <1>3, <1>10
  <2>2. store[m + 1] < store[k + 1]
    BY <2>1 DEF PoolInv, StoreInOrder
  <2> QED
    BY <1>3, <2>2
<1>11. ASSUME NEW m \in DOMAIN store'
       PROVE  store'[m] < NumFlits(pkt) /\ store[1] < store'[m]
  <2>1. m + 1 \in DOMAIN store /\ 1 \in DOMAIN store /\ 1 < m + 1
    BY <1>3
  <2>2. store[m + 1] < NumFlits(pkt) /\ store[1] < store[m + 1]
    BY <2>1 DEF PoolInv, StoreInOrder
  <2> QED
    BY <1>3, <2>2
<1>12. StoreInOrder'
  BY <1>1, <1>2, <1>4, <1>10, <1>11 DEF StoreInOrder
<1>13. ASSUME NEW i \in 1 .. n
       PROVE  /\ fq[i][1] < First /\ fq[i][1] \in Nat /\ fq[i][2] \in Nat /\ fq[i][2] < NumFlits(fq[i][1])
              /\ fq[i][1] = pkt => fq[i][2] < store[1] /\ ~ fq[i][3]
  <2>1. i \in DOMAIN fq /\ fq[i] \in Sent \X Number \X BOOLEAN /\ 1 \in DOMAIN store
    BY <1>1, <1>3, <1>6
  <2>2. fq[i][1] \in Sent /\ fq[i][2] \in Number
    BY <2>1
  <2>3. Sizes
    BY DEF PoolInv, NITypes
  <2> QED
    BY <2>1, <2>2, <2>3, FlitNumbers DEF PoolInv, FlitsInOrder, Sent
<1>14. FlitsInOrder'
  <2>1. ASSUME NEW i \in DOMAIN fq'
        PROVE  fq'[i][1] < First /\ fq'[i][2] < NumFlits(fq'[i][1])
    <3>1. CASE i \in 1 .. n
      BY <1>6, <1>13, <3>1
    <3>2. CASE i = n + 1
      BY <1>4, <1>6, <1>7, <1>8, <3>2
    <3> QED
      BY <1>6, <3>1, <3>2
  <2>2. ASSUME NEW i \in DOMAIN fq', NEW j \in DOMAIN fq', i < j
        PROVE  \/ fq'[i][1] < fq'[j][1]
               \/ fq'[i][1] = fq'[j][1] /\ fq'[i][2] < fq'[j][2] /\ ~ fq'[i][3]
    <3>1. i \in 1 .. n /\ fq'[i] = fq[i]
      BY <1>6, <2>2
    <3>2. CASE j \in 1 .. n
      <4>1. \/ fq[i][1] < fq[j][1]
            \/ fq[i][1] = fq[j][1] /\ fq[i][2] < fq[j][2] /\ ~ fq[i][3]
        BY <1>6, <2>2, <3>1, <3>2 DEF PoolInv, FlitsInOrder
      <4> QED
        BY <1>6, <3>1, <3>2, <4>1
    <3>3. CASE j = n + 1
      <4>1. fq'[j][1] = First - 1 /\ fq'[j][1] = pkt /\ fq'[j][2] = store[1]
        BY <1>4, <1>6, <1>7, <3>3
      <4>2. fq[i][1] < pkt \/ fq[i][1] = pkt
        BY <1>4, <1>8, <1>13, <3>1
      <4> QED
        BY <1>13, <3>1, <4>1, <4>2
    <3> QED
      BY <1>6, <3>2, <3>3
  <2>3. ASSUME NEW i \in DOMAIN fq', NEW m \in DOMAIN store', fq'[i][1] = pkt
        PROVE  fq'[i][2] < store'[m] /\ ~ fq'[i][3]
    <3>0. m + 1 \in DOMAIN store /\ store'[m] = store[m + 1] /\ Len(store) # 1
      BY <1>3
    <3>1. CASE i \in 1 .. n
      <4>1. i \in DOMAIN fq /\ fq'[i] = fq[i]
        BY <1>6, <3>1
      <4>2. fq[i][2] < store[m + 1] /\ ~ fq[i][3]
        BY <2>3, <3>0, <4>1 DEF PoolInv, FlitsInOrder
      <4> QED
        BY <3>0, <4>1, <4>2
    <3>2. CASE i = n + 1
      BY <1>6, <1>7, <1>11, <3>0, <3>2
    <3> QED
      BY <1>6, <3>1, <3>2, SMTT(30)
  <2> QED
    BY <1>1, <1>2, <2>1, <2>2, <2>3 DEF FlitsInOrder
<1>15. ASSUME NEW q, NEW k
       PROVE  Owed(q, k)' = Owed(q, k)
  <2>1. Owed(q, k) => Owed(q, k)'
    <3>1. ASSUME NEW m \in DOMAIN store, q = pkt, store[m] = k
          PROVE  Owed(q, k)'
      <4>1. CASE m = 1
        BY <1>6, <1>7, <3>1, <4>1 DEF Owed, OnItsWay
      <4>2. CASE m # 1
        <5>1. m - 1 \in DOMAIN store' /\ store'[m - 1] = k
          BY <1>3, <3>1, <4>2
        <5> QED
          BY <1>1, <3>1, <5>1 DEF Owed, Stored
      <4> QED
        BY <4>1, <4>2
    <3>2. ASSUME NEW i \in DOMAIN fq, fq[i][1] = q, fq[i][2] = k
          PROVE  Owed(q, k)'
      <4>1. i \in DOMAIN fq' /\ fq'[i] = fq[i]
        BY <1>6
      <4> QED
        BY <3>2, <4>1 DEF Owed, OnItsWay
    <3> QED
      BY <3>1, <3>2 DEF Owed, Stored, OnItsWay
  <2>2. Owed(q, k)' => Owed(q, k)
    <3>1. ASSUME NEW m \in DOMAIN store', q = pkt, store'[m] = k
          PROVE  Owed(q, k)
      <4>1. m + 1 \in DOMAIN store /\ store[m + 1] = k
        BY <1>3, <3>1
      <4> QED
        BY <3>1, <4>1 DEF Owed, Stored
    <3>2. ASSUME NEW i \in DOMAIN fq', fq'[i][1] = q, fq'[i][2] = k
          PROVE  Owed(q, k)
      <4>1. CASE i = n + 1
        <5>1. q = pkt /\ store[1] = k /\ 1 \in DOMAIN store
          BY <1>3, <1>6, <1>7, <3>2, <4>1, SMTT(30)
        <5> QED
          BY <5>1 DEF Owed, Stored
      <4>2. CASE i # n + 1
        <5>1. i \in DOMAIN fq /\ fq[i][1] = q /\ fq[i][2] = k
          BY <1>6, <3>2, <4>2
        <5> QED
          BY <5>1 DEF Owed, OnItsWay
      <4> QED
        BY <4>1, <4>2
    <3> QED
      BY <1>1, <3>1, <3>2 DEF Owed, Stored, OnItsWay
  <2>3. Owed(q, k) \in BOOLEAN /\ Owed(q, k)' \in BOOLEAN
    BY DEF Owed, Stored, OnItsWay
  <2> QED
    BY <2>1, <2>2, <2>3
<1>16. Reclaims'
  BY <1>1, <1>2, <1>15 DEF PoolInv, Reclaims
<1> QED
  BY <1>9, <1>12, <1>14, <1>16 DEF PoolInv

\* The first flit on its way is that of no later one and not still to be sent:
\* when it goes back to its pool nobody has it any more.
LEMMA AssembleKeepsPools == ASSUME PoolInv, AssembleFlit PROVE PoolInv'
<1>1. /\ fq # <<>> /\ fq \in Seq(Sent \X Number \X BOOLEAN) /\ fq' = Tail(fq)
      /\ UNCHANGED <<shape, pktQ, next, long, pc, pkt, store>> /\ Sizes
      /\ reclaimed \in [Sent -> [Number -> Nat]] /\ done \in SUBSET Sent
  BY DEF PoolInv, NITypes, AssembleFlit
<1>2. /\ Head(fq) = fq[1] /\ 1 \in DOMAIN fq /\ Len(fq) \in Nat /\ DOMAIN fq = 1 .. Len(fq)
      /\ fq' \in Seq(Sent \X Number \X BOOLEAN) /\ DOMAIN fq' = 1 .. Len(fq) - 1
      /\ \A i \in DOMAIN fq' : i + 1 \in DOMAIN fq /\ fq'[i] = fq[i + 1]
  BY <1>1, SMTT(30)
<1>3. PICK p \in Sent, k \in Number, tail \in BOOLEAN : fq[1] = <<p, k, tail>>
  BY <1>1, <1>2
<1>4. /\ reclaimed' = [reclaimed EXCEPT ![p][k] = @ + 1] /\ done' = IF tail THEN done \cup {p} ELSE done
      /\ fq[1][1] = p /\ fq[1][2] = k /\ fq[1][3] = tail
  <2>1. fq[1][1] = p /\ fq[1][2] = k /\ fq[1][3] = tail
    BY <1>3
  <2>2. Head(fq)[1] = p /\ Head(fq)[2] = k /\ Head(fq)[3] = tail
    BY <1>2, <2>1
  <2>3. /\ reclaimed' = [reclaimed EXCEPT ![Head(fq)[1]][Head(fq)[2]] = @ + 1]
        /\ done' = IF Head(fq)[3] THEN done \cup {Head(fq)[1]} ELSE done
    BY DEF AssembleFlit
  <2> QED
    BY <2>1, <2>2, <2>3, Zenon
<1>5. p < First /\ k < NumFlits(p)
  BY <1>2, <1>4 DEF PoolInv, FlitsInOrder
<1>6. /\ Number' = Number /\ (\A q : NumFlits(q)' = NumFlits(q)) /\ Sizes' = Sizes /\ Sent' = Sent
      /\ First' = First
  BY <1>1, SameShape DEF Sent, First
<1>7. \A q : NumFlits(q) \in Nat
  BY <1>1, FlitNumbers
<1>8. \A i \in DOMAIN fq : fq[i][1] \in Nat /\ fq[i][2] \in Nat
  <2>1. Number = 0 .. LongFlits - 1
    BY <1>1, FlitNumbers
  <2>2. LongFlits \in Nat
    BY <1>1, FlitNumbers
  <2>3. \A i \in DOMAIN fq : fq[i] \in Sent \X Number \X BOOLEAN
    BY <1>1
  <2>4. \A i \in DOMAIN fq : fq[i][1] \in Sent /\ fq[i][2] \in Number
    BY <2>3
  <2> QED
    BY <2>1, <2>2, <2>4 DEF Sent
<1>9. ASSUME NEW i \in DOMAIN fq'
      PROVE  /\ ~ (fq'[i][1] = p /\ fq'[i][2] = k)
             /\ tail => fq'[i][1] # p
  <2>1. i + 1 \in DOMAIN fq /\ 1 < i + 1 /\ fq'[i] = fq[i + 1]
    BY <1>2
  <2>2. \/ p < fq[i + 1][1]
        \/ p = fq[i + 1][1] /\ k < fq[i + 1][2] /\ ~ tail
    BY <1>2, <1>4, <2>1 DEF PoolInv, FlitsInOrder
  <2> QED
    BY <1>2, <1>4, <1>8, <2>1, <2>2
<1>10. ASSUME NEW m \in DOMAIN store, p = pkt
       PROVE  store[m] # k /\ ~ tail
  <2>1. k < store[m] /\ ~ tail
    BY <1>2, <1>4, <1>10 DEF PoolInv, FlitsInOrder
  <2> QED
    BY <1>2, <1>4, <1>8, <2>1
<1>11. ~ Owed(p, k)' /\ Owed(p, k)
  <2>1. ~ OnItsWay(p, k)'
    BY <1>9 DEF OnItsWay
  <2>2. ~ Stored(p, k)'
    BY <1>1, <1>10 DEF Stored
  <2>3. OnItsWay(p, k)
    BY <1>2, <1>4 DEF OnItsWay
  <2> QED
    BY <2>1, <2>2, <2>3 DEF Owed
<1>12. tail => \A j : ~ Owed(p, j)'
  <2>1. tail => \A j : ~ OnItsWay(p, j)'
    BY <1>9 DEF OnItsWay
  <2>2. tail => \A j : ~ Stored(p, j)'
    BY <1>1, <1>10 DEF Stored
  <2> QED
    BY <2>1, <2>2 DEF Owed
<1>13. ASSUME NEW q, NEW j
       PROVE  /\ Owed(q, j)' => Owed(q, j)
              /\ ~ (q = p /\ j = k) /\ Owed(q, j) => Owed(q, j)'
  <2>1. Stored(q, j)' <=> Stored(q, j)
    BY <1>1 DEF Stored
  <2>2. OnItsWay(q, j)' => OnItsWay(q, j)
    BY <1>2 DEF OnItsWay
  <2>3. ASSUME ~ (q = p /\ j = k), NEW i \in DOMAIN fq, fq[i][1] = q, fq[i][2] = j
        PROVE  OnItsWay(q, j)'
    <3>1. i # 1
      BY <1>4, <2>3
    <3>2. i - 1 \in DOMAIN fq' /\ fq'[i - 1] = fq[i]
      <4>1. i - 1 \in DOMAIN fq' /\ (i - 1) + 1 = i
        BY <1>2, <3>1
      <4> QED
        BY <1>2, <4>1
    <3> QED
      BY <2>3, <3>2 DEF OnItsWay
  <2>4. ~ (q = p /\ j = k) /\ OnItsWay(q, j) => OnItsWay(q, j)'
    BY <2>3 DEF OnItsWay
  <2> QED
    BY <2>1, <2>2, <2>4 DEF Owed
<1>14. reclaimed' \in [Sent -> [Number -> Nat]] /\ done' \in SUBSET Sent
  BY <1>1, <1>4, SMTT(30)
<1>15. NITypes'
  <2>1. \A i \in 1 .. Len(pktQ') : pktQ'[i] = First' + i - 1
    BY <1>1, <1>6 DEF PoolInv, NITypes
  <2> QED
    BY <1>1, <1>2, <1>6, <1>14, <2>1 DEF PoolInv, NITypes
<1>16. StoreInOrder'
  BY <1>1, <1>6 DEF PoolInv, StoreInOrder
<1>17. FlitsInOrder'
  <2>1. ASSUME NEW i \in DOMAIN fq', NEW j \in DOMAIN fq', i < j
        PROVE  \/ fq'[i][1] < fq'[j][1]
               \/ fq'[i][1] = fq'[j][1] /\ fq'[i][2] < fq'[j][2] /\ ~ fq'[i][3]
    <3>1. i + 1 \in DOMAIN fq /\ j + 1 \in DOMAIN fq /\ i + 1 < j + 1 /\ fq'[i] = fq[i + 1] /\ fq'[j] = fq[j + 1]
      BY <1>2, <2>1
    <3> QED
      BY <3>1 DEF PoolInv, FlitsInOrder
  <2>2. \A i \in DOMAIN fq' : fq'[i][1] < First /\ fq'[i][2] < NumFlits(fq'[i][1])
    BY <1>2 DEF PoolInv, FlitsInOrder
  <2>3. \A i \in DOMAIN fq', m \in DOMAIN store :
          fq'[i][1] = pkt => fq'[i][2] < store[m] /\ ~ fq'[i][3]
    BY <1>2 DEF PoolInv, FlitsInOrder
  <2> QED
    BY <1>1, <1>6, <2>1, <2>2, <2>3 DEF FlitsInOrder
<1>18. ASSUME NEW q \in Sent, NEW j \in Number
       PROVE  reclaimed'[q][j] = IF q < First /\ j < NumFlits(q) /\ ~ Owed(q, j)' THEN 1 ELSE 0
  <2>1. reclaimed[q][j] = IF q < First /\ j < NumFlits(q) /\ ~ Owed(q, j) THEN 1 ELSE 0
    BY DEF PoolInv, Reclaims
  <2>2. CASE q = p /\ j = k
    <3>1. reclaimed[q][j] = 0
      BY <1>11, <2>1, <2>2
    <3>2. reclaimed'[q][j] = 1
      BY <1>1, <1>4, <2>2, <3>1
    <3> QED
      BY <1>5, <1>11, <2>2, <3>2
  <2>3. CASE ~ (q = p /\ j = k)
    <3>1. reclaimed'[q][j] = reclaimed[q][j]
      BY <1>1, <1>4, <2>3
    <3>2. Owed(q, j)' <=> Owed(q, j)
      BY <1>13, <2>3
    <3> QED
      BY <2>1, <3>1, <3>2
  <2> QED
    BY <2>2, <2>3
<1>19. \A q \in done' : q < First /\ \A j \in Number : ~ Owed(q, j)'
  <2>1. ASSUME NEW q \in done
        PROVE  q < First /\ \A j \in Number : ~ Owed(q, j)'
    BY <1>13 DEF PoolInv, Reclaims
  <2>2. tail => p < First /\ \A j \in Number : ~ Owed(p, j)'
    BY <1>5, <1>12
  <2> QED
    BY <1>4, <2>1, <2>2
<1>20. Reclaims'
  BY <1>6, <1>18, <1>19 DEF Reclaims
<1> QED
  BY <1>15, <1>16, <1>17, <1>20 DEF PoolInv

LEMMA PoolsKept == ASSUME PoolInv, NumPackets \in Nat, [NINext]_niVars PROVE PoolInv'
<1>1. CASE Finish \/ Tick \/ Idle \/ UNCHANGED niVars
  <2>1. /\ UNCHANGED <<shape, long, pktQ, next, pkt, store, fq, reclaimed, done>>
        /\ store # <<>> => pc' # "idle"
    BY <1>1 DEF Finish, Tick, Idle, niVars, PoolInv, StoreInOrder
  <2>2. First' = First
    BY <2>1 DEF First
  <2>3. /\ next' \in 1 .. NumPackets + 1 /\ pktQ' \in Seq(Nat) /\ Len(pktQ') < next'
        /\ \A i \in 1 .. Len(pktQ') : pktQ'[i] = First + i - 1
    BY <2>1 DEF PoolInv, NITypes
  <2> QED
    BY <2>1, <2>2, <2>3, PoolsStay
<1> QED
  BY <1>1, GenerateKeepsPools, SegmentKeepsPools, InjectKeepsPools, AssembleKeepsPools DEF NINext

LEMMA PoolsInductive == ShapesOK /\ NISpec => []PoolInv
<1>1. ShapesOK /\ NIInit => PoolInv
  BY PoolsStart
<1>2. ShapesOK /\ PoolInv /\ [NINext]_niVars => PoolInv'
  BY PoolsKept DEF ShapesOK
<1>3. ShapesOK => ShapesOK'
  BY DEF ShapesOK
<1> QED
  BY <1>1, <1>2, <1>3, PTL DEF NISpec

\* Whichever blocks the CAM finds, for any sizes of flits, blocks and payloads:
\* every flit that was built for a packet goes back to its pool once, be it at
\* the NI that compresses the packet (NIInputCompr::compressDataByCAM) or at the
\* one that takes it (NIOutputDecompr::assembleFlit).
THEOREM FlitsGoBackOnce == ShapesOK /\ NISpec => []FlitsReclaimedOnce
<1>1. PoolInv => FlitsReclaimedOnce
  <2> SUFFICES ASSUME PoolInv, NEW p \in Sent, NEW k \in Number
               PROVE  /\ reclaimed[p][k] <= 1
                      /\ p \in done => (reclaimed[p][k] = 1 <=> k < NumFlits(p))
    BY DEF FlitsReclaimedOnce
  <2>1. reclaimed[p][k] = IF p < First /\ k < NumFlits(p) /\ ~ Owed(p, k) THEN 1 ELSE 0
    BY DEF PoolInv, Reclaims
  <2>2. p \in done => p < First /\ ~ Owed(p, k)
    BY DEF PoolInv, Reclaims
  <2> QED
    BY <2>1, <2>2
<1> QED
  BY <1>1, PoolsInductive, PTL

-----------------------------------------------------------------------------
(* Words and the encoder's latency, for flits of one word. *)

OneWord == \A s \in Shapes : s.flit_sz_byte = 8

WordInv ==
  /\ shape \in Shapes
  /\ pc \in {"idle", "encode", "inject"}
  /\ store \in Seq(Nat)
  /\ pc # "idle" /\ compress_flag => hits \in SUBSET (1 .. NumBlks)

\* As long as the tail is not alone, its turn for what is left of the latency
\* is still to come.
WaitInv ==
  pc # "idle" /\ compress_flag /\ Streamline =>
    /\ total_hold_cycle \in Nat /\ encode_lat \in Nat /\ total_hold_cycle <= encode_lat
    /\ Len(store) <= 1 => total_hold_cycle = encode_lat

LEMMA WordsStart == ASSUME NIInit PROVE WordInv /\ WaitInv
  BY DEF NIInit, WordInv, WaitInv

LEMMA WordsKept ==
  ASSUME ShapesOK, WordInv, [NINext]_niVars
  PROVE  WordInv'
<1>1. shape' = shape /\ NumBlks' = NumBlks
  BY DEF niVars, NINext, Generate, SegmentPacket, Inject, Finish, Tick, AssembleFlit, Idle, NumBlks, PayloadSz, BlkSz
<1>2. Sizes
  BY SizesHold DEF WordInv
<1>3. CASE SegmentPacket
  <2> DEFINE p == Head(pktQ)
  <2>1. PICK flag \in ComprFlags(p, Len(pktQ) > 1) :
        /\ compress_flag' = flag
        /\ hits' \in IF flag THEN SUBSET (1 .. NumBlks) ELSE {{}}
        /\ store' = IF flag THEN Rebuilt(LongFlits, hits') ELSE [f \in 1 .. NumFlits(p) |-> f - 1]
    BY <1>3 DEF SegmentPacket
  <2>2. flag \in BOOLEAN /\ (flag => NumFlits(p) = LongFlits)
    BY DEF ComprFlags, NumFlits
  <2>3. pc' = "encode"
    BY <1>3 DEF SegmentPacket
  <2>4. Number \subseteq Nat
    BY <1>2, FlitNumbers
  <2> HIDE DEF p
  <2>5. store' \in Seq(Number)
    <3>1. CASE flag
      BY <1>2, <2>1, <2>2, <3>1, RebuiltKept DEF KeptOf
    <3>2. CASE ~ flag
      <4>1. store' = [f \in 1 .. NumFlits(p) |-> f - 1]
        BY <2>1, <3>2
      <4> QED
        BY <1>2, <4>1, WholeKept DEF KeptOf
    <3> QED
      BY <2>2, <3>1, <3>2
  <2>6. store' \in Seq(Nat)
    <3>1. Len(store') \in Nat /\ store' \in [1 .. Len(store') -> Number]
      BY <2>5
    <3>2. store' \in [1 .. Len(store') -> Nat]
      BY <2>4, <3>1
    <3> QED
      BY <3>1, <3>2
  <2>7. compress_flag' => hits' \in SUBSET (1 .. NumBlks)
    BY <2>1, <2>2
  <2> QED
    BY <1>1, <2>3, <2>6, <2>7 DEF WordInv
<1>4. CASE Inject
  <2>1. store' = Tail(store) /\ store # <<>> /\ pc # "idle" /\ pc' = "inject" /\ UNCHANGED <<hits, compress_flag>>
    BY <1>4 DEF Inject
  <2> QED
    BY <1>1, <2>1 DEF WordInv
<1>5. CASE Generate \/ Finish \/ Tick \/ AssembleFlit \/ Idle \/ UNCHANGED niVars
  <2>1. UNCHANGED <<store, hits, compress_flag>> /\ (pc' = pc \/ pc' = "idle")
    BY <1>5 DEF niVars, Generate, Finish, Tick, AssembleFlit, Idle
  <2> QED
    BY <1>1, <2>1 DEF WordInv
<1> QED
  BY <1>3, <1>4, <1>5, SMTT(30) DEF NINext

LEMMA OneWordSizes == ASSUME ShapesOK, OneWord, shape \in Shapes PROVE Sizes /\ FlitSz = 8
  BY SizesHold DEF OneWord, FlitSz

LEMMA WaitKept ==
  ASSUME ShapesOK, OneWord, WordInv, WaitInv, [NINext]_niVars
  PROVE  WaitInv'
<1>1. shape' = shape /\ Streamline' = Streamline
  BY DEF niVars, NINext, Generate, SegmentPacket, Inject, Finish, Tick, AssembleFlit, Idle, Streamline
<1>2. Sizes /\ FlitSz = 8
  BY OneWordSizes DEF WordInv
<1>3. CASE SegmentPacket
  <2> DEFINE p == Head(pktQ)
  <2>1. PICK flag \in ComprFlags(p, Len(pktQ) > 1) :
        /\ compress_flag' = flag
        /\ encode_lat' = IF flag THEN EncodeLat ELSE 0
        /\ hits' \in IF flag THEN SUBSET (1 .. NumBlks) ELSE {{}}
        /\ store' = IF flag THEN Rebuilt(LongFlits, hits') ELSE [f \in 1 .. NumFlits(p) |-> f - 1]
    BY <1>3 DEF SegmentPacket
  <2>2. flag \in BOOLEAN /\ (flag => NumFlits(p) = LongFlits)
    BY DEF ComprFlags, NumFlits
  <2>3. total_hold_cycle' = 0
    BY <1>3 DEF SegmentPacket
  <2> HIDE DEF p
  <2>4. CASE flag /\ Streamline
    <3>1. NumBlks \div Interleaved \in Nat
      <4>1. NumBlks \in Nat /\ Interleaved \in Nat /\ Interleaved > 0
        BY <1>2 DEF Sizes
      <4> QED
        BY <4>1, Divided
    <3>2. encode_lat' \in Nat
      <4>1. encode_lat' = NumBlks \div Interleaved + EnLatency - 1
        BY <2>1, <2>4 DEF EncodeLat
      <4>2. EnLatency \in Nat \ {0}
        BY <1>2 DEF Sizes
      <4> QED
        BY <3>1, <4>1, <4>2
    <3>3. hits' \in SUBSET (1 .. NumBlks) /\ store' = Rebuilt(LongFlits, hits')
      BY <2>1, <2>4
    <3>4. Len(store') = ConvFlits(hits') + 1 /\ ConvFlits(hits') \in 1 .. LongFlits - 1
      BY <1>2, <2>2, <2>4, <3>3, RebuiltKept, WordsLeft
    <3>5. LongFlits \in Nat
      BY <1>2, FlitNumbers
    <3>6. Len(store') > 1
      BY <3>4, <3>5
    <3>7. Len(store') \in Nat
      BY <3>4, <3>5
    <3> QED
      BY <2>3, <3>2, <3>6, <3>7 DEF WaitInv
  <2>5. CASE ~ (flag /\ Streamline)
    BY <1>1, <2>1, <2>5 DEF WaitInv
  <2> QED
    BY <2>2, <2>4, <2>5
<1>4. CASE Inject
  <2>1. /\ store # <<>> /\ store \in Seq(Nat) /\ pc # "idle" /\ store' = Tail(store)
        /\ total_hold_cycle' = total_hold_cycle + EncodeHold
        /\ UNCHANGED <<compress_flag, encode_lat>>
    BY <1>4 DEF Inject, WordInv
  <2>2. Len(store) \in Nat /\ Len(store) >= 1 /\ Len(store') = Len(store) - 1
    BY <2>1
  <2>3. CASE compress_flag /\ Streamline
    <3>1. /\ total_hold_cycle \in Nat /\ encode_lat \in Nat /\ total_hold_cycle <= encode_lat
          /\ Len(store) <= 1 => total_hold_cycle = encode_lat
      BY <2>1, <2>3 DEF WaitInv
    <3>2. EncodeHold = IF Len(store) = 1 THEN 0
                       ELSE IF Len(store) = 2 THEN encode_lat - total_hold_cycle
                       ELSE IF total_hold_cycle >= encode_lat THEN 0 ELSE 1
      BY <2>3 DEF EncodeHold
    <3>3. CASE Len(store) = 1
      BY <2>1, <2>2, <3>1, <3>2, <3>3 DEF WaitInv
    <3>4. CASE Len(store) = 2
      BY <2>1, <2>2, <3>1, <3>2, <3>4 DEF WaitInv
    <3>5. CASE Len(store) > 2
      BY <2>1, <2>2, <3>1, <3>2, <3>5 DEF WaitInv
    <3> QED
      BY <2>2, <3>3, <3>4, <3>5
  <2>4. CASE ~ (compress_flag /\ Streamline)
    BY <1>1, <2>1, <2>4 DEF WaitInv
  <2> QED
    BY <2>3, <2>4
<1>5. CASE Generate \/ Finish \/ Tick \/ AssembleFlit \/ Idle \/ UNCHANGED niVars
  <2>1. UNCHANGED <<store, compress_flag, encode_lat, total_hold_cycle>> /\ (pc' = pc \/ pc' = "idle")
    BY <1>5 DEF niVars, Generate, Finish, Tick, AssembleFlit, Idle
  <2> QED
    BY <1>1, <2>1 DEF WaitInv
<1> QED
  BY <1>3, <1>4, <1>5 DEF NINext

LEMMA EncodingInductive == ShapesOK /\ OneWord /\ NISpec => [](WordInv /\ WaitInv)
<1>1. NIInit => WordInv /\ WaitInv
  BY WordsStart
<1>2. ShapesOK /\ OneWord /\ (WordInv /\ WaitInv) /\ [NINext]_niVars => (WordInv /\ WaitInv)'
  BY WordsKept, WaitKept
<1>3. ShapesOK => ShapesOK'
  BY DEF ShapesOK
<1>4. OneWord => OneWord'
  BY DEF OneWord
<1> QED
  BY <1>1, <1>2, <1>3, <1>4, PTL DEF NISpec

\* With flits of 8 bytes, for blocks and payloads of any size: whatever the CAM
\* finds, the packet that is left has payload, has not grown and has exactly the
\* flits for its words (the assertions of NIInputCompr::compressDataByCAM).
THEOREM WordsAlwaysFit == ShapesOK /\ OneWord /\ NISpec => []WordsFit
<1>1. ShapesOK /\ OneWord /\ WordInv => WordsFit
  BY OneWordSizes, WordsLeft DEF WordInv, WordsFit
<1>2. ShapesOK => ShapesOK'
  BY DEF ShapesOK
<1>3. OneWord => OneWord'
  BY DEF OneWord
<1> QED
  BY <1>1, <1>2, <1>3, EncodingInductive, PTL

\* With flits of 8 bytes and any latency of the encoder: the holds between the
\* flits of a packet (NIInputCompr::segmentPacket) add up to it exactly when the
\* tail is sent, however few flits are left.
THEOREM TailsWait == ShapesOK /\ OneWord /\ NISpec => []TailWaits
<1>1. WaitInv => TailWaits
  BY DEF WaitInv, TailWaits
<1> QED
  BY <1>1, EncodingInductive, PTL
=============================================================================
