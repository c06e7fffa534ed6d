------------------------- MODULE NetworkTrafficProofs -------------------------
(***************************************************************************)
(* Theorems about what travels through the network, for any topology,      *)
(* buffers and VCs: credits never part from the slots of the buffers they  *)
(* stand for (SlotsKept), so that flits find room behind the links         *)
(* (RoomDownstream) and every link implements CreditLoop; wormhole         *)
(* switching keeps packets whole (PacketsWhole); and a packet is counted   *)
(* out of the network after it was counted in (PktInNetCount).             *)
(***************************************************************************)
EXTENDS NetworkProofs, NetworkLinks

-----------------------------------------------------------------------------
(* Sums: what SumFunction, a fold, adds up. *)

Pick(S) == CHOOSE x \in S : TRUE

\* The fold's own recursion, over the arguments that are left.
PartialSums(f) ==
  CHOOSE iter : iter = [S \in SUBSET DOMAIN f |->
    IF S = {} THEN 0 ELSE f[Pick(S)] + iter[S \ {Pick(S)}]]

LEMMA SumIs ==
  ASSUME NEW f
  PROVE  SumFunction(f) = PartialSums(f)[DOMAIN f]
BY DEF SumFunction, SumFunctionOnSet, FoldFunctionOnSet, MapThenFoldSet, PartialSums, Pick

LEMMA OneLess ==
  ASSUME NEW D, IsFiniteSet(D), NEW S \in SUBSET D
  PROVE  /\ IsFiniteSet(S) /\ Cardinality(S) \in Nat
         /\ S # {} => /\ Pick(S) \in S /\ S \ {Pick(S)} \in SUBSET D
                      /\ Cardinality(S \ {Pick(S)}) = Cardinality(S) - 1
                      /\ Cardinality(S \ {Pick(S)}) \in Nat
<1>1. IsFiniteSet(S) /\ Cardinality(S) \in Nat
  BY FS_Subset, FS_CardinalityType
<1>2. ASSUME S # {} PROVE Pick(S) \in S
  BY <1>2 DEF Pick
<1>3. \A x \in S : Cardinality(S \ {x}) = Cardinality(S) - 1
  BY <1>1, FS_RemoveElement
<1>4. Cardinality(S \ {Pick(S)}) \in Nat
  <2>1. IsFiniteSet(S \ {Pick(S)})
    BY <1>1, FS_Subset
  <2> QED
    BY <2>1, FS_CardinalityType
<1> QED
  BY <1>1, <1>2, <1>3, <1>4, Zenon

\* Induction over the subsets of a finite set, in the order of the fold.
LEMMA PickInduction ==
  ASSUME NEW D, IsFiniteSet(D), NEW Q \in SUBSET SUBSET D, {} \in Q,
         \A S \in SUBSET D : S # {} /\ S \ {Pick(S)} \in Q => S \in Q
  PROVE  \A S \in SUBSET D : S \in Q
<1> SUFFICES ASSUME NEW T \in SUBSET D, T \notin Q
             PROVE  FALSE
  OBVIOUS
<1> DEFINE bad == {n \in Nat : \E S \in SUBSET D : S \notin Q /\ Cardinality(S) = n}
<1>1. Cardinality(T) \in bad
  BY OneLess
<1>2. PICK m \in bad : \A n \in bad : m <= n
  BY <1>1, LeastExists, ZenonT(60)
<1>3. PICK S \in SUBSET D : S \notin Q /\ Cardinality(S) = m
  BY <1>2, ZenonT(60)
<1>4. S # {}
  BY <1>3, ZenonT(60)
<1>5. S \ {Pick(S)} \in SUBSET D /\ Cardinality(S \ {Pick(S)}) = m - 1 /\ m \in Nat
      /\ Cardinality(S \ {Pick(S)}) \in Nat
  BY <1>3, <1>4, OneLess
<1>6. S \ {Pick(S)} \notin Q
  BY <1>3, <1>4
<1>7. m - 1 \in bad
  BY <1>5, <1>6
<1> QED
  BY <1>2, <1>5, <1>7

\* What s[S], a sum of f over a subset S of D, is.
AddsUp(D, f, s) ==
  /\ s \in [SUBSET D -> Int]
  /\ s[{}] = 0
  /\ \A S \in SUBSET D : S # {} => s[S] = f[Pick(S)] + s[S \ {Pick(S)}]

\* The recursion has a solution, and only one.
LEMMA SumsDefined ==
  ASSUME NEW D, IsFiniteSet(D), NEW f \in [D -> Int]
  PROVE  AddsUp(D, f, PartialSums(f))
<1> DEFINE step(g, S) == IF S = {} THEN 0 ELSE f[Pick(S)] + g[S \ {Pick(S)}]
           Good(n) == \E g \in [SUBSET D -> Int] :
                        \A S \in SUBSET D : Cardinality(S) <= n => g[S] = step(g, S)
           bad == {n \in Nat : ~ Good(n)}
           Solves(g) == g = [S \in SUBSET DOMAIN f |-> step(g, S)]
<1>1. \A g \in [SUBSET D -> Int] : \A S \in SUBSET D : step(g, S) \in Int
  <2>1. \A S \in SUBSET D : S # {} => Pick(S) \in D /\ S \ {Pick(S)} \in SUBSET D
    BY DEF Pick
  <2> QED
    BY <2>1
<1>2. bad = {}
  <2> SUFFICES ASSUME bad # {}
               PROVE  FALSE
    OBVIOUS
  <2>1. PICK m \in bad : \A n \in bad : m <= n
    BY LeastExists
  <2>2. PICK g \in [SUBSET D -> Int] :
          \A S \in SUBSET D : Cardinality(S) <= m - 1 => g[S] = step(g, S)
    <3> DEFINE z == [S \in SUBSET D |-> 0]
    <3>1. z \in [SUBSET D -> Int]
      OBVIOUS
    <3> HIDE DEF z, step
    <3>2. CASE m = 0
      <4>1. \A S \in SUBSET D : Cardinality(S) \in Nat
        BY OneLess
      <4>2. \A S \in SUBSET D : ~ (Cardinality(S) <= m - 1)
        BY <3>2, <4>1
      <4>3. \A S \in SUBSET D : Cardinality(S) <= m - 1 => z[S] = step(z, S)
        BY <4>2
      <4> QED
        BY <3>1, <4>3, Zenon
    <3>3. CASE m # 0
      <4>1. m - 1 \in Nat /\ m - 1 \notin bad
        <5>1. m \in Nat /\ \A n \in bad : n \in Nat
          OBVIOUS
        <5> HIDE DEF bad
        <5> QED
          BY <2>1, <3>3, <5>1
      <4>2. Good(m - 1)
        BY <4>1
      <4> QED
        BY <4>2
    <3> QED
      BY <3>2, <3>3
  <2> DEFINE h == [S \in SUBSET D |-> step(g, S)]
  <2>3. h \in [SUBSET D -> Int]
    BY <1>1, <2>2
  <2>4. ASSUME NEW S \in SUBSET D, Cardinality(S) <= m
        PROVE  h[S] = step(h, S)
    <3>1. CASE S # {}
      <4>1. S \ {Pick(S)} \in SUBSET D /\ Cardinality(S \ {Pick(S)}) <= m - 1
        <5>1. S \ {Pick(S)} \in SUBSET D /\ Cardinality(S \ {Pick(S)}) = Cardinality(S) - 1
              /\ Cardinality(S) \in Nat /\ m \in Nat
          BY <3>1, OneLess
        <5> QED
          BY <2>4, <5>1
      <4>2. h[S \ {Pick(S)}] = g[S \ {Pick(S)}]
        BY <2>2, <4>1
      <4> QED
        BY <3>1, <4>2
    <3>2. CASE S = {}
      BY <3>2
    <3> QED
      BY <3>1, <3>2
  <2> HIDE DEF h, step
  <2>5. Good(m)
    BY <2>3, <2>4
  <2> QED
    BY <2>1, <2>5
<1>3. PICK g \in [SUBSET D -> Int] : Solves(g)
  <2>1. Cardinality(D) \in Nat /\ Cardinality(D) \notin bad
    BY <1>2, OneLess
  <2>2. PICK g \in [SUBSET D -> Int] :
          \A S \in SUBSET D : Cardinality(S) <= Cardinality(D) => g[S] = step(g, S)
    BY <2>1
  <2>3. \A S \in SUBSET D : Cardinality(S) <= Cardinality(D)
    BY FS_Subset
  <2> HIDE DEF step
  <2> QED
    BY <2>2, <2>3
<1>4. Solves(PartialSums(f))
  BY <1>3 DEF PartialSums
<1> DEFINE s == PartialSums(f)
           Q == {S \in SUBSET D : s[S] = g[S]}
<1> HIDE DEF s
<1>5. \A S \in SUBSET D : s[S] = step(s, S) /\ g[S] = step(g, S)
  <2> HIDE DEF step
  <2> QED
    BY <1>3, <1>4 DEF s
<1>6. \A S \in SUBSET D : S \in Q
  <2>1. {} \in Q
    BY <1>5
  <2>2. ASSUME NEW S \in SUBSET D, S # {}, S \ {Pick(S)} \in Q
        PROVE  S \in Q
    BY <1>5, <2>2
  <2> HIDE DEF Q
  <2>3. Q \in SUBSET SUBSET D
    BY DEF Q
  <2> QED
    BY <2>1, <2>2, <2>3, PickInduction
<1>7. s \in [SUBSET D -> Int]
  <2>1. s = [S \in SUBSET D |-> s[S]]
    <3> HIDE DEF step
    <3> QED
      BY <1>4 DEF s
  <2>2. \A S \in SUBSET D : s[S] \in Int
    BY <1>6
  <2> QED
    BY <2>1, <2>2
<1> QED
  BY <1>5, <1>7 DEF s, AddsUp

\* Sums of sums, of a constant, of a unit, and of what is not negative.
LEMMA SumPlus ==
  ASSUME NEW D, IsFiniteSet(D), NEW f \in [D -> Int], NEW g \in [D -> Int],
         NEW h \in [D -> Int], \A x \in D : h[x] = f[x] + g[x]
  PROVE  SumFunction(h) = SumFunction(f) + SumFunction(g)
<1> DEFINE F == PartialSums(f)
           G == PartialSums(g)
           H == PartialSums(h)
           Q == {S \in SUBSET D : H[S] = F[S] + G[S]}
<1>1. AddsUp(D, f, F)
  BY SumsDefined
<1>2. AddsUp(D, g, G)
  BY SumsDefined
<1>3. AddsUp(D, h, H)
  BY SumsDefined
<1>4. SumFunction(f) = F[D] /\ SumFunction(g) = G[D] /\ SumFunction(h) = H[D]
  BY SumIs
<1> USE DEF AddsUp
<1> HIDE DEF F, G, H
<1>5. \A S \in SUBSET D : S \in Q
  <2>1. {} \in Q
    BY <1>1, <1>2, <1>3
  <2>2. ASSUME NEW S \in SUBSET D, S # {}, S \ {Pick(S)} \in Q
        PROVE  S \in Q
    <3> DEFINE x == Pick(S)
               T == S \ {x}
    <3>1. x \in D /\ T \in SUBSET D
      BY <2>2 DEF Pick
    <3>2. F[S] = f[x] + F[T] /\ G[S] = g[x] + G[T] /\ H[S] = h[x] + H[T]
      BY <1>1, <1>2, <1>3, <2>2
    <3>3. H[T] = F[T] + G[T]
      BY <2>2
    <3>4. f[x] \in Int /\ g[x] \in Int /\ F[T] \in Int /\ G[T] \in Int /\ h[x] = f[x] + g[x]
      BY <1>1, <1>2, <3>1
    <3> HIDE DEF x, T
    <3>5. H[S] = F[S] + G[S]
      BY <3>2, <3>3, <3>4
    <3> QED
      BY <3>5
  <2> HIDE DEF Q
  <2>3. Q \in SUBSET SUBSET D
    BY DEF Q
  <2> QED
    BY <2>1, <2>2, <2>3, PickInduction
<1>6. D \in SUBSET D
  OBVIOUS
<1> QED
  BY <1>4, <1>5, <1>6

LEMMA SumConstant ==
  ASSUME NEW D, IsFiniteSet(D), NEW c \in Int, NEW f \in [D -> Int], \A x \in D : f[x] = c
  PROVE  SumFunction(f) = Cardinality(D) * c
<1> DEFINE F == PartialSums(f)
           Q == {S \in SUBSET D : F[S] = Cardinality(S) * c}
<1>1. AddsUp(D, f, F)
  BY SumsDefined
<1>2. SumFunction(f) = F[D]
  BY SumIs
<1> USE DEF AddsUp
<1> HIDE DEF F
<1>3. \A S \in SUBSET D : S \in Q
  <2>1. {} \in Q
    BY <1>1, FS_EmptySet
  <2>2. ASSUME NEW S \in SUBSET D, S # {}, S \ {Pick(S)} \in Q
        PROVE  S \in Q
    <3> DEFINE x == Pick(S)
               T == S \ {x}
               n == Cardinality(T)
    <3>1. x \in D /\ T \in SUBSET D /\ n = Cardinality(S) - 1 /\ n \in Nat
          /\ Cardinality(S) \in Nat
      BY <2>2, OneLess
    <3>2. F[S] = c + F[T]
      BY <1>1, <2>2, <3>1
    <3>3. F[T] = n * c
      BY <2>2
    <3> HIDE DEF n, T
    <3>4. F[S] = (n + 1) * c
      BY <3>1, <3>2, <3>3
    <3>5. F[S] = Cardinality(S) * c
      BY <3>1, <3>4
    <3> QED
      BY <3>5
  <2> HIDE DEF Q
  <2>3. Q \in SUBSET SUBSET D
    BY DEF Q
  <2> QED
    BY <2>1, <2>2, <2>3, PickInduction
<1>4. D \in SUBSET D
  OBVIOUS
<1> QED
  BY <1>2, <1>3, <1>4

LEMMA SumOfUnit ==
  ASSUME NEW D, IsFiniteSet(D), NEW y \in D, NEW f \in [D -> Int],
         \A x \in D : f[x] = IF x = y THEN 1 ELSE 0
  PROVE  SumFunction(f) = 1
<1> DEFINE F == PartialSums(f)
           Q == {S \in SUBSET D : F[S] = IF y \in S THEN 1 ELSE 0}
<1>1. AddsUp(D, f, F)
  BY SumsDefined
<1>2. SumFunction(f) = F[D]
  BY SumIs
<1> USE DEF AddsUp
<1> HIDE DEF F
<1>3. \A S \in SUBSET D : S \in Q
  <2>1. {} \in Q
    BY <1>1
  <2>2. ASSUME NEW S \in SUBSET D, S # {}, S \ {Pick(S)} \in Q
        PROVE  S \in Q
    <3> DEFINE x == Pick(S)
               T == S \ {x}
    <3>1. x \in D /\ T \in SUBSET D /\ x \in S
      BY <2>2 DEF Pick
    <3>2. F[S] = f[x] + F[T] /\ F[T] = (IF y \in T THEN 1 ELSE 0)
      BY <1>1, <2>2
    <3>3. F[S] = IF y \in S THEN 1 ELSE 0
      BY <3>1, <3>2
    <3> QED
      BY <3>3
  <2> HIDE DEF Q
  <2>3. Q \in SUBSET SUBSET D
    BY DEF Q
  <2> QED
    BY <2>1, <2>2, <2>3, PickInduction
<1>4. D \in SUBSET D
  OBVIOUS
<1> QED
  BY <1>2, <1>3, <1>4

LEMMA SumNotNegative ==
  ASSUME NEW D, IsFiniteSet(D), NEW f \in [D -> Nat]
  PROVE  SumFunction(f) \in Nat
<1> DEFINE F == PartialSums(f)
           Q == {S \in SUBSET D : F[S] \in Nat}
<1>1. AddsUp(D, f, F)
  <2>1. f \in [D -> Int]
    OBVIOUS
  <2> QED
    BY <2>1, SumsDefined
<1>2. SumFunction(f) = F[D]
  BY SumIs
<1> USE DEF AddsUp
<1> HIDE DEF F
<1>3. \A S \in SUBSET D : S \in Q
  <2>1. {} \in Q
    BY <1>1
  <2>2. ASSUME NEW S \in SUBSET D, S # {}, S \ {Pick(S)} \in Q
        PROVE  S \in Q
    <3>1. Pick(S) \in D
      BY <2>2 DEF Pick
    <3>2. F[S] = f[Pick(S)] + F[S \ {Pick(S)}] /\ f[Pick(S)] \in Nat /\ F[S \ {Pick(S)}] \in Nat
      BY <1>1, <2>2, <3>1
    <3>3. F[S] \in Nat
      BY <3>2
    <3> QED
      BY <3>3
  <2> HIDE DEF Q
  <2>3. Q \in SUBSET SUBSET D
    BY DEF Q
  <2> QED
    BY <2>1, <2>2, <2>3, PickInduction
<1>4. D \in SUBSET D
  OBVIOUS
<1> QED
  BY <1>2, <1>3, <1>4

\* What can be summed over D.  (A name, for the provers try every function.)
Summand(D, f) == f \in [D -> Int]

LEMMA SumOfTwo ==
  ASSUME NEW D, IsFiniteSet(D), NEW f, NEW g, Summand(D, f), Summand(D, g)
  PROVE  \E h : /\ Summand(D, h)
                /\ \A x \in D : h[x] = f[x] + g[x]
                /\ SumFunction(h) = SumFunction(f) + SumFunction(g)
<1> USE DEF Summand
<1> DEFINE h == [x \in D |-> f[x] + g[x]]
<1>1. h \in [D -> Int]
  OBVIOUS
<1>2. \A x \in D : h[x] = f[x] + g[x]
  OBVIOUS
<1> HIDE DEF h
<1>3. SumFunction(h) = SumFunction(f) + SumFunction(g)
  BY <1>1, <1>2, SumPlus
<1> QED
  BY <1>1, <1>2, <1>3

\* What adds up to n at each argument adds up to n for each of them.
LEMMA SumOfParts ==
  ASSUME NEW D, IsFiniteSet(D), NEW n \in Int, NEW f, NEW g, NEW h, NEW k,
         Summand(D, f), Summand(D, g), Summand(D, h), Summand(D, k)
  PROVE  (\A x \in D : f[x] + g[x] + h[x] + k[x] = n) =>
           SumFunction(f) + SumFunction(g) + SumFunction(h) + SumFunction(k) = Cardinality(D) * n
<1>1. PICK fg : /\ Summand(D, fg)
                /\ \A x \in D : fg[x] = f[x] + g[x]
                /\ SumFunction(fg) = SumFunction(f) + SumFunction(g)
  BY SumOfTwo
<1>2. PICK fgh : /\ Summand(D, fgh)
                 /\ \A x \in D : fgh[x] = fg[x] + h[x]
                 /\ SumFunction(fgh) = SumFunction(fg) + SumFunction(h)
  <2>1. Summand(D, fg)
    BY <1>1
  <2> QED
    BY <2>1, SumOfTwo, SMTT(30)
<1>3. PICK all : /\ Summand(D, all)
                 /\ \A x \in D : all[x] = fgh[x] + k[x]
                 /\ SumFunction(all) = SumFunction(fgh) + SumFunction(k)
  <2>1. Summand(D, fgh)
    BY <1>2
  <2> QED
    BY <2>1, SumOfTwo, SMTT(30)
<1>4. SUFFICES ASSUME \A x \in D : f[x] + g[x] + h[x] + k[x] = n
               PROVE  SumFunction(f) + SumFunction(g) + SumFunction(h) + SumFunction(k)
                        = Cardinality(D) * n
  OBVIOUS
<1>5. \A x \in D : all[x] = n
  BY <1>1, <1>2, <1>3, <1>4
<1>6. SumFunction(all) = Cardinality(D) * n
  <2>1. all \in [D -> Int]
    BY <1>3 DEF Summand
  <2> QED
    BY <1>5, <2>1, SumConstant
<1> QED
  BY <1>1, <1>2, <1>3, <1>6

\* g is f and one more at y.
PlusOne(D, f, g, y) == \A x \in D : g[x] = IF x = y THEN f[x] + 1 ELSE f[x]

LEMMA SumOneMore ==
  ASSUME NEW D, IsFiniteSet(D), NEW y \in D, NEW f \in [D -> Int], NEW g \in [D -> Int],
         PlusOne(D, f, g, y)
  PROVE  SumFunction(g) = SumFunction(f) + 1 /\ SumFunction(f) \in Int
<1> DEFINE u == [x \in D |-> IF x = y THEN 1 ELSE 0]
<1>1. u \in [D -> Int] /\ \A x \in D : u[x] = IF x = y THEN 1 ELSE 0
  OBVIOUS
<1> HIDE DEF u
<1>2. SumFunction(u) = 1
  BY <1>1, SumOfUnit
<1>3. \A x \in D : g[x] = f[x] + u[x]
  BY <1>1 DEF PlusOne
<1>4. SumFunction(g) = SumFunction(f) + SumFunction(u)
  BY <1>1, <1>3, SumPlus
<1>5. SumFunction(f) \in Int
  <2>1. AddsUp(D, f, PartialSums(f)) /\ SumFunction(f) = PartialSums(f)[D]
    BY SumsDefined, SumIs
  <2> QED
    BY <2>1 DEF AddsUp
<1> QED
  BY <1>2, <1>4, <1>5

-----------------------------------------------------------------------------
(* How often a list has an element of a set. *)

Tally(s, X) == Cardinality({k \in DOMAIN s : s[k] \in X})

LEMMA TallyConcat ==
  ASSUME NEW S, NEW s \in Seq(S), NEW t \in Seq(S), NEW X
  PROVE  /\ Tally(s \o t, X) = Tally(s, X) + Tally(t, X)
         /\ Tally(s, X) \in Nat /\ Tally(t, X) \in Nat
<1> DEFINE c == s \o t
           A == {k \in DOMAIN s : s[k] \in X}
           B == {k \in DOMAIN t : t[k] \in X}
           C == {k \in DOMAIN c : c[k] \in X}
           moved == [k \in B |-> k + Len(s)]
           M == {moved[k] : k \in B}
<1>1. /\ DOMAIN s = 1 .. Len(s) /\ DOMAIN t = 1 .. Len(t) /\ DOMAIN c = 1 .. Len(s) + Len(t)
      /\ Len(s) \in Nat /\ Len(t) \in Nat
      /\ \A k \in DOMAIN c : c[k] = IF k <= Len(s) THEN s[k] ELSE t[k - Len(s)]
  BY ConcatProperties
<1>2. IsFiniteSet(A) /\ IsFiniteSet(B)
  <2>1. IsFiniteSet(1 .. Len(s)) /\ IsFiniteSet(1 .. Len(t))
    BY <1>1, FS_Interval
  <2> QED
    BY <1>1, <2>1, FS_Subset
<1>3. IsFiniteSet(M) /\ Cardinality(M) = Cardinality(B)
  <2>1. DOMAIN moved = B /\ IsInjective(moved)
    BY <1>1 DEF IsInjective
  <2> HIDE DEF moved, B
  <2> QED
    BY <1>2, <2>1, ImageSize
<1>4. \A k : k \in M <=> \E n \in B : k = n + Len(s)
  OBVIOUS
<1> HIDE DEF M, moved, c
<1>5. C = A \cup M
  <2>1. ASSUME NEW k \in C PROVE k \in A \cup M
    <3>1. CASE k <= Len(s)
      BY <1>1, <2>1, <3>1
    <3>2. CASE ~ (k <= Len(s))
      <4>1. k - Len(s) \in B /\ k = (k - Len(s)) + Len(s)
        BY <1>1, <2>1, <3>2
      <4> QED
        BY <1>4, <4>1
    <3> QED
      BY <3>1, <3>2
  <2>2. ASSUME NEW k \in A PROVE k \in C
    BY <1>1, <2>2
  <2>3. ASSUME NEW n \in B PROVE n + Len(s) \in C
    BY <1>1, <2>3, SMTT(30)
  <2> QED
    BY <1>4, <2>1, <2>2, <2>3
<1>6. A \cap M = {}
  BY <1>1, <1>4
<1> HIDE DEF A, B, C
<1>7. Cardinality(C) = Cardinality(A) + Cardinality(M) - Cardinality(A \cap M)
  BY <1>2, <1>3, <1>5, FS_Union
<1>8. Cardinality(A) \in Nat /\ Cardinality(B) \in Nat /\ Cardinality(A \cap M) = 0
  BY <1>2, <1>6, FS_CardinalityType, FS_EmptySet
<1>9. Cardinality(C) = Cardinality(A) + Cardinality(B)
  BY <1>3, <1>7, <1>8
<1> QED
  BY <1>8, <1>9 DEF Tally, A, B, C, c

LEMMA TallyOne ==
  ASSUME NEW x, NEW X
  PROVE  /\ Tally(<<x>>, X) = (IF x \in X THEN 1 ELSE 0)
         /\ Tally(<<>>, X) = 0
<1> DEFINE A == {k \in DOMAIN <<x>> : <<x>>[k] \in X}
<1>1. DOMAIN <<x>> = {1} /\ <<x>>[1] = x
  OBVIOUS
<1>2. A = IF x \in X THEN {1} ELSE {}
  BY <1>1
<1>3. Cardinality({1}) = 1 /\ Cardinality({}) = 0
  BY FS_Singleton, FS_EmptySet
<1>4. {k \in DOMAIN <<>> : <<>>[k] \in X} = {}
  OBVIOUS
<1> QED
  BY <1>2, <1>3, <1>4 DEF Tally

LEMMA TallyAppend ==
  ASSUME NEW S, NEW s \in Seq(S), NEW x \in S, NEW X
  PROVE  Tally(Append(s, x), X) = Tally(s, X) + (IF x \in X THEN 1 ELSE 0)
<1>1. Append(s, x) = s \o <<x>> /\ <<x>> \in Seq(S)
  BY AppendIsConcat
<1>2. Tally(s \o <<x>>, X) = Tally(s, X) + Tally(<<x>>, X)
  BY <1>1, TallyConcat, ZenonT(60)
<1> QED
  BY <1>1, <1>2, TallyOne

LEMMA TallyTail ==
  ASSUME NEW S, NEW s \in Seq(S), s # <<>>, NEW X
  PROVE  Tally(s, X) = Tally(Tail(s), X) + (IF Head(s) \in X THEN 1 ELSE 0)
<1> DEFINE h == Head(s)
           t == Tail(s)
<1>1. h \in S /\ t \in Seq(S) /\ <<h>> \in Seq(S)
  BY HeadTailProperties
<1>2. <<h>> \o t = s
  <2>1. Len(<<h>> \o t) = Len(s) /\ \A k \in 1 .. Len(s) : (<<h>> \o t)[k] = s[k]
    BY <1>1
  <2>2. <<h>> \o t \in Seq(S)
    BY <1>1
  <2> QED
    BY <2>1, <2>2, SeqEqual, Zenon
<1> HIDE DEF h, t
<1>3. /\ Tally(<<h>> \o t, X) = Tally(<<h>>, X) + Tally(t, X)
      /\ Tally(<<h>>, X) \in Nat /\ Tally(t, X) \in Nat
  BY <1>1, TallyConcat, ZenonT(60)
<1>4. Tally(<<h>>, X) = IF h \in X THEN 1 ELSE 0
  BY TallyOne
<1>5. Tally(s, X) = Tally(<<h>>, X) + Tally(t, X)
  BY <1>2, <1>3, Zenon
<1>6. Tally(s, X) = Tally(t, X) + (IF h \in X THEN 1 ELSE 0)
  BY <1>3, <1>4, <1>5
<1> QED
  BY <1>6 DEF h, t

-----------------------------------------------------------------------------
(* The slots of a downstream buffer. *)

FlitsOf(v) == [f : Flit, vc : {v}, age : Nat]
CreditsFor(o, v) == [pc : {o}, vc : {v}, due : Nat]

\* Input port i of r holds the switch for output VC v of port o.
Crosses(r, i, o, v) ==
  /\ xbar[r][i] # INVALID_VC
  /\ inMod[r][i][xbar[r][i]].pc = o
  /\ inMod[r][i][xbar[r][i]].vc = v

\* Where a slot of VC v behind link l can be: its credit is with the upstream
\* router, or a flit has been granted it, is on the link or in the buffer, or
\* its credit is on its way back.
Free(l, v) == credit[l[1]][l[2]][v]
Reserve(l, v) == rsv[l[1]][l[2]][v]
Granted(l, v) == IF \E i \in PC : Crosses(l[1], i, l[2], v) THEN 1 ELSE 0
OnLink(l, v) == Tally(pipe[l], FlitsOf(v))
Behind(l, v) == Len(flitQ[Wire[l][1]][Wire[l][2]][v])
Returning(l, v) == Tally(deposits[l[1]], CreditsFor(l[2], v))

SlotsOf(l, v) ==
  Free(l, v) + Reserve(l, v) + Granted(l, v) + OnLink(l, v) + Behind(l, v) + Returning(l, v)

\* No credit is lost or made up.
SlotsKept == \A l \in Link, v \in VC : SlotsOf(l, v) = Depth

(* What a step may do to the slots behind a link: one of one VC goes on. *)

One(v, w) == IF v = w THEN 1 ELSE 0

CreditsStay(l) == \A v \in VC : Free(l, v)' = Free(l, v) /\ Reserve(l, v)' = Reserve(l, v)

FlitsStay(l) ==
  \A v \in VC : /\ Granted(l, v)' = Granted(l, v) /\ OnLink(l, v)' = OnLink(l, v)
                /\ Behind(l, v)' = Behind(l, v)

Unmoved(l) ==
  CreditsStay(l) /\ FlitsStay(l) /\ \A v \in VC : Returning(l, v)' = Returning(l, v)

\* Switch arbitration grants a flit its slot, for one of the shared credits if
\* there is one.
Grants(l, w) ==
  /\ hasCredit(l[1], l[2], w)
  /\ \/ /\ \A v \in VC : Free(l, v)' = Free(l, v) - One(v, w) /\ Reserve(l, v)' = Reserve(l, v)
        /\ BufferType = "DAMQ_P" => SharedCredits(l[1], credit[l[1]], l[2], w) > 0
     \/ /\ \A v \in VC : Reserve(l, v)' = Reserve(l, v) - One(v, w) /\ Free(l, v)' = Free(l, v)
        /\ BufferType # "SAMQ"
        /\ BufferType = "DAMQ_P" => ~ (SharedCredits(l[1], credit[l[1]], l[2], w) > 0)
  /\ \A v \in VC : /\ Granted(l, v)' = Granted(l, v) + One(v, w) /\ OnLink(l, v)' = OnLink(l, v)
                   /\ Behind(l, v)' = Behind(l, v) /\ Returning(l, v)' = Returning(l, v)

\* It enters the link,
Sends(l, w) ==
  /\ CreditsStay(l)
  /\ \A v \in VC : /\ Granted(l, v)' = Granted(l, v) - One(v, w)
                   /\ OnLink(l, v)' = OnLink(l, v) + One(v, w)
                   /\ Behind(l, v)' = Behind(l, v) /\ Returning(l, v)' = Returning(l, v)

\* leaves it for the buffer,
Delivers(l, w) ==
  /\ CreditsStay(l)
  /\ \A v \in VC : /\ OnLink(l, v)' = OnLink(l, v) - One(v, w)
                   /\ Behind(l, v)' = Behind(l, v) + One(v, w)
                   /\ Granted(l, v)' = Granted(l, v) /\ Returning(l, v)' = Returning(l, v)

\* and leaves that, too: a credit is sent.
Frees(l, w) ==
  /\ CreditsStay(l)
  /\ \A v \in VC : /\ Behind(l, v)' = Behind(l, v) - One(v, w)
                   /\ Returning(l, v)' = Returning(l, v) + One(v, w)
                   /\ Granted(l, v)' = Granted(l, v) /\ OnLink(l, v)' = OnLink(l, v)

\* The credit is counted, for the reserve of its VC if that is not full.
Counts(l, w) ==
  /\ FlitsStay(l)
  /\ \A v \in VC : Returning(l, v)' = Returning(l, v) - One(v, w)
  /\ IF BufferType # "SAMQ" /\ Reserve(l, w) < Rsv
     THEN \A v \in VC : Reserve(l, v)' = Reserve(l, v) + One(v, w) /\ Free(l, v)' = Free(l, v)
     ELSE \A v \in VC : Free(l, v)' = Free(l, v) + One(v, w) /\ Reserve(l, v)' = Reserve(l, v)

LEMMA LinkEnds ==
  ASSUME NEW l \in Link
  PROVE  /\ l = <<l[1], l[2]>> /\ Wire[l] = <<Wire[l][1], Wire[l][2]>>
         /\ l[1] \in Router /\ l[2] \in PC /\ l[2] \notin LocalPC
         /\ Wire[l][1] \in Router /\ Wire[l][1] # l[1]
         /\ Wire[l][2] \in PC /\ Wire[l][2] \notin LocalPC
         /\ \A k \in Link : Wire[k] = Wire[l] => k = l
BY NetworkAssumption

LEMMA SlotTypes ==
  ASSUME BuffersOK, CreditsOK, NEW l \in Link, NEW v \in VC
  PROVE  /\ Free(l, v) \in Int /\ Reserve(l, v) \in Int /\ Granted(l, v) \in 0 .. 1
         /\ OnLink(l, v) \in Nat /\ Behind(l, v) \in Nat /\ Returning(l, v) \in Nat
         /\ pipe[l] \in Seq(InFlight) /\ deposits[l[1]] \in Seq(Deposit)
         /\ flitQ[Wire[l][1]][Wire[l][2]][v] \in Seq(Flit)
<1>1. /\ l[1] \in Router /\ l[2] \in PC /\ Wire[l][1] \in Router /\ Wire[l][2] \in PC
  BY LinkEnds
<1>2. credit[l[1]][l[2]][v] \in Int /\ rsv[l[1]][l[2]][v] \in Int
  BY <1>1, SMTT(30) DEF CreditsOK
<1>3. pipe[l] \in Seq(InFlight) /\ deposits[l[1]] \in Seq(Deposit)
  BY <1>1 DEF CreditsOK, BuffersOK
<1>4. flitQ[Wire[l][1]][Wire[l][2]][v] \in Seq(Flit)
  BY <1>1 DEF BuffersOK
<1>5. OnLink(l, v) \in Nat /\ Returning(l, v) \in Nat
  <2>1. \A X : Tally(pipe[l], X) \in Nat /\ Tally(deposits[l[1]], X) \in Nat
    BY <1>3, TallyConcat
  <2> QED
    BY <2>1 DEF OnLink, Returning
<1>6. Behind(l, v) \in Nat
  <2>1. \A s \in Seq(Flit) : Len(s) \in Nat
    OBVIOUS
  <2> QED
    BY <1>4, <2>1 DEF Behind
<1>7. Granted(l, v) \in 0 .. 1
  BY DEF Granted
<1> QED
  BY <1>2, <1>3, <1>4, <1>5, <1>6, <1>7 DEF Free, Reserve

\* The slots stay where they are when nothing of them changes, and XbarReady says
\* that an input VC that holds the switch is in state S.
LEMMA NothingMoves ==
  ASSUME NEW l \in Link, UNCHANGED <<credit, rsv, deposits, xbar, pipe>>,
         flitQ'[Wire[l][1]][Wire[l][2]] = flitQ[Wire[l][1]][Wire[l][2]],
         \A i \in PC : xbar[l[1]][i] # INVALID_VC =>
           inMod'[l[1]][i][xbar[l[1]][i]] = inMod[l[1]][i][xbar[l[1]][i]]
  PROVE  Unmoved(l)
<1>1. \A i \in PC, v \in VC : Crosses(l[1], i, l[2], v)' <=> Crosses(l[1], i, l[2], v)
  BY ZenonT(60) DEF Crosses
<1>2. \A v \in VC : Granted(l, v)' = Granted(l, v)
  BY <1>1, SMTT(30) DEF Granted
<1>3. \A v \in VC : /\ Free(l, v)' = Free(l, v) /\ Reserve(l, v)' = Reserve(l, v)
                    /\ OnLink(l, v)' = OnLink(l, v)
                    /\ Behind(l, v)' = Behind(l, v) /\ Returning(l, v)' = Returning(l, v)
  BY DEF Free, Reserve, OnLink, Behind, Returning
<1> QED
  BY <1>2, <1>3 DEF Unmoved, CreditsStay, FlitsStay

\* Link traversal: the flit takes its slot along.
LEMMA FlitsLand ==
  ASSUME TypeOK, NEW r \in Router, StageLT(r), NEW l \in Link
  PROVE  Unmoved(l) \/ (l[1] = r /\ \E w \in VC : Delivers(l, w))
<1> DEFINE q == Wire[l][1]
           pc == Wire[l][2]
           h == Head(pipe[l])
<1>1. UNCHANGED <<credit, rsv, deposits, xbar, inMod>>
  BY SMTT(30) DEF StageLT, ctlVars, creditVars
<1>2. pipe[l] \in Seq(InFlight) /\ pipe'[l] = IF l \in Crossed(r) THEN Tail(pipe[l]) ELSE pipe[l]
  BY DEF StageLT, TypeOK, BuffersOK
<1>3. q \in Router /\ pc \in PC /\ Wire[l] = <<q, pc>>
  BY LinkEnds
<1>4. \A k \in Crossed(r) : Wire[k] = <<q, pc>> => k = l
  <2>1. \A k \in Crossed(r) : k \in Link
    BY DEF Crossed
  <2> QED
    BY <1>3, <2>1, LinkEnds
<1>5. ASSUME NEW v \in VC
      PROVE  /\ \A k \in Crossed(r) : Wire[k] = <<q, pc>> /\ Head(pipe[k]).vc = v =>
                  flitQ'[q][pc][v] = Append(flitQ[q][pc][v], Head(pipe[k]).f)
             /\ (\A k \in Crossed(r) : ~ (Wire[k] = <<q, pc>> /\ Head(pipe[k]).vc = v)) =>
                  flitQ'[q][pc][v] = flitQ[q][pc][v]
  BY <1>3, Landed, ZenonT(60)
<1>6. \A v \in VC : /\ Free(l, v)' = Free(l, v) /\ Reserve(l, v)' = Reserve(l, v)
                    /\ Granted(l, v)' = Granted(l, v) /\ Returning(l, v)' = Returning(l, v)
  BY <1>1 DEF Free, Reserve, Granted, Returning, Crosses
<1>7. CASE l \notin Crossed(r)
  <2>1. \A v \in VC : flitQ'[q][pc][v] = flitQ[q][pc][v]
    BY <1>4, <1>5, <1>7, Zenon
  <2>2. \A v \in VC : OnLink(l, v)' = OnLink(l, v) /\ Behind(l, v)' = Behind(l, v)
    BY <1>2, <1>7, <2>1 DEF OnLink, Behind
  <2> QED
    BY <1>6, <2>2 DEF Unmoved, CreditsStay, FlitsStay
<1>8. CASE l \in Crossed(r)
  <2>1. pipe[l] # <<>> /\ l[1] = r
    BY <1>8 DEF Crossed
  <2>2. h \in InFlight /\ h.vc \in VC /\ h.f \in Flit
    <3>1. h \in InFlight
      BY <1>2, <2>1
    <3> QED
      BY <3>1 DEF InFlight
  <2>3. ASSUME NEW v \in VC
        PROVE  /\ OnLink(l, v)' = OnLink(l, v) - One(v, h.vc)
               /\ Behind(l, v)' = Behind(l, v) + One(v, h.vc)
    <3>1. h \in FlitsOf(v) <=> v = h.vc
      BY <2>2 DEF InFlight, FlitsOf
    <3>2. Tally(pipe[l], FlitsOf(v)) = Tally(Tail(pipe[l]), FlitsOf(v)) + (IF h \in FlitsOf(v) THEN 1 ELSE 0)
      BY <1>2, <2>1, TallyTail
    <3>3. Tally(Tail(pipe[l]), FlitsOf(v)) \in Nat
      <4>1. Tail(pipe[l]) \in Seq(InFlight)
        BY <1>2, <2>1
      <4> QED
        BY <4>1, TallyConcat
    <3>4. OnLink(l, v)' = Tally(Tail(pipe[l]), FlitsOf(v))
      BY <1>2, <1>8 DEF OnLink
    <3>5. flitQ[q][pc][v] \in Seq(Flit) /\ Len(flitQ[q][pc][v]) \in Nat
      BY <1>3 DEF TypeOK, BuffersOK
    <3>6. CASE v = h.vc
      <4>1. flitQ'[q][pc][v] = Append(flitQ[q][pc][v], h.f)
        BY <1>3, <1>5, <1>8, <3>6, Zenon
      <4>2. Len(Append(flitQ[q][pc][v], h.f)) = Len(flitQ[q][pc][v]) + 1
        BY <2>2, <3>5, AppendProperties
      <4>3. Behind(l, v)' = Behind(l, v) + 1
        BY <4>1, <4>2, Zenon DEF Behind
      <4>4. OnLink(l, v) = OnLink(l, v)' + 1
        BY <3>1, <3>2, <3>4, <3>6 DEF OnLink
      <4> QED
        BY <3>3, <3>4, <3>6, <4>3, <4>4 DEF One
    <3>7. CASE v # h.vc
      <4>1. flitQ'[q][pc][v] = flitQ[q][pc][v]
        BY <1>4, <1>5, <3>7, Zenon
      <4>2. Behind(l, v)' = Behind(l, v) /\ Behind(l, v) \in Nat
        BY <3>5, <4>1 DEF Behind
      <4>3. OnLink(l, v) = OnLink(l, v)'
        BY <3>1, <3>2, <3>3, <3>4, <3>7 DEF OnLink
      <4> QED
        BY <3>3, <3>4, <3>7, <4>2, <4>3 DEF One
    <3> QED
      BY <3>6, <3>7
  <2>4. Delivers(l, h.vc)
    BY <1>6, <2>3 DEF Delivers, CreditsStay
  <2> QED
    BY <2>1, <2>2, <2>4
<1> QED
  BY <1>7, <1>8, SMTT(30)

\* Switch traversal sends one credit for each slot that a flit leaves.
LEMMA CreditsSent ==
  ASSUME TypeOK, ControlInv, NEW r \in Router, StageST(r), NEW l \in Link, NEW v \in VC
  PROVE  Returning(l, v)' = Returning(l, v)
           + (IF Wire[l][1] = r /\ xbar[r][Wire[l][2]] = v THEN 1 ELSE 0)
<1> DEFINE q == l[1]
           S == {i \in PC : xbar[r][i] # INVALID_VC /\ \E k \in Link : Wire[k] = <<r, i>> /\ k[1] = q}
           ins == InOrder(S)
           c == Cardinality(S)
           sent(i) == [pc |-> PrevLink(r, i)[2], vc |-> xbar[r][i], due |-> LinkLat[PrevLink(r, i)]]
           list == [n \in DOMAIN ins |-> sent(ins[n])]
           X == CreditsFor(l[2], v)
<1>1. deposits'[q] = deposits[q] \o list
  <2> DEFINE movers == {i \in PC : xbar[r][i] # INVALID_VC}
             creditsOf(p) ==
               LET in == InOrder({i \in movers : \E k \in Link : Wire[k] = <<r, i>> /\ k[1] = p})
               IN  [n \in DOMAIN in |->
                      LET k == PrevLink(r, in[n])
                      IN  [pc |-> k[2], vc |-> xbar[r][in[n]], due |-> LinkLat[k]]]
  <2>1. deposits' = [p \in Router |-> deposits[p] \o creditsOf(p)]
    BY Zenon DEF StageST
  <2>2. {i \in movers : \E k \in Link : Wire[k] = <<r, i>> /\ k[1] = q} = S
    OBVIOUS
  <2>3. creditsOf(q) = list
    BY <2>2, Zenon
  <2> HIDE DEF creditsOf, list
  <2> QED
    BY <2>1, <2>3, LinkEnds, Zenon
<1>2. S \in SUBSET Int /\ S \in SUBSET PC /\ IsFiniteSet(S)
  BY Finite, FS_Subset
<1>3. ASSUME NEW i \in S
      PROVE  /\ sent(i) \in Deposit
             /\ sent(i) \in X <=> Wire[l] = <<r, i>> /\ xbar[r][i] = v
  <2>1. PICK k \in Link : Wire[k] = <<r, i>> /\ k[1] = q
    OBVIOUS
  <2>2. PrevLink(r, i) = k
    BY <2>1, LinkEnds DEF PrevLink
  <2>3. xbar[r][i] \in VC
    BY Movers, Zenon
  <2>4. k[2] \in PC /\ LinkLat[k] \in Nat
    BY NetworkAssumption
  <2>5. sent(i) = [pc |-> k[2], vc |-> xbar[r][i], due |-> LinkLat[k]]
    BY <2>2
  <2>6. sent(i) \in Deposit
    BY <2>3, <2>4, <2>5 DEF Deposit
  <2>7. sent(i) \in X <=> k[2] = l[2] /\ xbar[r][i] = v
    BY <2>4, <2>5 DEF CreditsFor
  <2>8. k[2] = l[2] <=> k = l
    BY <2>1, LinkEnds
  <2>9. k = l <=> Wire[l] = <<r, i>>
    BY <2>1, LinkEnds
  <2> QED
    BY <2>6, <2>7, <2>8, <2>9
<1> HIDE DEF S, sent
<1>4. /\ c \in Nat /\ ins \in [1 .. c -> S] /\ DOMAIN ins = 1 .. c
      /\ \A i \in S : \E n \in 1 .. c : ins[n] = i
      /\ \A m, n \in 1 .. c : ins[m] = ins[n] => m = n
  BY <1>2, InOrderLists
<1> HIDE DEF ins, c, X
<1>5. DOMAIN list = 1 .. c /\ \A n \in 1 .. c : list[n] = sent(ins[n]) /\ ins[n] \in S
  BY <1>4
<1>6. list \in Seq(Deposit)
  BY <1>3, <1>4, <1>5
<1> HIDE DEF list
<1>7. Tally(list, X) = IF Wire[l][1] = r /\ xbar[r][Wire[l][2]] = v THEN 1 ELSE 0
  <2> DEFINE N == {n \in DOMAIN list : list[n] \in X}
  <2>1. \A n : n \in N <=> n \in 1 .. c /\ Wire[l] = <<r, ins[n]>> /\ xbar[r][ins[n]] = v
    BY <1>3, <1>5
  <2> HIDE DEF N
  <2>2. CASE Wire[l][1] = r /\ xbar[r][Wire[l][2]] = v
    <3>1. Wire[l][2] \in S
      BY <2>2, LinkEnds DEF S, VC, INVALID_VC
    <3>2. PICK m \in 1 .. c : ins[m] = Wire[l][2]
      BY <1>4, <3>1
    <3>3. m \in N
      BY <2>1, <2>2, <3>2, LinkEnds
    <3>4. \A n \in N : n = m
      BY <1>4, <2>1, <3>2
    <3>5. N = {m}
      BY <3>3, <3>4
    <3> QED
      BY <2>2, <3>5, FS_Singleton DEF Tally, N
  <2>3. CASE ~ (Wire[l][1] = r /\ xbar[r][Wire[l][2]] = v)
    <3>1. \A n \in N : FALSE
      BY <2>1, <2>3
    <3>2. N = {}
      BY <3>1
    <3> QED
      BY <2>3, <3>2, FS_EmptySet DEF Tally, N
  <2> QED
    BY <2>2, <2>3
<1>8. deposits[q] \in Seq(Deposit)
  BY LinkEnds DEF TypeOK, CreditsOK
<1>9. Tally(deposits[q] \o list, X) = Tally(deposits[q], X) + Tally(list, X)
  BY <1>6, <1>8, TallyConcat
<1> QED
  BY <1>1, <1>7, <1>9 DEF Returning, X

\* A flit leaves the slot that it had to the credit that is sent back.
LEMMA SlotFreed ==
  ASSUME TypeOK, ControlInv, NEW r \in Router, StageST(r), NEW l \in Link, Wire[l][1] = r
  PROVE  Unmoved(l) \/ \E w \in VC : Frees(l, w)
<1> DEFINE pc == Wire[l][2]
           w == xbar[r][pc]
<1>1. UNCHANGED <<credit, rsv>>
  BY Zenon DEF StageST
<1>2. pc \in PC /\ l[1] \in Router /\ l[1] # r /\ l \in Link
  BY LinkEnds
<1>3. /\ xbar'[l[1]] = xbar[l[1]] /\ inMod'[l[1]] = inMod[l[1]] /\ pipe'[l] = pipe[l]
  BY <1>2, Zenon DEF StageST, TypeOK, ControlOK
<1>4. \A v \in VC : /\ Free(l, v)' = Free(l, v) /\ Reserve(l, v)' = Reserve(l, v)
                    /\ Granted(l, v)' = Granted(l, v) /\ OnLink(l, v)' = OnLink(l, v)
  BY <1>1, <1>3 DEF Free, Reserve, Granted, OnLink, Crosses
<1>5. \A v \in VC : /\ Returning(l, v)' = Returning(l, v) + (IF w = v THEN 1 ELSE 0)
                    /\ Returning(l, v) \in Nat /\ Behind(l, v) \in Nat
  <2>1. \A v \in VC : Returning(l, v)' = Returning(l, v)
                        + (IF Wire[l][1] = r /\ xbar[r][Wire[l][2]] = v THEN 1 ELSE 0)
    BY CreditsSent
  <2> QED
    BY <2>1, SlotTypes DEF TypeOK
<1>6. \A v \in VC : /\ flitQ'[r][pc][v] = IF w = v THEN Tail(flitQ[r][pc][v]) ELSE flitQ[r][pc][v]
                    /\ flitQ[r][pc][v] \in Seq(Flit)
  <2>1. flitQ' = [flitQ EXCEPT ![r] = [i \in PC |-> [vc \in VC |->
                    IF xbar[r][i] = vc THEN Tail(@[i][vc]) ELSE @[i][vc]]]]
    BY Zenon DEF StageST
  <2>2. flitQ \in [Router -> [PC -> [VC -> Seq(Flit)]]]
    BY DEF TypeOK, BuffersOK
  <2> QED
    BY <1>2, <2>1, <2>2
<1>7. w \in VC \cup {INVALID_VC}
  BY <1>2 DEF TypeOK, ControlOK
<1>8. CASE w = INVALID_VC
  <2>1. \A v \in VC : w # v
    BY <1>8 DEF VC, INVALID_VC
  <2>2. \A v \in VC : Behind(l, v)' = Behind(l, v) /\ Returning(l, v)' = Returning(l, v)
    BY <1>5, <1>6, <2>1, SMTT(30) DEF Behind
  <2> QED
    BY <1>4, <2>2 DEF Unmoved, CreditsStay, FlitsStay
<1>9. CASE w # INVALID_VC
  <2>1. w \in VC /\ flitQ[r][pc][w] # <<>>
    BY <1>2, <1>9, Movers, Zenon
  <2>2. Len(Tail(flitQ[r][pc][w])) = Len(flitQ[r][pc][w]) - 1
    BY <1>6, <2>1, HeadTailProperties, ZenonT(60)
  <2> HIDE DEF w
  <2>3. ASSUME NEW v \in VC
        PROVE  Behind(l, v)' = Behind(l, v) - One(v, w)
    <3>1. Behind(l, v)' = Len(flitQ'[r][pc][v]) /\ Behind(l, v) = Len(flitQ[r][pc][v])
      BY DEF Behind
    <3>2. Behind(l, v) \in Nat
      BY <1>5
    <3>3. CASE v = w
      BY <1>6, <2>2, <3>1, <3>2, <3>3 DEF One
    <3>4. CASE v # w
      BY <1>6, <3>1, <3>2, <3>4, SMTT(30) DEF One
    <3> QED
      BY <3>3, <3>4
  <2>4. \A v \in VC : Returning(l, v)' = Returning(l, v) + One(v, w)
    BY <1>5 DEF One
  <2> QED
    BY <1>4, <2>1, <2>3, <2>4 DEF Frees, CreditsStay
<1> QED
  BY <1>7, <1>8, <1>9

\* A flit that was granted a slot goes on with it.
LEMMA FlitLeaves ==
  ASSUME TypeOK, ControlInv, NEW r \in Router, StageST(r), NEW l \in Link, Wire[l][1] # r
  PROVE  Unmoved(l) \/ (l[1] = r /\ \E w \in VC : Sends(l, w))
<1> DEFINE mod(i) == inMod[r][i][xbar[r][i]]
           entry(i) == [f |-> Head(flitQ[r][i][xbar[r][i]]), vc |-> mod(i).vc, age |-> 0]
<1>1. l[1] \in Router /\ l[2] \in PC /\ Wire[l][1] \in Router /\ pipe[l] \in Seq(InFlight)
  BY LinkEnds DEF TypeOK, BuffersOK
<1>2. \A v \in VC : /\ Free(l, v)' = Free(l, v) /\ Reserve(l, v)' = Reserve(l, v)
                    /\ Behind(l, v)' = Behind(l, v) /\ Returning(l, v)' = Returning(l, v)
  <2>1. UNCHANGED <<credit, rsv>> /\ flitQ'[Wire[l][1]] = flitQ[Wire[l][1]]
    BY <1>1, Zenon DEF StageST, TypeOK, BuffersOK
  <2>2. \A v \in VC : /\ Returning(l, v)' = Returning(l, v)
                           + (IF Wire[l][1] = r /\ xbar[r][Wire[l][2]] = v THEN 1 ELSE 0)
                      /\ Returning(l, v) \in Nat
    BY CreditsSent, SlotTypes DEF TypeOK
  <2> QED
    BY <2>1, <2>2 DEF Free, Reserve, Behind
<1>3. /\ \A i \in PC : l[1] = r /\ xbar[r][i] # INVALID_VC /\ mod(i).pc = l[2] =>
           pipe'[l] = Append(pipe[l], entry(i))
      /\ (\A i \in PC : ~ (l[1] = r /\ xbar[r][i] # INVALID_VC /\ mod(i).pc = l[2])) =>
           pipe'[l] = pipe[l]
  BY Left, ZenonT(60)
<1>4. l[1] = r => \A v \in VC : Granted(l, v)' = 0
  <2>1. xbar' = [xbar EXCEPT ![r] = [i \in PC |-> INVALID_VC]]
    BY Zenon DEF StageST
  <2>2. \A i \in PC : xbar'[r][i] = INVALID_VC
    BY <2>1 DEF TypeOK, ControlOK
  <2> QED
    BY <2>2 DEF Granted, Crosses
<1>5. CASE l[1] # r
  <2>1. xbar'[l[1]] = xbar[l[1]] /\ inMod'[l[1]] = inMod[l[1]] /\ pipe'[l] = pipe[l]
    BY <1>1, <1>3, <1>5, Zenon DEF StageST, TypeOK, ControlOK
  <2>2. \A v \in VC : Granted(l, v)' = Granted(l, v) /\ OnLink(l, v)' = OnLink(l, v)
    BY <2>1 DEF Granted, Crosses, OnLink
  <2> QED
    BY <1>2, <2>2 DEF Unmoved, CreditsStay, FlitsStay
<1>6. CASE l[1] = r /\ ~ \E i \in PC : xbar[r][i] # INVALID_VC /\ mod(i).pc = l[2]
  <2>1. pipe'[l] = pipe[l]
    BY <1>3, <1>6, ZenonT(60)
  <2>2. \A v \in VC : Granted(l, v) = 0
    BY <1>6, ZenonT(60) DEF Granted, Crosses
  <2>3. \A v \in VC : Granted(l, v)' = Granted(l, v) /\ OnLink(l, v)' = OnLink(l, v)
    BY <1>4, <1>6, <2>1, <2>2 DEF OnLink
  <2> QED
    BY <1>2, <2>3 DEF Unmoved, CreditsStay, FlitsStay
<1>7. CASE l[1] = r /\ \E i \in PC : xbar[r][i] # INVALID_VC /\ mod(i).pc = l[2]
  <2>1. PICK i \in PC : xbar[r][i] # INVALID_VC /\ mod(i).pc = l[2]
    BY <1>7
  <2>2. mod(i).vc \in VC /\ Head(flitQ[r][i][xbar[r][i]]) \in Flit
    BY <2>1, Movers, ZenonT(60)
  <2>3. entry(i) \in InFlight /\ \A v \in VC : entry(i) \in FlitsOf(v) <=> v = mod(i).vc
    BY <2>2 DEF InFlight, FlitsOf
  <2>4. \A v \in VC : Granted(l, v) = One(v, mod(i).vc)
    <3>1. \A j \in PC : xbar[r][j] # INVALID_VC /\ mod(j).pc = l[2] => j = i
      BY <2>1 DEF ControlInv, XbarReady
    <3>2. \A v \in VC : (\E j \in PC : Crosses(r, j, l[2], v)) <=> v = mod(i).vc
      BY <2>1, <3>1, Zenon DEF Crosses
    <3> QED
      BY <1>7, <3>2, SMTT(30) DEF Granted, One
  <2> HIDE DEF entry
  <2>5. \A v \in VC : OnLink(l, v)' = OnLink(l, v) + One(v, mod(i).vc)
    <3>1. \A v \in VC : Tally(Append(pipe[l], entry(i)), FlitsOf(v))
                          = Tally(pipe[l], FlitsOf(v)) + (IF entry(i) \in FlitsOf(v) THEN 1 ELSE 0)
      BY <1>1, <2>3, TallyAppend, SMTT(30)
    <3>2. pipe'[l] = Append(pipe[l], entry(i))
      BY <1>3, <1>7, <2>1, SMTT(30)
    <3> QED
      BY <2>3, <3>1, <3>2, Zenon DEF OnLink, One
  <2>6. \A v \in VC : Granted(l, v)' = Granted(l, v) - One(v, mod(i).vc)
    BY <1>4, <1>7, <2>4 DEF One
  <2> QED
    BY <1>2, <1>7, <2>2, <2>5, <2>6, ZenonT(60) DEF Sends, CreditsStay
<1> QED
  BY <1>5, <1>6, <1>7

\* A granted flit is paid for, out of the shared credits or its VC's reserve.
LEMMA CreditTaken ==
  ASSUME TypeOK, NEW r \in Router, NEW taken, decCredit(r, taken), NEW l \in Link
  PROVE  IF l[1] = r /\ l[2] \in DOMAIN taken
         THEN LET w == taken[l[2]]
              IN  \/ /\ \A v \in VC : /\ Free(l, v)' = Free(l, v) - One(v, w)
                                      /\ Reserve(l, v)' = Reserve(l, v)
                     /\ BufferType = "DAMQ_P" => SharedCredits(r, credit[r], l[2], w) > 0
                  \/ /\ \A v \in VC : /\ Reserve(l, v)' = Reserve(l, v) - One(v, w)
                                      /\ Free(l, v)' = Free(l, v)
                     /\ BufferType # "SAMQ"
                     /\ BufferType = "DAMQ_P" => ~ (SharedCredits(r, credit[r], l[2], w) > 0)
         ELSE CreditsStay(l)
<1> DEFINE o == l[2]
           earlier(pc) == IF BufferType # "DAMQ_R" THEN 0
                          ELSE Cardinality({p \in DOMAIN taken : p < pc})
           shared == {pc \in DOMAIN taken :
                        \/ BufferType = "SAMQ"
                        \/ SharedCredits(r, credit[r], pc, taken[pc]) > earlier(pc)}
           less(count, ports) ==
             [pc \in PC |-> [vc \in VC |->
                IF pc \in ports /\ vc = taken[pc] THEN count[pc][vc] - 1 ELSE count[pc][vc]]]
<1>1. /\ credit' = [credit EXCEPT ![r] = less(credit[r], shared)]
      /\ rsv' = [rsv EXCEPT ![r] = less(rsv[r], DOMAIN taken \ shared)]
  BY DEF decCredit
<1>2. credit \in [Router -> [PC -> [VC -> Int]]] /\ rsv \in [Router -> [PC -> [VC -> Int]]]
  BY DEF TypeOK, CreditsOK
<1>3. l[1] \in Router /\ o \in PC
  BY LinkEnds
<1>4. /\ shared \in SUBSET DOMAIN taken
      /\ BufferType = "SAMQ" => shared = DOMAIN taken
      /\ BufferType = "DAMQ_P" /\ o \in DOMAIN taken =>
           (o \in shared <=> SharedCredits(r, credit[r], o, taken[o]) > 0)
  OBVIOUS
<1> HIDE DEF shared, o
<1>5. \A v \in VC : Free(l, v) \in Int /\ Reserve(l, v) \in Int
  BY <1>2, <1>3 DEF Free, Reserve, o
<1>6. CASE l[1] # r
  <2>1. credit'[l[1]] = credit[l[1]] /\ rsv'[l[1]] = rsv[l[1]]
    BY <1>1, <1>2, <1>3, <1>6
  <2> QED
    BY <1>6, <2>1 DEF CreditsStay, Free, Reserve
<1>7. CASE l[1] = r
  <2>1. credit'[r] = less(credit[r], shared) /\ rsv'[r] = less(rsv[r], DOMAIN taken \ shared)
    BY <1>1, <1>2
  <2>2. ASSUME NEW v \in VC
        PROVE  /\ Free(l, v)' = IF o \in shared /\ v = taken[o] THEN Free(l, v) - 1 ELSE Free(l, v)
               /\ Reserve(l, v)' = IF o \in DOMAIN taken \ shared /\ v = taken[o]
                                   THEN Reserve(l, v) - 1 ELSE Reserve(l, v)
    BY <1>3, <1>7, <2>1 DEF Free, Reserve, o
  <2>3. CASE o \notin DOMAIN taken
    BY <1>4, <1>7, <2>2, <2>3 DEF CreditsStay, o
  <2>4. CASE o \in shared
    <3>1. \A v \in VC : Free(l, v)' = Free(l, v) - One(v, taken[o]) /\ Reserve(l, v)' = Reserve(l, v)
      BY <1>5, <2>2, <2>4 DEF One
    <3> QED
      BY <1>4, <1>7, <2>4, <3>1 DEF o
  <2>5. CASE o \in DOMAIN taken \ shared
    <3>1. \A v \in VC : Reserve(l, v)' = Reserve(l, v) - One(v, taken[o]) /\ Free(l, v)' = Free(l, v)
      BY <1>5, <2>2, <2>5 DEF One
    <3> QED
      BY <1>4, <1>7, <2>5, <3>1 DEF o
  <2> QED
    BY <2>3, <2>4, <2>5
<1> QED
  BY <1>6, <1>7

\* Switch arbitration turns credits into grants.
LEMMA SlotGranted ==
  ASSUME TypeOK, ControlInv, NEW r \in Router, NEW req, NEW cand,
         NEW G \in SUBSET PC, NEW sel \in [G -> VC],
         Matched(r, cand, G, sel), Charged(r, G, sel), SwitchSet(r, req, G, sel),
         UNCHANGED <<flitQ, pipe, deposits>>, NEW l \in Link
  PROVE  Unmoved(l) \/ (l[1] = r /\ \E w \in VC : Grants(l, w))
<1> DEFINE o == l[2]
           mod(i) == inMod[r][i][sel[i]]
<1>1. \A v \in VC : /\ OnLink(l, v)' = OnLink(l, v) /\ Behind(l, v)' = Behind(l, v)
                    /\ Returning(l, v)' = Returning(l, v)
  BY DEF OnLink, Behind, Returning
<1>2. l[1] \in Router /\ o \in PC /\ o \notin LocalPC
  BY LinkEnds
<1>3. PICK taken \in [{mod(i).pc : i \in G} \ LocalPC -> VC] :
        /\ \A i \in G : ~ isEjectChannel(mod(i).pc) => taken[mod(i).pc] = mod(i).vc
        /\ decCredit(r, taken)
  BY Zenon DEF Charged
<1>4. /\ \A i \in G : mod(i).pc = o => o \in DOMAIN taken /\ taken[o] = mod(i).vc
      /\ o \in DOMAIN taken => \E i \in G : mod(i).pc = o
  <2>1. \A i \in G : mod(i).pc = o => o \in DOMAIN taken /\ taken[o] = mod(i).vc
    BY <1>2, <1>3, ZenonT(60) DEF isEjectChannel
  <2>2. o \in DOMAIN taken => \E i \in G : mod(i).pc = o
    BY <1>3
  <2> QED
    BY <2>1, <2>2, Zenon
<1>5. xbar' = [xbar EXCEPT ![r] = [i \in PC |-> IF i \in G THEN sel[i] ELSE @[i]]]
  BY DEF SwitchSet
<1>6. inMod' = [inMod EXCEPT ![r] = [i \in PC |-> [vc \in VC |->
                  IF i \in G /\ vc = sel[i] /\ isHead(Head(flitQ[r][i][vc]))
                  THEN [@[i][vc] EXCEPT !.st = "S"] ELSE @[i][vc]]]]
  BY DEF SwitchSet
<1>7. /\ xbar \in [Router -> [PC -> VC \cup {INVALID_VC}]]
      /\ inMod \in [Router -> [PC -> [VC -> Mod]]]
  BY DEF TypeOK, ControlOK
<1>8. CASE l[1] # r
  <2>1. xbar'[l[1]] = xbar[l[1]] /\ inMod'[l[1]] = inMod[l[1]]
    BY <1>2, <1>5, <1>6, <1>7, <1>8
  <2>2. \A v \in VC : Granted(l, v)' = Granted(l, v)
    BY <2>1 DEF Granted, Crosses
  <2>3. CreditsStay(l)
    BY <1>3, <1>8, CreditTaken, ZenonT(60)
  <2> QED
    BY <1>1, <2>2, <2>3 DEF Unmoved, FlitsStay
<1>9. CASE l[1] = r
  <2>1. \A i \in PC : xbar'[r][i] = IF i \in G THEN sel[i] ELSE xbar[r][i]
    BY <1>5, <1>7
  <2>2. ASSUME NEW i \in PC, NEW vc \in VC
        PROVE  inMod'[r][i][vc].pc = inMod[r][i][vc].pc /\ inMod'[r][i][vc].vc = inMod[r][i][vc].vc
    <3>1. inMod[r][i][vc] \in Mod
      BY <1>7
    <3>2. inMod'[r][i][vc] = IF i \in G /\ vc = sel[i] /\ isHead(Head(flitQ[r][i][vc]))
                             THEN [inMod[r][i][vc] EXCEPT !.st = "S"] ELSE inMod[r][i][vc]
      BY <1>6, <1>7, Zenon
    <3> QED
      BY <3>1, <3>2 DEF Mod
  <2>3. \A i \in G : i \in PC /\ sel[i] \in VC /\ sel[i] # INVALID_VC
    BY DEF VC, INVALID_VC
  <2>4. \A i \in G : /\ xbar[r][i] = INVALID_VC /\ outFree[r][mod(i).pc]
                     /\ isEjectChannel(mod(i).pc) \/ hasCredit(r, mod(i).pc, mod(i).vc)
    BY ZenonT(60) DEF Matched, CanGo
  <2>5. ASSUME NEW i \in G, NEW v \in VC
        PROVE  Crosses(r, i, o, v)' <=> mod(i).pc = o /\ mod(i).vc = v
    BY <2>1, <2>2, <2>3, SMTT(30) DEF Crosses
  <2>6. ASSUME NEW i \in PC, i \notin G, NEW v \in VC
        PROVE  Crosses(r, i, o, v)' <=> Crosses(r, i, o, v)
    <3>1. xbar'[r][i] = xbar[r][i] /\ xbar[r][i] \in VC \cup {INVALID_VC}
      BY <1>7, <2>1, <2>6
    <3> QED
      BY <2>2, <3>1, ZenonT(60) DEF Crosses
  <2>7. \A i \in G, v \in VC : ~ Crosses(r, i, o, v)
    BY <2>4, ZenonT(60) DEF Crosses
  <2>8. CASE \E i \in G : mod(i).pc = o
    <3>1. PICK i \in G : mod(i).pc = o
      BY <2>8, Zenon
    <3>2. PICK w \in VC : o \in DOMAIN taken /\ taken[o] = w /\ mod(i).vc = w
      <4>1. o \in DOMAIN taken /\ taken[o] = mod(i).vc
        BY <1>4, <3>1, ZenonT(60)
      <4> QED
        BY <1>3, <4>1, Zenon
    <3>3. hasCredit(r, o, w)
      BY <1>2, <2>4, <3>1, <3>2, ZenonT(60) DEF isEjectChannel
    <3>4. \A j \in G : mod(j).pc = o => j = i
      BY <3>1 DEF Matched
    <3>5. \A v \in VC : Granted(l, v) = 0
      <4>1. outFree[r][o]
        BY <2>4, <3>1, ZenonT(60)
      <4>2. \A j \in PC, v \in VC : ~ Crosses(r, j, o, v)
        BY <1>2, <4>1 DEF ControlInv, XbarReady, Crosses
      <4> QED
        BY <1>9, <4>2 DEF Granted
    <3>6. \A v \in VC : Granted(l, v)' = One(v, w)
      <4>1. \A v \in VC : (\E j \in PC : Crosses(r, j, o, v)') <=> v = w
        <5>1. \A j \in PC \ G, v \in VC : ~ Crosses(r, j, o, v)'
          <6>1. outFree[r][o]
            BY <2>4, <3>1
          <6>2. \A j \in PC, v \in VC : ~ Crosses(r, j, o, v)
            BY <1>2, <6>1 DEF ControlInv, XbarReady, Crosses
          <6> QED
            BY <2>6, <6>2, SMTT(30)
        <5>2. \A j \in G, v \in VC : Crosses(r, j, o, v)' => v = w
          BY <2>5, <3>2, <3>4
        <5>3. Crosses(r, i, o, w)' /\ i \in PC
          BY <2>3, <2>5, <3>1, <3>2, ZenonT(60)
        <5> QED
          BY <5>1, <5>2, <5>3
      <4> QED
        BY <1>9, <4>1, Zenon DEF Granted, One
    <3> HIDE DEF mod
    <3>7. \A v \in VC : Granted(l, v)' = Granted(l, v) + One(v, w)
      BY <3>5, <3>6 DEF One
    <3>8. \/ /\ \A v \in VC : /\ Free(l, v)' = Free(l, v) - One(v, w)
                              /\ Reserve(l, v)' = Reserve(l, v)
             /\ BufferType = "DAMQ_P" => SharedCredits(r, credit[r], l[2], w) > 0
          \/ /\ \A v \in VC : /\ Reserve(l, v)' = Reserve(l, v) - One(v, w)
                              /\ Free(l, v)' = Free(l, v)
             /\ BufferType # "SAMQ"
             /\ BufferType = "DAMQ_P" => ~ (SharedCredits(r, credit[r], l[2], w) > 0)
      BY <1>3, <1>9, <3>2, CreditTaken
    <3>9. Grants(l, w)
      BY <1>1, <1>9, <3>3, <3>7, <3>8, SMTT(30) DEF Grants
    <3> QED
      BY <1>9, <3>2, <3>9
  <2>9. CASE \A i \in G : mod(i).pc # o
    <3>1. \A i \in PC, v \in VC : Crosses(r, i, o, v)' <=> Crosses(r, i, o, v)
      BY <2>5, <2>6, <2>7, <2>9
    <3>2. \A v \in VC : Granted(l, v)' = Granted(l, v)
      BY <1>9, <3>1 DEF Granted
    <3>3. CreditsStay(l)
      BY <1>3, <1>4, <2>9, CreditTaken, ZenonT(60)
    <3> QED
      BY <1>1, <3>2, <3>3 DEF Unmoved, FlitsStay
  <2> QED
    BY <2>8, <2>9
<1> QED
  BY <1>8, <1>9

\* Routing and VC allocation do not touch the input VCs that hold the switch.
LEMMA NothingRouted ==
  ASSUME TypeOK, ControlInv, NEW r \in Router, StageRC(r) \/ StageVA(r),
         NEW l \in Link
  PROVE  Unmoved(l)
<1>1. UNCHANGED <<credit, rsv, deposits, xbar, pipe, flitQ>>
  BY Zenon DEF StageRC, StageVA, bufVars, creditVars
<1>2. /\ inMod \in [Router -> [PC -> [VC -> Mod]]] /\ vaQ[r] \in Seq(PC \X VC)
      /\ xbar \in [Router -> [PC -> VC \cup {INVALID_VC}]]
  BY DEF TypeOK, ControlOK
<1>3. l[1] \in Router
  BY LinkEnds
<1>4. ASSUME NEW i \in PC, xbar[l[1]][i] # INVALID_VC
      PROVE  inMod'[l[1]][i][xbar[l[1]][i]] = inMod[l[1]][i][xbar[l[1]][i]]
  <2> DEFINE q == l[1]
             vc == xbar[q][i]
  <2>1. vc \in VC /\ inMod[q][i][vc].st = "S"
    BY <1>2, <1>3, <1>4 DEF ControlInv, XbarReady
  <2>2. CASE StageRC(r)
    <3> DEFINE front(x) == Head(flitQ[r][x[1]][x[2]])
               routable == {x \in PC \X VC :
                              /\ inMod[r][x[1]][x[2]].st = "I"
                              /\ flitQ[r][x[1]][x[2]] # <<>>
                              /\ isHead(front(x))
                              /\ front(x).p \notin fresh}
    <3>1. inMod' = [inMod EXCEPT ![r] = [pc \in PC |-> [w \in VC |->
                     IF <<pc, w>> \in routable
                     THEN [@[pc][w] EXCEPT !.st = "R",
                             !.pc = SelectOutPC[r][Dst[front(<<pc, w>>).p]]]
                     ELSE @[pc][w]]]]
      BY <2>2, Zenon DEF StageRC
    <3>2. q = r => <<i, vc>> \notin routable
      BY <2>1, ZenonT(60)
    <3> HIDE DEF routable, front, vc
    <3> QED
      BY <1>2, <1>3, <2>1, <3>1, <3>2, Zenon DEF vc
  <2>3. CASE StageVA(r)
    <3> DEFINE served == {k \in DOMAIN vaQ[r] : FreeVCs(r, vaQ[r][k]) # {}}
               k == CHOOSE n \in served : \A m \in served : n <= m
               x == vaQ[r][k]
               w == CHOOSE u \in FreeVCs(r, x) : \A t \in FreeVCs(r, x) : u <= t
    <3>1. CASE served = {}
      BY <2>3, <3>1, Zenon DEF StageVA
    <3>2. CASE served # {}
      <4>1. inMod' = [inMod EXCEPT ![r][x[1]][x[2]].st = "V", ![r][x[1]][x[2]].vc = w]
        BY <2>3, <3>2, Zenon DEF StageVA
      <4>2. k \in DOMAIN vaQ[r]
        <5>1. served \in SUBSET Nat /\ \A n \in served : n \in DOMAIN vaQ[r]
          BY <1>2
        <5> HIDE DEF served
        <5>2. \E n \in served : \A m \in served : n <= m
          BY <3>2, <5>1, LeastExists
        <5>3. k \in served
          BY <5>2, SMTT(30)
        <5> QED
          BY <5>1, <5>3
      <4> HIDE DEF k, w
      <4>3. x \in PC \X VC /\ inMod[r][x[1]][x[2]].st = "R"
        BY <1>2, <4>2 DEF ControlInv, QueuedOnce
      <4>4. q # r \/ i # x[1] \/ vc # x[2]
        BY <2>1, <4>3, ZenonT(60)
      <4> HIDE DEF x, vc
      <4>5. inMod'[q][i][vc] = inMod[q][i][vc]
        BY <1>2, <1>3, <2>1, <4>1, <4>3, <4>4
      <4> QED
        BY <4>5 DEF vc
    <3> QED
      BY <3>1, <3>2
  <2> QED
    BY <2>2, <2>3
<1> QED
  BY <1>1, <1>4, NothingMoves

\* Arbitration, of both kinds.
LEMMA Granting ==
  ASSUME TypeOK, ControlInv, NEW r \in Router, StageSA(r) \/ StageSSA(r)
  PROVE  \E req, cand : \E G \in SUBSET PC : \E sel \in [G -> VC] :
           Matched(r, cand, G, sel) /\ Charged(r, G, sel) /\ SwitchSet(r, req, G, sel)
<1>1. PICK k \in 1 .. 2 : \E req, cand : Allocate(r, req, cand, k)
        /\ \A i \in PC, vc \in VC : cand[i][vc] => inMod[r][i][vc].st \in {"V", "S"}
  <2>1. CASE StageSA(r)
    <3> DEFINE body(pc, vc) == /\ flitQ[r][pc][vc] # <<>>
                               /\ ~ isHead(Head(flitQ[r][pc][vc]))
                               /\ inMod[r][pc][vc].st = "S"
               req == [pc \in PC |-> [vc \in VC |-> swReq[r][pc][vc] \/ body(pc, vc)]]
    <3>1. Allocate(r, req, req, 1)
      BY <2>1, ZenonT(60) DEF StageSA
    <3>2. \A i \in PC, vc \in VC : req[i][vc] => inMod[r][i][vc].st \in {"V", "S"}
      BY DEF ControlInv, RequestsReady
    <3>3. 1 \in 1 .. 2
      OBVIOUS
    <3> HIDE DEF req
    <3> QED
      BY <3>1, <3>2, <3>3
  <2>2. CASE StageSSA(r)
    <3> DEFINE cand == [pc \in PC |-> [vc \in VC |-> swReq[r][pc][vc] /\ vaNow[r][pc][vc]]]
    <3>1. Allocate(r, swReq[r], cand, 2)
      BY <2>2 DEF StageSSA
    <3>2. \A i \in PC, vc \in VC : cand[i][vc] => inMod[r][i][vc].st \in {"V", "S"}
      BY DEF ControlInv, RequestsReady
    <3>3. 2 \in 1 .. 2
      OBVIOUS
    <3> HIDE DEF cand
    <3> QED
      BY <3>1, <3>2, <3>3
  <2> QED
    BY <2>1, <2>2
<1>2. PICK req, cand : Allocate(r, req, cand, k)
        /\ \A i \in PC, vc \in VC : cand[i][vc] => inMod[r][i][vc].st \in {"V", "S"}
  BY <1>1
<1>3. Routed
  BY DEF ControlInv
<1>4. \E G \in SUBSET PC : \E sel \in [G -> VC] :
        Matched(r, cand, G, sel) /\ Charged(r, G, sel) /\ SwitchSet(r, req, G, sel)
  BY <1>2, <1>3, ArbitersMatch
<1> QED
  BY <1>4

LEMMA ArbitrationMoves ==
  ASSUME TypeOK, ControlInv, NEW r \in Router, StageSA(r) \/ StageSSA(r),
         NEW l \in Link
  PROVE  Unmoved(l) \/ (l[1] = r /\ \E w \in VC : Grants(l, w))
<1>1. UNCHANGED <<flitQ, pipe, deposits>>
  BY DEF StageSA, StageSSA, bufVars
<1>2. PICK req, cand : \E G \in SUBSET PC : \E sel \in [G -> VC] :
           Matched(r, cand, G, sel) /\ Charged(r, G, sel) /\ SwitchSet(r, req, G, sel)
  BY Granting
<1>3. PICK G \in SUBSET PC : \E sel \in [G -> VC] :
        Matched(r, cand, G, sel) /\ Charged(r, G, sel) /\ SwitchSet(r, req, G, sel)
  BY <1>2
<1>4. PICK sel \in [G -> VC] :
        Matched(r, cand, G, sel) /\ Charged(r, G, sel) /\ SwitchSet(r, req, G, sel)
  BY <1>3
<1> QED
  BY <1>1, <1>4, SlotGranted

\* A credit that comes back is the router's again: its VC's reserve is refilled
\* first.
LEMMA CreditCounted ==
  ASSUME TypeOK, NEW r \in Router, IncCredit(r), NEW l \in Link
  PROVE  Unmoved(l) \/ (l[1] = r /\ \E w \in VC : Counts(l, w))
<1> DEFINE o == l[2]
           d == Head(deposits[r])
           refill == BufferType # "SAMQ" /\ rsv[r][d.pc][d.vc] < Rsv
<1>1. UNCHANGED <<flitQ, pipe, xbar, inMod>>
  BY Zenon DEF IncCredit, bufVars, ctlVars
<1>2. FlitsStay(l)
  BY <1>1, Zenon DEF FlitsStay, Granted, OnLink, Behind, Crosses
<1>3. l[1] \in Router /\ o \in PC
  BY LinkEnds
<1>4. /\ deposits \in [Router -> Seq(Deposit)]
      /\ credit \in [Router -> [PC -> [VC -> Int]]] /\ rsv \in [Router -> [PC -> [VC -> Int]]]
  BY DEF TypeOK, CreditsOK
<1>5. CASE ~ (deposits[r] # <<>> /\ d.due = 0)
  <2>1. UNCHANGED creditVars
    BY <1>5, ZenonT(60) DEF IncCredit
  <2> QED
    BY <1>1, <2>1, NothingMoves, ZenonT(60) DEF creditVars
<1>6. CASE deposits[r] # <<>> /\ d.due = 0
  <2>1. /\ credit' = IF refill THEN credit ELSE [credit EXCEPT ![r][d.pc][d.vc] = @ + 1]
        /\ rsv' = IF refill THEN [rsv EXCEPT ![r][d.pc][d.vc] = @ + 1] ELSE rsv
        /\ deposits' = [deposits EXCEPT ![r] = Tail(@)]
    BY <1>6, ZenonT(60) DEF IncCredit
  <2>2. d \in Deposit /\ d.pc \in PC /\ d.vc \in VC
    <3>1. d \in Deposit
      BY <1>4, <1>6
    <3> QED
      BY <3>1 DEF Deposit
  <2>3. \A v \in VC : d \in CreditsFor(o, v) <=> d.pc = o /\ d.vc = v
    BY <2>2 DEF Deposit, CreditsFor
  <2> HIDE DEF d, refill
  <2>4. CASE l[1] # r
    <3>1. /\ deposits'[l[1]] = deposits[l[1]] /\ credit'[l[1]] = credit[l[1]]
          /\ rsv'[l[1]] = rsv[l[1]]
      BY <1>3, <1>4, <2>1, <2>4
    <3> QED
      BY <1>2, <3>1 DEF Unmoved, CreditsStay, Free, Reserve, Returning
  <2>5. CASE l[1] = r
    <3>1. /\ deposits[r] \in Seq(Deposit) /\ deposits[r] # <<>>
          /\ deposits'[r] = Tail(deposits[r]) /\ deposits'[r] \in Seq(Deposit)
      BY <1>4, <1>6, <2>1
    <3>2. \A v \in VC : /\ Tally(deposits[r], CreditsFor(o, v))
                             = Tally(deposits'[r], CreditsFor(o, v)) + (IF d \in CreditsFor(o, v) THEN 1 ELSE 0)
                        /\ Tally(deposits'[r], CreditsFor(o, v)) \in Nat
      <4>1. deposits[r] \in Seq(Deposit) /\ deposits[r] # <<>>
        BY <3>1
      <4>2. \A X : Tally(deposits[r], X)
                     = Tally(Tail(deposits[r]), X) + (IF Head(deposits[r]) \in X THEN 1 ELSE 0)
        BY <4>1, TallyTail
      <4>3. \A X : Tally(deposits'[r], X) \in Nat
        BY <3>1, TallyConcat
      <4> QED
        BY <3>1, <4>2, <4>3 DEF d
    <3>3. \A v \in VC : /\ Returning(l, v) = Returning(l, v)' + (IF d.pc = o /\ d.vc = v THEN 1 ELSE 0)
                        /\ Returning(l, v)' \in Nat
      BY <2>3, <2>5, <3>2 DEF Returning
    <3>4. \A v \in VC : Free(l, v) \in Int /\ Reserve(l, v) \in Int
      BY <1>3, <1>4 DEF Free, Reserve
    <3>5. CASE d.pc # o
      <4>1. credit'[r][o] = credit[r][o] /\ rsv'[r][o] = rsv[r][o]
        BY <1>3, <1>4, <2>1, <2>2, <2>5, <3>5
      <4>2. \A v \in VC : Returning(l, v)' = Returning(l, v)
        BY <3>3, <3>5
      <4> QED
        BY <1>2, <2>5, <4>1, <4>2 DEF Unmoved, CreditsStay, Free, Reserve
    <3>6. CASE d.pc = o
      <4> DEFINE w == d.vc
      <4>1. \A v \in VC : Returning(l, v)' = Returning(l, v) - One(v, w)
        BY <3>3, <3>6 DEF One
      <4>2. refill <=> BufferType # "SAMQ" /\ Reserve(l, w) < Rsv
        BY <2>5, <3>6 DEF Reserve, refill
      <4>3. ASSUME refill
            PROVE  \A v \in VC : Reserve(l, v)' = Reserve(l, v) + One(v, w) /\ Free(l, v)' = Free(l, v)
        <5>1. credit' = credit /\ rsv' = [rsv EXCEPT ![r][o][w] = @ + 1]
          BY <2>1, <3>6, <4>3
        <5>2. \A v \in VC : rsv'[r][o][v] = IF v = w THEN rsv[r][o][v] + 1 ELSE rsv[r][o][v]
          BY <1>3, <1>4, <2>2, <2>5, <5>1, SMTT(30)
        <5> QED
          BY <2>5, <3>4, <5>1, <5>2 DEF Reserve, Free, One
      <4>4. ASSUME ~ refill
            PROVE  \A v \in VC : Free(l, v)' = Free(l, v) + One(v, w) /\ Reserve(l, v)' = Reserve(l, v)
        <5>1. rsv' = rsv /\ credit' = [credit EXCEPT ![r][o][w] = @ + 1]
          BY <2>1, <3>6, <4>4
        <5>2. \A v \in VC : credit'[r][o][v] = IF v = w THEN credit[r][o][v] + 1 ELSE credit[r][o][v]
          BY <1>3, <1>4, <2>2, <2>5, <5>1, SMTT(30)
        <5> QED
          BY <2>5, <3>4, <5>1, <5>2 DEF Reserve, Free, One
      <4>5. w \in VC
        BY <2>2, ZenonT(60)
      <4>6. Counts(l, w)
        BY <1>2, <4>1, <4>2, <4>3, <4>4 DEF Counts
      <4> QED
        BY <2>5, <4>5, <4>6
    <3> QED
      BY <3>5, <3>6
  <2> QED
    BY <2>4, <2>5
<1> QED
  BY <1>5, <1>6

\* Ageing flits and credits keep their places.
LEMMA NothingAges ==
  ASSUME TypeOK, TypeOK', Tick, NEW l \in Link
  PROVE  Unmoved(l)
<1>1. UNCHANGED <<flitQ, credit, rsv, xbar, inMod>>
  BY DEF Tick, ctlVars
<1>2. \A v \in VC : /\ Free(l, v)' = Free(l, v) /\ Reserve(l, v)' = Reserve(l, v)
                    /\ Granted(l, v)' = Granted(l, v) /\ Behind(l, v)' = Behind(l, v)
  BY <1>1 DEF Free, Reserve, Granted, Behind, Crosses
<1>3. ASSUME NEW v \in VC
      PROVE  OnLink(l, v)' = OnLink(l, v)
  <2>1. pipe[l] \in Seq(InFlight) /\ pipe'[l] \in Seq(InFlight)
    BY DEF TypeOK, BuffersOK
  <2>2. pipe'[l] = [k \in DOMAIN pipe[l] |-> [pipe[l][k] EXCEPT !.age = @ + 1]]
    BY DEF Tick
  <2>3. DOMAIN pipe'[l] = DOMAIN pipe[l]
    BY <2>2
  <2>4. ASSUME NEW k \in DOMAIN pipe[l]
        PROVE  pipe'[l][k] \in FlitsOf(v) <=> pipe[l][k] \in FlitsOf(v)
    <3>1. pipe[l][k] \in InFlight
      BY <2>1
    <3>2. pipe'[l][k] = [pipe[l][k] EXCEPT !.age = @ + 1]
      BY <2>2
    <3> QED
      BY <3>1, <3>2 DEF InFlight, FlitsOf
  <2>5. {k \in DOMAIN pipe'[l] : pipe'[l][k] \in FlitsOf(v)}
          = {k \in DOMAIN pipe[l] : pipe[l][k] \in FlitsOf(v)}
    BY <2>3, <2>4
  <2> QED
    BY <2>5 DEF OnLink, Tally
<1>4. ASSUME NEW v \in VC
      PROVE  Returning(l, v)' = Returning(l, v)
  <2> DEFINE q == l[1]
             X == CreditsFor(l[2], v)
  <2>1. q \in Router /\ l[2] \in PC
    BY LinkEnds
  <2>2. deposits[q] \in Seq(Deposit) /\ deposits'[q] \in Seq(Deposit)
    BY <2>1 DEF TypeOK, CreditsOK
  <2>3. deposits'[q] = [k \in DOMAIN deposits[q] |->
                          [deposits[q][k] EXCEPT !.due = IF @ > 0 THEN @ - 1 ELSE 0]]
    BY <2>1 DEF Tick
  <2>4. DOMAIN deposits'[q] = DOMAIN deposits[q]
    BY <2>3
  <2>5. ASSUME NEW k \in DOMAIN deposits[q]
        PROVE  deposits'[q][k] \in X <=> deposits[q][k] \in X
    <3>1. deposits[q][k] \in Deposit /\ deposits'[q][k] \in Deposit
      BY <2>2, <2>4
    <3>2. deposits'[q][k] = [deposits[q][k] EXCEPT !.due = IF @ > 0 THEN @ - 1 ELSE 0]
      BY <2>3
    <3>3. deposits'[q][k].pc = deposits[q][k].pc /\ deposits'[q][k].vc = deposits[q][k].vc
      BY <3>1, <3>2 DEF Deposit
    <3> QED
      BY <3>1, <3>3 DEF Deposit, CreditsFor
  <2> HIDE DEF X
  <2>6. {k \in DOMAIN deposits'[q] : deposits'[q][k] \in X}
          = {k \in DOMAIN deposits[q] : deposits[q][k] \in X}
    BY <2>4, <2>5
  <2> QED
    BY <2>6 DEF Returning, Tally, X
<1> QED
  BY <1>2, <1>3, <1>4 DEF Unmoved, CreditsStay, FlitsStay

\* Whatever the step, at most one of the slots behind a link moves, and who moves it
\* is the router upstream, or the one downstream in stageST.
LEMMA OneMoves ==
  ASSUME TypeOK, ControlInv, TypeOK', Next, NEW l \in Link
  PROVE  \/ Unmoved(l)
         \/ /\ Running(<<0, l[1]>>) /\ stage # 0
            /\ \E w \in VC : Grants(l, w) \/ Sends(l, w) \/ Delivers(l, w) \/ Counts(l, w)
         \/ StageST(Wire[l][1]) /\ \E w \in VC : Frees(l, w)
<1>1. ASSUME NEW r \in Router, IncCredit(r) \/ StageLT(r) \/ StageST(r) \/ StageSA(r) \/ StageSSA(r)
      PROVE  Running(<<0, r>>) /\ stage # 0
  BY <1>1, Zenon DEF IncCredit, StageLT, StageST, StageSA, StageSSA, AtStage
<1>2. ASSUME NEW r \in Router, IncCredit(r) \/ StageLT(r)
      PROVE  Unmoved(l) \/ (l[1] = r /\ \E w \in VC : Delivers(l, w) \/ Counts(l, w))
  BY <1>2, CreditCounted, FlitsLand
<1>3. ASSUME NEW r \in Router, StageST(r)
      PROVE  \/ Unmoved(l)
             \/ l[1] = r /\ \E w \in VC : Sends(l, w)
             \/ Wire[l][1] = r /\ \E w \in VC : Frees(l, w)
  BY <1>3, SlotFreed, FlitLeaves
<1>4. ASSUME NEW r \in Router, StageSA(r) \/ StageSSA(r)
      PROVE  Unmoved(l) \/ (l[1] = r /\ \E w \in VC : Grants(l, w))
  BY <1>4, ArbitrationMoves
<1>5. ASSUME NEW r \in Router, StageRC(r) \/ StageVA(r)
      PROVE  Unmoved(l)
  BY <1>5, NothingRouted
<1>6. ASSUME NEW r \in Router, RouterWake(r)
      PROVE  Unmoved(l)
  <2>1. UNCHANGED <<credit, rsv, deposits, xbar, pipe, flitQ, inMod>>
    BY <1>6 DEF RouterWake, creditVars, bufVars
  <2> QED
    BY <2>1, NothingMoves
<1>7. ASSUME NEW i \in NIinProcs, NIRead(i) \/ NIReserve(i) \/ NIFinish(i)
      PROVE  Unmoved(l)
  <2>1. UNCHANGED <<credit, rsv, deposits, xbar, pipe, flitQ, inMod>>
    BY <1>7, Zenon DEF NIRead, NIReserve, NIFinish, netVars, creditVars, ctlVars
  <2> QED
    BY <2>1, NothingMoves
<1>8. ASSUME NEW i \in NIinProcs, NIInject(i)
      PROVE  Unmoved(l)
  <2>1. UNCHANGED <<credit, rsv, deposits, xbar, pipe, inMod>>
    BY <1>8, Zenon DEF NIInject, netVars, creditVars, ctlVars
  <2> DEFINE ni == NIof(i)
             vc == niCur[i].vc
             f == [p |-> niCur[i].p, n |-> niCur[i].n + 1]
  <2>2. ni[1] \in Router /\ ni[2] \in LocalPC
    BY DEF NIof, NIinProcs
  <2>3. \/ flitQ' = flitQ
        \/ flitQ' = [flitQ EXCEPT ![ni[1]][ni[2]][vc] = Append(@, f)]
    BY <1>8, Zenon DEF NIInject
  <2>4. Wire[l][1] \in Router /\ Wire[l][2] \in PC /\ Wire[l][2] # ni[2]
    BY <2>2, LinkEnds
  <2>5. flitQ \in [Router -> [PC -> [VC -> Seq(Flit)]]]
    BY DEF TypeOK, BuffersOK
  <2> HIDE DEF ni, vc, f
  <2>6. flitQ'[Wire[l][1]][Wire[l][2]] = flitQ[Wire[l][1]][Wire[l][2]]
    <3>1. CASE Wire[l][1] = ni[1]
      BY <2>2, <2>3, <2>4, <2>5, <3>1
    <3>2. CASE Wire[l][1] # ni[1]
      BY <2>2, <2>3, <2>4, <2>5, <3>2, SMTT(30)
    <3> QED
      BY <3>1, <3>2, SMTT(30)
  <2> QED
    BY <2>1, <2>6, NothingMoves
<1>9. ASSUME NEW i \in NIoutProcs, NIOutput(i)
      PROVE  Unmoved(l)
  <2>1. UNCHANGED <<credit, rsv, deposits, xbar, pipe, flitQ, inMod>>
    BY <1>9 DEF NIOutput, netVars, creditVars, ctlVars
  <2> QED
    BY <2>1, NothingMoves
<1>10. ASSUME NEW p \in Packet, Generate(p)
       PROVE  Unmoved(l)
  <2>1. UNCHANGED <<credit, rsv, deposits, xbar, pipe, flitQ, inMod>>
    BY <1>10 DEF Generate, netVars, creditVars, ctlVars
  <2> QED
    BY <2>1, NothingMoves
<1>11. Tick \/ Finished => Unmoved(l)
  <2>1. Finished => UNCHANGED <<credit, rsv, deposits, xbar, pipe, flitQ, inMod>>
    BY DEF Finished, vars, creditVars, ctlVars, bufVars
  <2> QED
    BY <2>1, NothingMoves, NothingAges
<1> DEFINE Here == Running(<<0, l[1]>>) /\ stage # 0
           There == \E w \in VC : Grants(l, w) \/ Sends(l, w) \/ Delivers(l, w) \/ Counts(l, w)
           Next1 == StageST(Wire[l][1]) /\ \E w \in VC : Frees(l, w)
<1>12. ASSUME NEW r \in Router, RouterStep(r)
       PROVE  Unmoved(l) \/ (Here /\ There) \/ Next1
  <2>1. ASSUME IncCredit(r) \/ StageLT(r) \/ StageSA(r) \/ StageSSA(r)
        PROVE  Unmoved(l) \/ (Here /\ There)
    BY <1>1, <1>2, <1>4, <2>1
  <2>2. ASSUME StageST(r)
        PROVE  Unmoved(l) \/ (Here /\ There) \/ Next1
    BY <1>1, <1>3, <2>2
  <2> HIDE DEF Here, There, Next1
  <2> QED
    BY <1>5, <1>6, <1>12, <2>1, <2>2 DEF RouterStep
<1> HIDE DEF Here, There, Next1
<1>13. Unmoved(l) \/ (Here /\ There) \/ Next1
  BY <1>7, <1>8, <1>9, <1>10, <1>11, <1>12 DEF Next, Step, NIStep
<1> QED
  BY <1>13 DEF Here, There, Next1

\* A slot that moves is still one.
LEMMA SlotsStay ==
  ASSUME TypeOK, NEW l \in Link, NEW w \in VC,
         Unmoved(l) \/ Grants(l, w) \/ Sends(l, w) \/ Delivers(l, w) \/ Frees(l, w) \/ Counts(l, w),
         NEW v \in VC
  PROVE  SlotsOf(l, v)' = SlotsOf(l, v)
<1>1. /\ Free(l, v) \in Int /\ Reserve(l, v) \in Int /\ Granted(l, v) \in Int
      /\ OnLink(l, v) \in Int /\ Behind(l, v) \in Int /\ Returning(l, v) \in Int
  BY SlotTypes DEF TypeOK
<1>2. One(v, w) \in Int
  BY DEF One
<1>3. SlotsOf(l, v)' = Free(l, v)' + Reserve(l, v)' + Granted(l, v)' + OnLink(l, v)'
                         + Behind(l, v)' + Returning(l, v)'
  BY DEF SlotsOf
<1>4. SlotsOf(l, v) = Free(l, v) + Reserve(l, v) + Granted(l, v) + OnLink(l, v)
                        + Behind(l, v) + Returning(l, v)
  BY DEF SlotsOf
<1>5. CASE Unmoved(l)
  BY <1>3, <1>4, <1>5 DEF Unmoved, CreditsStay, FlitsStay
<1>6. CASE Grants(l, w)
  BY <1>1, <1>2, <1>3, <1>4, <1>6 DEF Grants
<1>7. CASE Sends(l, w)
  BY <1>1, <1>2, <1>3, <1>4, <1>7 DEF Sends, CreditsStay
<1>8. CASE Delivers(l, w)
  BY <1>1, <1>2, <1>3, <1>4, <1>8 DEF Delivers, CreditsStay
<1>9. CASE Frees(l, w)
  BY <1>1, <1>2, <1>3, <1>4, <1>9 DEF Frees, CreditsStay
<1>10. CASE Counts(l, w)
  BY <1>1, <1>2, <1>3, <1>4, <1>10 DEF Counts, FlitsStay
<1> QED
  BY <1>5, <1>6, <1>7, <1>8, <1>9, <1>10

\* All slots are free in the beginning.
LEMMA AllFree ==
  ASSUME Init, NEW l \in Link, NEW v \in VC
  PROVE  /\ Free(l, v) = Depth - Rsv /\ Reserve(l, v) = Rsv
         /\ Granted(l, v) = 0 /\ OnLink(l, v) = 0 /\ Behind(l, v) = 0 /\ Returning(l, v) = 0
<1>1. /\ l[1] \in Router /\ l[2] \in PC /\ Wire[l][1] \in Router /\ Wire[l][2] \in PC
  BY LinkEnds
<1>2. Free(l, v) = Depth - Rsv /\ Reserve(l, v) = Rsv
  BY <1>1 DEF Init, PerVCState, Free, Reserve
<1>3. Granted(l, v) = 0
  <2>1. \A i \in PC : xbar[l[1]][i] = INVALID_VC
    BY <1>1 DEF Init
  <2> QED
    BY <2>1 DEF Granted, Crosses
<1>4. \A X : Tally(<<>>, X) = 0
  BY FS_EmptySet DEF Tally
<1>5. OnLink(l, v) = 0 /\ Returning(l, v) = 0
  BY <1>1, <1>4 DEF Init, OnLink, Returning
<1>6. Behind(l, v) = 0
  BY <1>1 DEF Init, PerVCState, Behind
<1> QED
  BY <1>2, <1>3, <1>5, <1>6

\* Credits and slots never part: of every VC of a buffer behind a link, the slots
\* that are free, promised, filled or on their way back add up to its depth, for
\* buffers of a VC, of a port and of a router, with and without reserves.
THEOREM CreditsConserved ==
  Spec => []SlotsKept
<1>1. Init => SlotsKept
  <2>1. Depth \in Int /\ Rsv \in Int
    BY NetworkAssumption
  <2> QED
    BY <2>1, AllFree DEF SlotsKept, SlotsOf
<1>2. TypeOK /\ ControlInv /\ TypeOK' /\ SlotsKept /\ [Next]_vars => SlotsKept'
  <2> SUFFICES ASSUME TypeOK, ControlInv, TypeOK', SlotsKept, [Next]_vars, NEW l \in Link, NEW v \in VC
               PROVE  SlotsOf(l, v)' = SlotsOf(l, v)
    BY DEF SlotsKept
  <2>1. \E w \in VC : \/ Unmoved(l) \/ Grants(l, w) \/ Sends(l, w) \/ Delivers(l, w)
                      \/ Frees(l, w) \/ Counts(l, w)
    <3>1. CASE Next
      BY <3>1, OneMoves
    <3>2. CASE UNCHANGED vars
      <4>1. UNCHANGED <<credit, rsv, deposits, xbar, pipe, flitQ, inMod>>
        BY <3>2 DEF vars, creditVars, ctlVars, bufVars
      <4> QED
        BY <4>1, NothingMoves
    <3> QED
      BY <3>1, <3>2
  <2> QED
    BY <2>1, SlotsStay
<1> QED
  BY <1>1, <1>2, TypeCorrect, ControlInOrder, PTL DEF Spec

-----------------------------------------------------------------------------
(* Room for the flits that have crossed a link. *)

\* The credits of a VC or of a port are never overdrawn, nor are the reserves.
CreditsLeft ==
  \A l \in Link, v \in VC :
    rsv[l[1]][l[2]][v] >= 0 /\ SharedCredits(l[1], credit[l[1]], l[2], v) >= 0

LEMMA SharedIs ==
  ASSUME BufferType # "DAMQ_R", NEW r, NEW c \in [PC -> [VC -> Int]], NEW o \in PC, NEW v \in VC
  PROVE  /\ BufferType = "SAMQ" => SharedCredits(r, c, o, v) = c[o][v]
         /\ BufferType # "SAMQ" => SharedCredits(r, c, o, v) = SumFunction(c[o])
         /\ SharedCredits(r, c, o, v) \in Int
<1>1. [w \in VC |-> c[o][w]] = c[o] /\ c[o] \in [VC -> Int]
  OBVIOUS
<1>2. BufferType = "SAMQ" => SharedCredits(r, c, o, v) = c[o][v]
  BY DEF SharedCredits
<1>3. BufferType # "SAMQ" => SharedCredits(r, c, o, v) = SumFunction(c[o])
  <2>1. BufferType # "SAMQ" => BufferType = "DAMQ_P"
    BY NetworkAssumption
  <2>2. BufferType = "DAMQ_P" => SharedCredits(r, c, o, v) = SumFunction([w \in VC |-> c[o][w]])
    BY DEF SharedCredits
  <2> QED
    BY <1>1, <2>1, <2>2, Zenon
<1>4. SumFunction(c[o]) \in Int
  <2>1. IsFiniteSet(VC)
    BY Finite
  <2>2. AddsUp(VC, c[o], PartialSums(c[o])) /\ SumFunction(c[o]) = PartialSums(c[o])[VC]
    <3>1. DOMAIN c[o] = VC
      BY <1>1
    <3> QED
      BY <1>1, <2>1, <3>1, SumsDefined, SumIs
  <2> QED
    BY <2>2 DEF AddsUp
<1> QED
  BY <1>2, <1>3, <1>4

\* One credit more or less.
OneMore(f, g, w) == \A v \in VC : g[v] = IF v = w THEN f[v] + 1 ELSE f[v]

LEMMA SharedOneMore ==
  ASSUME BufferType # "DAMQ_R", NEW r, NEW c \in [PC -> [VC -> Int]], NEW d \in [PC -> [VC -> Int]],
         NEW o \in PC, NEW w \in VC, OneMore(c[o], d[o], w), NEW v \in VC
  PROVE  SharedCredits(r, d, o, v) = SharedCredits(r, c, o, v)
           + (IF BufferType # "SAMQ" \/ v = w THEN 1 ELSE 0)
<1> USE DEF OneMore
<1>1. CASE BufferType = "SAMQ"
  <2>1. SharedCredits(r, d, o, v) = d[o][v] /\ SharedCredits(r, c, o, v) = c[o][v]
    BY <1>1, SharedIs
  <2> QED
    BY <1>1, <2>1
<1>2. CASE BufferType # "SAMQ"
  <2>1. /\ SharedCredits(r, d, o, v) = SumFunction(d[o])
        /\ SharedCredits(r, c, o, v) = SumFunction(c[o])
    BY <1>2, SharedIs, ZenonT(60)
  <2>2. SumFunction(d[o]) = SumFunction(c[o]) + 1
    <3>1. c[o] \in [VC -> Int] /\ d[o] \in [VC -> Int] /\ IsFiniteSet(VC)
      BY Finite, Zenon
    <3>2. PlusOne(VC, c[o], d[o], w)
      BY DEF OneMore, PlusOne
    <3> HIDE DEF OneMore
    <3> QED
      BY <3>1, <3>2, SumOneMore
  <2> QED
    BY <1>2, <2>1, <2>2
<1> QED
  BY <1>1, <1>2

\* What a VC can draw from is the same if the credits are.
LEMMA SharedSame ==
  ASSUME BufferType # "DAMQ_R", NEW r, NEW c \in [PC -> [VC -> Int]], NEW d \in [PC -> [VC -> Int]],
         NEW o \in PC, \A v \in VC : d[o][v] = c[o][v], NEW v \in VC
  PROVE  SharedCredits(r, d, o, v) = SharedCredits(r, c, o, v)
<1>1. d[o] = c[o]
  <2>1. c[o] \in [VC -> Int] /\ d[o] \in [VC -> Int]
    OBVIOUS
  <2> QED
    BY <2>1
<1>2. /\ BufferType = "SAMQ" => SharedCredits(r, d, o, v) = d[o][v] /\ SharedCredits(r, c, o, v) = c[o][v]
      /\ BufferType # "SAMQ" => /\ SharedCredits(r, d, o, v) = SumFunction(d[o])
                                /\ SharedCredits(r, c, o, v) = SumFunction(c[o])
  BY SharedIs
<1> QED
  BY <1>1, <1>2

\* A grant takes a credit that is there, and credits that come back are added.
LEMMA LeftInductive ==
  ASSUME TypeOK, ControlInv, TypeOK', BufferType # "DAMQ_R", CreditsLeft, Next
  PROVE  CreditsLeft'
<1> SUFFICES ASSUME NEW l \in Link, NEW v \in VC
             PROVE  rsv'[l[1]][l[2]][v] >= 0 /\ SharedCredits(l[1], credit'[l[1]], l[2], v) >= 0
  BY DEF CreditsLeft, SharedCredits
<1> DEFINE r == l[1]
           o == l[2]
           c == credit[r]
           d == credit'[r]
<1>1. r \in Router /\ o \in PC
  BY LinkEnds
<1>2. c \in [PC -> [VC -> Int]] /\ d \in [PC -> [VC -> Int]]
  BY <1>1, SMTT(30) DEF TypeOK, CreditsOK
<1>3. /\ Free(l, v) = c[o][v] /\ Reserve(l, v)' = rsv'[r][o][v] /\ Reserve(l, v) \in Int
      /\ \A x \in VC : Free(l, x) = c[o][x] /\ Free(l, x)' = d[o][x]
      /\ \A x \in VC : Free(l, x) \in Int /\ Free(l, x)' \in Int
  BY <1>1, <1>2, SlotTypes DEF Free, Reserve, TypeOK
<1>4. Reserve(l, v) >= 0 /\ SharedCredits(r, c, o, v) >= 0
  BY DEF CreditsLeft, Reserve
<1>5. BufferType \in {"SAMQ", "DAMQ_P"}
  BY NetworkAssumption
<1>6. /\ \A x \in VC : SharedCredits(r, c, o, x) \in Int /\ SharedCredits(r, d, o, x) \in Int
      /\ BufferType = "SAMQ" => \A x \in VC : SharedCredits(r, c, o, x) = c[o][x]
      /\ BufferType # "SAMQ" => \A x \in VC : SharedCredits(r, c, o, x) = SumFunction(c[o])
  BY <1>1, <1>2, SharedIs
<1> HIDE DEF r, o, c, d
<1>7. CASE CreditsStay(l)
  <2>1. SharedCredits(r, d, o, v) = SharedCredits(r, c, o, v)
    BY <1>1, <1>2, <1>3, <1>7, SharedSame DEF CreditsStay
  <2>2. Reserve(l, v)' = Reserve(l, v)
    BY <1>7 DEF CreditsStay
  <2> QED
    BY <1>3, <1>4, <2>1, <2>2 DEF r, o, c, d
<1>8. ASSUME NEW w \in VC, Grants(l, w)
      PROVE  rsv'[r][o][v] >= 0 /\ SharedCredits(r, d, o, v) >= 0
  <2>1. SharedCredits(r, c, o, w) >= 1 \/ (BufferType # "SAMQ" /\ Reserve(l, w) >= 1)
    BY <1>8 DEF Grants, hasCredit, Reserve, r, o, c
  <2>2. CASE /\ \A x \in VC : Free(l, x)' = Free(l, x) - One(x, w) /\ Reserve(l, x)' = Reserve(l, x)
             /\ BufferType = "DAMQ_P" => SharedCredits(r, c, o, w) > 0
    <3>1. OneMore(d[o], c[o], w)
      BY <1>3, <2>2 DEF One, OneMore
    <3>2. SharedCredits(r, c, o, v)
            = SharedCredits(r, d, o, v) + (IF BufferType # "SAMQ" \/ v = w THEN 1 ELSE 0)
      BY <1>1, <1>2, <3>1, SharedOneMore
    <3>3. BufferType # "SAMQ" \/ v = w => SharedCredits(r, c, o, v) >= 1
      BY <1>5, <1>6, <2>1, <2>2
    <3>4. SharedCredits(r, d, o, v) >= 0
      BY <1>4, <1>6, <3>2, <3>3
    <3> QED
      BY <1>3, <1>4, <2>2, <3>4
  <2>3. CASE /\ \A x \in VC : Reserve(l, x)' = Reserve(l, x) - One(x, w) /\ Free(l, x)' = Free(l, x)
             /\ BufferType # "SAMQ"
             /\ BufferType = "DAMQ_P" => ~ (SharedCredits(r, c, o, w) > 0)
    <3>1. SharedCredits(r, d, o, v) = SharedCredits(r, c, o, v)
      BY <1>1, <1>2, <1>3, <2>3, SharedSame
    <3>2. Reserve(l, w) >= 1
      BY <1>5, <1>6, <2>1, <2>3
    <3>3. Reserve(l, v)' >= 0
      BY <1>3, <1>4, <2>3, <3>2 DEF One
    <3> QED
      BY <1>3, <1>4, <3>1, <3>3
  <2> QED
    BY <1>8, <2>2, <2>3, SMTT(30) DEF Grants, r, o, c
<1>9. ASSUME NEW w \in VC, Counts(l, w)
      PROVE  rsv'[r][o][v] >= 0 /\ SharedCredits(r, d, o, v) >= 0
  <2>1. CASE \A x \in VC : Reserve(l, x)' = Reserve(l, x) + One(x, w) /\ Free(l, x)' = Free(l, x)
    <3>1. SharedCredits(r, d, o, v) = SharedCredits(r, c, o, v)
      BY <1>1, <1>2, <1>3, <2>1, SharedSame
    <3> QED
      BY <1>3, <1>4, <2>1, <3>1 DEF One
  <2>2. CASE \A x \in VC : Free(l, x)' = Free(l, x) + One(x, w) /\ Reserve(l, x)' = Reserve(l, x)
    <3>1. OneMore(c[o], d[o], w)
      BY <1>3, <2>2 DEF One, OneMore
    <3>2. SharedCredits(r, d, o, v)
            = SharedCredits(r, c, o, v) + (IF BufferType # "SAMQ" \/ v = w THEN 1 ELSE 0)
      BY <1>1, <1>2, <3>1, SharedOneMore
    <3> QED
      BY <1>3, <1>4, <1>6, <2>2, <3>2
  <2> QED
    BY <1>9, <2>1, <2>2 DEF Counts
<1>10. \A w \in VC : Sends(l, w) \/ Delivers(l, w) \/ Frees(l, w) => CreditsStay(l)
  BY DEF Sends, Delivers, Frees
<1>11. Unmoved(l) => CreditsStay(l)
  BY DEF Unmoved
<1>12. \E w \in VC : \/ Unmoved(l) \/ Grants(l, w) \/ Sends(l, w) \/ Delivers(l, w)
                     \/ Frees(l, w) \/ Counts(l, w)
  BY OneMoves
<1> QED
  BY <1>7, <1>8, <1>9, <1>10, <1>11, <1>12 DEF r, o, d

LEMMA LeftStays ==
  ASSUME CreditsLeft, UNCHANGED <<credit, rsv>>
  PROVE  CreditsLeft'
BY DEF CreditsLeft, SharedCredits

\* All credits are there in the beginning.
LEMMA InitialCredits ==
  ASSUME Init, BufferType # "DAMQ_R"
  PROVE  CreditsLeft
<1> SUFFICES ASSUME NEW l \in Link, NEW v \in VC
             PROVE  rsv[l[1]][l[2]][v] >= 0 /\ SharedCredits(l[1], credit[l[1]], l[2], v) >= 0
  BY DEF CreditsLeft
<1> DEFINE c == credit[l[1]]
<1>1. l[1] \in Router /\ l[2] \in PC
  BY LinkEnds
<1>2. Rsv \in Nat /\ Depth - Rsv \in Nat
  BY NetworkAssumption
<1>3. rsv[l[1]][l[2]][v] = Rsv
  BY <1>1 DEF Init, PerVCState
<1>4. c = [pc \in PC |-> [vc \in VC |-> Depth - Rsv]]
  BY <1>1 DEF Init, PerVCState
<1> HIDE DEF c
<1>5. c \in [PC -> [VC -> Int]] /\ c[l[2]] \in [VC -> Nat] /\ c[l[2]][v] \in Nat
  BY <1>1, <1>2, <1>4
<1>6. SumFunction(c[l[2]]) \in Nat
  BY <1>5, Finite, SumNotNegative
<1>7. SharedCredits(l[1], c, l[2], v) \in Nat
  BY <1>1, <1>5, <1>6, SharedIs
<1> QED
  BY <1>2, <1>3, <1>7 DEF c

LEMMA WhatIsLeft ==
  ASSUME NEW n \in Int, NEW b \in Nat, NEW c \in Int, NEW s \in Nat, NEW g \in Nat, NEW o \in Nat,
         NEW t \in Nat, NEW e \in 0 .. 1, o >= e, n = (c + s) + g + o + b + t
  PROVE  n - b - c - e \in Nat
OBVIOUS

\* Where a slot is free or promised there is room, and a flit on the link has been
\* promised one.
LEMMA RoomForCrossing ==
  ASSUME TypeOK, BufferType # "DAMQ_R", SlotsKept, CreditsLeft,
         NEW l \in Link, pipe[l] # <<>>
  PROVE  ~ isFull(Wire[l][1], Wire[l][2], Head(pipe[l]).vc)
<1> DEFINE w == Head(pipe[l]).vc
           q == Wire[l][1]
           pc == Wire[l][2]
           c == credit[l[1]][l[2]]
           b == [v \in VC |-> Behind(l, v)]
           u == [v \in VC |-> IF v = w THEN 1 ELSE 0]
           k == [v \in VC |-> Depth - Behind(l, v) - c[v] - (IF v = w THEN 1 ELSE 0)]
<1>1. w \in VC /\ Depth \in Int
  <2>1. Head(pipe[l]) \in InFlight
    BY DEF TypeOK, BuffersOK
  <2> QED
    BY <2>1, NetworkAssumption DEF InFlight
<1>2. ASSUME NEW v \in VC
      PROVE  /\ Behind(l, v) \in Nat /\ c[v] \in Int
             /\ OnLink(l, v) \in Nat /\ (v = w => OnLink(l, v) >= 1)
             /\ rsv[l[1]][l[2]][v] \in Nat
             /\ Granted(l, v) \in 0 .. 1 /\ Returning(l, v) \in Nat
  <2>1. /\ Behind(l, v) \in Nat /\ c[v] \in Int /\ OnLink(l, v) \in Nat
        /\ Granted(l, v) \in 0 .. 1 /\ Returning(l, v) \in Nat
        /\ rsv[l[1]][l[2]][v] \in Int /\ pipe[l] \in Seq(InFlight)
    BY SlotTypes DEF TypeOK, Free, Reserve
  <2>2. rsv[l[1]][l[2]][v] \in Nat
    BY <2>1 DEF CreditsLeft
  <2>3. ASSUME v = w PROVE OnLink(l, v) >= 1
    <3>1. Head(pipe[l]) \in FlitsOf(v)
      <4>1. Head(pipe[l]) \in InFlight
        BY <2>1
      <4> QED
        BY <2>3, <4>1 DEF InFlight, FlitsOf
    <3>2. Tally(pipe[l], FlitsOf(v))
            = Tally(Tail(pipe[l]), FlitsOf(v)) + (IF Head(pipe[l]) \in FlitsOf(v) THEN 1 ELSE 0)
      BY <2>1, TallyTail
    <3>3. Tally(Tail(pipe[l]), FlitsOf(v)) \in Nat
      <4>1. Tail(pipe[l]) \in Seq(InFlight)
        BY <2>1
      <4> QED
        BY <4>1, TallyConcat
    <3> QED
      BY <3>1, <3>2, <3>3 DEF OnLink
  <2> QED
    BY <2>1, <2>2, <2>3
<1> HIDE DEF w
<1>3. ASSUME NEW v \in VC
      PROVE  k[v] \in Nat
  <2>1. Depth = (c[v] + rsv[l[1]][l[2]][v]) + Granted(l, v) + OnLink(l, v) + Behind(l, v) + Returning(l, v)
    BY DEF SlotsKept, SlotsOf, Free, Reserve
  <2> DEFINE e == IF v = w THEN 1 ELSE 0
  <2>2. k[v] = Depth - Behind(l, v) - c[v] - e
    OBVIOUS
  <2>3. OnLink(l, v) >= e /\ e \in 0 .. 1 /\ Granted(l, v) \in Nat
    BY <1>2
  <2> HIDE DEF k, c, e
  <2>4. Depth - Behind(l, v) - c[v] - e \in Nat
    BY <1>1, <1>2, <2>1, <2>3, WhatIsLeft, ZenonT(60)
  <2> QED
    BY <2>2, <2>4
<1>4. CASE BufferType = "SAMQ"
  <2>1. c[w] >= 0
    <3>1. credit[l[1]] \in [PC -> [VC -> Int]] /\ l[2] \in PC
      BY LinkEnds DEF TypeOK, CreditsOK
    <3>2. SharedCredits(l[1], credit[l[1]], l[2], w) >= 0
      BY <1>1 DEF CreditsLeft
    <3> QED
      BY <1>1, <1>4, <3>1, <3>2, SharedIs
  <2>2. k[w] \in Nat /\ k[w] = Depth - Behind(l, w) - c[w] - 1
    BY <1>1, <1>3
  <2> HIDE DEF k, c
  <2>3. Behind(l, w) < Depth
    BY <1>1, <1>2, <2>1, <2>2, SMTT(30)
  <2>4. isFull(q, pc, w) <=> Behind(l, w) >= Depth
    BY <1>4 DEF isFull, Behind
  <2> QED
    BY <1>1, <1>2, <2>3, <2>4 DEF w
<1>5. CASE BufferType # "SAMQ"
  <2>1. /\ IsFiniteSet(VC) /\ Cardinality(VC) = NumVC
    <3>1. NumVC \in Nat \ {0}
      BY Finite
    <3>2. 0 \in Int /\ NumVC - 1 \in Int /\ (IF 0 > NumVC - 1 THEN 0 ELSE (NumVC - 1) - 0 + 1) = NumVC
      BY <3>1
    <3> QED
      BY <3>2, FS_Interval DEF VC
  <2>2. /\ b \in [VC -> Nat] /\ b \in [VC -> Int] /\ c \in [VC -> Int] /\ u \in [VC -> Int]
    <3>1. c \in [VC -> Int]
      BY LinkEnds DEF TypeOK, CreditsOK
    <3> QED
      BY <1>2, <3>1
  <2>3. k \in [VC -> Nat] /\ k \in [VC -> Int]
    BY <1>3
  <2>4. \A v \in VC : b[v] + c[v] + u[v] + k[v] = Depth
    <3>1. \A v \in VC : k[v] = Depth - b[v] - c[v] - u[v]
      OBVIOUS
    <3>2. \A v \in VC : b[v] \in Int /\ c[v] \in Int /\ u[v] \in Int
      BY <2>2
    <3> HIDE DEF b, c, u, k
    <3> QED
      BY <1>1, <3>1, <3>2
  <2>5. u[w] = 1 /\ \A v \in VC : u[v] = IF v = w THEN 1 ELSE 0
    BY <1>1
  <2> HIDE DEF b, c, u, k
  <2>10. SumFunction(b) + SumFunction(c) + SumFunction(u) + SumFunction(k) = NumVC * Depth
    <3>1. Summand(VC, b) /\ Summand(VC, c) /\ Summand(VC, u) /\ Summand(VC, k)
      BY <2>2, <2>3 DEF Summand
    <3> QED
      BY <1>1, <2>1, <2>4, <3>1, SumOfParts
  <2>11. SumFunction(u) = 1
    BY <1>1, <2>1, <2>2, <2>5, SumOfUnit, ZenonT(60)
  <2>12. SumFunction(b) \in Nat /\ SumFunction(k) \in Nat
    BY <2>1, <2>2, <2>3, SumNotNegative
  <2>13. SumFunction(c) >= 0 /\ SumFunction(c) \in Int
    <3>1. credit[l[1]] \in [PC -> [VC -> Int]] /\ l[2] \in PC
      BY LinkEnds DEF TypeOK, CreditsOK
    <3>2. SharedCredits(l[1], credit[l[1]], l[2], w) >= 0
      BY <1>1 DEF CreditsLeft
    <3>3. SharedCredits(l[1], credit[l[1]], l[2], w) = SumFunction(c)
          /\ SharedCredits(l[1], credit[l[1]], l[2], w) \in Int
      BY <1>1, <1>5, <3>1, SharedIs DEF c
    <3> QED
      BY <3>2, <3>3, ZenonT(60)
  <2>14. NumVC * Depth \in Int
    BY <1>1, Finite
  <2>15. SumFunction(b) < NumVC * Depth
    BY <2>10, <2>11, <2>12, <2>13, <2>14
  <2>16. BufferType = "DAMQ_P"
    BY <1>5, NetworkAssumption
  <2>17. isFull(q, pc, w) <=> SumFunction(b) >= NumVC * Depth
    <3>1. b = [vc \in VC |-> Len(flitQ[q][pc][vc])]
      BY DEF b, Behind
    <3>2. PortSize(q, pc) = SumFunction(b)
      BY <3>1, Zenon DEF PortSize
    <3> QED
      BY <2>16, <3>2 DEF isFull
  <2> QED
    BY <2>12, <2>14, <2>15, <2>17 DEF w
<1> QED
  BY <1>4, <1>5

\* A flit that has crossed a link finds room in the buffer behind it, which nobody
\* asks for, when the credits are those of a VC or of a port.  (The credits that a
\* whole router shares are not asked for one at a time.)
THEOREM RoomBehindLinks ==
  ASSUME BufferType # "DAMQ_R"
  PROVE  Spec => []RoomDownstream
<1>1. Init => CreditsLeft
  BY InitialCredits
<1>2. TypeOK /\ ControlInv /\ TypeOK' /\ CreditsLeft /\ [Next]_vars => CreditsLeft'
  <2>1. UNCHANGED vars => UNCHANGED <<credit, rsv>>
    BY DEF vars, creditVars
  <2> QED
    BY <2>1, LeftInductive, LeftStays
<1>3. TypeOK /\ SlotsKept /\ CreditsLeft => RoomDownstream
  <2>1. \A r \in Router : \A l \in Crossed(r) : l \in Link /\ pipe[l] # <<>>
    BY DEF Crossed
  <2> QED
    BY <2>1, RoomForCrossing DEF RoomDownstream
<1> QED
  BY <1>1, <1>2, <1>3, TypeCorrect, ControlInOrder, CreditsConserved, PTL DEF Spec

-----------------------------------------------------------------------------
(* What came before: of each input VC the last flit that was sent to it,    *)
(* the last one that came into its buffer and the last one that left it.    *)

Channel == Router \X PC \X VC

NoFlit == [p |-> NoPacket, n |-> 0]

Past == [Channel -> Flit \cup {NoFlit}]

\* A packet has ended with f, or there has been none.
Ended(f) == f = NoFlit \/ isTail(f)

\* Flit g may come after f.
After(f, g) == IF Ended(f) THEN isHead(g) ELSE g.p = f.p /\ g.n = f.n + 1

\* The same flits may come after a and b.
Same(a, b) == a = b \/ (Ended(a) /\ Ended(b))

\* The flits of q come one after the other, after a, and b is the last of them.
InBuffer(a, q, b) ==
  /\ q = <<>> => a = b
  /\ q # <<>> => After(a, q[1]) /\ b = q[Len(q)]
  /\ \A k \in 1 .. Len(q) - 1 : After(q[k], q[k + 1])

\* So do the flits of s for VC v.
InPipe(a, s, v, b) ==
  /\ \A k \in 1 .. Len(s) : s[k].vc = v /\ (\A j \in 1 .. k - 1 : s[j].vc # v) => After(a, s[k].f)
  /\ \A j, k \in 1 .. Len(s) :
       j < k /\ s[j].vc = v /\ s[k].vc = v /\ (\A m \in j + 1 .. k - 1 : s[m].vc # v) =>
         After(s[j].f, s[k].f)
  /\ \A k \in 1 .. Len(s) : s[k].vc = v /\ (\A m \in k + 1 .. Len(s) : s[m].vc # v) => b = s[k].f
  /\ (\A k \in 1 .. Len(s) : s[k].vc # v) => a = b

\* The input VC that output VC v of link l leads to.
To(l, v) == <<Wire[l][1], Wire[l][2], v>>

Stored(left, landed) ==
  \A r \in Router, pc \in PC, vc \in VC :
    /\ InBuffer(left[<<r, pc, vc>>], flitQ[r][pc][vc], landed[<<r, pc, vc>>])
    /\ inMod[r][pc][vc].st \in {"I", "R", "V"} => Ended(left[<<r, pc, vc>>])

Linked(landed, sent) ==
  \A l \in Link, v \in VC : InPipe(landed[To(l, v)], pipe[l], v, sent[To(l, v)])

\* A free output VC is between two packets; one that is held has got what its
\* holder sent.
Fed(left, sent) ==
  \A l \in Link, v \in VC :
    /\ outMod[l[1]][l[2]][v] = "I" => Ended(sent[To(l, v)])
    /\ \A x \in Holders(l[1], l[2], v) : Same(left[<<l[1], x[1], x[2]>>], sent[To(l, v)])

\* The same of VCs that NIs write to.
Written(landed) ==
  /\ \A d \in NI, v \in VC : vcFree[d][v] => Ended(landed[<<d[1], d[2], v>>])
  /\ \A i \in NIinProcs :
       LET cur == niCur[i]
           last == landed[<<i[2], i[3], cur.vc>>]
       IN  /\ cur.vc = INVALID_VC => cur.n = 0
           /\ cur.vc # INVALID_VC =>
                /\ ~ vcFree[NIof(i)][cur.vc]
                /\ \A j \in NIinProcs : NIof(j) = NIof(i) /\ niCur[j].vc = cur.vc => j = i
                /\ IF cur.n = 0 THEN Ended(last) ELSE last = [p |-> cur.p, n |-> cur.n]

Whole(left, landed, sent) ==
  Stored(left, landed) /\ Linked(landed, sent) /\ Fed(left, sent) /\ Written(landed)

\* The inductive invariant: there is such a past.
PacketInv == \E left, landed, sent \in Past : Whole(left, landed, sent)

-----------------------------------------------------------------------------
(* Lists of flits. *)

LEMMA SameAfter ==
  ASSUME NEW a, NEW b, NEW f, Same(a, b), After(a, f)
  PROVE  After(b, f)
BY DEF Same, After

LEMMA BufferGrows ==
  ASSUME NEW a, NEW b, NEW q \in Seq(Flit), NEW f \in Flit, InBuffer(a, q, b), After(b, f)
  PROVE  InBuffer(a, Append(q, f), f)
<1> DEFINE t == Append(q, f)
           n == Len(q)
<1>1. /\ n \in Nat /\ Len(t) = n + 1 /\ t # <<>> /\ t[n + 1] = f
      /\ \A k \in 1 .. n : t[k] = q[k]
      /\ q = <<>> <=> n = 0
  OBVIOUS
<1>2. /\ n = 0 => a = b
      /\ n # 0 => After(a, q[1]) /\ b = q[n]
      /\ \A k \in 1 .. n - 1 : After(q[k], q[k + 1])
  BY <1>1 DEF InBuffer
<1> HIDE DEF t, n
<1>3. After(a, t[1])
  BY <1>1, <1>2
<1>4. \A k \in 1 .. n : After(t[k], t[k + 1])
  BY <1>1, <1>2
<1> QED
  BY <1>1, <1>3, <1>4 DEF InBuffer, t

LEMMA BufferShrinks ==
  ASSUME NEW a, NEW b, NEW q \in Seq(Flit), q # <<>>, InBuffer(a, q, b)
  PROVE  After(a, Head(q)) /\ InBuffer(Head(q), Tail(q), b)
<1> DEFINE t == Tail(q)
           n == Len(q)
<1>1. /\ n \in Nat \ {0} /\ Len(t) = n - 1 /\ Head(q) = q[1]
      /\ \A k \in 1 .. n - 1 : t[k] = q[k + 1]
      /\ t \in Seq(Flit)
  OBVIOUS
<1>6. \A x \in Seq(Flit) : x = <<>> <=> Len(x) = 0
  BY EmptySeq
<1>5. t = <<>> <=> n = 1
  <2> HIDE DEF t, n
  <2> QED
    BY <1>1, <1>6
<1>2. /\ After(a, q[1]) /\ b = q[n]
      /\ \A k \in 1 .. n - 1 : After(q[k], q[k + 1])
  BY DEF InBuffer
<1> HIDE DEF t, n
<1>3. n # 1 => After(q[1], t[1]) /\ b = t[n - 1]
  BY <1>1, <1>2
<1>4. \A k \in 1 .. n - 2 : After(t[k], t[k + 1])
  BY <1>1, <1>2
<1> QED
  BY <1>1, <1>2, <1>3, <1>4, <1>5 DEF InBuffer, t

LEMMA LinkGrows ==
  ASSUME NEW a, NEW b, NEW v, NEW s \in Seq(InFlight), NEW e \in InFlight, InPipe(a, s, v, b)
  PROVE  /\ e.vc # v => InPipe(a, Append(s, e), v, b)
         /\ e.vc = v /\ After(b, e.f) => InPipe(a, Append(s, e), v, e.f)
<1> DEFINE t == Append(s, e)
           n == Len(s)
<1>1. /\ n \in Nat /\ Len(t) = n + 1 /\ t[n + 1] = e
      /\ \A k \in 1 .. n : t[k] = s[k]
  OBVIOUS
<1> DEFINE c == IF e.vc = v THEN e.f ELSE b
<1> SUFFICES ASSUME e.vc = v => After(b, e.f)
             PROVE  InPipe(a, t, v, c)
  OBVIOUS
<1>2. /\ \A k \in 1 .. n : s[k].vc = v /\ (\A j \in 1 .. k - 1 : s[j].vc # v) => After(a, s[k].f)
      /\ \A j, k \in 1 .. n :
           j < k /\ s[j].vc = v /\ s[k].vc = v /\ (\A m \in j + 1 .. k - 1 : s[m].vc # v) =>
             After(s[j].f, s[k].f)
      /\ \A k \in 1 .. n : s[k].vc = v /\ (\A m \in k + 1 .. n : s[m].vc # v) => b = s[k].f
      /\ (\A k \in 1 .. n : s[k].vc # v) => a = b
  BY DEF InPipe
<1> HIDE DEF t, n
<1>3. ASSUME NEW k \in 1 .. n + 1, t[k].vc = v, \A j \in 1 .. k - 1 : t[j].vc # v
      PROVE  After(a, t[k].f)
  <2>1. CASE k \in 1 .. n
    BY <1>1, <1>2, <1>3, <2>1
  <2>2. CASE k = n + 1
    <3>1. \A j \in 1 .. n : s[j].vc # v
      BY <1>1, <1>3, <2>2
    <3> QED
      BY <1>1, <1>2, <1>3, <2>2, <3>1
  <2> QED
    BY <1>1, <2>1, <2>2
<1>4. ASSUME NEW j \in 1 .. n + 1, NEW k \in 1 .. n + 1, j < k, t[j].vc = v, t[k].vc = v,
             \A m \in j + 1 .. k - 1 : t[m].vc # v
      PROVE  After(t[j].f, t[k].f)
  <2>1. CASE k \in 1 .. n
    <3>1. j \in 1 .. n /\ \A m \in j + 1 .. k - 1 : m \in 1 .. n
      BY <1>1, <1>4, <2>1
    <3> QED
      BY <1>1, <1>2, <1>4, <2>1, <3>1, SMTT(30)
  <2>2. CASE k = n + 1
    <3>1. j \in 1 .. n /\ \A m \in j + 1 .. n : m \in 1 .. n
      BY <1>1, <1>4, <2>2
    <3>2. \A m \in j + 1 .. n : s[m].vc # v
      BY <1>1, <1>4, <2>2, <3>1
    <3>3. b = s[j].f
      BY <1>1, <1>2, <1>4, <3>1, <3>2
    <3> QED
      BY <1>1, <1>4, <2>2, <3>1, <3>3
  <2> QED
    BY <1>1, <2>1, <2>2
<1>5. ASSUME NEW k \in 1 .. n + 1, t[k].vc = v, \A m \in k + 1 .. n + 1 : t[m].vc # v
      PROVE  c = t[k].f
  <2>1. CASE k \in 1 .. n
    <3>1. n + 1 \in k + 1 .. n + 1 /\ \A m \in k + 1 .. n : m \in k + 1 .. n + 1 /\ m \in 1 .. n
      BY <1>1, <2>1
    <3>2. e.vc # v /\ \A m \in k + 1 .. n : s[m].vc # v
      BY <1>1, <1>5, <3>1
    <3> QED
      BY <1>1, <1>2, <1>5, <2>1, <3>2
  <2>2. CASE k = n + 1
    BY <1>1, <1>5, <2>2
  <2> QED
    BY <1>1, <2>1, <2>2
<1>6. ASSUME \A k \in 1 .. n + 1 : t[k].vc # v
      PROVE  a = c
  <2>1. n + 1 \in 1 .. n + 1 /\ \A k \in 1 .. n : k \in 1 .. n + 1
    BY <1>1
  <2>2. e.vc # v /\ \A k \in 1 .. n : s[k].vc # v
    BY <1>1, <1>6, <2>1
  <2> QED
    BY <1>2, <2>2
<1> HIDE DEF c
<1> QED
  BY <1>1, <1>3, <1>4, <1>5, <1>6 DEF InPipe

LEMMA LinkShrinks ==
  ASSUME NEW a, NEW b, NEW v, NEW s \in Seq(InFlight), s # <<>>, InPipe(a, s, v, b)
  PROVE  /\ Head(s).vc # v => InPipe(a, Tail(s), v, b)
         /\ Head(s).vc = v => After(a, Head(s).f) /\ InPipe(Head(s).f, Tail(s), v, b)
<1> DEFINE t == Tail(s)
           n == Len(s)
<1>1. /\ n \in Nat \ {0} /\ Len(t) = n - 1 /\ Head(s) = s[1]
      /\ \A k \in 1 .. n - 1 : t[k] = s[k + 1]
  OBVIOUS
<1> DEFINE c == IF s[1].vc = v THEN s[1].f ELSE a
<1>2. /\ \A k \in 1 .. n : s[k].vc = v /\ (\A j \in 1 .. k - 1 : s[j].vc # v) => After(a, s[k].f)
      /\ \A j, k \in 1 .. n :
           j < k /\ s[j].vc = v /\ s[k].vc = v /\ (\A m \in j + 1 .. k - 1 : s[m].vc # v) =>
             After(s[j].f, s[k].f)
      /\ \A k \in 1 .. n : s[k].vc = v /\ (\A m \in k + 1 .. n : s[m].vc # v) => b = s[k].f
      /\ (\A k \in 1 .. n : s[k].vc # v) => a = b
  BY DEF InPipe
<1> HIDE DEF t, n
<1>3. s[1].vc = v => After(a, s[1].f)
  <2>1. 1 \in 1 .. n /\ \A j \in 1 .. 1 - 1 : s[j].vc # v
    BY <1>1
  <2> QED
    BY <1>2, <2>1
<1>4. ASSUME NEW k \in 1 .. n - 1, t[k].vc = v, \A j \in 1 .. k - 1 : t[j].vc # v
      PROVE  After(c, t[k].f)
  <2>1. k + 1 \in 1 .. n /\ 1 \in 1 .. n /\ 1 < k + 1 /\ t[k] = s[k + 1]
    BY <1>1
  <2>2. \A m \in 1 + 1 .. (k + 1) - 1 : s[m].vc # v
    <3> SUFFICES ASSUME NEW m \in 1 + 1 .. (k + 1) - 1
                 PROVE  s[m].vc # v
      OBVIOUS
    <3>1. m - 1 \in 1 .. k - 1 /\ m - 1 \in 1 .. n - 1 /\ (m - 1) + 1 = m
      BY <1>1
    <3>2. t[m - 1] = s[m]
      BY <1>1, <3>1
    <3> QED
      BY <1>4, <3>1, <3>2
  <2>3. CASE s[1].vc = v
    BY <1>2, <1>4, <2>1, <2>2, <2>3
  <2>4. CASE s[1].vc # v
    <3>1. \A j \in 1 .. (k + 1) - 1 : s[j].vc # v
      <4> SUFFICES ASSUME NEW j \in 1 .. (k + 1) - 1
                   PROVE  s[j].vc # v
        OBVIOUS
      <4>1. j = 1 \/ j \in 1 + 1 .. (k + 1) - 1
        OBVIOUS
      <4> QED
        BY <2>2, <2>4, <4>1
    <3> QED
      BY <1>2, <1>4, <2>1, <2>4, <3>1
  <2> QED
    BY <2>3, <2>4
<1>5. ASSUME NEW j \in 1 .. n - 1, NEW k \in 1 .. n - 1, j < k, t[j].vc = v, t[k].vc = v,
             \A m \in j + 1 .. k - 1 : t[m].vc # v
      PROVE  After(t[j].f, t[k].f)
  <2>1. /\ j + 1 \in 1 .. n /\ k + 1 \in 1 .. n /\ j + 1 < k + 1
        /\ t[j] = s[j + 1] /\ t[k] = s[k + 1]
    BY <1>1, <1>5
  <2>2. ASSUME NEW m \in (j + 1) + 1 .. (k + 1) - 1
        PROVE  s[m].vc # v
    <3>1. m - 1 \in j + 1 .. k - 1 /\ m - 1 \in 1 .. n - 1 /\ (m - 1) + 1 = m
      BY <1>1
    <3>2. t[m - 1] = s[m]
      BY <1>1, <3>1
    <3> QED
      BY <1>5, <3>1, <3>2
  <2> QED
    BY <1>2, <1>5, <2>1, <2>2
<1>6. ASSUME NEW k \in 1 .. n - 1, t[k].vc = v, \A m \in k + 1 .. n - 1 : t[m].vc # v
      PROVE  b = t[k].f
  <2>1. k + 1 \in 1 .. n /\ t[k] = s[k + 1]
    BY <1>1
  <2>2. ASSUME NEW m \in (k + 1) + 1 .. n
        PROVE  s[m].vc # v
    <3>1. m - 1 \in k + 1 .. n - 1 /\ m - 1 \in 1 .. n - 1 /\ (m - 1) + 1 = m
      BY <1>1
    <3>2. t[m - 1] = s[m]
      BY <1>1, <3>1
    <3> QED
      BY <1>6, <3>1, <3>2
  <2> QED
    BY <1>2, <1>6, <2>1, <2>2
<1>7. ASSUME \A k \in 1 .. n - 1 : t[k].vc # v
      PROVE  c = b
  <2>1. ASSUME NEW m \in 1 + 1 .. n
        PROVE  s[m].vc # v
    <3>1. m - 1 \in 1 .. n - 1 /\ (m - 1) + 1 = m
      BY <1>1
    <3>2. t[m - 1] = s[m]
      BY <1>1, <3>1
    <3> QED
      BY <1>7, <3>1, <3>2
  <2>2. 1 \in 1 .. n /\ \A m \in 1 .. n : m = 1 \/ m \in 1 + 1 .. n
    BY <1>1
  <2> QED
    BY <1>2, <2>1, <2>2
<1>8. InPipe(c, t, v, b)
  <2> HIDE DEF c
  <2> QED
    BY <1>1, <1>4, <1>5, <1>6, <1>7 DEF InPipe
<1> QED
  BY <1>1, <1>3, <1>8 DEF t

\* The clock does not change which flits are on a link.
LEMMA LinkAges ==
  ASSUME NEW a, NEW b, NEW v, NEW s, NEW t, InPipe(a, s, v, b), Len(t) = Len(s),
         \A k \in 1 .. Len(s) : t[k].f = s[k].f /\ t[k].vc = s[k].vc,
         Len(s) \in Nat
  PROVE  InPipe(a, t, v, b)
<1>1. ASSUME NEW j \in 1 .. Len(s), NEW k \in 1 .. Len(s), j < k, t[j].vc = v, t[k].vc = v,
             \A m \in j + 1 .. k - 1 : t[m].vc # v
      PROVE  After(t[j].f, t[k].f)
  <2>1. \A m \in j + 1 .. k - 1 : s[m].vc # v
    BY <1>1, SMTT(30)
  <2> QED
    BY <1>1, <2>1, ZenonT(60) DEF InPipe
<1>2. ASSUME NEW k \in 1 .. Len(s), t[k].vc = v, \A j \in 1 .. k - 1 : t[j].vc # v
      PROVE  After(a, t[k].f)
  <2>1. \A j \in 1 .. k - 1 : s[j].vc # v
    BY <1>2
  <2> QED
    BY <1>2, <2>1 DEF InPipe
<1>3. ASSUME NEW k \in 1 .. Len(s), t[k].vc = v, \A m \in k + 1 .. Len(s) : t[m].vc # v
      PROVE  b = t[k].f
  <2>1. \A m \in k + 1 .. Len(s) : s[m].vc # v
    BY <1>3
  <2> QED
    BY <1>3, <2>1 DEF InPipe
<1>4. (\A k \in 1 .. Len(s) : t[k].vc # v) => a = b
  BY DEF InPipe
<1> QED
  BY <1>1, <1>2, <1>3, <1>4 DEF InPipe

-----------------------------------------------------------------------------
(* Every step keeps the packets whole: first those that move no flit. *)

\* What does not send a flit keeps what output VCs have got.
LEMMA FedKept ==
  ASSUME NEW left, NEW landed, NEW sent, Stored(left, landed), Fed(left, sent),
         \A l \in Link, v \in VC : outMod'[l[1]][l[2]][v] = "I" => outMod[l[1]][l[2]][v] = "I",
         \A l \in Link, v \in VC : \A x \in Holders(l[1], l[2], v)' :
           \/ x \in Holders(l[1], l[2], v)
           \/ outMod[l[1]][l[2]][v] = "I" /\ inMod[l[1]][x[1]][x[2]].st \in {"I", "R", "V"}
  PROVE  Fed(left, sent)'
<1> SUFFICES ASSUME NEW l \in Link, NEW v \in VC
             PROVE  /\ outMod'[l[1]][l[2]][v] = "I" => Ended(sent[To(l, v)])
                    /\ \A x \in Holders(l[1], l[2], v)' :
                         Same(left[<<l[1], x[1], x[2]>>], sent[To(l, v)])
  BY Zenon DEF Fed, To
<1>1. outMod'[l[1]][l[2]][v] = "I" => Ended(sent[To(l, v)])
  BY SMTT(30) DEF Fed
<1>2. ASSUME NEW x \in Holders(l[1], l[2], v)'
      PROVE  Same(left[<<l[1], x[1], x[2]>>], sent[To(l, v)])
  <2>1. CASE x \in Holders(l[1], l[2], v)
    BY <2>1 DEF Fed
  <2>2. CASE outMod[l[1]][l[2]][v] = "I" /\ inMod[l[1]][x[1]][x[2]].st \in {"I", "R", "V"}
    <3>1. x[1] \in PC /\ x[2] \in VC
      BY <1>2, ZenonT(60) DEF Holders
    <3>4. l[1] \in Router
      BY NetworkAssumption
    <3>2. Ended(left[<<l[1], x[1], x[2]>>])
      BY <2>2, <3>1, <3>4, ZenonT(60) DEF Stored
    <3>3. Ended(sent[To(l, v)])
      BY <2>2, ZenonT(60) DEF Fed
    <3> QED
      BY <3>2, <3>3 DEF Same
  <2> QED
    BY <1>2, <2>1, <2>2, SMTT(30)
<1> QED
  BY <1>1, <1>2, Zenon

LEMMA WholeKept ==
  ASSUME PacketInv, UNCHANGED <<flitQ, pipe, vcFree, niCur>>,
         \A r \in Router, pc \in PC, vc \in VC :
           inMod'[r][pc][vc].st \in {"I", "R", "V"} => inMod[r][pc][vc].st \in {"I", "R", "V"},
         \A l \in Link, v \in VC : outMod'[l[1]][l[2]][v] = "I" => outMod[l[1]][l[2]][v] = "I",
         \A l \in Link, v \in VC : \A x \in Holders(l[1], l[2], v)' :
           \/ x \in Holders(l[1], l[2], v)
           \/ outMod[l[1]][l[2]][v] = "I" /\ inMod[l[1]][x[1]][x[2]].st \in {"I", "R", "V"}
  PROVE  PacketInv'
<1>1. PICK left \in Past, landed \in Past, sent \in Past : Whole(left, landed, sent)
  BY DEF PacketInv
<1>2. Stored(left, landed)'
  BY <1>1, Zenon DEF Whole, Stored
<1>3. Linked(landed, sent)'
  BY <1>1 DEF Whole, Linked, To
<1>4. Fed(left, sent)'
  BY <1>1, FedKept, ZenonT(60) DEF Whole
<1>5. Written(landed)'
  BY <1>1 DEF Whole, Written
<1>6. Whole(left, landed, sent)'
  BY <1>2, <1>3, <1>4, <1>5, ZenonT(60) DEF Whole
<1> QED
  BY <1>6, ZenonT(60) DEF PacketInv, Past, Flit

\* Input VCs that hold an output VC keep it, and output VCs are not freed.
LEMMA HoldingKeeps ==
  ASSUME TypeOK, PacketInv, VCExclusive, VCExclusive', UNCHANGED <<flitQ, pipe, vcFree, niCur>>,
         \A q \in Router, pc \in PC, vc \in VC :
           /\ inMod[q][pc][vc].st = "V" =>
                /\ inMod'[q][pc][vc].st \in {"V", "S"}
                /\ inMod'[q][pc][vc].pc = inMod[q][pc][vc].pc
                /\ inMod'[q][pc][vc].vc = inMod[q][pc][vc].vc
           /\ inMod[q][pc][vc].st = "S" => inMod'[q][pc][vc] = inMod[q][pc][vc],
         \A l \in Link, v \in VC : outMod'[l[1]][l[2]][v] = "I" => outMod[l[1]][l[2]][v] = "I"
  PROVE  PacketInv'
<1>1. \A q \in Router, pc \in PC, vc \in VC :
        /\ inMod[q][pc][vc].st \in {"I", "R", "V", "S"}
        /\ outMod[q][pc][vc] \in {"I", "V"}
  BY DEF TypeOK, ControlOK, Mod
<1>2. \A r \in Router, pc \in PC, vc \in VC :
        inMod'[r][pc][vc].st \in {"I", "R", "V"} => inMod[r][pc][vc].st \in {"I", "R", "V"}
  BY <1>1, SMTT(30)
<1>3. ASSUME NEW l \in Link, NEW v \in VC, NEW x \in Holders(l[1], l[2], v)',
             x \notin Holders(l[1], l[2], v)
      PROVE  outMod[l[1]][l[2]][v] = "I" /\ inMod[l[1]][x[1]][x[2]].st \in {"I", "R", "V"}
  <2>1. l[1] \in Router /\ l[2] \in PC
    BY NetworkAssumption
  <2>2. /\ x \in PC \X VC /\ x[1] \in PC /\ x[2] \in VC
        /\ inMod'[l[1]][x[1]][x[2]].pc = l[2] /\ inMod'[l[1]][x[1]][x[2]].vc = v
    BY <1>3, ZenonT(60) DEF Holders
  <2>3. inMod[l[1]][x[1]][x[2]].st \notin {"V", "S"}
    <3> SUFFICES ASSUME inMod[l[1]][x[1]][x[2]].st \in {"V", "S"}
                 PROVE  FALSE
      BY SMTT(30)
    <3>1. inMod[l[1]][x[1]][x[2]].pc = l[2] /\ inMod[l[1]][x[1]][x[2]].vc = v
      BY <2>1, <2>2, SMTT(30)
    <3>2. x \in Holders(l[1], l[2], v)
      BY <2>2, <3>1, Zenon DEF Holders
    <3> QED
      BY <1>3, <3>2, Zenon
  <2>4. ASSUME NEW z \in Holders(l[1], l[2], v)
        PROVE  z \in Holders(l[1], l[2], v)'
    <3>1. /\ z \in PC \X VC /\ z[1] \in PC /\ z[2] \in VC
          /\ inMod[l[1]][z[1]][z[2]].st \in {"V", "S"}
          /\ inMod[l[1]][z[1]][z[2]].pc = l[2] /\ inMod[l[1]][z[1]][z[2]].vc = v
      BY <2>4, ZenonT(60) DEF Holders
    <3>2. /\ inMod'[l[1]][z[1]][z[2]].st \in {"V", "S"}
          /\ inMod'[l[1]][z[1]][z[2]].pc = l[2] /\ inMod'[l[1]][z[1]][z[2]].vc = v
      BY <2>1, <3>1, SMTT(30)
    <3> QED
      BY <3>1, <3>2, ZenonT(60) DEF Holders
  <2>5. \A z \in Holders(l[1], l[2], v)' : z = x
    BY <1>3, <2>1 DEF VCExclusive
  <2>6. Holders(l[1], l[2], v) = {}
    BY <1>3, <2>4, <2>5
  <2>7. outMod[l[1]][l[2]][v] # "V"
    BY <2>1, <2>6 DEF VCExclusive
  <2> QED
    BY <1>1, <2>1, <2>2, <2>3, <2>7
<1> QED
  BY <1>2, <1>3, WholeKept, ZenonT(60)

\* A switch arbitration changes no more than the state of VCs that hold another.
LEMMA GrantedModes ==
  ASSUME TypeOK, NEW r \in Router, NEW req, NEW cand, NEW n, Allocate(r, req, cand, n),
         NEW q \in Router, NEW pc \in PC, NEW vc \in VC
  PROVE  inMod'[q][pc][vc] \in {inMod[q][pc][vc], [inMod[q][pc][vc] EXCEPT !.st = "S"]}
<1> DEFINE vcs(i) == {w \in VC : cand[i][w]}
           ports == {i \in PC : vcs(i) # {}}
           sel(i) == V1Select(v1[r][n][i], vcs(i))
           mod(i) == inMod[r][i][sel(i)]
           eligible == {i \in ports : CanGo(r, i, mod(i))}
           outs == {mod(i).pc : i \in eligible}
           winner(o) == P1Select(p1[r][n][o], {i \in eligible : mod(i).pc = o})
           granted == {winner(o) : o \in outs}
           goes(i, w) == i \in granted /\ w = sel(i) /\ isHead(Head(flitQ[r][i][w]))
           m(i, w) == IF goes(i, w) THEN [inMod[r][i][w] EXCEPT !.st = "S"] ELSE inMod[r][i][w]
           mods == [i \in PC |-> [w \in VC |-> m(i, w)]]
<1>1. inMod' = [inMod EXCEPT ![r] = mods]
  BY Zenon DEF Allocate
<1>2. inMod \in [Router -> [PC -> [VC -> Mod]]]
  BY DEF TypeOK, ControlOK
<1>3. m(pc, vc) \in {inMod[r][pc][vc], [inMod[r][pc][vc] EXCEPT !.st = "S"]}
  <2> HIDE DEF goes
  <2> QED
    OBVIOUS
<1> HIDE DEF m
<1>4. mods[pc][vc] = m(pc, vc)
  OBVIOUS
<1> HIDE DEF mods
<1>5. inMod'[q] = IF q = r THEN mods ELSE inMod[q]
  BY <1>1, <1>2
<1> QED
  BY <1>3, <1>4, <1>5

LEMMA ArbitrationKeepsWhole ==
  ASSUME TypeOK, ControlInv, ControlInv', PacketInv, NEW r \in Router, StageSA(r) \/ StageSSA(r)
  PROVE  PacketInv'
<1>1. UNCHANGED <<flitQ, pipe, vcFree, niCur, outMod>>
  BY DEF StageSA, StageSSA, bufVars, niInVars
<1>2. \E req, cand, n : Allocate(r, req, cand, n)
  BY DEF StageSA, StageSSA
<1>3. ASSUME NEW q \in Router, NEW pc \in PC, NEW vc \in VC
      PROVE  /\ inMod[q][pc][vc].st = "V" =>
                  /\ inMod'[q][pc][vc].st \in {"V", "S"}
                  /\ inMod'[q][pc][vc].pc = inMod[q][pc][vc].pc
                  /\ inMod'[q][pc][vc].vc = inMod[q][pc][vc].vc
             /\ inMod[q][pc][vc].st = "S" => inMod'[q][pc][vc] = inMod[q][pc][vc]
  <2>1. inMod'[q][pc][vc] \in {inMod[q][pc][vc], [inMod[q][pc][vc] EXCEPT !.st = "S"]}
    BY <1>2, GrantedModes, Zenon
  <2>2. inMod[q][pc][vc] \in Mod
    BY DEF TypeOK, ControlOK
  <2> QED
    BY <2>1, <2>2 DEF Mod
<1> QED
  BY <1>1, <1>3, HoldingKeeps DEF ControlInv

LEMMA RoutingKeepsWhole ==
  ASSUME TypeOK, ControlInv, ControlInv', PacketInv, NEW r \in Router, StageRC(r)
  PROVE  PacketInv'
<1> DEFINE front(x) == Head(flitQ[r][x[1]][x[2]])
           routable == {x \in PC \X VC :
                          /\ inMod[r][x[1]][x[2]].st = "I"
                          /\ flitQ[r][x[1]][x[2]] # <<>>
                          /\ isHead(front(x))
                          /\ front(x).p \notin fresh}
           out(x) == SelectOutPC[r][Dst[front(x).p]]
           mod(pc, vc) == IF <<pc, vc>> \in routable
                          THEN [inMod[r][pc][vc] EXCEPT !.st = "R", !.pc = out(<<pc, vc>>)]
                          ELSE inMod[r][pc][vc]
           mods == [pc \in PC |-> [vc \in VC |-> mod(pc, vc)]]
<1>1. inMod' = [inMod EXCEPT ![r] = mods]
  BY Zenon DEF StageRC
<1>2. UNCHANGED <<flitQ, pipe, vcFree, niCur, outMod>>
  BY Zenon DEF StageRC, bufVars, niInVars
<1>3. inMod \in [Router -> [PC -> [VC -> Mod]]]
  BY DEF TypeOK, ControlOK
<1>4. ASSUME NEW pc \in PC, NEW vc \in VC, inMod[r][pc][vc].st # "I"
      PROVE  mods[pc][vc] = inMod[r][pc][vc]
  <2>1. <<pc, vc>> \notin routable
    BY <1>4
  <2> HIDE DEF routable
  <2> QED
    BY <2>1
<1> HIDE DEF mods
<1>5. \A q \in Router : inMod'[q] = IF q = r THEN mods ELSE inMod[q]
  BY <1>1, <1>3
<1>6. ASSUME NEW q \in Router, NEW pc \in PC, NEW vc \in VC, inMod[q][pc][vc].st # "I"
      PROVE  inMod'[q][pc][vc] = inMod[q][pc][vc]
  BY <1>4, <1>5, <1>6
<1> QED
  BY <1>2, <1>6, HoldingKeeps DEF ControlInv

LEMMA AllocationKeepsWhole ==
  ASSUME TypeOK, ControlInv, ControlInv', PacketInv, NEW r \in Router, StageVA(r)
  PROVE  PacketInv'
<1> DEFINE served == {k \in DOMAIN vaQ[r] : FreeVCs(r, vaQ[r][k]) # {}}
           k == CHOOSE n \in served : \A m \in served : n <= m
           x == vaQ[r][k]
           out == inMod[r][x[1]][x[2]].pc
           vc == CHOOSE v \in FreeVCs(r, x) : \A w \in FreeVCs(r, x) : v <= w
<1>1. UNCHANGED <<flitQ, pipe, vcFree, niCur>>
  BY Zenon DEF StageVA, bufVars, niInVars
<1>2. inMod \in [Router -> [PC -> [VC -> Mod]]] /\ outMod \in [Router -> [PC -> [VC -> {"I", "V"}]]]
  BY DEF TypeOK, ControlOK
<1>3. ASSUME NEW q \in Router, NEW pc \in PC, NEW w \in VC, inMod[q][pc][w].st # "R"
      PROVE  inMod'[q][pc][w] = inMod[q][pc][w]
  <2>1. CASE served = {}
    BY <2>1, Zenon DEF StageVA
  <2>2. CASE served # {}
    <3>1. inMod' = [inMod EXCEPT ![r][x[1]][x[2]].st = "V", ![r][x[1]][x[2]].vc = vc]
      BY <2>2, Zenon DEF StageVA
    <3>2. vaQ[r] \in Seq(PC \X VC) /\ DOMAIN vaQ[r] = 1 .. Len(vaQ[r])
      BY DEF TypeOK, ControlOK
    <3>3. k \in DOMAIN vaQ[r]
      <4>1. served \in SUBSET Nat
        BY <3>2
      <4>2. \E n \in served : \A m \in served : n <= m
        BY <2>2, <4>1, LeastExists
      <4>3. k \in served
        BY <4>2, ZenonT(60)
      <4> QED
        BY <4>3
    <3> HIDE DEF k
    <3>4. x \in PC \X VC /\ inMod[r][x[1]][x[2]].st = "R"
      BY <3>2, <3>3 DEF ControlInv, QueuedOnce
    <3> HIDE DEF vc, out, x, served
    <3> DEFINE e == [inMod[r][x[1]][x[2]] EXCEPT !.st = "V"]
               g == [inMod EXCEPT ![r][x[1]][x[2]] = e]
               h == [g[r][x[1]][x[2]] EXCEPT !.vc = vc]
    <3>5. inMod' = [g EXCEPT ![r][x[1]][x[2]] = h]
      BY <3>1, ZenonT(60)
    <3> HIDE DEF e, h
    <3>6. g[q][pc][w] = inMod[q][pc][w]
      BY <1>2, <1>3, <3>4
    <3> HIDE DEF g
    <3>7. inMod'[q][pc][w] = g[q][pc][w]
      <4>1. DOMAIN g = Router /\ DOMAIN g[r] = PC /\ DOMAIN g[r][x[1]] = VC
        BY <1>2, <3>4 DEF g
      <4>2. ~ (q = r /\ pc = x[1] /\ w = x[2])
        BY <1>3, <3>4
      <4> QED
        BY <3>5, <4>1, <4>2
    <3> QED
      BY <3>6, <3>7
  <2> QED
    BY <2>1, <2>2
<1>4. ASSUME NEW l \in Link, NEW v \in VC, outMod'[l[1]][l[2]][v] = "I"
      PROVE  outMod[l[1]][l[2]][v] = "I"
  <2>1. outMod' = outMod \/ outMod' = [outMod EXCEPT ![r][out][vc] = "V"]
    BY Zenon DEF StageVA
  <2>2. l[1] \in Router /\ l[2] \in PC
    BY NetworkAssumption
  <2> HIDE DEF out, vc
  <2>3. ASSUME outMod' = [outMod EXCEPT ![r][out][vc] = "V"]
        PROVE  outMod'[l[1]][l[2]][v] \in {outMod[l[1]][l[2]][v], "V"}
    <3>1. CASE l[1] = r /\ l[2] = out /\ v = vc
      BY <1>2, <2>2, <2>3, <3>1
    <3>2. CASE ~ (l[1] = r /\ l[2] = out /\ v = vc)
      BY <1>2, <2>2, <2>3, <3>2
    <3> QED
      BY <3>1, <3>2
  <2> QED
    BY <1>4, <2>1, <2>3
<1> QED
  BY <1>1, <1>3, <1>4, HoldingKeeps DEF ControlInv

-----------------------------------------------------------------------------
(* Steps that move flits. *)

\* Links lead to different input VCs, which no NI writes to.
LEMMA LinksApart ==
  ASSUME NEW l \in Link, NEW v \in VC
  PROVE  /\ To(l, v) \in Channel /\ Wire[l] = <<Wire[l][1], Wire[l][2]>>
         /\ To(l, v)[1] = Wire[l][1] /\ To(l, v)[2] = Wire[l][2] /\ To(l, v)[3] = v
         /\ Wire[l][1] \in Router /\ Wire[l][2] \in PC /\ Wire[l][2] \notin LocalPC
         /\ PrevLink(Wire[l][1], Wire[l][2]) = l
         /\ \A k \in Link, w \in VC : To(k, w) = To(l, v) => k = l /\ w = v
         /\ l[1] \in Router /\ l[2] \in PC /\ l = <<l[1], l[2]>>
<1>1. /\ Wire[l] = <<Wire[l][1], Wire[l][2]>> /\ Wire[l][1] \in Router /\ Wire[l][2] \in PC
      /\ Wire[l][2] \notin LocalPC
      /\ l[1] \in Router /\ l[2] \in PC /\ l = <<l[1], l[2]>>
  BY NetworkAssumption
<1>2. To(l, v) \in Channel
  BY <1>1 DEF To, Channel
<1>3. ASSUME NEW k \in Link, NEW w \in VC, To(k, w) = To(l, v)
      PROVE  k = l /\ w = v
  <2>1. Wire[k][1] = Wire[l][1] /\ Wire[k][2] = Wire[l][2] /\ w = v
    BY <1>3 DEF To
  <2>2. Wire[k] = <<Wire[k][1], Wire[k][2]>>
    BY NetworkAssumption
  <2>3. Wire[k] = Wire[l]
    BY <1>1, <2>1, <2>2
  <2> QED
    BY <2>1, <2>3, NetworkAssumption
<1>4. PrevLink(Wire[l][1], Wire[l][2]) = l
  <2>1. \A k \in Link : Wire[k] = Wire[l] => k = l
    BY NetworkAssumption
  <2> QED
    BY <1>1, <2>1 DEF PrevLink
<1> QED
  BY <1>1, <1>2, <1>3, <1>4 DEF To

LEMMA TraversalKeepsWhole ==
  ASSUME TypeOK, PacketInv, NEW r \in Router, StageLT(r)
  PROVE  PacketInv'
<1>1. PICK left \in Past, landed \in Past, sent \in Past : Whole(left, landed, sent)
  BY DEF PacketInv
<1> DEFINE Lands(l, x) == l \in Crossed(r) /\ Wire[l] = <<x[1], x[2]>> /\ Head(pipe[l]).vc = x[3]
           now(x) == IF \E l \in Link : Lands(l, x)
                     THEN Head(pipe[PrevLink(x[1], x[2])]).f ELSE landed[x]
           landed2 == [x \in Channel |-> now(x)]
<1>2. UNCHANGED <<inMod, outMod, vcFree, niCur>>
  BY ZenonT(60) DEF StageLT, ctlVars, niInVars
<1>3. pipe' = [l \in Link |-> IF l \in Crossed(r) THEN Tail(pipe[l]) ELSE pipe[l]]
  BY DEF StageLT
<1>4. ASSUME NEW l \in Crossed(r)
      PROVE  /\ l \in Link /\ pipe[l] # <<>> /\ pipe[l] \in Seq(InFlight)
             /\ Head(pipe[l]).f \in Flit /\ Head(pipe[l]).vc \in VC
  <2>1. l \in Link /\ pipe[l] # <<>> /\ pipe[l] \in Seq(InFlight)
    BY DEF Crossed, TypeOK, BuffersOK
  <2>2. Head(pipe[l]) \in InFlight
    BY <2>1
  <2> QED
    BY <2>1, <2>2 DEF InFlight
<1>5. ASSUME NEW l \in Link, NEW x \in Channel, Lands(l, x)
      PROVE  /\ landed2[x] = Head(pipe[l]).f /\ x = To(l, x[3]) /\ x[3] \in VC
             /\ l \in Crossed(r) /\ Wire[l] = <<x[1], x[2]>> /\ Head(pipe[l]).vc = x[3]
  <2>1. x = <<x[1], x[2], x[3]>> /\ x[3] \in VC
    BY DEF Channel
  <2>2. Wire[l][1] = x[1] /\ Wire[l][2] = x[2]
    BY <1>5
  <2>3. PrevLink(x[1], x[2]) = l
    BY <2>1, <2>2, LinksApart
  <2>4. now(x) = Head(pipe[l]).f
    BY <1>5, <2>3
  <2>5. x = To(l, x[3])
    BY <2>1, <2>2 DEF To
  <2> QED
    BY <1>5, <2>1, <2>4, <2>5
<1>6. ASSUME NEW x \in Channel, \A l \in Link : ~ Lands(l, x)
      PROVE  landed2[x] = landed[x]
  BY <1>6
<1>7. \A l \in Link, x \in Channel :
        Lands(l, x) <=> l \in Crossed(r) /\ Wire[l] = <<x[1], x[2]>> /\ Head(pipe[l]).vc = x[3]
  OBVIOUS
<1>8. landed2 \in Past
  <2>1. ASSUME NEW x \in Channel
        PROVE  now(x) \in Flit \cup {NoFlit}
    <3>1. landed2[x] = now(x)
      OBVIOUS
    <3> HIDE DEF now, landed2, Lands
    <3>2. CASE \A l \in Link : ~ Lands(l, x)
      BY <1>6, <3>1, <3>2 DEF Past
    <3>3. CASE \E l \in Link : Lands(l, x)
      BY <1>4, <1>5, <3>1, <3>3
    <3> QED
      BY <3>2, <3>3
  <2> HIDE DEF now
  <2> QED
    BY <2>1 DEF Past
<1> HIDE DEF now, landed2, Lands
<1>16. PICK past \in Past : past = landed2
  BY <1>8
<1>9. ASSUME NEW l \in Link, NEW v \in VC
      PROVE  /\ InPipe(landed2[To(l, v)], pipe'[l], v, sent[To(l, v)])
             /\ Lands(l, To(l, v)) => After(landed[To(l, v)], Head(pipe[l]).f)
  <2>1. InPipe(landed[To(l, v)], pipe[l], v, sent[To(l, v)])
    BY <1>1 DEF Whole, Linked
  <2>2. /\ To(l, v) \in Channel /\ To(l, v)[3] = v
        /\ Wire[l] = <<To(l, v)[1], To(l, v)[2]>>
    BY LinksApart
  <2>3. \A k \in Link : Lands(k, To(l, v)) => k = l
    BY <1>5, <2>2, LinksApart
  <2>4. CASE l \in Crossed(r)
    <3>1. pipe'[l] = Tail(pipe[l]) /\ pipe[l] # <<>> /\ pipe[l] \in Seq(InFlight)
      BY <1>3, <1>4, <2>4
    <3>2. CASE Head(pipe[l]).vc = v
      <4>1. Lands(l, To(l, v))
        BY <1>7, <2>2, <2>4, <3>2
      <4>2. landed2[To(l, v)] = Head(pipe[l]).f
        BY <1>5, <2>2, <4>1
      <4> QED
        BY <2>1, <3>1, <3>2, <4>2, LinkShrinks
    <3>3. CASE Head(pipe[l]).vc # v
      <4>1. \A k \in Link : ~ Lands(k, To(l, v))
        BY <1>7, <2>2, <2>3, <3>3
      <4>2. landed2[To(l, v)] = landed[To(l, v)]
        BY <1>6, <2>2, <4>1
      <4> QED
        BY <2>1, <3>1, <3>3, <4>1, <4>2, LinkShrinks
    <3> QED
      BY <3>2, <3>3
  <2>5. CASE l \notin Crossed(r)
    <3>1. \A k \in Link : ~ Lands(k, To(l, v))
      BY <1>7, <2>2, <2>3, <2>5
    <3>2. landed2[To(l, v)] = landed[To(l, v)]
      BY <1>6, <2>2, <3>1
    <3> QED
      BY <1>3, <2>1, <2>5, <3>1, <3>2
  <2> QED
    BY <2>4, <2>5
<1>10. Linked(past, sent)'
  BY <1>9, <1>16 DEF Linked, To
<1>11. Stored(left, past)'
  <2> SUFFICES ASSUME NEW q \in Router, NEW pc \in PC, NEW vc \in VC
               PROVE  /\ InBuffer(left[<<q, pc, vc>>], flitQ'[q][pc][vc], landed2[<<q, pc, vc>>])
                      /\ inMod'[q][pc][vc].st \in {"I", "R", "V"} => Ended(left[<<q, pc, vc>>])
    BY <1>16, Zenon DEF Stored
  <2> DEFINE x == <<q, pc, vc>>
             s == flitQ[q][pc][vc]
  <2>1. /\ InBuffer(left[x], s, landed[x]) /\ s \in Seq(Flit)
        /\ inMod'[q][pc][vc].st \in {"I", "R", "V"} => Ended(left[x])
    BY <1>1, <1>2 DEF Whole, Stored, TypeOK, BuffersOK
  <2>2. x \in Channel /\ x[1] = q /\ x[2] = pc /\ x[3] = vc
    BY DEF Channel
  <2>3. CASE \E l \in Link : Lands(l, x)
    <3>1. PICK l \in Link : Lands(l, x)
      BY <2>3
    <3>2. /\ landed2[x] = Head(pipe[l]).f /\ x = To(l, vc)
          /\ l \in Crossed(r) /\ Wire[l] = <<q, pc>> /\ Head(pipe[l]).vc = vc
      BY <1>5, <2>2, <3>1
    <3>3. After(landed[x], Head(pipe[l]).f)
      BY <1>9, <3>1, <3>2, SMTT(30)
    <3>4. flitQ'[q][pc][vc] = Append(s, Head(pipe[l]).f)
      BY <3>2, Landed
    <3>5. Head(pipe[l]).f \in Flit
      BY <1>4, <3>2
    <3> HIDE DEF x, s
    <3>6. InBuffer(left[x], Append(s, Head(pipe[l]).f), Head(pipe[l]).f)
      BY <2>1, <3>3, <3>5, BufferGrows
    <3> QED
      BY <2>1, <3>2, <3>4, <3>6 DEF x
  <2>4. CASE \A l \in Link : ~ Lands(l, x)
    <3>1. landed2[x] = landed[x]
      BY <1>6, <2>2, <2>4
    <3>2. \A l \in Crossed(r) : ~ (Wire[l] = <<q, pc>> /\ Head(pipe[l]).vc = vc)
      BY <1>4, <1>7, <2>2, <2>4
    <3>3. flitQ'[q][pc][vc] = s
      BY <3>2, Landed, Zenon
    <3> QED
      BY <2>1, <3>1, <3>3
  <2> QED
    BY <2>3, <2>4
<1>12. Fed(left, sent)'
  BY <1>1, <1>2, ZenonT(60) DEF Whole, Fed, Holders, To
<1>13. ASSUME NEW d \in NI, NEW v \in VC
       PROVE  landed2[<<d[1], d[2], v>>] = landed[<<d[1], d[2], v>>]
  <2> DEFINE x == <<d[1], d[2], v>>
  <2>1. x \in Channel /\ x[2] \in LocalPC
    BY Finite DEF NI, Channel
  <2>2. ASSUME NEW l \in Link, Lands(l, x)
        PROVE  FALSE
    <3>1. x = To(l, x[3]) /\ x[3] \in VC
      BY <1>5, <2>1, <2>2
    <3>2. Wire[l][2] \notin LocalPC /\ To(l, x[3])[2] = Wire[l][2]
      BY <3>1, LinksApart
    <3> HIDE DEF x
    <3> QED
      BY <2>1, <3>1, <3>2
  <2> QED
    BY <1>6, <2>1, <2>2
<1>14. Written(past)'
  <2>1. \A d \in NI, v \in VC : vcFree[d][v] => Ended(landed2[<<d[1], d[2], v>>])
    BY <1>1, <1>13 DEF Whole, Written
  <2>2. ASSUME NEW i \in NIinProcs, niCur[i].vc # INVALID_VC
        PROVE  landed2[<<i[2], i[3], niCur[i].vc>>] = landed[<<i[2], i[3], niCur[i].vc>>]
    <3>1. <<i[2], i[3]>> \in NI /\ niCur[i].vc \in VC
      BY <2>2 DEF NIinProcs, NI, TypeOK, InterfacesOK
    <3>2. <<i[2], i[3]>>[1] = i[2] /\ <<i[2], i[3]>>[2] = i[3]
      OBVIOUS
    <3> QED
      BY <1>13, <3>1, <3>2
  <2>3. ASSUME NEW i \in NIinProcs
        PROVE  LET cur == niCur[i]
                   last == landed2[<<i[2], i[3], cur.vc>>]
               IN  /\ cur.vc = INVALID_VC => cur.n = 0
                   /\ cur.vc # INVALID_VC =>
                        /\ ~ vcFree[NIof(i)][cur.vc]
                        /\ \A j \in NIinProcs : NIof(j) = NIof(i) /\ niCur[j].vc = cur.vc => j = i
                        /\ IF cur.n = 0 THEN Ended(last) ELSE last = [p |-> cur.p, n |-> cur.n]
    BY <1>1, <2>2 DEF Whole, Written
  <2> QED
    BY <1>2, <1>16, <2>1, <2>3 DEF Written
<1>15. Whole(left, past, sent)'
  BY <1>10, <1>11, <1>12, <1>14, SMTT(30) DEF Whole
<1> QED
  BY <1>15 DEF PacketInv, Past, Flit

\* What the switch's traversal does to VCs.
LEMMA Traversed ==
  ASSUME TypeOK, NEW r \in Router, StageST(r), NEW q \in Router, NEW pc \in PC, NEW vc \in VC
  PROVE  /\ flitQ'[q][pc][vc] = IF q = r /\ xbar[r][pc] = vc THEN Tail(flitQ[r][pc][vc])
                                 ELSE flitQ[q][pc][vc]
         /\ q = r /\ xbar[r][pc] = vc /\ isTail(Head(flitQ[r][pc][vc])) =>
              inMod'[q][pc][vc].st = "I"
         /\ ~ (q = r /\ xbar[r][pc] = vc /\ isTail(Head(flitQ[r][pc][vc]))) =>
              inMod'[q][pc][vc] = inMod[q][pc][vc]
         /\ outMod'[q][pc][vc] # outMod[q][pc][vc] =>
              /\ q = r
              /\ \E i \in PC : /\ xbar[r][i] # INVALID_VC
                              /\ inMod[r][i][xbar[r][i]].pc = pc /\ inMod[r][i][xbar[r][i]].vc = vc
                              /\ isTail(Head(flitQ[r][i][xbar[r][i]]))
<1> DEFINE movers == {i \in PC : xbar[r][i] # INVALID_VC}
           flit(i) == Head(flitQ[r][i][xbar[r][i]])
           mod(i) == inMod[r][i][xbar[r][i]]
           tails == {i \in movers : isTail(flit(i))}
           atRest == [st |-> "I", pc |-> INVALID_PC, vc |-> INVALID_VC]
<1>1. flitQ' = [flitQ EXCEPT ![r] = [i \in PC |-> [w \in VC |->
                  IF xbar[r][i] = w THEN Tail(@[i][w]) ELSE @[i][w]]]]
  BY Zenon DEF StageST
<1>2. inMod' = [inMod EXCEPT ![r] = [i \in PC |-> [w \in VC |->
                  IF i \in tails /\ xbar[r][i] = w THEN atRest ELSE @[i][w]]]]
  BY Zenon DEF StageST
<1>3. outMod' = [outMod EXCEPT ![r] = [o \in PC |-> [w \in VC |->
                   IF \E i \in tails : mod(i).pc = o /\ mod(i).vc = w
                   THEN "I" ELSE @[o][w]]]]
  BY Zenon DEF StageST
<1>4. /\ flitQ \in [Router -> [PC -> [VC -> Seq(Flit)]]]
      /\ inMod \in [Router -> [PC -> [VC -> Mod]]]
      /\ outMod \in [Router -> [PC -> [VC -> {"I", "V"}]]]
  BY DEF TypeOK, BuffersOK, ControlOK
<1>5. pc \in tails /\ xbar[r][pc] = vc <=> xbar[r][pc] = vc /\ isTail(Head(flitQ[r][pc][vc]))
  <2>1. vc # INVALID_VC
    BY DEF VC, INVALID_VC
  <2> QED
    BY <2>1
<1>6. flitQ'[q][pc][vc] = IF q = r /\ xbar[r][pc] = vc THEN Tail(flitQ[r][pc][vc])
                          ELSE flitQ[q][pc][vc]
  BY <1>1, <1>4
<1>7. inMod'[q][pc][vc] = IF q = r /\ (pc \in tails /\ xbar[r][pc] = vc) THEN atRest
                          ELSE inMod[q][pc][vc]
  <2> HIDE DEF tails, atRest
  <2> QED
    BY <1>2, <1>4
<1>8. outMod'[q][pc][vc] # outMod[q][pc][vc] =>
        q = r /\ \E i \in tails : mod(i).pc = pc /\ mod(i).vc = vc
  <2> DEFINE e(o, w) == IF \E i \in tails : mod(i).pc = o /\ mod(i).vc = w THEN "I" ELSE outMod[r][o][w]
  <2>1. outMod' = [outMod EXCEPT ![r] = [o \in PC |-> [w \in VC |-> e(o, w)]]]
    BY <1>3, Zenon
  <2>2. e(pc, vc) # outMod[r][pc][vc] => \E i \in tails : mod(i).pc = pc /\ mod(i).vc = vc
    BY Zenon
  <2> HIDE DEF e, tails, mod
  <2>3. outMod'[q][pc][vc] = IF q = r THEN e(pc, vc) ELSE outMod[q][pc][vc]
    BY <1>4, <2>1
  <2> QED
    BY <2>2, <2>3
<1> HIDE DEF movers, tails, mod
<1>9. q = r /\ xbar[r][pc] = vc /\ isTail(Head(flitQ[r][pc][vc])) => inMod'[q][pc][vc].st = "I"
  BY <1>5, <1>7
<1>10. ~ (q = r /\ xbar[r][pc] = vc /\ isTail(Head(flitQ[r][pc][vc]))) =>
         inMod'[q][pc][vc] = inMod[q][pc][vc]
  <2> HIDE DEF atRest
  <2> QED
    BY <1>5, <1>7, Zenon
<1>11. outMod'[q][pc][vc] # outMod[q][pc][vc] =>
         /\ q = r
         /\ \E i \in PC : /\ xbar[r][i] # INVALID_VC
                         /\ inMod[r][i][xbar[r][i]].pc = pc /\ inMod[r][i][xbar[r][i]].vc = vc
                         /\ isTail(Head(flitQ[r][i][xbar[r][i]]))
  BY <1>8, Zenon DEF movers, tails, mod
<1> QED
  BY <1>6, <1>9, <1>10, <1>11, Zenon

LEMMA SwitchKeepsWhole ==
  ASSUME TypeOK, ControlInv, ControlInv', PacketInv, NEW r \in Router, StageST(r)
  PROVE  PacketInv'
<1>1. PICK left \in Past, landed \in Past, sent \in Past : Whole(left, landed, sent)
  BY DEF PacketInv
<1> DEFINE mod(i) == inMod[r][i][xbar[r][i]]
           flit(i) == Head(flitQ[r][i][xbar[r][i]])
           Mover(i) == i \in PC /\ xbar[r][i] # INVALID_VC
           Transmits(i, l, v) == Mover(i) /\ l[1] = r /\ mod(i).pc = l[2] /\ mod(i).vc = v
           Gets(i, x) == \E l \in Link, v \in VC : Transmits(i, l, v) /\ x = To(l, v)
           left2 == [x \in Channel |-> IF x[1] = r /\ xbar[r][x[2]] = x[3]
                                       THEN Head(flitQ[r][x[2]][x[3]]) ELSE left[x]]
           sent2 == [x \in Channel |-> IF \E i \in PC : Gets(i, x)
                                       THEN flit(CHOOSE i \in PC : Gets(i, x)) ELSE sent[x]]
<1>2. UNCHANGED <<vcFree, niCur>>
  BY Zenon DEF StageST, niInVars
<1>3. ASSUME NEW i, Mover(i)
      PROVE  /\ i \in PC /\ xbar[r][i] \in VC /\ flitQ[r][i][xbar[r][i]] # <<>> /\ flit(i) \in Flit
             /\ mod(i).st = "S" /\ mod(i).pc \in PC /\ mod(i).vc \in VC
             /\ <<i, xbar[r][i]>> \in Holders(r, mod(i).pc, mod(i).vc)
  <2>1. /\ i \in PC /\ xbar[r][i] \in VC /\ flitQ[r][i][xbar[r][i]] # <<>> /\ flit(i) \in Flit
        /\ mod(i).st = "S" /\ mod(i).pc \in PC /\ mod(i).vc \in VC
    BY <1>3, Movers, ZenonT(60)
  <2> QED
    BY <2>1, ZenonT(60) DEF Holders
<1>4. ASSUME NEW i, NEW j, Mover(i), Mover(j), mod(i).pc = mod(j).pc
      PROVE  i = j
  <2>1. XbarReady
    BY Zenon DEF ControlInv
  <2> QED
    BY <1>4, <2>1 DEF XbarReady
<1>5. ASSUME NEW i, NEW l \in Link, NEW v \in VC, Transmits(i, l, v)
      PROVE  sent2[To(l, v)] = flit(i)
  <2>1. i \in PC /\ Gets(i, To(l, v)) /\ To(l, v) \in Channel
    BY <1>5, LinksApart
  <2>2. ASSUME NEW j \in PC, Gets(j, To(l, v))
        PROVE  j = i
    <3>1. PICK k \in Link, w \in VC : Transmits(j, k, w) /\ To(l, v) = To(k, w)
      BY <2>2
    <3>2. k = l /\ w = v
      BY <3>1, LinksApart
    <3> QED
      BY <1>4, <1>5, <3>1, <3>2, ZenonT(60)
  <2> HIDE DEF Gets, flit
  <2>3. (CHOOSE j \in PC : Gets(j, To(l, v))) = i
    BY <2>1, <2>2
  <2> QED
    BY <2>1, <2>3
<1>6. ASSUME NEW l \in Link, NEW v \in VC, \A i \in PC : ~ Transmits(i, l, v)
      PROVE  sent2[To(l, v)] = sent[To(l, v)]
  <2>1. To(l, v) \in Channel
    BY LinksApart
  <2>2. ASSUME NEW j \in PC, Gets(j, To(l, v))
        PROVE  FALSE
    <3>1. PICK k \in Link, w \in VC : Transmits(j, k, w) /\ To(l, v) = To(k, w)
      BY <2>2
    <3>2. k = l /\ w = v
      BY <3>1, LinksApart
    <3> QED
      BY <1>6, <3>1, <3>2
  <2> HIDE DEF Gets, flit
  <2> QED
    BY <2>1, <2>2
<1>7. sent2 \in Past
  <2>1. ASSUME NEW x \in Channel
        PROVE  sent2[x] \in Flit \cup {NoFlit}
    <3>1. CASE \E i \in PC : Gets(i, x)
      <4>1. PICK i \in PC, l \in Link, v \in VC : Transmits(i, l, v) /\ x = To(l, v)
        BY <3>1
      <4> HIDE DEF sent2, flit, mod, Mover
      <4>2. sent2[x] = flit(i)
        BY <1>5, <4>1, Zenon
      <4> QED
        BY <1>3, <4>1, <4>2, ZenonT(60)
    <3>2. CASE \A i \in PC : ~ Gets(i, x)
      <4> HIDE DEF Gets, flit
      <4>1. sent2[x] = sent[x]
        BY <3>2
      <4> HIDE DEF sent2
      <4> QED
        BY <4>1 DEF Past
    <3> QED
      BY <3>1, <3>2, Zenon
  <2> DEFINE e(x) == IF \E i \in PC : Gets(i, x) THEN flit(CHOOSE i \in PC : Gets(i, x)) ELSE sent[x]
  <2>2. sent2 = [x \in Channel |-> e(x)]
    OBVIOUS
  <2> HIDE DEF e, sent2
  <2> QED
    BY <2>1, <2>2 DEF Past
<1>8. left2 \in Past
  <2>1. ASSUME NEW x \in Channel, x[1] = r, xbar[r][x[2]] = x[3]
        PROVE  Head(flitQ[r][x[2]][x[3]]) \in Flit
    <3>1. x[2] \in PC /\ x[3] \in VC
      BY DEF Channel
    <3>2. Mover(x[2])
      BY <2>1, <3>1 DEF VC, INVALID_VC
    <3> QED
      BY <1>3, <2>1, <3>2, Zenon
  <2> QED
    BY <2>1 DEF Past
<1>9. \A q \in Router, pc \in PC, vc \in VC :
        left2[<<q, pc, vc>>] = IF q = r /\ xbar[r][pc] = vc THEN Head(flitQ[r][pc][vc])
                               ELSE left[<<q, pc, vc>>]
  BY DEF Channel
<1>10. ASSUME NEW pc \in PC, NEW vc \in VC, xbar[r][pc] = vc
       PROVE  Mover(pc)
  BY <1>10 DEF VC, INVALID_VC
<1> HIDE DEF left2, sent2
<1>11. PICK lft \in Past, snt \in Past : lft = left2 /\ snt = sent2
  BY <1>7, <1>8
<1>12. Stored(lft, landed)'
  <2> SUFFICES ASSUME NEW q \in Router, NEW pc \in PC, NEW vc \in VC
               PROVE  /\ InBuffer(lft[<<q, pc, vc>>], flitQ'[q][pc][vc], landed[<<q, pc, vc>>])
                      /\ inMod'[q][pc][vc].st \in {"I", "R", "V"} => Ended(lft[<<q, pc, vc>>])
    BY Zenon DEF Stored
  <2> DEFINE s == flitQ[q][pc][vc]
             x == <<q, pc, vc>>
  <2>1. /\ InBuffer(left[x], s, landed[x]) /\ s \in Seq(Flit)
        /\ inMod[q][pc][vc].st \in {"I", "R", "V"} => Ended(left[x])
    BY <1>1 DEF Whole, Stored, TypeOK, BuffersOK
  <2>2. CASE q = r /\ xbar[r][pc] = vc
    <3>1. Mover(pc) /\ s # <<>> /\ mod(pc).st = "S" /\ mod(pc) = inMod[q][pc][vc]
      BY <1>3, <1>10, <2>2
    <3>2. flitQ'[q][pc][vc] = Tail(s)
      BY <2>2, Traversed
    <3>3. lft[x] = Head(s)
      BY <1>9, <1>11, <2>2
    <3>4. InBuffer(Head(s), Tail(s), landed[x])
      BY <2>1, <3>1, BufferShrinks, SMTT(30)
    <3>5. isTail(Head(s)) \/ inMod'[q][pc][vc] = inMod[q][pc][vc]
      BY <2>2, Traversed
    <3> HIDE DEF x, s
    <3>6. inMod'[q][pc][vc].st \in {"I", "R", "V"} => Ended(lft[x])
      BY <3>1, <3>3, <3>5 DEF Ended
    <3> QED
      BY <3>2, <3>3, <3>4, <3>6, SMTT(30) DEF x
  <2>3. CASE ~ (q = r /\ xbar[r][pc] = vc)
    <3>1. flitQ'[q][pc][vc] = s
      BY <2>3, Traversed
    <3>2. inMod'[q][pc][vc] = inMod[q][pc][vc]
      BY <2>3, Traversed
    <3>3. lft[x] = left[x]
      BY <1>9, <1>11, <2>3
    <3> QED
      BY <2>1, <3>1, <3>2, <3>3, SMTT(30)
  <2> QED
    BY <2>2, <2>3
<1>13. Linked(landed, snt)'
  <2> SUFFICES ASSUME NEW l \in Link, NEW v \in VC
               PROVE  InPipe(landed[To(l, v)], pipe'[l], v, snt[To(l, v)])
    BY DEF Linked, To
  <2>1. /\ InPipe(landed[To(l, v)], pipe[l], v, sent[To(l, v)])
        /\ pipe[l] \in Seq(InFlight)
    BY <1>1 DEF Whole, Linked, TypeOK, BuffersOK
  <2>2. CASE \E i \in PC : Mover(i) /\ l[1] = r /\ mod(i).pc = l[2]
    <3>1. PICK i \in PC : Mover(i) /\ l[1] = r /\ mod(i).pc = l[2]
      BY <2>2
    <3> DEFINE e == [f |-> flit(i), vc |-> mod(i).vc, age |-> 0]
    <3>2. pipe'[l] = Append(pipe[l], e)
      BY <3>1, Left, ZenonT(60)
    <3>3. e \in InFlight /\ e.f = flit(i) /\ e.vc = mod(i).vc
      BY <1>3, <3>1, ZenonT(60) DEF InFlight
    <3> HIDE DEF e
    <3>4. CASE mod(i).vc = v
      <4>1. snt[To(l, v)] = flit(i)
        BY <1>5, <1>11, <3>1, <3>4
      <4>2. After(left[<<r, i, xbar[r][i]>>], flit(i))
        <5>3. xbar[r][i] \in VC /\ flitQ[r][i][xbar[r][i]] # <<>>
          BY <1>3, <3>1, ZenonT(60)
        <5>2. flitQ[r][i][xbar[r][i]] \in Seq(Flit)
          BY <5>3 DEF TypeOK, BuffersOK
        <5>1. InBuffer(left[<<r, i, xbar[r][i]>>], flitQ[r][i][xbar[r][i]], landed[<<r, i, xbar[r][i]>>])
          BY <1>1, <5>3 DEF Whole, Stored
        <5> QED
          BY <5>1, <5>2, <5>3, BufferShrinks
      <4>3. Same(left[<<r, i, xbar[r][i]>>], sent[To(l, v)])
        <5>1. <<i, xbar[r][i]>> \in Holders(l[1], l[2], v)
          BY <1>3, <3>1, <3>4, ZenonT(60)
        <5>2. <<i, xbar[r][i]>>[1] = i /\ <<i, xbar[r][i]>>[2] = xbar[r][i]
          OBVIOUS
        <5> QED
          BY <1>1, <3>1, <5>1, <5>2 DEF Whole, Fed
      <4>4. After(sent[To(l, v)], flit(i))
        BY <4>2, <4>3, SameAfter
      <4> QED
        BY <2>1, <3>2, <3>3, <3>4, <4>1, <4>4, LinkGrows, ZenonT(60)
    <3>5. CASE mod(i).vc # v
      <4>1. \A j \in PC : ~ Transmits(j, l, v)
        BY <1>4, <3>1, <3>5
      <4>2. snt[To(l, v)] = sent[To(l, v)]
        BY <1>6, <1>11, <4>1
      <4> QED
        BY <2>1, <3>2, <3>3, <3>5, <4>2, LinkGrows, SMTT(30)
    <3> QED
      BY <3>4, <3>5
  <2>3. CASE \A i \in PC : ~ (Mover(i) /\ l[1] = r /\ mod(i).pc = l[2])
    <3>1. pipe'[l] = pipe[l]
      BY <2>3, Left
    <3>2. snt[To(l, v)] = sent[To(l, v)]
      BY <1>6, <1>11, <2>3
    <3> QED
      BY <2>1, <3>1, <3>2
  <2> QED
    BY <2>2, <2>3
<1>14. Fed(lft, snt)'
  <2> SUFFICES ASSUME NEW l \in Link, NEW v \in VC
               PROVE  /\ outMod'[l[1]][l[2]][v] = "I" => Ended(snt[To(l, v)])
                      /\ \A x \in Holders(l[1], l[2], v)' :
                           Same(lft[<<l[1], x[1], x[2]>>], snt[To(l, v)])
    BY DEF Fed, To
  <2>1. l[1] \in Router /\ l[2] \in PC /\ l = <<l[1], l[2]>>
    BY LinksApart
  <2>2. ASSUME NEW i, Transmits(i, l, v)
        PROVE  <<i, xbar[r][i]>> \in Holders(l[1], l[2], v) /\ snt[To(l, v)] = flit(i)
    BY <1>3, <1>5, <1>11, <2>2, Zenon
  <2>3. ASSUME outMod'[l[1]][l[2]][v] = "I"
        PROVE  Ended(snt[To(l, v)])
    <3>1. CASE outMod[l[1]][l[2]][v] = "I"
      <4>1. Holders(l[1], l[2], v) = {}
        BY <2>1, <3>1 DEF ControlInv, VCExclusive
      <4>2. \A i \in PC : ~ Transmits(i, l, v)
        BY <2>2, <4>1
      <4>3. snt[To(l, v)] = sent[To(l, v)]
        BY <1>6, <1>11, <4>2, ZenonT(60)
      <4> QED
        BY <1>1, <3>1, <4>3 DEF Whole, Fed
    <3>2. CASE outMod[l[1]][l[2]][v] # "I"
      <4>1. PICK i \in PC : /\ l[1] = r /\ xbar[r][i] # INVALID_VC /\ mod(i).pc = l[2]
                            /\ mod(i).vc = v /\ isTail(flit(i))
        BY <2>1, <2>3, <3>2, Traversed, SMTT(30)
      <4>2. snt[To(l, v)] = flit(i)
        BY <2>2, <4>1, Zenon
      <4> QED
        BY <4>1, <4>2, SMTT(30) DEF Ended
    <3> QED
      BY <3>1, <3>2
  <2>4. ASSUME NEW x \in Holders(l[1], l[2], v)'
        PROVE  Same(lft[<<l[1], x[1], x[2]>>], snt[To(l, v)])
    <3>1. /\ x \in PC \X VC /\ x[1] \in PC /\ x[2] \in VC /\ x = <<x[1], x[2]>>
          /\ inMod'[l[1]][x[1]][x[2]].st \in {"V", "S"}
          /\ inMod'[l[1]][x[1]][x[2]].pc = l[2] /\ inMod'[l[1]][x[1]][x[2]].vc = v
      BY <2>4, SMTT(30) DEF Holders
    <3>2. inMod'[l[1]][x[1]][x[2]] = inMod[l[1]][x[1]][x[2]]
      BY <2>1, <3>1, Traversed
    <3>3. x \in Holders(l[1], l[2], v)
      BY <3>1, <3>2, ZenonT(60) DEF Holders
    <3>4. CASE l[1] = r /\ xbar[r][x[1]] = x[2]
      <4>1. Mover(x[1])
        BY <1>10, <3>1, <3>4
      <4>2. Transmits(x[1], l, v)
        BY <3>1, <3>2, <3>4, <4>1
      <4>3. snt[To(l, v)] = flit(x[1])
        BY <2>2, <4>2, ZenonT(60)
      <4>4. lft[<<l[1], x[1], x[2]>>] = Head(flitQ[r][x[1]][x[2]])
        BY <1>9, <1>11, <3>1, <3>4
      <4> QED
        BY <3>4, <4>3, <4>4 DEF Same
    <3>5. CASE ~ (l[1] = r /\ xbar[r][x[1]] = x[2])
      <4>1. lft[<<l[1], x[1], x[2]>>] = left[<<l[1], x[1], x[2]>>]
        BY <1>9, <1>11, <2>1, <3>1, <3>5
      <4>2. ASSUME NEW i \in PC, Transmits(i, l, v)
            PROVE  FALSE
        <5>1. <<i, xbar[r][i]>> \in Holders(l[1], l[2], v)
          BY <2>2, <4>2, Zenon
        <5>2. <<i, xbar[r][i]>> = x
          BY <2>1, <3>3, <5>1, SMTT(30) DEF ControlInv, VCExclusive
        <5> QED
          BY <3>5, <4>2, <5>2
      <4>3. snt[To(l, v)] = sent[To(l, v)]
        BY <1>6, <1>11, <4>2
      <4> QED
        BY <1>1, <3>3, <4>1, <4>3, SMTT(30) DEF Whole, Fed
    <3> QED
      BY <3>4, <3>5, SMTT(30)
  <2> QED
    BY <2>3, <2>4
<1>15. Written(landed)'
  BY <1>1, <1>2 DEF Whole, Written
<1>16. Whole(lft, landed, snt)'
  BY <1>12, <1>13, <1>14, <1>15 DEF Whole
<1> QED
  BY <1>16 DEF PacketInv, Past, Flit

\* An NI writes one packet after the other to a VC.
LEMMA InjectionKeepsWhole ==
  ASSUME TypeOK, PacketInv, NEW i \in NIinProcs, NIInject(i)
  PROVE  PacketInv'
<1>1. PICK left \in Past, landed \in Past, sent \in Past : Whole(left, landed, sent)
  BY DEF PacketInv
<1> DEFINE cur == niCur[i]
           f == [p |-> cur.p, n |-> cur.n + 1]
           x == <<i[2], i[3], cur.vc>>
<1>2. UNCHANGED <<inMod, outMod, pipe, vcFree>>
  BY Zenon DEF NIInject, netVars, ctlVars
<1>3. /\ cur.vc \in VC /\ cur.p \in Packet /\ cur.n \in Nat /\ f \in Flit /\ cur.n < NumFlits[cur.p]
      /\ i[2] \in Router /\ i[3] \in PC /\ i[3] \in LocalPC
      /\ NIof(i) = <<i[2], i[3]>> /\ NIof(i)[1] = i[2] /\ NIof(i)[2] = i[3]
      /\ cur \in [p : Packet \cup {NoPacket}, vc : VC \cup {INVALID_VC}, n : Nat]
  <2>1. cur.vc # INVALID_VC /\ cur.n < NumFlits[cur.p]
    BY Zenon DEF NIInject
  <2>2. /\ cur \in [p : Packet \cup {NoPacket}, vc : VC \cup {INVALID_VC}, n : Nat]
        /\ cur.vc # INVALID_VC => cur.p \in Packet
    BY Zenon DEF TypeOK, InterfacesOK
  <2> HIDE DEF cur
  <2>3. cur.vc \in VC /\ cur.p \in Packet /\ cur.n \in Nat /\ f \in Flit
    BY <2>1, <2>2 DEF Flit
  <2>4. i[2] \in Router /\ i[3] \in PC /\ i[3] \in LocalPC
    BY Finite DEF NIinProcs
  <2> QED
    BY <2>1, <2>2, <2>3, <2>4 DEF NIof
<1>4. CASE flitQ' = flitQ /\ niCur' = niCur
  <2>1. \A l \in Link, v \in VC : Holders(l[1], l[2], v)' = Holders(l[1], l[2], v)
    BY <1>2 DEF Holders
  <2> QED
    BY <1>2, <1>4, <2>1, WholeKept
<1>5. CASE ~ (flitQ' = flitQ /\ niCur' = niCur)
  <2>1. /\ flitQ' = [flitQ EXCEPT ![i[2]][i[3]][cur.vc] = Append(@, f)]
        /\ niCur' = [niCur EXCEPT ![i].n = @ + 1]
    BY <1>3, <1>5, ZenonT(60) DEF NIInject
  <2>2. /\ niCur'[i] = [p |-> cur.p, vc |-> cur.vc, n |-> cur.n + 1]
        /\ \A j \in NIinProcs : j # i => niCur'[j] = niCur[j]
    <3>1. niCur' = [niCur EXCEPT ![i] = [cur EXCEPT !.n = @ + 1]]
      BY <2>1, Zenon
    <3>2. [cur EXCEPT !.n = @ + 1] = [p |-> cur.p, vc |-> cur.vc, n |-> cur.n + 1]
      <4> HIDE DEF cur
      <4> QED
        BY <1>3
    <3>3. niCur \in [NIinProcs -> [p : Packet \cup {NoPacket}, vc : VC \cup {INVALID_VC}, n : Nat]]
      BY DEF TypeOK, InterfacesOK
    <3> HIDE DEF cur
    <3> QED
      BY <3>1, <3>2, <3>3
  <2>3. /\ ~ vcFree[NIof(i)][cur.vc]
        /\ \A j \in NIinProcs : NIof(j) = NIof(i) /\ niCur[j].vc = cur.vc => j = i
        /\ IF cur.n = 0 THEN Ended(landed[x]) ELSE landed[x] = [p |-> cur.p, n |-> cur.n]
    <3>1. cur.vc # INVALID_VC
      BY Zenon DEF NIInject
    <3> QED
      BY <1>1, <3>1 DEF Whole, Written
  <2> DEFINE past == [landed EXCEPT ![x] = f]
  <2>4. x \in Channel
    BY <1>3 DEF Channel
  <2> HIDE DEF x, f, cur
  <2>5. After(landed[x], f)
    <3>1. CASE cur.n = 0
      BY <2>3, <3>1 DEF After, isHead, f
    <3>2. CASE cur.n # 0
      <4>1. landed[x] = [p |-> cur.p, n |-> cur.n] /\ cur.p # NoPacket
        BY <1>3, <2>3, <3>2, NetworkAssumption
      <4>2. ~ Ended(landed[x])
        BY <1>3, <4>1 DEF Ended, isTail, NoFlit
      <4> QED
        BY <4>1, <4>2 DEF After, f
    <3> QED
      BY <3>1, <3>2
  <2>6. past \in Past /\ past[x] = f /\ \A y \in Channel : y # x => past[y] = landed[y]
    BY <1>3, <2>4 DEF Past
  <2> HIDE DEF past
  <2>7. PICK now \in Past : now = past
    BY <2>6
  <2>8. Stored(left, now)'
    <3> SUFFICES ASSUME NEW q \in Router, NEW pc \in PC, NEW vc \in VC
                 PROVE  /\ InBuffer(left[<<q, pc, vc>>], flitQ'[q][pc][vc], now[<<q, pc, vc>>])
                        /\ inMod'[q][pc][vc].st \in {"I", "R", "V"} => Ended(left[<<q, pc, vc>>])
      BY Zenon DEF Stored
    <3>1. /\ InBuffer(left[<<q, pc, vc>>], flitQ[q][pc][vc], landed[<<q, pc, vc>>])
          /\ inMod'[q][pc][vc].st \in {"I", "R", "V"} => Ended(left[<<q, pc, vc>>])
      BY <1>1, <1>2 DEF Whole, Stored
    <3>2. flitQ \in [Router -> [PC -> [VC -> Seq(Flit)]]]
      BY DEF TypeOK, BuffersOK
    <3>3. <<q, pc, vc>> \in Channel
      BY DEF Channel
    <3>4. CASE <<q, pc, vc>> = x
      <4>1. q = i[2] /\ pc = i[3] /\ vc = cur.vc
        BY <3>4 DEF x
      <4>2. flitQ'[q][pc][vc] = Append(flitQ[q][pc][vc], f)
        BY <2>1, <3>2, <4>1, Zenon
      <4>3. flitQ[q][pc][vc] \in Seq(Flit)
        BY <3>2
      <4> QED
        BY <1>3, <2>5, <2>6, <2>7, <3>1, <3>4, <4>2, <4>3, BufferGrows, Zenon
    <3>5. CASE <<q, pc, vc>> # x
      <4>1. ~ (q = i[2] /\ pc = i[3] /\ vc = cur.vc)
        BY <3>5 DEF x
      <4>2. flitQ'[q][pc][vc] = flitQ[q][pc][vc]
        BY <1>3, <2>1, <3>2, <4>1
      <4> QED
        BY <2>6, <2>7, <3>1, <3>3, <3>5, <4>2
    <3> QED
      BY <3>4, <3>5
  <2>9. Linked(now, sent)'
    <3>1. ASSUME NEW l \in Link, NEW v \in VC
          PROVE  now[To(l, v)] = landed[To(l, v)]
      <4>1. To(l, v) \in Channel /\ To(l, v)[2] \notin LocalPC
        BY LinksApart
      <4>2. x[2] \in LocalPC
        BY <1>3 DEF x
      <4> QED
        BY <2>6, <2>7, <4>1, <4>2
    <3> QED
      BY <1>1, <1>2, <3>1 DEF Whole, Linked, To
  <2>10. Fed(left, sent)'
    BY <1>1, <1>2, ZenonT(60) DEF Whole, Fed, Holders, To
  <2>11. Written(now)'
    <3>1. ASSUME NEW d \in NI, NEW v \in VC, vcFree[d][v]
          PROVE  Ended(now[<<d[1], d[2], v>>])
      <4>4. d = <<d[1], d[2]>> /\ d[1] \in Router /\ d[2] \in LocalPC
        BY DEF NI
      <4>1. d = <<d[1], d[2]>> /\ <<d[1], d[2], v>> \in Channel
        BY <4>4, Finite DEF Channel
      <4>2. <<d[1], d[2], v>> # x
        <5>1. SUFFICES ASSUME <<d[1], d[2], v>> = x
                       PROVE  FALSE
          OBVIOUS
        <5>2. d[1] = i[2] /\ d[2] = i[3] /\ v = cur.vc
          BY <5>1 DEF x
        <5>3. d = NIof(i)
          BY <1>3, <4>1, <5>2
        <5> QED
          BY <2>3, <3>1, <5>2, <5>3
      <4>3. Ended(landed[<<d[1], d[2], v>>])
        BY <1>1, <3>1 DEF Whole, Written
      <4> QED
        BY <2>6, <2>7, <4>1, <4>2, <4>3
    <3>2. ASSUME NEW j \in NIinProcs, j # i, niCur[j].vc # INVALID_VC
          PROVE  now[<<j[2], j[3], niCur[j].vc>>] = landed[<<j[2], j[3], niCur[j].vc>>]
      <4>1. <<j[2], j[3], niCur[j].vc>> \in Channel
        BY <3>2, Finite DEF NIinProcs, Channel, TypeOK, InterfacesOK
      <4>2. <<j[2], j[3], niCur[j].vc>> # x
        <5>1. SUFFICES ASSUME <<j[2], j[3], niCur[j].vc>> = x
                       PROVE  FALSE
          OBVIOUS
        <5>2. j[2] = i[2] /\ j[3] = i[3] /\ niCur[j].vc = cur.vc
          BY <5>1 DEF x
        <5>3. NIof(j) = NIof(i)
          BY <5>2 DEF NIof
        <5> QED
          BY <2>3, <3>2, <5>2, <5>3
      <4> QED
        BY <2>6, <2>7, <4>1, <4>2
    <3>3. \A j \in NIinProcs : niCur'[j].vc = niCur[j].vc
      <4>1. ASSUME NEW j \in NIinProcs
            PROVE  niCur'[j].vc = niCur[j].vc
        <5>1. CASE j = i
          BY <2>2, <5>1 DEF cur
        <5>2. CASE j # i
          BY <2>2, <5>2
        <5> QED
          BY <5>1, <5>2
      <4> QED
        BY <4>1
    <3>4. ASSUME NEW j \in NIinProcs
          PROVE  LET c == niCur'[j]
                     last == now[<<j[2], j[3], c.vc>>]
                 IN  /\ c.vc = INVALID_VC => c.n = 0
                     /\ c.vc # INVALID_VC =>
                          /\ ~ vcFree[NIof(j)][c.vc]
                          /\ \A k \in NIinProcs : NIof(k) = NIof(j) /\ niCur'[k].vc = c.vc => k = j
                          /\ IF c.n = 0 THEN Ended(last) ELSE last = [p |-> c.p, n |-> c.n]
      <4>1. LET c == niCur[j]
                last == landed[<<j[2], j[3], c.vc>>]
            IN  /\ c.vc = INVALID_VC => c.n = 0
                /\ c.vc # INVALID_VC =>
                     /\ ~ vcFree[NIof(j)][c.vc]
                     /\ \A k \in NIinProcs : NIof(k) = NIof(j) /\ niCur[k].vc = c.vc => k = j
                     /\ IF c.n = 0 THEN Ended(last) ELSE last = [p |-> c.p, n |-> c.n]
        BY <1>1 DEF Whole, Written
      <4>2. CASE j = i
        <5>1. /\ niCur'[j].vc = cur.vc /\ niCur'[j].p = cur.p /\ niCur'[j].n = cur.n + 1
              /\ niCur[j].vc = cur.vc /\ cur.vc # INVALID_VC /\ cur.n + 1 # 0
          BY <1>3, <2>2, <4>2 DEF cur, VC, INVALID_VC
        <5>2. now[<<j[2], j[3], cur.vc>>] = f
          BY <2>6, <2>7, <4>2 DEF x
        <5>3. f = [p |-> niCur'[j].p, n |-> niCur'[j].n]
          BY <5>1 DEF f
        <5> QED
          BY <3>3, <4>1, <5>1, <5>2, <5>3
      <4>3. CASE j # i
        <5>1. niCur'[j] = niCur[j]
          BY <2>2, <4>3
        <5> QED
          BY <3>2, <3>3, <4>1, <4>3, <5>1
      <4> QED
        BY <4>2, <4>3
    <3> QED
      BY <1>2, <3>1, <3>4 DEF Written
  <2>12. Whole(left, now, sent)'
    BY <2>8, <2>9, <2>10, <2>11 DEF Whole
  <2> QED
    BY <2>12 DEF PacketInv, Past, Flit
<1> QED
  BY <1>4, <1>5

LEMMA WritersKept ==
  ASSUME PacketInv, UNCHANGED <<flitQ, pipe, inMod, outMod>>,
         \A landed \in Past : Written(landed) => Written(landed)'
  PROVE  PacketInv'
<1>1. PICK left \in Past, landed \in Past, sent \in Past : Whole(left, landed, sent)
  BY DEF PacketInv
<1>2. Stored(left, landed)'
  BY <1>1, Zenon DEF Whole, Stored
<1>3. Linked(landed, sent)'
  BY <1>1 DEF Whole, Linked, To
<1>4. Fed(left, sent)'
  BY <1>1, ZenonT(60) DEF Whole, Fed, Holders, To
<1>5. Written(landed)'
  BY <1>1 DEF Whole
<1>6. Whole(left, landed, sent)'
  BY <1>2, <1>3, <1>4, <1>5 DEF Whole
<1> QED
  BY <1>6 DEF PacketInv, Past, Flit

\* So do the steps of an NI before and after it writes a packet.
LEMMA InterfacesKeepWhole ==
  ASSUME TypeOK, PacketInv, NEW i \in NIinProcs, NIRead(i) \/ NIReserve(i) \/ NIFinish(i)
  PROVE  PacketInv'
<1> DEFINE Cur == [p : Packet \cup {NoPacket}, vc : VC \cup {INVALID_VC}, n : Nat]
<1>1. UNCHANGED <<flitQ, pipe, inMod, outMod>>
  BY Zenon DEF NIRead, NIReserve, NIFinish, netVars, ctlVars
<1>2. /\ niCur \in [NIinProcs -> Cur] /\ niCur[i] \in Cur
      /\ \A j \in NIinProcs : niCur[j].vc # INVALID_VC => niCur[j].p \in Packet
      /\ vcFree \in [NI -> [VC -> BOOLEAN]]
  BY DEF TypeOK, InterfacesOK
<1>3. NIof(i) \in NI /\ NIof(i) = <<i[2], i[3]>>
  BY DEF NIof, NI, NIinProcs
<1> SUFFICES ASSUME NEW landed \in Past, Written(landed)
             PROVE  Written(landed)'
  BY <1>1, WritersKept
<1> DEFINE last(j) == landed[<<j[2], j[3], niCur[j].vc>>]
<1>4. /\ \A d \in NI, v \in VC : vcFree[d][v] => Ended(landed[<<d[1], d[2], v>>])
      /\ \A j \in NIinProcs :
           /\ niCur[j].vc = INVALID_VC => niCur[j].n = 0
           /\ niCur[j].vc # INVALID_VC =>
                /\ ~ vcFree[NIof(j)][niCur[j].vc]
                /\ \A k \in NIinProcs : NIof(k) = NIof(j) /\ niCur[k].vc = niCur[j].vc => k = j
                /\ IF niCur[j].n = 0 THEN Ended(last(j))
                   ELSE last(j) = [p |-> niCur[j].p, n |-> niCur[j].n]
  BY DEF Written
<1> SUFFICES
      /\ \A d \in NI, v \in VC : vcFree'[d][v] => Ended(landed[<<d[1], d[2], v>>])
      /\ \A j \in NIinProcs :
           /\ niCur'[j].vc = INVALID_VC => niCur'[j].n = 0
           /\ niCur'[j].vc # INVALID_VC =>
                /\ ~ vcFree'[NIof(j)][niCur'[j].vc]
                /\ \A k \in NIinProcs : NIof(k) = NIof(j) /\ niCur'[k].vc = niCur'[j].vc => k = j
                /\ IF niCur'[j].n = 0 THEN Ended(landed[<<j[2], j[3], niCur'[j].vc>>])
                   ELSE landed[<<j[2], j[3], niCur'[j].vc>>] = [p |-> niCur'[j].p, n |-> niCur'[j].n]
  BY DEF Written
<1>5. CASE NIRead(i)
  <2>1. UNCHANGED vcFree /\ niCur[i].p = NoPacket
    BY <1>5 DEF NIRead
  <2>2. niCur[i].vc = INVALID_VC
    BY <1>2, <2>1, NetworkAssumption
  <2>3. niCur' = niCur \/ niCur' = [niCur EXCEPT ![i].p = Head(niQ[NIof(i)])]
    BY <1>5 DEF NIRead
  <2>4. /\ \A j \in NIinProcs : j # i => niCur'[j] = niCur[j]
        /\ niCur'[i].vc = niCur[i].vc /\ niCur'[i].n = niCur[i].n
    <3>1. CASE niCur' = niCur
      BY <3>1
    <3>2. CASE niCur' = [niCur EXCEPT ![i].p = Head(niQ[NIof(i)])]
      BY <1>2, <3>2
    <3> QED
      BY <2>3, <3>1, <3>2
  <2> HIDE DEF Cur
  <2>5. \A j \in NIinProcs : niCur'[j].vc = niCur[j].vc /\ niCur'[j].n = niCur[j].n
    BY <2>4
  <2>6. \A j \in NIinProcs : niCur[j].vc # INVALID_VC => niCur'[j] = niCur[j]
    BY <2>2, <2>4
  <2> QED
    BY <1>4, <2>1, <2>5, <2>6, ZenonT(60)
<1>6. CASE NIReserve(i)
  <2> DEFINE vc == First(UsableVCs(i), LAMBDA w : (w - niLast[NIof(i)] - 1) % NumVC)
  <2>1. niCur[i].vc = INVALID_VC /\ niCur[i].p # NoPacket
    BY <1>6, Zenon DEF NIReserve
  <2>2. CASE UsableVCs(i) = {}
    <3>1. UNCHANGED <<niCur, vcFree>>
      BY <1>6, <2>2, Zenon DEF NIReserve
    <3> QED
      BY <1>4, <3>1
  <2>3. CASE UsableVCs(i) # {}
    <3>1. /\ niCur' = [niCur EXCEPT ![i].vc = vc]
          /\ vcFree' = [vcFree EXCEPT ![NIof(i)][vc] = FALSE]
      BY <1>6, <2>3, Zenon DEF NIReserve
    <3>usable. UsableVCs(i) \in SUBSET VC
      <4>1. i[4] \in NIVC
        BY DEF NIinProcs
      <4> QED
        BY <4>1, SwArbAssumption DEF UsableVCs, NIVC, VC
    <3>last. niLast[NIof(i)] \in VC
      BY <1>3 DEF TypeOK, InterfacesOK
    <3>2. vc \in UsableVCs(i)
      BY <2>3, <3>usable, <3>last, NextVC, Zenon
    <3> HIDE DEF vc
    <3>3. vc \in VC /\ vcFree[NIof(i)][vc] /\ vc # INVALID_VC
      <4>1. vc \in VC
        BY <3>2, <3>usable
      <4>2. vcFree[NIof(i)][vc]
        BY <3>2 DEF UsableVCs
      <4> QED
        BY <4>1, <4>2, SwArbAssumption DEF VC, INVALID_VC
    <3>4. /\ niCur'[i].vc = vc /\ niCur'[i].n = 0 /\ niCur'[i].p = niCur[i].p
          /\ \A j \in NIinProcs : j # i => niCur'[j] = niCur[j]
      BY <1>2, <1>4, <2>1, <3>1
    <3>5. /\ ~ vcFree'[NIof(i)][vc]
          /\ \A d \in NI, v \in VC : ~ (d = NIof(i) /\ v = vc) => vcFree'[d][v] = vcFree[d][v]
      BY <1>2, <1>3, <3>1, <3>3
    <3>6. Ended(landed[<<i[2], i[3], vc>>])
      <4>1. Ended(landed[<<NIof(i)[1], NIof(i)[2], vc>>])
        BY <1>3, <1>4, <3>3
      <4> QED
        BY <1>3, <4>1
    <3>7. ASSUME NEW j \in NIinProcs, NIof(j) = NIof(i), niCur[j].vc = vc
          PROVE  FALSE
      BY <1>4, <3>3, <3>7
    <3>8. ASSUME NEW j \in NIinProcs
          PROVE  niCur[j].vc \in VC \cup {INVALID_VC} /\ NIof(j) \in NI
      BY <1>2 DEF NIof, NI, NIinProcs
    <3> HIDE DEF Cur
    <3>9. ASSUME NEW d \in NI, NEW v \in VC, vcFree'[d][v]
          PROVE  Ended(landed[<<d[1], d[2], v>>])
      <4>1. ~ (d = NIof(i) /\ v = vc)
        BY <3>5, <3>9
      <4> QED
        BY <1>4, <3>5, <3>9, <4>1
    <3>10. ASSUME NEW j \in NIinProcs, j # i
           PROVE  /\ niCur'[j].vc = INVALID_VC => niCur'[j].n = 0
                  /\ niCur'[j].vc # INVALID_VC =>
                       /\ ~ vcFree'[NIof(j)][niCur'[j].vc]
                       /\ \A k \in NIinProcs : NIof(k) = NIof(j) /\ niCur'[k].vc = niCur'[j].vc => k = j
                       /\ IF niCur'[j].n = 0 THEN Ended(landed[<<j[2], j[3], niCur'[j].vc>>])
                          ELSE landed[<<j[2], j[3], niCur'[j].vc>>] = [p |-> niCur'[j].p, n |-> niCur'[j].n]
      <4>1. niCur'[j] = niCur[j] /\ niCur[j].vc \in VC \cup {INVALID_VC} /\ NIof(j) \in NI
        BY <3>4, <3>8, <3>10
      <4>2. niCur[j].vc # INVALID_VC => ~ vcFree'[NIof(j)][niCur[j].vc]
        <5> SUFFICES ASSUME niCur[j].vc # INVALID_VC
                     PROVE  ~ vcFree'[NIof(j)][niCur[j].vc]
          OBVIOUS
        <5>1. ~ (NIof(j) = NIof(i) /\ niCur[j].vc = vc)
          BY <3>7
        <5> QED
          BY <1>4, <3>5, <4>1, <5>1, ZenonT(60)
      <4>3. ASSUME NEW k \in NIinProcs, NIof(k) = NIof(j), niCur'[k].vc = niCur[j].vc,
                   niCur[j].vc # INVALID_VC
            PROVE  k = j
        <5>1. k # i
          BY <3>4, <3>7, <4>3
        <5> QED
          BY <1>4, <3>4, <4>3, <5>1
      <4> QED
        BY <1>4, <4>1, <4>2, <4>3
    <3>11. ASSUME NEW k \in NIinProcs, NIof(k) = NIof(i), niCur'[k].vc = vc
           PROVE  k = i
      BY <3>4, <3>7, <3>11
    <3>12. /\ niCur'[i].vc = INVALID_VC => niCur'[i].n = 0
           /\ niCur'[i].vc # INVALID_VC =>
                /\ ~ vcFree'[NIof(i)][niCur'[i].vc]
                /\ \A k \in NIinProcs : NIof(k) = NIof(i) /\ niCur'[k].vc = niCur'[i].vc => k = i
                /\ IF niCur'[i].n = 0 THEN Ended(landed[<<i[2], i[3], niCur'[i].vc>>])
                   ELSE landed[<<i[2], i[3], niCur'[i].vc>>] = [p |-> niCur'[i].p, n |-> niCur'[i].n]
      BY <3>3, <3>4, <3>5, <3>6, <3>11
    <3> QED
      BY <3>9, <3>10, <3>12
  <2> QED
    BY <2>2, <2>3
<1>7. CASE NIFinish(i)
  <2> DEFINE cur == niCur[i]
  <2>1. cur.vc # INVALID_VC /\ cur.n = NumFlits[cur.p]
    BY <1>7 DEF NIFinish
  <2>2. /\ niCur' = [niCur EXCEPT ![i] = [p |-> NoPacket, vc |-> INVALID_VC, n |-> 0]]
        /\ vcFree' = [vcFree EXCEPT ![NIof(i)][cur.vc] = TRUE]
    BY <1>7 DEF NIFinish
  <2>3. /\ niCur'[i].vc = INVALID_VC /\ niCur'[i].n = 0
        /\ \A j \in NIinProcs : j # i => niCur'[j] = niCur[j]
    BY <1>2, <2>2
  <2>4. /\ cur.vc \in VC /\ cur.p \in Packet /\ cur.n # 0
    BY <1>2, <2>1, NetworkAssumption
  <2>5. Ended(landed[<<i[2], i[3], cur.vc>>])
    <3>1. last(i) = [p |-> cur.p, n |-> cur.n]
      BY <1>4, <2>1, <2>4
    <3> QED
      BY <2>1, <3>1 DEF Ended, isTail
  <2> HIDE DEF cur
  <2>6. \A d \in NI, v \in VC : ~ (d = NIof(i) /\ v = cur.vc) => vcFree'[d][v] = vcFree[d][v]
    BY <1>2, <1>3, <2>2
  <2>7. ASSUME NEW d \in NI, NEW v \in VC, vcFree'[d][v]
        PROVE  Ended(landed[<<d[1], d[2], v>>])
    <3>1. CASE d = NIof(i) /\ v = cur.vc
      <4>1. d[1] = i[2] /\ d[2] = i[3]
        BY <1>3, <3>1
      <4> QED
        BY <2>5, <3>1, <4>1
    <3>2. CASE ~ (d = NIof(i) /\ v = cur.vc)
      BY <1>4, <2>6, <2>7, <3>2
    <3> QED
      BY <3>1, <3>2
  <2>8. ASSUME NEW j \in NIinProcs
        PROVE  niCur[j].vc \in VC \cup {INVALID_VC} /\ NIof(j) \in NI
    BY <1>2 DEF NIof, NI, NIinProcs
  <2> HIDE DEF Cur
  <2>9. ASSUME NEW j \in NIinProcs, j # i
        PROVE  /\ niCur'[j].vc = INVALID_VC => niCur'[j].n = 0
               /\ niCur'[j].vc # INVALID_VC =>
                    /\ ~ vcFree'[NIof(j)][niCur'[j].vc]
                    /\ \A k \in NIinProcs : NIof(k) = NIof(j) /\ niCur'[k].vc = niCur'[j].vc => k = j
                    /\ IF niCur'[j].n = 0 THEN Ended(landed[<<j[2], j[3], niCur'[j].vc>>])
                       ELSE landed[<<j[2], j[3], niCur'[j].vc>>] = [p |-> niCur'[j].p, n |-> niCur'[j].n]
    <3>1. niCur'[j] = niCur[j] /\ niCur[j].vc \in VC \cup {INVALID_VC} /\ NIof(j) \in NI
      BY <2>3, <2>8, <2>9
    <3>2. niCur[j].vc # INVALID_VC => ~ vcFree'[NIof(j)][niCur[j].vc]
      <4> SUFFICES ASSUME niCur[j].vc # INVALID_VC
                   PROVE  ~ vcFree'[NIof(j)][niCur[j].vc]
        OBVIOUS
      <4>1. ~ (NIof(j) = NIof(i) /\ niCur[j].vc = cur.vc)
        BY <1>4, <2>1, <2>9, Zenon DEF cur
      <4> QED
        BY <1>4, <2>6, <3>1, <4>1, ZenonT(60)
    <3>3. ASSUME NEW k \in NIinProcs, NIof(k) = NIof(j), niCur'[k].vc = niCur[j].vc,
                 niCur[j].vc # INVALID_VC
          PROVE  k = j
      BY <1>4, <2>3, <3>3
    <3> QED
      BY <1>4, <3>1, <3>2, <3>3
  <2> QED
    BY <2>3, <2>7, <2>9
<1> QED
  BY <1>5, <1>6, <1>7

\* So does the clock.
LEMMA TickKeepsWhole ==
  ASSUME TypeOK, PacketInv, Tick
  PROVE  PacketInv'
<1>1. PICK left \in Past, landed \in Past, sent \in Past : Whole(left, landed, sent)
  BY DEF PacketInv
<1>2. UNCHANGED <<flitQ, inMod, outMod, vcFree, niCur>>
  BY DEF Tick, ctlVars, niInVars
<1>3. Stored(left, landed)'
  BY <1>1, <1>2, Zenon DEF Whole, Stored
<1>4. Fed(left, sent)'
  BY <1>1, <1>2, ZenonT(60) DEF Whole, Fed, Holders, To
<1>5. Written(landed)'
  BY <1>1, <1>2, Zenon DEF Whole, Written
<1>6. ASSUME NEW l \in Link, NEW v \in VC
      PROVE  InPipe(landed[To(l, v)], pipe'[l], v, sent[To(l, v)])
  <2>1. pipe'[l] = [k \in DOMAIN pipe[l] |-> [pipe[l][k] EXCEPT !.age = @ + 1]]
    BY DEF Tick
  <2>2. pipe[l] \in Seq(InFlight)
    BY DEF TypeOK, BuffersOK
  <2>3. Len(pipe[l]) \in Nat /\ DOMAIN pipe[l] = 1 .. Len(pipe[l])
        /\ \A k \in 1 .. Len(pipe[l]) : pipe[l][k] \in InFlight
    BY <2>2
  <2>4. Len(pipe'[l]) = Len(pipe[l])
    BY <2>1, <2>3
  <2>5. \A k \in 1 .. Len(pipe[l]) : pipe'[l][k].f = pipe[l][k].f /\ pipe'[l][k].vc = pipe[l][k].vc
    BY <2>1, <2>3 DEF InFlight
  <2>6. InPipe(landed[To(l, v)], pipe[l], v, sent[To(l, v)])
    BY <1>1 DEF Whole, Linked
  <2> QED
    BY <2>3, <2>4, <2>5, <2>6, LinkAges
<1>7. Linked(landed, sent)'
  BY <1>6 DEF Linked, To
<1>8. Whole(left, landed, sent)'
  BY <1>3, <1>4, <1>5, <1>7 DEF Whole
<1> QED
  BY <1>8 DEF PacketInv, Past, Flit

\* Nor do the other steps touch packets.
LEMMA OthersKeepWhole ==
  ASSUME PacketInv, UNCHANGED <<flitQ, pipe, inMod, outMod, vcFree, niCur>>
  PROVE  PacketInv'
<1>1. \A landed \in Past : Written(landed) => Written(landed)'
  BY DEF Written
<1> QED
  BY <1>1, WritersKept

LEMMA WholeAtFirst ==
  Init => TypeOK /\ ControlInv /\ PacketInv
<1> SUFFICES ASSUME Init
             PROVE  PacketInv
  BY TypesOfInit, InitialControl
<1> DEFINE none == [x \in Channel |-> NoFlit]
<1>1. none \in Past /\ \A x \in Channel : none[x] = NoFlit
  BY DEF Past
<1>2. \A r \in Router, pc \in PC, vc \in VC : <<r, pc, vc>> \in Channel
  BY DEF Channel
<1> HIDE DEF none
<1>3. Ended(NoFlit) /\ Same(NoFlit, NoFlit)
  BY DEF Ended, Same
<1>4. /\ \A r \in Router, pc \in PC, vc \in VC :
           flitQ[r][pc][vc] = <<>> /\ inMod[r][pc][vc].st = "I" /\ outMod[r][pc][vc] = "I"
      /\ \A l \in Link : pipe[l] = <<>>
      /\ \A i \in NIinProcs : niCur[i] = [p |-> NoPacket, vc |-> INVALID_VC, n |-> 0]
  BY DEF Init, PerVCState
<1>5. InBuffer(NoFlit, <<>>, NoFlit) /\ \A v \in VC : InPipe(NoFlit, <<>>, v, NoFlit)
  BY DEF InBuffer, InPipe
<1>6. Stored(none, none)
  BY <1>1, <1>2, <1>3, <1>4, <1>5, Zenon DEF Stored
<1>7. \A l \in Link, v \in VC : none[To(l, v)] = NoFlit
  BY <1>1, LinksApart
<1>8. Linked(none, none)
  BY <1>4, <1>5, <1>7 DEF Linked
<1>9. Fed(none, none)
  <2> SUFFICES ASSUME NEW l \in Link, NEW v \in VC
               PROVE  Ended(NoFlit) /\ Holders(l[1], l[2], v) = {}
    BY <1>7 DEF Fed
  <2>1. l[1] \in Router
    BY LinksApart, SwArbAssumption, SMTT(30) DEF VC
  <2>2. Holders(l[1], l[2], v) = {}
    BY <1>4, <2>1 DEF Holders
  <2> QED
    BY <1>3, <2>2
<1>10. Written(none)
  <2>1. \A d \in NI, v \in VC : Ended(none[<<d[1], d[2], v>>])
    <3>1. ASSUME NEW d \in NI, NEW v \in VC
          PROVE  <<d[1], d[2], v>> \in Channel
      BY Finite DEF NI, Channel
    <3> QED
      BY <1>1, <1>3, <3>1, Zenon
  <2> QED
    BY <1>4, <2>1 DEF Written
<1>11. Whole(none, none, none)
  BY <1>6, <1>8, <1>9, <1>10 DEF Whole
<1> QED
  BY <1>1, <1>11 DEF PacketInv

LEMMA WholeInductive ==
  TypeOK /\ ControlInv /\ PacketInv /\ [Next]_vars => (TypeOK /\ ControlInv /\ PacketInv)'
<1> SUFFICES ASSUME TypeOK, ControlInv, PacketInv, [Next]_vars
             PROVE  (TypeOK /\ ControlInv /\ PacketInv)'
  OBVIOUS
<1>1. TypeOK' /\ ControlInv'
  BY ControlInductive
<1> SUFFICES PacketInv'
  BY <1>1
<1>2. ASSUME NEW r \in Router, RouterStep(r)
      PROVE  PacketInv'
  <2>1. CASE RouterWake(r) \/ IncCredit(r)
    <3>1. UNCHANGED <<flitQ, pipe, inMod, outMod, vcFree, niCur>>
      BY <2>1, Zenon DEF RouterWake, IncCredit, bufVars, ctlVars, niInVars
    <3> QED
      BY <3>1, OthersKeepWhole
  <2>2. CASE StageLT(r)
    BY <2>2, TraversalKeepsWhole, Zenon
  <2>3. CASE StageST(r)
    BY <1>1, <2>3, SwitchKeepsWhole
  <2>4. CASE StageSA(r) \/ StageSSA(r)
    BY <1>1, <2>4, ArbitrationKeepsWhole
  <2>5. CASE StageRC(r)
    BY <1>1, <2>5, RoutingKeepsWhole
  <2>6. CASE StageVA(r)
    BY <1>1, <2>6, AllocationKeepsWhole
  <2> QED
    BY <1>2, <2>1, <2>2, <2>3, <2>4, <2>5, <2>6 DEF RouterStep
<1>3. CASE NIStep
  <2>1. ASSUME NEW i \in NIinProcs, NIRead(i) \/ NIReserve(i) \/ NIFinish(i)
        PROVE  PacketInv'
    BY <2>1, InterfacesKeepWhole
  <2>2. ASSUME NEW i \in NIinProcs, NIInject(i)
        PROVE  PacketInv'
    BY <2>2, InjectionKeepsWhole
  <2>3. ASSUME NEW i \in NIoutProcs, NIOutput(i)
        PROVE  PacketInv'
    <3>1. UNCHANGED <<flitQ, pipe, inMod, outMod, vcFree, niCur>>
      BY <2>3, Zenon DEF NIOutput, netVars, ctlVars, niInVars
    <3> QED
      BY <3>1, OthersKeepWhole
  <2> QED
    BY <1>3, <2>1, <2>2, <2>3 DEF NIStep
<1>4. CASE Tick
  BY <1>4, TickKeepsWhole
<1>5. ASSUME NEW p \in Packet, Generate(p)
      PROVE  PacketInv'
  <2>1. UNCHANGED <<flitQ, pipe, inMod, outMod, vcFree, niCur>>
    BY <1>5 DEF Generate, netVars, ctlVars
  <2> QED
    BY <2>1, OthersKeepWhole
<1>6. CASE UNCHANGED vars
  <2>1. UNCHANGED <<flitQ, pipe, inMod, outMod, vcFree, niCur>>
    BY <1>6 DEF vars, bufVars, ctlVars, niInVars
  <2> QED
    BY <2>1, OthersKeepWhole
<1> QED
  BY <1>1, <1>2, <1>3, <1>4, <1>5, <1>6 DEF Next, Step, Finished

LEMMA WholeFollows ==
  ASSUME NEW f \in Flit, NEW g \in Flit, After(f, g)
  PROVE  Follows(f, g)
<1>1. f # NoFlit
  BY NetworkAssumption DEF NoFlit, Flit
<1>2. CASE isTail(f)
  BY <1>1, <1>2 DEF After, Ended, Follows
<1>3. CASE ~ isTail(f)
  <2>1. g.p = f.p /\ g.n = f.n + 1
    BY <1>1, <1>3 DEF After, Ended
  <2>2. g = [f EXCEPT !.n = @ + 1]
    BY <2>1 DEF Flit
  <2> QED
    BY <1>3, <2>2 DEF Follows
<1> QED
  BY <1>2, <1>3

LEMMA PacketInvSuffices ==
  TypeOK /\ PacketInv => PacketsWhole
<1> SUFFICES ASSUME TypeOK, PacketInv
             PROVE  PacketsWhole
  OBVIOUS
<1>1. PICK left \in Past, landed \in Past, sent \in Past : Whole(left, landed, sent)
  BY DEF PacketInv
<1> SUFFICES ASSUME NEW r \in Router, NEW pc \in PC, NEW vc \in VC
             PROVE  LET q == flitQ[r][pc][vc]
                        atRest == inMod[r][pc][vc].st \in {"I", "R", "V"}
                    IN  /\ \A k \in 1 .. Len(q) - 1 : Follows(q[k], q[k + 1])
                        /\ q # <<>> /\ atRest => isHead(q[1])
                        /\ \A l \in Link : Wire[l] = <<r, pc>> =>
                             LET flit(k) == pipe[l][k].f
                                 coming == {k \in DOMAIN pipe[l] : pipe[l][k].vc = vc}
                             IN  /\ \A j, k \in coming :
                                      j < k /\ (\A m \in coming : m <= j \/ k <= m) => Follows(flit(j), flit(k))
                                 /\ \A k \in coming : (\A m \in coming : k <= m) =>
                                      IF q # <<>> THEN Follows(q[Len(q)], flit(k)) ELSE atRest => isHead(flit(k))
  BY DEF PacketsWhole
<1> DEFINE q == flitQ[r][pc][vc]
           atRest == inMod[r][pc][vc].st \in {"I", "R", "V"}
           x == <<r, pc, vc>>
<1>2. q \in Seq(Flit) /\ Len(q) \in Nat /\ \A k \in 1 .. Len(q) : q[k] \in Flit
  BY DEF TypeOK, BuffersOK
<1>3. q = <<>> <=> Len(q) = 0
  <2>1. \A t \in Seq(Flit) : t = <<>> <=> Len(t) = 0
    BY EmptySeq
  <2> HIDE DEF q
  <2> QED
    BY <1>2, <2>1
<1>4. InBuffer(left[x], q, landed[x]) /\ (atRest => Ended(left[x]))
  BY <1>1 DEF Whole, Stored
<1> HIDE DEF q, atRest, x
<1>5. \A k \in 1 .. Len(q) - 1 : Follows(q[k], q[k + 1])
  <2> SUFFICES ASSUME NEW k \in 1 .. Len(q) - 1
               PROVE  Follows(q[k], q[k + 1])
    OBVIOUS
  <2>1. q[k] \in Flit /\ q[k + 1] \in Flit
    BY <1>2
  <2>2. After(q[k], q[k + 1])
    BY <1>4 DEF InBuffer
  <2> QED
    BY <2>1, <2>2, WholeFollows
<1>6. q # <<>> /\ atRest => isHead(q[1])
  BY <1>4 DEF InBuffer, After
<1>7. ASSUME NEW l \in Link, Wire[l] = <<r, pc>>
      PROVE  LET flit(k) == pipe[l][k].f
                 coming == {k \in DOMAIN pipe[l] : pipe[l][k].vc = vc}
             IN  /\ \A j, k \in coming :
                      j < k /\ (\A m \in coming : m <= j \/ k <= m) => Follows(flit(j), flit(k))
                 /\ \A k \in coming : (\A m \in coming : k <= m) =>
                      IF q # <<>> THEN Follows(q[Len(q)], flit(k)) ELSE atRest => isHead(flit(k))
  <2> DEFINE coming == {k \in DOMAIN pipe[l] : pipe[l][k].vc = vc}
             s == pipe[l]
  <2>1. To(l, vc) = x
    BY <1>7 DEF To, x
  <2>2. InPipe(landed[x], s, vc, sent[x])
    BY <1>1, <2>1 DEF Whole, Linked
  <2>3. s \in Seq(InFlight)
    BY DEF TypeOK, BuffersOK
  <2> HIDE DEF s
  <2>8. Len(s) \in Nat /\ DOMAIN s = 1 .. Len(s) /\ \A k \in 1 .. Len(s) : s[k] \in InFlight
    BY <2>3
  <2>4. Len(s) \in Nat /\ DOMAIN s = 1 .. Len(s) /\ \A k \in 1 .. Len(s) : s[k].f \in Flit
    BY <2>8 DEF InFlight
  <2>5. \A k : k \in coming <=> k \in 1 .. Len(s) /\ s[k].vc = vc
    BY <2>4 DEF s
  <2> HIDE DEF coming
  <2>6. ASSUME NEW j \in coming, NEW k \in coming, j < k, \A m \in coming : m <= j \/ k <= m
        PROVE  Follows(s[j].f, s[k].f)
    <3>1. \A m \in j + 1 .. k - 1 : s[m].vc # vc
      BY <2>4, <2>5, <2>6
    <3>2. After(s[j].f, s[k].f)
      BY <2>2, <2>5, <2>6, <3>1 DEF InPipe
    <3> QED
      BY <2>4, <2>5, <3>2, WholeFollows
  <2>7. ASSUME NEW k \in coming, \A m \in coming : k <= m
        PROVE  IF q # <<>> THEN Follows(q[Len(q)], s[k].f) ELSE atRest => isHead(s[k].f)
    <3>1. \A j \in 1 .. k - 1 : s[j].vc # vc
      BY <2>4, <2>5, <2>7
    <3>2. After(landed[x], s[k].f)
      BY <2>2, <2>5, <3>1 DEF InPipe
    <3>3. CASE q # <<>>
      <4>1. landed[x] = q[Len(q)]
        BY <1>4, <3>3 DEF InBuffer
      <4>2. q[Len(q)] \in Flit
        BY <1>2, <1>3, <3>3
      <4> QED
        BY <2>4, <2>5, <3>2, <3>3, <4>1, <4>2, WholeFollows
    <3>4. CASE q = <<>>
      <4>1. landed[x] = left[x]
        BY <1>4, <3>4 DEF InBuffer
      <4> QED
        BY <1>4, <3>2, <3>4, <4>1 DEF After
    <3> QED
      BY <3>3, <3>4
  <2> QED
    BY <2>6, <2>7 DEF s, coming
<1> QED
  BY <1>5, <1>6, <1>7 DEF q, atRest

\* Wormhole switching keeps packets whole (_DEBUG_CHECK_BUFFER_INTEGRITY of
\* Router.C): in no VC, nor on the link to it, do the flits of two packets mix.
THEOREM PacketsStayWhole ==
  Spec => []PacketsWhole
<1>1. Init => TypeOK /\ ControlInv /\ PacketInv
  BY WholeAtFirst
<1>2. (TypeOK /\ ControlInv /\ PacketInv) /\ [Next]_vars => (TypeOK /\ ControlInv /\ PacketInv)'
  BY WholeInductive
<1>3. TypeOK /\ ControlInv /\ PacketInv => PacketsWhole
  BY PacketInvSuffices
<1> QED
  BY <1>1, <1>2, <1>3, PTL DEF Spec

-----------------------------------------------------------------------------
(* The turn of an NI that has written a packet comes before its tail leaves. *)

\* An NI that has written the last flit of a packet and not yet counted it in.
Finishing(i) ==
  niCur[i].vc # INVALID_VC /\ niCur[i].n = NumFlits[niCur[i].p]

Before(s, x, y) == \E m, n \in DOMAIN s : m < n /\ s[m] = x /\ s[n] = y

\* Process i has its turn before the switch of router r is next traversed.
TurnFirst(i, r) ==
  \/ Running(<<0, r>>) /\ stage > 3
  \/ Before(ready \o held, i, <<0, r>>)

\* Until NI i counts its packet in, the buffer that it wrote the tail to is not
\* empty, and a lone flit there that was granted the switch waits for its turn.
TailStays(i) ==
  LET q == flitQ[i[2]][i[3]][niCur[i].vc]
  IN  Finishing(i) =>
        /\ ~ Waiting(i)
        /\ q # <<>>
        /\ Len(q) = 1 /\ xbar[i[2]][i[3]] = niCur[i].vc => TurnFirst(i, i[2])

TailsStay == \A i \in NIinProcs : TailStays(i)

\* Processes that join the ready ones leave the order of the others as it is.
LEMMA BeforeInsert ==
  ASSUME NEW S, NEW a \in Seq(S), NEW b \in Seq(S), NEW c \in Seq(S), NEW x, NEW y,
         Before(a \o b, x, y)
  PROVE  Before((a \o c) \o b, x, y)
<1> DEFINE s == a \o b
           t == (a \o c) \o b
           to(k) == IF k <= Len(a) THEN k ELSE k + Len(c)
<1>1. PICK m \in DOMAIN s, n \in DOMAIN s : m < n /\ s[m] = x /\ s[n] = y
  BY DEF Before
<1>2. /\ Len(a) \in Nat /\ Len(b) \in Nat /\ Len(c) \in Nat
      /\ DOMAIN s = 1 .. Len(a) + Len(b)
      /\ \A k \in DOMAIN s : s[k] = IF k <= Len(a) THEN a[k] ELSE b[k - Len(a)]
  BY ConcatProperties
<1>3. /\ a \o c \in Seq(S) /\ Len(a \o c) = Len(a) + Len(c)
      /\ \A k \in 1 .. Len(a) : (a \o c)[k] = a[k]
  BY ConcatProperties
<1>4. /\ DOMAIN t = 1 .. Len(a) + Len(c) + Len(b)
      /\ \A k \in DOMAIN t : t[k] = IF k <= Len(a) + Len(c) THEN (a \o c)[k]
                                    ELSE b[k - (Len(a) + Len(c))]
  BY <1>3, ConcatProperties
<1> HIDE DEF s, t
<1>5. ASSUME NEW k \in DOMAIN s
      PROVE  to(k) \in DOMAIN t /\ t[to(k)] = s[k]
  <2>1. CASE k <= Len(a)
    <3>1. k \in 1 .. Len(a) /\ s[k] = a[k]
      BY <1>2, <2>1
    <3>2. k \in DOMAIN t /\ k <= Len(a) + Len(c)
      BY <1>2, <1>4, <3>1
    <3>3. t[k] = (a \o c)[k] /\ (a \o c)[k] = a[k]
      BY <1>3, <1>4, <3>1, <3>2
    <3> QED
      BY <2>1, <3>1, <3>2, <3>3, Zenon
  <2>2. CASE ~ (k <= Len(a))
    <3>1. k \in Nat /\ k <= Len(a) + Len(b) /\ s[k] = b[k - Len(a)]
      BY <1>2, <2>2
    <3>2. /\ k + Len(c) \in DOMAIN t /\ ~ (k + Len(c) <= Len(a) + Len(c))
          /\ (k + Len(c)) - (Len(a) + Len(c)) = k - Len(a)
      BY <1>2, <1>4, <2>2, <3>1, SMTT(30)
    <3>3. t[k + Len(c)] = b[(k + Len(c)) - (Len(a) + Len(c))]
      BY <1>4, <3>2
    <3> QED
      BY <2>2, <3>1, <3>2, <3>3, Zenon
  <2> QED
    BY <2>1, <2>2
<1>6. to(m) < to(n)
  BY <1>1, <1>2
<1> QED
  BY <1>1, <1>5, <1>6 DEF Before, t

\* So does the removal of the running process, for two others.
LEMMA BeforeTail ==
  ASSUME NEW S, NEW a \in Seq(S), NEW b \in Seq(S), NEW x, NEW y, a # <<>>, Head(a) # x,
         Before(a \o b, x, y)
  PROVE  Before(Tail(a) \o b, x, y)
<1> DEFINE s == a \o b
           t == Tail(a) \o b
<1>1. PICK m \in DOMAIN s, n \in DOMAIN s : m < n /\ s[m] = x /\ s[n] = y
  BY DEF Before
<1>2. /\ Len(a) \in Nat /\ Len(b) \in Nat
      /\ DOMAIN s = 1 .. Len(a) + Len(b)
      /\ \A k \in DOMAIN s : s[k] = IF k <= Len(a) THEN a[k] ELSE b[k - Len(a)]
  BY ConcatProperties
<1>3. /\ Tail(a) \in Seq(S) /\ Len(Tail(a)) = Len(a) - 1 /\ Len(a) > 0 /\ Head(a) = a[1]
      /\ \A k \in 1 .. Len(a) - 1 : Tail(a)[k] = a[k + 1]
  OBVIOUS
<1>4. /\ DOMAIN t = 1 .. (Len(a) - 1) + Len(b)
      /\ \A k \in DOMAIN t : t[k] = IF k <= Len(a) - 1 THEN Tail(a)[k] ELSE b[k - (Len(a) - 1)]
  BY <1>3, ConcatProperties
<1> HIDE DEF s, t
<1>5. m # 1
  BY <1>1, <1>2, <1>3
<1>6. ASSUME NEW k \in DOMAIN s, k # 1
      PROVE  k - 1 \in DOMAIN t /\ t[k - 1] = s[k]
  BY <1>2, <1>3, <1>4, <1>6, SMTT(30)
<1>7. n # 1 /\ m - 1 < n - 1
  BY <1>1, <1>2, <1>5
<1> QED
  BY <1>1, <1>5, <1>6, <1>7, Zenon DEF Before, t

\* What holds now comes after all others.
LEMMA BeforeAppend ==
  ASSUME NEW S, NEW a \in Seq(S), NEW b \in Seq(S), NEW z \in S, NEW x
  PROVE  /\ \A y : Before(a \o b, x, y) => Before(a \o Append(b, z), x, y)
         /\ x \in Range(a \o b) => Before(a \o Append(b, z), x, z)
<1> DEFINE s == a \o b
           t == a \o Append(b, z)
<1>1. /\ Len(a) \in Nat /\ Len(b) \in Nat
      /\ DOMAIN s = 1 .. Len(a) + Len(b)
      /\ \A k \in DOMAIN s : s[k] = IF k <= Len(a) THEN a[k] ELSE b[k - Len(a)]
  BY ConcatProperties
<1>2. /\ Append(b, z) \in Seq(S) /\ Len(Append(b, z)) = Len(b) + 1
      /\ \A k \in 1 .. Len(b) : Append(b, z)[k] = b[k]
      /\ Append(b, z)[Len(b) + 1] = z
  BY AppendProperties
<1>3. /\ DOMAIN t = 1 .. Len(a) + (Len(b) + 1)
      /\ \A k \in DOMAIN t : t[k] = IF k <= Len(a) THEN a[k] ELSE Append(b, z)[k - Len(a)]
  BY <1>2, ConcatProperties
<1> DEFINE last == Len(a) + Len(b) + 1
<1> HIDE DEF s, t
<1>4. ASSUME NEW k \in DOMAIN s
      PROVE  k \in DOMAIN t /\ t[k] = s[k] /\ k < last
  BY <1>1, <1>2, <1>3
<1>5. last \in DOMAIN t /\ t[last] = z
  BY <1>1, <1>2, <1>3
<1>6. ASSUME NEW y, Before(s, x, y)
      PROVE  Before(t, x, y)
  BY <1>4, <1>6 DEF Before
<1>7. ASSUME x \in Range(s)
      PROVE  Before(t, x, z)
  <2>1. PICK k \in DOMAIN s : s[k] = x
    BY <1>7 DEF Range
  <2> HIDE DEF last
  <2> QED
    BY <1>4, <1>5, <2>1 DEF Before
<1> QED
  BY <1>6, <1>7 DEF s, t

\* Who is before whom stays so, unless the first one goes to sleep or holds.
LEMMA OrderKept ==
  ASSUME SchedulerOK, NEW i, NEW j, Before(ready \o held, i, j), NEW woken \in Seq(Procs),
         \/ \E s : GoOn(s, woken)
         \/ ready # <<>> /\ ~ Running(i) /\ HoldOneCycle(woken)
         \/ ready # <<>> /\ ~ Running(i) /\ \E k : WaitEvent(k)
  PROVE  Before(ready \o held, i, j)'
<1>1. ready \in Seq(Procs) /\ held \in Seq(Procs)
  BY DEF SchedulerOK
<1>2. ready # <<>> => Tail(ready) \in Seq(Procs) /\ Head(ready) \in Procs
  BY <1>1
<1>3. CASE \E s : GoOn(s, woken)
  <2>1. ready' = ready \o woken /\ held' = held
    BY <1>3 DEF GoOn
  <2>2. Before((ready \o woken) \o held, i, j)
    BY <1>1, BeforeInsert
  <2> QED
    BY <2>1, <2>2 DEF Before
<1>4. ASSUME ready # <<>>, ~ Running(i)
      PROVE  Before(Tail(ready) \o held, i, j)
  BY <1>1, <1>4, BeforeTail DEF Running
<1>5. CASE ready # <<>> /\ ~ Running(i) /\ HoldOneCycle(woken)
  <2>1. ready' = Tail(ready) \o woken /\ held' = Append(held, Head(ready))
    BY <1>5 DEF HoldOneCycle
  <2>2. Before((Tail(ready) \o woken) \o held, i, j)
    BY <1>1, <1>2, <1>4, <1>5, BeforeInsert
  <2>3. Tail(ready) \o woken \in Seq(Procs)
    BY <1>2, <1>5
  <2>4. Before((Tail(ready) \o woken) \o Append(held, Head(ready)), i, j)
    BY <1>1, <1>2, <1>5, <2>2, <2>3, BeforeAppend
  <2> QED
    BY <2>1, <2>4 DEF Before
<1>6. CASE ready # <<>> /\ ~ Running(i) /\ \E k : WaitEvent(k)
  <2>1. (ready' = ready \/ ready' = Tail(ready)) /\ held' = held
    BY <1>6 DEF WaitEvent
  <2>2. Before(Tail(ready) \o held, i, j)
    BY <1>4, <1>6
  <2> QED
    BY <2>1, <2>2 DEF Before
<1> QED
  BY <1>3, <1>5, <1>6

\* A process that holds comes after all others that are awake.
LEMMA HoldsLast ==
  ASSUME SchedulerOK, ready # <<>>, NEW woken \in Seq(Procs), HoldOneCycle(woken),
         NEW i, ~ Waiting(i), ~ Running(i), NEW j, Running(j)
  PROVE  Before(ready \o held, i, j)'
<1>1. ready \in Seq(Procs) /\ held \in Seq(Procs)
  BY DEF SchedulerOK
<1>2. Tail(ready) \in Seq(Procs) /\ j \in Procs /\ j = Head(ready)
  BY <1>1 DEF Running
<1>3. ready' = Tail(ready) \o woken /\ held' = Append(held, j)
  BY <1>2 DEF HoldOneCycle
<1>4. Range(ready) = {j} \cup Range(Tail(ready))
  BY <1>1, <1>2, RangeOfTail
<1>5. i \in Range(Tail(ready)) \cup Range(held)
  BY <1>2, <1>4 DEF Waiting, Running
<1>6. Tail(ready) \o woken \in Seq(Procs)
  BY <1>2
<1>7. i \in Range((Tail(ready) \o woken) \o held)
  <2>1. Range(Tail(ready) \o woken) = Range(Tail(ready)) \cup Range(woken)
    <3> DEFINE t == Tail(ready)
    <3>1. t \in Seq(Procs)
      BY <1>2
    <3> HIDE DEF t
    <3>2. Range(t \o woken) = Range(t) \cup Range(woken)
      BY <3>1, RangeOfConcat
    <3> QED
      BY <3>2 DEF t
  <2> DEFINE u == Tail(ready) \o woken
  <2>2. u \in Seq(Procs) /\ Range(u) = Range(Tail(ready)) \cup Range(woken)
    BY <1>6, <2>1
  <2> HIDE DEF u
  <2>3. Range(u \o held) = Range(u) \cup Range(held)
    BY <1>1, <2>2, RangeOfConcat
  <2> QED
    BY <1>5, <2>2, <2>3 DEF u
<1>8. Before((Tail(ready) \o woken) \o Append(held, j), i, j)
  BY <1>1, <1>2, <1>6, <1>7, BeforeAppend
<1> QED
  BY <1>3, <1>8 DEF Before

\* The running router goes on with its stages or holds: NIs that are awake then
\* have their turn before it traverses its switch again.
LEMMA TurnComes ==
  ASSUME TypeOK, NEW r \in Router, Running(<<0, r>>), stage > 3, NEW woken \in Seq(Procs),
         NextStage(woken) \/ GoOn(stage, woken), NEW i \in NIinProcs, ~ Waiting(i)
  PROVE  TurnFirst(i, r)'
<1>1. SchedulerOK /\ ready # <<>> /\ Head(ready) = <<0, r>> /\ stage \in Nat
  BY DEF TypeOK, Running, SchedulerOK
<1>2. i # <<0, r>> /\ ~ Running(i)
  BY <1>1 DEF NIinProcs, Running
<1>3. CASE HoldOneCycle(woken)
  BY <1>1, <1>2, <1>3, HoldsLast DEF TurnFirst
<1>4. ASSUME NEW s \in {stage, stage + 1}, GoOn(s, woken)
      PROVE  TurnFirst(i, r)'
  <2>1. Head(ready') = <<0, r>> /\ ready' # <<>>
    <3>1. ready' = ready \o woken /\ ready \in Seq(Procs)
      BY <1>1, <1>4 DEF GoOn, SchedulerOK
    <3> QED
      BY <1>1, <3>1
  <2>2. stage' > 3
    BY <1>1, <1>4 DEF GoOn
  <2> QED
    BY <2>1, <2>2 DEF TurnFirst, Running
<1> QED
  BY <1>3, <1>4 DEF NextStage

\* Until i has its turn, it stays ahead of the router's next switch traversal.
LEMMA TurnKept ==
  ASSUME TypeOK, Next, NEW i \in NIinProcs, NEW r \in Router, ~ Waiting(i), TurnFirst(i, r),
         ~ Running(i) \/ \E woken \in Seq(Procs) : \E s : GoOn(s, woken)
  PROVE  TurnFirst(i, r)'
<1>1. SchedulerOK
  BY DEF TypeOK
<1>2. CASE Running(<<0, r>>) /\ stage > 3
  <2>1. stage # 0
    BY <1>1, <1>2 DEF SchedulerOK
  <2>2. PICK woken : Sleepers(woken) /\ (NextStage(woken) \/ GoOn(stage, woken))
    BY <1>2, <2>1, RouterRuns
  <2>3. woken \in Seq(Procs)
    BY <2>2 DEF Sleepers
  <2> QED
    BY <1>2, <2>2, <2>3, TurnComes
<1>3. CASE Before(ready \o held, i, <<0, r>>)
  <2> DEFINE B == Before(ready \o held, i, <<0, r>>)'
  <2>1. SUFFICES B
    BY DEF TurnFirst
  <2>2. ASSUME NEW woken \in Seq(Procs), \E s : GoOn(s, woken)
        PROVE  B
    BY <1>1, <1>3, <2>2, OrderKept
  <2> SUFFICES ASSUME ~ Running(i) PROVE B
    BY <2>2
  <2>3. ASSUME NEW woken, Sleepers(woken), ready # <<>>, HoldOneCycle(woken)
        PROVE  B
    <3>1. woken \in Seq(Procs)
      BY <2>3 DEF Sleepers
    <3> QED
      BY <1>1, <1>3, <2>3, <3>1, OrderKept
  <2>4. ASSUME NEW k, Running(k), WaitEvent(k)
        PROVE  B
    <3>1. ready # <<>> /\ <<>> \in Seq(Procs)
      BY <2>4 DEF Running
    <3> QED
      BY <1>1, <1>3, <2>4, <3>1, OrderKept
  <2>5. ASSUME Tick
        PROVE  B
    <3>1. ready = <<>> /\ ready' = held /\ held' = <<>> /\ held \in Seq(Procs)
      BY <1>1, <2>5 DEF Tick, SchedulerOK
    <3>2. ready \o held = held /\ ready' \o held' = held
      BY <3>1
    <3> QED
      BY <1>3, <3>2 DEF Before
  <2>6. ASSUME UNCHANGED vars
        PROVE  B
    BY <1>3, <2>6 DEF Before, vars, schedVars
  <2>7. ASSUME NEW woken, Sleepers(woken), \E s : GoOn(s, woken)
        PROVE  B
    <3>1. woken \in Seq(Procs)
      BY <2>7, ZenonT(60) DEF Sleepers
    <3> QED
      BY <2>2, <2>7, <3>1
  <2>8. /\ \A q \in Router : RouterWake(q) => Running(<<0, q>>)
        /\ \A j \in NIinProcs : NIRead(j) => Running(j)
        /\ \A j \in NIoutProcs : NIOutput(j) => Running(j)
    BY DEF RouterWake, NIRead, NIOutput
  <2> HIDE DEF B
  <2>9. \A q \in Router : RouterWake(q) /\ WaitEvent(<<0, q>>) => B
    BY <2>4, <2>8, Zenon
  <2>10. \A j \in NIinProcs : NIRead(j) /\ WaitEvent(j) => B
    BY <2>4, <2>8
  <2>11. \A j \in NIoutProcs : NIOutput(j) /\ WaitEvent(j) => B
    BY <2>4, <2>8
  <2> QED
    BY <2>3, <2>5, <2>6, <2>7, <2>9, <2>10, <2>11, Scheduling
<1> QED
  BY <1>2, <1>3 DEF TurnFirst

\* It has not had its turn when the switch is traversed.
LEMMA NotItsTurn ==
  ASSUME TypeOK, ScheduledOnce, NEW r \in Router, AtStage(r, "ST"), NEW i \in NIinProcs,
         TurnFirst(i, r)
  PROVE  FALSE
<1>1. stage = 3 /\ Running(<<0, r>>)
  BY StagesKnown DEF AtStage, TypeOK, SchedulerOK
<1>2. ready \in Seq(Procs) /\ held \in Seq(Procs) /\ ready # <<>> /\ Head(ready) = <<0, r>>
  BY <1>1 DEF TypeOK, SchedulerOK, Running
<1> DEFINE s == ready \o held
<1>3. Once(s)
  BY <1>2, OnceConcat DEF ScheduledOnce
<1>4. s \in Seq(Procs) /\ s[1] = <<0, r>> /\ 1 \in DOMAIN s /\ DOMAIN s \in SUBSET (Nat \ {0})
  BY <1>2
<1> HIDE DEF s
<1>5. PICK m \in DOMAIN s, n \in DOMAIN s : m < n /\ s[n] = <<0, r>>
  BY <1>1 DEF TurnFirst, Before, s
<1>6. n = 1
  BY <1>3, <1>4, <1>5 DEF Once
<1>7. m >= 1
  BY <1>4, <1>5
<1> QED
  BY <1>4, <1>5, <1>6, <1>7

\* An NI that has the last flit written counts the packet in when it runs.
LEMMA FinishesNext ==
  ASSUME TypeOK, PacketInv, NEW i \in NIinProcs, Finishing(i)
  PROVE  /\ ~ NIRead(i) /\ ~ NIReserve(i) /\ ~ NIInject(i)
         /\ NIFinish(i) => ~ Finishing(i)'
         /\ niCur[i].vc \in VC /\ niCur[i].p \in Packet /\ niCur[i].n \in Nat \ {0}
         /\ i[2] \in Router /\ i[3] \in LocalPC /\ i[3] \in PC
<1>1. /\ niCur[i].vc \in VC /\ niCur[i].p \in Packet /\ niCur[i].n = NumFlits[niCur[i].p]
      /\ niCur[i].vc # INVALID_VC
  BY DEF TypeOK, InterfacesOK, Finishing
<1>2. niCur[i].p # NoPacket /\ NumFlits[niCur[i].p] \in Nat \ {0}
  BY <1>1, NetworkAssumption
<1>3. ~ NIRead(i)
  BY <1>2 DEF NIRead
<1>4. ~ NIReserve(i)
  BY <1>1 DEF NIReserve
<1>5. ~ NIInject(i)
  <2>1. NIInject(i) => niCur[i].n < NumFlits[niCur[i].p]
    BY Zenon DEF NIInject
  <2> QED
    BY <1>1, <1>2, <2>1
<1>6. ASSUME NIFinish(i)
      PROVE  ~ Finishing(i)'
  <2>1. niCur' = [niCur EXCEPT ![i] = [p |-> NoPacket, vc |-> INVALID_VC, n |-> 0]]
    BY <1>6 DEF NIFinish
  <2>2. niCur'[i].vc = INVALID_VC
    BY <2>1 DEF TypeOK, InterfacesOK
  <2> QED
    BY <2>2 DEF Finishing
<1>7. i[2] \in Router /\ i[3] \in LocalPC /\ i[3] \in PC
  BY Finite DEF NIinProcs
<1> QED
  BY <1>1, <1>2, <1>3, <1>4, <1>5, <1>6, <1>7

\* Nothing but writing makes an NI finish.
LEMMA NothingFinishes ==
  ASSUME TypeOK, PacketInv, NEW i \in NIinProcs, NIRead(i) \/ NIReserve(i) \/ NIFinish(i)
  PROVE  ~ Finishing(i)'
<1> DEFINE Cur == [p : Packet \cup {NoPacket}, vc : VC \cup {INVALID_VC}, n : Nat]
<1>1. /\ niCur \in [NIinProcs -> Cur] /\ niCur[i] \in Cur
      /\ niCur[i].vc # INVALID_VC => niCur[i].p \in Packet
  BY Zenon DEF TypeOK, InterfacesOK
<1>2. CASE NIRead(i)
  <2>1. niCur[i].vc = INVALID_VC
    BY <1>1, <1>2, NetworkAssumption DEF NIRead
  <2>2. niCur' = niCur \/ niCur' = [niCur EXCEPT ![i].p = Head(niQ[NIof(i)])]
    BY <1>2 DEF NIRead
  <2>3. niCur'[i].vc = INVALID_VC
    BY <1>1, <2>1, <2>2
  <2> QED
    BY <2>3, SMTT(30) DEF Finishing
<1>3. CASE NIReserve(i)
  <2>1. niCur[i].vc = INVALID_VC /\ niCur[i].p # NoPacket
    BY <1>3 DEF NIReserve
  <2>2. niCur[i].n = 0
    <3>1. PICK landed \in Past : Written(landed)
      BY DEF PacketInv, Whole
    <3> QED
      BY <2>1, <3>1 DEF Written
  <2>3. niCur' = niCur \/ \E x : niCur' = [niCur EXCEPT ![i].vc = x]
    BY <1>3 DEF NIReserve
  <2>4. niCur'[i].n = 0 /\ niCur'[i].p = niCur[i].p
    BY <1>1, <2>2, <2>3
  <2>5. NumFlits[niCur[i].p] # 0
    BY <1>1, <2>1, NetworkAssumption
  <2> QED
    BY <2>4, <2>5 DEF Finishing
<1>4. CASE NIFinish(i)
  <2>1. niCur' = [niCur EXCEPT ![i] = [p |-> NoPacket, vc |-> INVALID_VC, n |-> 0]]
    BY <1>4 DEF NIFinish
  <2>2. niCur'[i].vc = INVALID_VC
    BY <1>1, <2>1
  <2> QED
    BY <2>2 DEF Finishing
<1> QED
  BY <1>2, <1>3, <1>4

\* Others leave the tail where it is.
LEMMA TailKept ==
  ASSUME TypeOK, PacketInv, Next, NEW i \in NIinProcs, TailStays(i), Finishing(i)',
         niCur'[i] = niCur[i],
         ~ Running(i) \/ \E woken \in Seq(Procs) : \E s : GoOn(s, woken),
         LET q == flitQ[i[2]][i[3]][niCur[i].vc]
             t == flitQ'[i[2]][i[3]][niCur[i].vc]
         IN  t # <<>> /\ (xbar'[i[2]][i[3]] = niCur[i].vc =>
                            Len(q) = Len(t) /\ xbar[i[2]][i[3]] = niCur[i].vc)
  PROVE  TailStays(i)'
<1>1. Finishing(i) /\ ~ Waiting(i)
  BY Zenon DEF Finishing, TailStays
<1>2. ~ Waiting(i)'
  <2>1. ~ NIRead(i)
    BY <1>1, FinishesNext
  <2>2. i \notin NIoutProcs /\ \A r \in Router : i # <<0, r>>
    BY DEF NIinProcs, NIoutProcs
  <2> QED
    BY <1>1, <2>1, <2>2, FallsAsleep
<1>3. i[2] \in Router
  BY <1>1, FinishesNext
<1>4. TurnFirst(i, i[2]) => TurnFirst(i, i[2])'
  BY <1>1, <1>3, TurnKept
<1> QED
  BY <1>1, <1>2, <1>4, ZenonT(60) DEF TailStays

\* A step that neither runs i nor touches buffers, switches or NIs.
LEMMA TailAlone ==
  ASSUME TypeOK, PacketInv, Next, NEW i \in NIinProcs, TailStays(i),
         UNCHANGED <<flitQ, xbar>>, niCur'[i] = niCur[i],
         ~ Running(i) \/ \E woken \in Seq(Procs) : \E s : GoOn(s, woken)
  PROVE  TailStays(i)'
<1>1. CASE Finishing(i)'
  <2>1. Finishing(i)
    BY <1>1 DEF Finishing
  <2>2. flitQ[i[2]][i[3]][niCur[i].vc] # <<>>
    BY <2>1 DEF TailStays
  <2> QED
    BY <1>1, <2>2, TailKept
<1>2. CASE ~ Finishing(i)'
  BY <1>2 DEF TailStays
<1> QED
  BY <1>1, <1>2

\* An arbitration that grants the tail comes after the switch traversal of its cycle.
LEMMA TailGranted ==
  ASSUME TypeOK, ControlInv, PacketInv, Next, NEW r \in Router, StageSA(r) \/ StageSSA(r),
         NEW i \in NIinProcs, TailStays(i)
  PROVE  TailStays(i)'
<1>1. /\ AtStage(r, "SA") \/ AtStage(r, "SSA")
      /\ NextStage(<<>>) /\ UNCHANGED <<flitQ, niCur>>
  BY Zenon DEF StageSA, StageSSA, bufVars, niInVars
<1>2. Running(<<0, r>>) /\ stage > 3
  <2>1. Running(<<0, r>>) /\ stage \in 1 .. Len(Stages) /\ Stages[stage] \in {"SA", "SSA"}
    BY <1>1 DEF AtStage, TypeOK, SchedulerOK
  <2>2. stage # 1 /\ stage # 2 /\ stage # 3
    BY <2>1 DEF Stages
  <2> QED
    BY <2>1, <2>2, StagesKnown
<1>3. i # <<0, r>> /\ ~ Running(i)
  BY <1>2 DEF NIinProcs, Running
<1>4. \A q \in Router : q # r => xbar'[q] = xbar[q]
  <2>1. \E x : xbar' = [xbar EXCEPT ![r] = x]
    BY Zenon DEF StageSA, StageSSA, Allocate
  <2> QED
    BY <2>1 DEF TypeOK, ControlOK
<1> SUFFICES ASSUME Finishing(i)'
             PROVE  TailStays(i)'
  BY DEF TailStays
<1>5. Finishing(i) /\ ~ Waiting(i) /\ flitQ[i[2]][i[3]][niCur[i].vc] # <<>>
  BY <1>1 DEF Finishing, TailStays
<1>6. CASE i[2] # r
  <2>1. i[2] \in Router
    BY <1>5, FinishesNext
  <2>2. xbar'[i[2]] = xbar[i[2]]
    BY <1>4, <1>6, <2>1
  <2> QED
    BY <1>1, <1>3, <1>5, <2>2, TailKept, ZenonT(60)
<1>7. CASE i[2] = r
  <2>1. TurnFirst(i, r)'
    <3>1. <<>> \in Seq(Procs)
      OBVIOUS
    <3> QED
      BY <1>1, <1>2, <1>5, <3>1, TurnComes
  <2>2. ~ Waiting(i)'
    <3>1. SchedulerOK /\ ready # <<>> /\ <<>> \in Seq(Procs)
      BY <1>2 DEF TypeOK, Running
    <3>2. i \in Range(ready) \cup Range(held) \cup Range(<<>>)
      BY <1>5 DEF Waiting
    <3> QED
      BY <1>1, <3>1, <3>2, StayAwake
  <2> QED
    BY <1>1, <1>5, <1>7, <2>1, <2>2 DEF TailStays
<1> QED
  BY <1>6, <1>7

\* The switch takes other flits only.
LEMMA TailNotMoved ==
  ASSUME TypeOK, ControlInv, PacketInv, ScheduledOnce, Next, NEW r \in Router, StageST(r),
         NEW i \in NIinProcs, TailStays(i)
  PROVE  TailStays(i)'
<1>1. /\ flitQ' = [flitQ EXCEPT ![r] = [pc \in PC |-> [vc \in VC |->
                     IF xbar[r][pc] = vc THEN Tail(@[pc][vc]) ELSE @[pc][vc]]]]
      /\ xbar' = [xbar EXCEPT ![r] = [pc \in PC |-> INVALID_VC]]
      /\ AtStage(r, "ST") /\ UNCHANGED niCur
  BY Zenon DEF StageST, niInVars
<1>2. ~ Running(i)
  BY <1>1 DEF AtStage, Running, NIinProcs
<1> SUFFICES ASSUME Finishing(i)'
             PROVE  TailStays(i)'
  BY DEF TailStays
<1> DEFINE pc == i[3]
           vc == niCur[i].vc
           q == flitQ[i[2]][pc][vc]
<1>3. Finishing(i) /\ q # <<>> /\ (Len(q) = 1 /\ xbar[i[2]][pc] = vc => TurnFirst(i, i[2]))
  BY <1>1 DEF Finishing, TailStays
<1>4. i[2] \in Router /\ pc \in PC /\ vc \in VC /\ vc # INVALID_VC
  BY <1>3, FinishesNext DEF Finishing
<1>5. q \in Seq(Flit)
  BY <1>4 DEF TypeOK, BuffersOK
<1> HIDE DEF pc, vc, q
<1>6. CASE i[2] # r
  <2>1. flitQ'[i[2]] = flitQ[i[2]] /\ xbar'[i[2]] = xbar[i[2]]
    BY <1>1, <1>4, <1>6 DEF TypeOK, BuffersOK, ControlOK
  <2> QED
    BY <1>1, <1>2, <1>3, <2>1, TailKept, Zenon DEF pc, vc, q
<1>7. CASE i[2] = r
  <2>1. xbar'[i[2]][pc] # vc
    BY <1>1, <1>4, <1>7 DEF TypeOK, ControlOK
  <2>2. flitQ'[i[2]][pc][vc] = IF xbar[r][pc] = vc THEN Tail(q) ELSE q
    BY <1>1, <1>4, <1>7 DEF TypeOK, BuffersOK, q
  <2>3. flitQ'[i[2]][pc][vc] # <<>>
    <3>1. CASE xbar[r][pc] = vc
      <4>1. Len(q) # 1
        BY <1>1, <1>3, <1>7, <3>1, NotItsTurn
      <4>2. Len(Tail(q)) = Len(q) - 1 /\ Len(q) \in Nat /\ Len(q) # 0
        BY <1>3, <1>5
      <4>3. Tail(q) # <<>>
        BY <4>1, <4>2
      <4> QED
        BY <2>2, <3>1, <4>3
    <3>2. CASE xbar[r][pc] # vc
      BY <1>3, <2>2, <3>2
    <3> QED
      BY <3>1, <3>2
  <2> QED
    BY <1>1, <1>2, <2>1, <2>3, TailKept, Zenon DEF pc, vc, q
<1> QED
  BY <1>6, <1>7

\* Links lead to other ports than those of NIs.
LEMMA TailNotJoined ==
  ASSUME TypeOK, PacketInv, Next, NEW r \in Router, StageLT(r), NEW i \in NIinProcs, TailStays(i)
  PROVE  TailStays(i)'
<1>1. AtStage(r, "LT") /\ UNCHANGED <<xbar, niCur>>
  BY DEF StageLT, ctlVars, niInVars
<1>2. ~ Running(i)
  BY <1>1 DEF AtStage, Running, NIinProcs
<1> SUFFICES ASSUME Finishing(i)'
             PROVE  TailStays(i)'
  BY DEF TailStays
<1>3. Finishing(i) /\ flitQ[i[2]][i[3]][niCur[i].vc] # <<>>
  BY <1>1 DEF Finishing, TailStays
<1>4. i[2] \in Router /\ i[3] \in PC /\ i[3] \in LocalPC /\ niCur[i].vc \in VC
  BY <1>3, FinishesNext
<1>5. \A l \in Crossed(r) : Wire[l] # <<i[2], i[3]>>
  BY <1>4, NetworkAssumption DEF Crossed
<1>6. flitQ'[i[2]][i[3]][niCur[i].vc] = flitQ[i[2]][i[3]][niCur[i].vc]
  BY <1>4, <1>5, Landed, ZenonT(60)
<1> QED
  BY <1>1, <1>2, <1>3, <1>6, TailKept, ZenonT(60)

\* One buffer gets a flit: the others stay as they are.
Writes(r, pc, vc, f) == flitQ' = [flitQ EXCEPT ![r][pc][vc] = Append(@, f)]

LEMMA BufferWritten ==
  ASSUME flitQ \in [Router -> [PC -> [VC -> Seq(Flit)]]],
         NEW r \in Router, NEW pc \in PC, NEW vc \in VC, NEW f, Writes(r, pc, vc, f)
  PROVE  \A q \in Router, i \in PC, v \in VC :
           flitQ'[q][i][v] = IF q = r /\ i = pc /\ v = vc THEN Append(flitQ[q][i][v], f)
                             ELSE flitQ[q][i][v]
BY DEF Writes

\* An NI writes to a VC that no other NI process has.
LEMMA TailWritten ==
  ASSUME TypeOK, ControlInv, PacketInv, Next, NEW j \in NIinProcs, NIInject(j),
         NEW i \in NIinProcs, TailStays(i)
  PROVE  TailStays(i)'
<1> DEFINE cur == niCur[j]
           f == [p |-> cur.p, n |-> cur.n + 1]
           full == isFull(j[2], j[3], cur.vc)
           Cur == [p : Packet \cup {NoPacket}, vc : VC \cup {INVALID_VC}, n : Nat]
<1>1. /\ Running(j) /\ cur.vc # INVALID_VC /\ cur.n < NumFlits[cur.p]
      /\ UNCHANGED xbar
      /\ full => UNCHANGED <<flitQ, niCur>>
      /\ ~ full => /\ flitQ' = [flitQ EXCEPT ![j[2]][j[3]][cur.vc] = Append(@, f)]
                   /\ niCur' = [niCur EXCEPT ![j].n = @ + 1]
      /\ ready # <<>> /\ \E woken : HoldOneCycle(woken)
  BY Zenon DEF NIInject, NIof, netVars, ctlVars, Running
<1>2. cur \in Cur /\ niCur \in [NIinProcs -> Cur] /\ (cur.vc # INVALID_VC => cur.p \in Packet)
  BY DEF TypeOK, InterfacesOK
<1>3. cur.vc \in VC /\ f \in Flit /\ j[2] \in Router /\ j[3] \in PC
  <2>1. j[2] \in Router /\ j[3] \in PC
    BY Finite DEF NIinProcs
  <2> HIDE DEF cur
  <2> QED
    BY <1>1, <1>2, <2>1 DEF Flit
<1>4. flitQ \in [Router -> [PC -> [VC -> Seq(Flit)]]]
  BY DEF TypeOK, BuffersOK
<1> HIDE DEF full
<1>5. ASSUME ~ full, NEW r \in Router, NEW pc \in PC, NEW vc \in VC
      PROVE  flitQ'[r][pc][vc] = IF r = j[2] /\ pc = j[3] /\ vc = cur.vc
                                 THEN Append(flitQ[r][pc][vc], f) ELSE flitQ[r][pc][vc]
  <2>1. Writes(j[2], j[3], cur.vc, f)
    BY <1>1, <1>5, Zenon DEF Writes
  <2> HIDE DEF cur, f
  <2> QED
    BY <1>3, <1>4, <2>1, BufferWritten, SMTT(30)
<1>6. CASE i = j
  <2>1. CASE full
    <3>1. ~ Finishing(i)'
      <4>1. ~ Finishing(i)
        BY <1>6, FinishesNext
      <4> QED
        BY <1>1, <2>1, <4>1 DEF Finishing
    <3> QED
      BY <3>1 DEF TailStays
  <2>2. CASE ~ full
    <3> DEFINE q == flitQ[i[2]][i[3]][cur.vc]
    <3>1. q \in Seq(Flit)
      BY <1>3, <1>4, <1>6
    <3>2. flitQ'[i[2]][i[3]][cur.vc] = Append(q, f)
      <4> HIDE DEF cur, f
      <4> QED
        BY <1>3, <1>6, <1>5, <2>2, ZenonT(60)
    <3>3. niCur'[i].vc = cur.vc
      <4>1. niCur' = [niCur EXCEPT ![i].n = @ + 1]
        BY <1>1, <1>6, <2>2, Zenon
      <4>2. niCur'[i] = [niCur[i] EXCEPT !.n = @ + 1]
        BY <1>2, <4>1
      <4> QED
        BY <1>2, <1>6, <4>2
    <3>4. xbar'[i[2]][i[3]] = cur.vc => q # <<>>
      <4>1. XbarReady /\ xbar' = xbar /\ cur.vc # INVALID_VC
        BY <1>1, Zenon DEF ControlInv
      <4> HIDE DEF cur, f
      <4> QED
        BY <1>3, <1>6, <4>1 DEF XbarReady
    <3>5. Append(q, f) # <<>> /\ Len(Append(q, f)) = Len(q) + 1 /\ (q # <<>> => Len(q) # 0)
          /\ Len(q) \in Nat
      <4> HIDE DEF q, f
      <4>1. Len(q) \in Nat /\ (q # <<>> => Len(q) # 0)
        BY <3>1, EmptySeq
      <4>2. Append(q, f) \in Seq(Flit) /\ Len(Append(q, f)) = Len(q) + 1
        BY <1>3, <3>1, AppendProperties
      <4>3. Append(q, f) # <<>>
        BY <4>1, <4>2
      <4> QED
        BY <4>1, <4>2, <4>3
    <3>6. ~ Waiting(i)'
      <4>1. i \notin NIoutProcs /\ (\A r \in Router : i # <<0, r>>) /\ ~ Waiting(i)
        BY <1>1, <1>6 DEF NIinProcs, NIoutProcs, Waiting, Running, Range, TypeOK, SchedulerOK
      <4>2. ~ NIRead(i)
        <5>1. niCur[i].p \in Packet
          BY <1>1, <1>2, <1>6, Zenon
        <5>2. NIRead(i) => niCur[i].p = NoPacket
          BY Zenon DEF NIRead
        <5>3. NoPacket \notin Packet
          BY NetworkAssumption, Zenon
        <5> QED
          BY <5>1, <5>2, <5>3, Zenon
      <4> QED
        BY <4>1, <4>2, FallsAsleep, SMTT(30)
    <3> HIDE DEF q, f, cur
    <3>7. Len(Append(q, f)) = 1 => xbar'[i[2]][i[3]] # cur.vc
      BY <3>4, <3>5
    <3> QED
      BY <3>2, <3>3, <3>5, <3>6, <3>7, ZenonT(60) DEF TailStays
  <2> QED
    BY <2>1, <2>2
<1>7. CASE i # j
  <2>1. niCur'[i] = niCur[i]
    BY <1>1, <1>2, <1>7
  <2>2. ~ Running(i)
    BY <1>1, <1>7, ZenonT(60) DEF Running
  <2> SUFFICES ASSUME Finishing(i)'
               PROVE  TailStays(i)'
    BY DEF TailStays
  <2>3. Finishing(i) /\ flitQ[i[2]][i[3]][niCur[i].vc] # <<>>
    BY <2>1, Zenon DEF Finishing, TailStays
  <2>4. i[2] \in Router /\ i[3] \in PC /\ niCur[i].vc \in VC
    BY <2>3, FinishesNext
  <2>5. ~ (i[2] = j[2] /\ i[3] = j[3] /\ niCur[i].vc = cur.vc)
    <3>1. PICK landed \in Past : Written(landed)
      BY DEF PacketInv, Whole
    <3>2. \A k \in NIinProcs : NIof(k) = NIof(j) /\ niCur[k].vc = cur.vc => k = j
      BY <1>1, <3>1, ZenonT(60) DEF Written
    <3> QED
      BY <1>7, <3>2 DEF NIof
  <2>6. flitQ'[i[2]][i[3]][niCur[i].vc] = flitQ[i[2]][i[3]][niCur[i].vc]
    <3> HIDE DEF cur, f
    <3>1. CASE full
      BY <1>1, <3>1
    <3>2. CASE ~ full
      BY <1>5, <2>4, <2>5, <3>2
    <3> QED
      BY <3>1, <3>2
  <2> QED
    BY <1>1, <2>1, <2>2, <2>3, <2>6, TailKept, ZenonT(60)
<1> QED
  BY <1>6, <1>7

\* Every step keeps the tails before the turns of their NIs.
LEMMA TailsInductive ==
  ASSUME TypeOK, ControlInv, PacketInv, ScheduledOnce, TailsStay, Next
  PROVE  TailsStay'
<1> SUFFICES ASSUME NEW i \in NIinProcs
             PROVE  TailStays(i)'
  BY DEF TailsStay
<1>1. TailStays(i)
  BY DEF TailsStay
<1>2. ASSUME NEW r \in Router, RouterStep(r)
      PROVE  TailStays(i)'
  <2>1. ~ Running(i)
    BY <1>2, RunningSteps DEF Running, NIinProcs
  <2>2. CASE RouterWake(r) \/ IncCredit(r) \/ StageRC(r) \/ StageVA(r)
    <3>1. UNCHANGED <<flitQ, xbar, niCur>>
      BY <2>2, Zenon DEF RouterWake, IncCredit, StageRC, StageVA, bufVars, ctlVars, niInVars
    <3> QED
      BY <1>1, <2>1, <3>1, TailAlone
  <2> QED
    BY <1>1, <1>2, <2>2, TailNotJoined, TailNotMoved, TailGranted DEF RouterStep
<1>3. ASSUME NEW j \in NIinProcs, NIRead(j) \/ NIReserve(j) \/ NIFinish(j)
      PROVE  TailStays(i)'
  <2>1. UNCHANGED <<flitQ, xbar>> /\ Running(j)
    BY <1>3, Zenon DEF NIRead, NIReserve, NIFinish, netVars, ctlVars
  <2>2. \E x : niCur' = [niCur EXCEPT ![j] = x]
    <3>1. niCur' = niCur => niCur' = [niCur EXCEPT ![j] = niCur[j]]
      BY DEF TypeOK, InterfacesOK
    <3>2. \A x : niCur' = [niCur EXCEPT ![j].p = x] => niCur' = [niCur EXCEPT ![j] = [niCur[j] EXCEPT !.p = x]]
      OBVIOUS
    <3>3. \A x : niCur' = [niCur EXCEPT ![j].vc = x] => niCur' = [niCur EXCEPT ![j] = [niCur[j] EXCEPT !.vc = x]]
      OBVIOUS
    <3>4. \/ niCur' = niCur
          \/ \E x : niCur' = [niCur EXCEPT ![j].p = x]
          \/ \E x : niCur' = [niCur EXCEPT ![j].vc = x]
          \/ \E x : niCur' = [niCur EXCEPT ![j] = x]
      BY <1>3 DEF NIRead, NIReserve, NIFinish
    <3> QED
      BY <3>1, <3>2, <3>3, <3>4
  <2>3. CASE i # j
    <3>1. niCur'[i] = niCur[i]
      BY <2>2, <2>3 DEF TypeOK, InterfacesOK
    <3>2. ~ Running(i)
      BY <2>1, <2>3 DEF Running
    <3> QED
      BY <1>1, <2>1, <3>1, <3>2, TailAlone
  <2>4. CASE i = j
    <3>1. ~ Finishing(i)'
      BY <1>3, <2>4, NothingFinishes
    <3> QED
      BY <3>1 DEF TailStays
  <2> QED
    BY <2>3, <2>4
<1>4. ASSUME NEW j \in NIoutProcs, NIOutput(j)
      PROVE  TailStays(i)'
  <2>1. UNCHANGED <<flitQ, xbar, niCur>> /\ Running(j)
    BY <1>4 DEF NIOutput, netVars, ctlVars, niInVars
  <2>2. ~ Running(i)
    BY <2>1 DEF Running, NIinProcs, NIoutProcs
  <2> QED
    BY <1>1, <2>1, <2>2, TailAlone
<1>5. CASE Tick
  <2>1. UNCHANGED <<flitQ, xbar, niCur>> /\ ~ Running(i)
    BY <1>5 DEF Tick, ctlVars, niInVars, Running
  <2> QED
    BY <1>1, <2>1, TailAlone
<1>6. ASSUME NEW p \in Packet, Generate(p)
      PROVE  TailStays(i)'
  <2>1. UNCHANGED <<flitQ, xbar, niCur>>
    BY <1>6 DEF Generate, netVars, ctlVars
  <2>2. \E woken \in Seq(Procs) : \E s : GoOn(s, woken)
    <3> DEFINE ni == Src[p]
               k == <<1, ni[1], ni[2], IF PerVC THEN niLast[ni] ELSE 0>>
    <3>1. GoOn(0, Woken(<<>>)) \/ GoOn(0, Woken(<<k>>))
      BY <1>6 DEF Generate
    <3>2. k \in Procs
      <4>1. ni \in NI /\ niLast[ni] \in VC
        BY NetworkAssumption DEF TypeOK, InterfacesOK
      <4>2. ni[1] \in Router /\ ni[2] \in LocalPC
        BY <4>1 DEF NI
      <4> QED
        BY <4>1, <4>2 DEF Procs, NIinProcs, NIVC
    <3> HIDE DEF k
    <3>3. Woken(<<k>>) \in Seq(Procs) /\ Woken(<<>>) \in Seq(Procs)
      BY <3>2, WokenOne DEF Sleepers
    <3> QED
      BY <3>1, <3>3
  <2> QED
    BY <1>1, <2>1, <2>2, TailAlone
<1>7. CASE UNCHANGED vars
  <2>1. UNCHANGED <<flitQ, xbar, niCur, ready, held, stage>>
    BY <1>7 DEF vars, bufVars, ctlVars, niInVars, schedVars
  <2>2. TurnFirst(i, i[2])' = TurnFirst(i, i[2])
    BY <2>1 DEF TurnFirst, Running, Before
  <2> QED
    BY <1>1, <2>1, <2>2 DEF TailStays, Finishing, Waiting
<1> QED
  BY <1>1, <1>2, <1>3, <1>4, <1>5, <1>6, <1>7, TailWritten DEF Next, Step, NIStep, Finished

-----------------------------------------------------------------------------
(* Counting packets by their tails. *)

Tails == {f \in Flit : isTail(f)}
TailsSent == {e \in InFlight : isTail(e.f)}

\* The places of flits: input VCs, and what leaves by an output port, to its link
\* or its NI.
Place == Router \X PC \X (VC \cup {INVALID_VC})

TailsAt(r, pc, vc) ==
  IF vc # INVALID_VC THEN Tally(flitQ[r][pc][vc], Tails)
  ELSE IF isEjectChannel(pc) THEN Tally(niOut[<<r, pc>>], Tails)
  ELSE IF <<r, pc>> \in Link THEN Tally(pipe[<<r, pc>>], TailsSent)
  ELSE 0

TailCounts == [x \in Place |-> TailsAt(x[1], x[2], x[3])]

\* The NIs that have written a packet and not yet counted it.
Uncounted == {i \in NIinProcs : Finishing(i)}

\* m_num_pkt_in_network counts the tails in the network, but for those that an NI
\* has yet to count.
PacketsCounted == Total(TailCounts) = pktInNet + Cardinality(Uncounted)

\* There are finitely many NI processes and places of flits.
LEMMA NIsFinite == IsFiniteSet(NIinProcs)
<1> DEFINE A == NIVC
           B == LocalPC \X A
           D == Router \X B
           at == [x \in D |-> <<1, x[1], x[2][1], x[2][2]>>]
<1>1. IsFiniteSet(A)
  BY Finite, FS_Singleton DEF NIVC
<1>2. IsFiniteSet(LocalPC)
  <2>1. LocalPC \in SUBSET PC
    BY Finite
  <2> QED
    BY <2>1, Finite, FS_Subset
<1> HIDE DEF A
<1>3. IsFiniteSet(B)
  BY <1>1, <1>2, FS_Product
<1> HIDE DEF B
<1>4. IsFiniteSet(D)
  BY <1>3, Finite, FS_Product
<1>5. at \in Surjection(D, NIinProcs)
  <2>1. at \in [D -> NIinProcs]
    BY DEF A, B, NIinProcs
  <2>2. ASSUME NEW y \in NIinProcs
        PROVE  \E x \in D : at[x] = y
    <3>1. <<y[2], <<y[3], y[4]>>>> \in D /\ at[<<y[2], <<y[3], y[4]>>>>] = y
      BY DEF A, B, NIinProcs
    <3> QED
      BY <3>1
  <2> QED
    BY <2>1, <2>2 DEF Surjection
<1> HIDE DEF at, D
<1> QED
  BY <1>4, <1>5, FS_Surjection

\* These counts are numbers.
TailsKnown ==
  /\ TailCounts \in [Place -> Nat]
  /\ \A r \in Router, pc \in PC, vc \in VC \cup {INVALID_VC} :
       TailsAt(r, pc, vc) \in Nat /\ TailCounts[<<r, pc, vc>>] = TailsAt(r, pc, vc)

\* There are finitely many places of flits, and each holds a number of tails.
LEMMA PlacesOfTails ==
  ASSUME TypeOK
  PROVE  /\ IsFiniteSet(Place) /\ TailsKnown
         /\ IsFiniteSet(Uncounted) /\ Cardinality(Uncounted) \in Nat
<1>1. IsFiniteSet(Place)
  <2>1. IsFiniteSet(VC \cup {INVALID_VC})
    BY Finite, FS_AddElement
  <2>2. IsFiniteSet(PC \X (VC \cup {INVALID_VC}))
    BY <2>1, Finite, FS_Product
  <2> DEFINE A == PC \X (VC \cup {INVALID_VC})
             at == [x \in Router \X A |-> <<x[1], x[2][1], x[2][2]>>]
  <2>3. IsFiniteSet(Router \X A)
    BY <2>2, Finite, FS_Product
  <2>4. at \in Surjection(Router \X A, Place)
    <3>1. at \in [Router \X A -> Place]
      BY DEF Place
    <3>2. ASSUME NEW y \in Place
          PROVE  \E x \in Router \X A : at[x] = y
      <4>1. <<y[1], <<y[2], y[3]>>>> \in Router \X A /\ at[<<y[1], <<y[2], y[3]>>>>] = y
        BY DEF Place
      <4> QED
        BY <4>1
    <3> QED
      BY <3>1, <3>2 DEF Surjection
  <2> HIDE DEF at, A
  <2> QED
    BY <2>3, <2>4, FS_Surjection
<1>2. ASSUME NEW r \in Router, NEW pc \in PC, NEW vc \in VC \cup {INVALID_VC}
      PROVE  TailsAt(r, pc, vc) \in Nat
  <2>1. <<>> \in Seq(Flit) /\ <<>> \in Seq(InFlight)
    OBVIOUS
  <2>2. CASE vc # INVALID_VC
    <3>1. flitQ[r][pc][vc] \in Seq(Flit)
      BY <2>2 DEF TypeOK, BuffersOK
    <3> QED
      BY <2>1, <2>2, <3>1, TallyConcat DEF TailsAt
  <2>3. CASE vc = INVALID_VC /\ isEjectChannel(pc)
    <3>1. niOut[<<r, pc>>] \in Seq(Flit)
      BY <2>3 DEF TypeOK, InterfacesOK, NI, isEjectChannel
    <3> QED
      BY <2>1, <2>3, <3>1, TallyConcat DEF TailsAt
  <2>4. CASE vc = INVALID_VC /\ ~ isEjectChannel(pc) /\ <<r, pc>> \in Link
    <3>1. pipe[<<r, pc>>] \in Seq(InFlight)
      BY <2>4 DEF TypeOK, BuffersOK
    <3> QED
      BY <2>1, <2>4, <3>1, TallyConcat DEF TailsAt
  <2> QED
    BY <2>2, <2>3, <2>4 DEF TailsAt
<1>3. TailsKnown
  <2>1. TailCounts = [x \in Place |-> TailsAt(x[1], x[2], x[3])]
    BY DEF TailCounts
  <2>2. \A x \in Place : x[1] \in Router /\ x[2] \in PC /\ x[3] \in VC \cup {INVALID_VC}
    BY DEF Place
  <2>3. \A r \in Router, pc \in PC, vc \in VC \cup {INVALID_VC} : <<r, pc, vc>> \in Place
    BY DEF Place
  <2> QED
    BY <1>2, <2>1, <2>2, <2>3 DEF TailsKnown
<1>4. IsFiniteSet(Uncounted) /\ Cardinality(Uncounted) \in Nat
  <2>1. Uncounted \in SUBSET NIinProcs
    BY DEF Uncounted
  <2> QED
    BY <2>1, NIsFinite, FS_Subset, FS_CardinalityType
<1> QED
  BY <1>1, <1>3, <1>4

\* The same after the step.
LEMMA TailsKnownNext ==
  TypeOK' => TailsKnown'
<1>1. TypeOK => TailsKnown
  BY PlacesOfTails
<1> QED
  BY <1>1, PTL

\* Tails come to the places of P and leave those of M.
TailsGo(P, M) ==
  /\ P \in SUBSET Place /\ M \in SUBSET Place /\ P \cap M = {}
  /\ \A r \in Router, pc \in PC, vc \in VC \cup {INVALID_VC} :
       TailsAt(r, pc, vc)' = TailsAt(r, pc, vc) + (IF <<r, pc, vc>> \in P THEN 1 ELSE 0)
                                                - (IF <<r, pc, vc>> \in M THEN 1 ELSE 0)

\* The total changes by what comes and what leaves.
LEMMA TailsMove ==
  ASSUME TypeOK, TypeOK', NEW P, NEW M, TailsGo(P, M)
  PROVE  /\ Total(TailCounts) \in Nat /\ Total(TailCounts)' \in Nat
         /\ Cardinality(P) \in Nat /\ Cardinality(M) \in Nat
         /\ Total(TailCounts)' = Total(TailCounts) + Cardinality(P) - Cardinality(M)
<1> DEFINE f == TailCounts
           g == TailCounts'
<1>1. IsFiniteSet(Place) /\ f \in [Place -> Nat]
  BY PlacesOfTails DEF TailsKnown
<1>2. g \in [Place -> Nat]
  BY TailsKnownNext DEF TailsKnown
<1>3. ASSUME NEW x \in Place
      PROVE  g[x] = f[x] + (IF x \in P THEN 1 ELSE 0) - (IF x \in M THEN 1 ELSE 0)
  <2>1. PICK r \in Router, pc \in PC, vc \in VC \cup {INVALID_VC} : x = <<r, pc, vc>>
    BY DEF Place
  <2>2. f[x] = TailsAt(r, pc, vc)
    BY <2>1, PlacesOfTails DEF TailsKnown
  <2>3. g[x] = TailsAt(r, pc, vc)'
    BY <2>1, TailsKnownNext DEF TailsKnown
  <2> HIDE DEF f, g
  <2> QED
    BY <2>1, <2>2, <2>3 DEF TailsGo
<1> HIDE DEF f, g
<1>4. Moves(Place, f, g, P, M)
  <2>1. \A x \in Place : f[x] \in Nat /\ g[x] \in Nat
    BY <1>1, <1>2
  <2>2. \A x \in P : g[x] = f[x] + 1
    BY <1>3, <2>1 DEF TailsGo
  <2>3. \A x \in M : f[x] = g[x] + 1
    BY <1>3, <2>1 DEF TailsGo
  <2>4. \A x \in Place \ (P \cup M) : g[x] = f[x]
    BY <1>3, <2>1 DEF TailsGo
  <2> QED
    BY <1>1, <1>2, <2>2, <2>3, <2>4 DEF Moves, TailsGo
<1>5. /\ Total(f) \in Nat /\ Total(g) \in Nat
      /\ Cardinality(P) \in Nat /\ Cardinality(M) \in Nat
      /\ Total(g) = Total(f) + Cardinality(P) - Cardinality(M)
  BY <1>4, TotalMoves
<1>6. Total(TailCounts)' = Total(g)
  BY DEF Total, Cells, g
<1> QED
  BY <1>5, <1>6 DEF f

\* No tails come or leave.
LEMMA TailsRest ==
  ASSUME TypeOK, TypeOK',
         \A r \in Router, pc \in PC, vc \in VC \cup {INVALID_VC} :
           TailsAt(r, pc, vc)' = TailsAt(r, pc, vc)
  PROVE  Total(TailCounts)' = Total(TailCounts) /\ Total(TailCounts) \in Nat
<1>1. \A r \in Router, pc \in PC, vc \in VC \cup {INVALID_VC} : TailsAt(r, pc, vc) \in Nat
  BY PlacesOfTails DEF TailsKnown
<1>2. \A r \in Router, pc \in PC, vc \in VC \cup {INVALID_VC} :
        TailsAt(r, pc, vc)' = TailsAt(r, pc, vc) + (IF <<r, pc, vc>> \in {} THEN 1 ELSE 0)
                                                 - (IF <<r, pc, vc>> \in {} THEN 1 ELSE 0)
  BY <1>1
<1>3. Cardinality({}) = 0 /\ {} \in SUBSET Place
  BY FS_EmptySet
<1>4. TailsGo({}, {})
  BY <1>2, <1>3 DEF TailsGo
<1> QED
  BY <1>1, <1>3, <1>4, TailsMove

\* No tail moves and no packet is counted.
LEMMA CountRests ==
  ASSUME TypeOK, TypeOK', PacketsCounted, Uncounted' = Uncounted, pktInNet' = pktInNet,
         \A r \in Router, pc \in PC, vc \in VC \cup {INVALID_VC} :
           TailsAt(r, pc, vc)' = TailsAt(r, pc, vc)
  PROVE  PacketsCounted'
<1>1. Total(TailCounts)' = Total(TailCounts)
  BY TailsRest
<1> QED
  BY <1>1 DEF PacketsCounted

\* Tails stay where flits do.
LEMMA TailsUnmoved ==
  ASSUME UNCHANGED <<flitQ, niOut, pipe>>
  PROVE  \A r \in Router, pc \in PC, vc \in VC \cup {INVALID_VC} :
           TailsAt(r, pc, vc)' = TailsAt(r, pc, vc)
<1> SUFFICES ASSUME NEW r \in Router, NEW pc \in PC, NEW vc \in VC \cup {INVALID_VC}
             PROVE  TailsAt(r, pc, vc)' = TailsAt(r, pc, vc)
  OBVIOUS
<1> QED
  BY DEF TailsAt

\* Only the NIs' own state tells who has yet to count.
LEMMA SameUncounted ==
  ASSUME UNCHANGED niCur
  PROVE  Uncounted' = Uncounted
BY DEF Uncounted, Finishing

\* The clock ages flits, and moves none.
LEMMA TickTails ==
  ASSUME TypeOK, TypeOK', PacketsCounted, Tick
  PROVE  PacketsCounted'
<1>1. UNCHANGED <<flitQ, niOut, pktInNet, niCur>>
  BY DEF Tick, niOutVars, niInVars
<1>2. ASSUME NEW l \in Link
      PROVE  Tally(pipe[l], TailsSent)' = Tally(pipe[l], TailsSent)
  <2>1. pipe[l] \in Seq(InFlight) /\ pipe'[l] \in Seq(InFlight)
    BY DEF TypeOK, BuffersOK
  <2>2. pipe'[l] = [k \in DOMAIN pipe[l] |-> [pipe[l][k] EXCEPT !.age = @ + 1]]
    BY DEF Tick
  <2>3. DOMAIN pipe'[l] = DOMAIN pipe[l]
    BY <2>2
  <2>4. ASSUME NEW k \in DOMAIN pipe[l]
        PROVE  pipe'[l][k] \in TailsSent <=> pipe[l][k] \in TailsSent
    <3>1. pipe[l][k] \in InFlight /\ pipe'[l][k] \in InFlight
      BY <2>1, <2>3
    <3>2. pipe'[l][k] = [pipe[l][k] EXCEPT !.age = @ + 1]
      BY <2>2
    <3>3. pipe'[l][k].f = pipe[l][k].f
      BY <3>1, <3>2 DEF InFlight
    <3> QED
      BY <3>1, <3>3 DEF TailsSent
  <2>5. {k \in DOMAIN pipe'[l] : pipe'[l][k] \in TailsSent}
          = {k \in DOMAIN pipe[l] : pipe[l][k] \in TailsSent}
    BY <2>3, <2>4
  <2> QED
    BY <2>5 DEF Tally
<1>3. ASSUME NEW r \in Router, NEW pc \in PC, NEW vc \in VC \cup {INVALID_VC}
      PROVE  TailsAt(r, pc, vc)' = TailsAt(r, pc, vc)
  BY <1>1, <1>2 DEF TailsAt
<1> QED
  BY <1>1, <1>3, SameUncounted, CountRests

\* Tails that cross a link go to the buffers behind it.
LEMMA TraversalTails ==
  ASSUME TypeOK, TypeOK', PacketsCounted, NEW r \in Router, StageLT(r)
  PROVE  PacketsCounted'
<1> DEFINE crossed == Crossed(r)
           T == {l \in crossed : isTail(Head(pipe[l]).f)}
           to == [l \in T |-> <<Wire[l][1], Wire[l][2], Head(pipe[l]).vc>>]
           from == [l \in T |-> <<l[1], l[2], INVALID_VC>>]
           P == {to[l] : l \in T}
           M == {from[l] : l \in T}
<1>1. /\ pipe' = [l \in Link |-> IF l \in crossed THEN Tail(pipe[l]) ELSE pipe[l]]
      /\ UNCHANGED <<niOut, pktInNet, niCur>>
  BY Zenon DEF StageLT, niOutVars, niInVars
<1>2. ASSUME NEW l \in crossed
      PROVE  /\ l \in Link /\ l[1] = r /\ l = <<r, l[2]>> /\ l[2] \in PC
             /\ l[2] \notin LocalPC
             /\ Wire[l][1] \in Router /\ Wire[l][2] \in PC
             /\ Wire[l] = <<Wire[l][1], Wire[l][2]>>
             /\ Head(pipe[l]) \in InFlight
             /\ Head(pipe[l]).vc \in VC /\ Head(pipe[l]).f \in Flit
             /\ pipe[l] # <<>> /\ pipe[l] \in Seq(InFlight)
  <2>1. l \in Link /\ l[1] = r /\ pipe[l] # <<>> /\ pipe[l] \in Seq(InFlight)
    BY DEF Crossed, TypeOK, BuffersOK
  <2>2. Head(pipe[l]) \in InFlight
    BY <2>1
  <2> QED
    BY <2>1, <2>2, NetworkAssumption DEF InFlight
<1>3. IsFiniteSet(T)
  <2>1. T \in SUBSET Link
    BY <1>2
  <2> QED
    BY <2>1, Finite, FS_Subset
<1>4. INVALID_VC \notin VC
  BY SwArbAssumption DEF VC, INVALID_VC
<1>5. \A x : x \in P <=> \E l \in T : x = <<Wire[l][1], Wire[l][2], Head(pipe[l]).vc>>
  OBVIOUS
<1>6. \A x : x \in M <=> \E l \in T : x = <<l[1], l[2], INVALID_VC>>
  OBVIOUS
<1>7. Cardinality(P) = Cardinality(T) /\ Cardinality(T) \in Nat
  <2>1. ASSUME NEW k \in T, NEW l \in T, to[k] = to[l]
        PROVE  k = l
    <3>1. Wire[k] = Wire[l]
      BY <1>2, <2>1, ZenonT(60)
    <3> QED
      BY <1>2, <3>1, WiresApart, Zenon
  <2>2. DOMAIN to = T
    OBVIOUS
  <2> HIDE DEF to, T
  <2>3. IsInjective(to)
    BY <2>1, <2>2, Zenon DEF IsInjective
  <2>4. Cardinality(P) = Cardinality(T)
    BY <1>3, <2>2, <2>3, ImageSize
  <2> QED
    BY <1>3, <2>4, FS_CardinalityType
<1>8. Cardinality(M) = Cardinality(T)
  <2>1. ASSUME NEW k \in T, NEW l \in T, from[k] = from[l]
        PROVE  k = l
    BY <1>2, <2>1
  <2>2. DOMAIN from = T
    OBVIOUS
  <2> HIDE DEF from, T
  <2>3. IsInjective(from)
    BY <2>1, <2>2, Zenon DEF IsInjective
  <2> QED
    BY <1>3, <2>2, <2>3, ImageSize
<1>9. \A l : l \in T <=> l \in crossed /\ isTail(Head(pipe[l]).f)
  OBVIOUS
<1> HIDE DEF P, M, T, to, from
<1>10. P \in SUBSET Place /\ M \in SUBSET Place /\ P \cap M = {}
  <2>1. \A l \in T : /\ <<Wire[l][1], Wire[l][2], Head(pipe[l]).vc>> \in Place
                     /\ <<l[1], l[2], INVALID_VC>> \in Place
    BY <1>2, <1>9 DEF Place
  <2>2. \A l \in T : Head(pipe[l]).vc # INVALID_VC
    BY <1>2, <1>4, <1>9
  <2> HIDE DEF crossed
  <2>3. P \in SUBSET Place /\ M \in SUBSET Place
    <3>1. ASSUME NEW x \in P PROVE x \in Place
      <4>1. PICK l \in T : x = <<Wire[l][1], Wire[l][2], Head(pipe[l]).vc>>
        BY <1>5
      <4> QED
        BY <2>1, <4>1
    <3>2. ASSUME NEW x \in M PROVE x \in Place
      <4>1. PICK l \in T : x = <<l[1], l[2], INVALID_VC>>
        BY <1>6
      <4> QED
        BY <2>1, <4>1
    <3> QED
      BY <3>1, <3>2
  <2>4. \A x \in P : x[3] # INVALID_VC
    BY <1>5, <2>2
  <2>5. \A x \in M : x[3] = INVALID_VC
    BY <1>6
  <2> QED
    BY <2>3, <2>4, <2>5
<1>11. ASSUME NEW q \in Router, NEW pc \in PC, NEW vc \in VC
       PROVE  Tally(flitQ[q][pc][vc], Tails)'
                = Tally(flitQ[q][pc][vc], Tails) + (IF <<q, pc, vc>> \in P THEN 1 ELSE 0)
  <2> DEFINE s == flitQ[q][pc][vc]
  <2>1. s \in Seq(Flit) /\ Tally(s, Tails) \in Nat
    <3>1. s \in Seq(Flit) /\ <<>> \in Seq(Flit)
      BY DEF TypeOK, BuffersOK
    <3> HIDE DEF s
    <3> QED
      BY <3>1, TallyConcat
  <2>2. CASE \E l \in crossed : Wire[l] = <<q, pc>> /\ Head(pipe[l]).vc = vc
    <3>1. PICK l \in crossed : Wire[l] = <<q, pc>> /\ Head(pipe[l]).vc = vc
      BY <2>2
    <3> DEFINE f == Head(pipe[l]).f
    <3>2. flitQ'[q][pc][vc] = Append(s, f) /\ f \in Flit
      BY <1>2, <3>1, Landed
    <3>3. f \in Tails <=> <<q, pc, vc>> \in P
      <4>1. f \in Tails <=> l \in T
        BY <1>9, <3>2 DEF Tails
      <4>2. ASSUME NEW k \in T, <<q, pc, vc>> = <<Wire[k][1], Wire[k][2], Head(pipe[k]).vc>>
            PROVE  k = l
        <5>1. k \in Link /\ l \in Link /\ Wire[k] = Wire[l]
          BY <1>2, <1>9, <3>1, <4>2
        <5> QED
          BY <5>1, NetworkAssumption
      <4>3. l \in T => <<q, pc, vc>> \in P
        BY <1>5, <3>1
      <4> QED
        BY <1>5, <4>1, <4>2, <4>3
    <3> HIDE DEF f, s
    <3>4. Tally(Append(s, f), Tails) = Tally(s, Tails) + (IF f \in Tails THEN 1 ELSE 0)
      BY <2>1, <3>2, TallyAppend
    <3> QED
      BY <3>2, <3>3, <3>4 DEF s
  <2>3. CASE \A l \in crossed : ~ (Wire[l] = <<q, pc>> /\ Head(pipe[l]).vc = vc)
    <3>1. flitQ'[q][pc][vc] = s
      BY <2>3, Landed
    <3>2. <<q, pc, vc>> \notin P
      BY <1>2, <1>5, <1>9, <2>3
    <3> QED
      BY <2>1, <3>1, <3>2
  <2> QED
    BY <2>2, <2>3
<1>12. ASSUME NEW l \in Link
       PROVE  Tally(pipe[l], TailsSent)'
                = Tally(pipe[l], TailsSent) - (IF <<l[1], l[2], INVALID_VC>> \in M THEN 1 ELSE 0)
  <2> DEFINE s == pipe[l]
  <2>1. s \in Seq(InFlight) /\ Tally(s, TailsSent) \in Nat
    <3>1. s \in Seq(InFlight) /\ <<>> \in Seq(InFlight)
      BY DEF TypeOK, BuffersOK
    <3> HIDE DEF s
    <3> QED
      BY <3>1, TallyConcat
  <2>2. <<l[1], l[2], INVALID_VC>> \in M <=> l \in T
    <3>1. l = <<l[1], l[2]>>
      BY NetworkAssumption
    <3>2. \A k \in T : k = <<k[1], k[2]>>
      BY <1>2, <1>9
    <3> QED
      BY <1>6, <3>1, <3>2
  <2>3. CASE l \in crossed
    <3>1. pipe'[l] = Tail(s) /\ s # <<>>
      BY <1>1, <1>2, <2>3
    <3>2. Head(s) \in TailsSent <=> l \in T
      BY <1>2, <1>9, <2>3 DEF TailsSent
    <3> HIDE DEF s
    <3>3. Tally(s, TailsSent) = Tally(Tail(s), TailsSent) + (IF Head(s) \in TailsSent THEN 1 ELSE 0)
      BY <2>1, <3>1, TallyTail
    <3>4. Tally(Tail(s), TailsSent) \in Nat
      <4> DEFINE t == Tail(s)
      <4>1. t \in Seq(InFlight) /\ <<>> \in Seq(InFlight)
        BY <2>1, <3>1
      <4> HIDE DEF t
      <4>2. Tally(t, TailsSent) \in Nat
        BY <4>1, TallyConcat
      <4> QED
        BY <4>2 DEF t
    <3>5. Tally(pipe[l], TailsSent)' = Tally(Tail(s), TailsSent)
      BY <3>1
    <3> QED
      BY <2>2, <3>2, <3>3, <3>4, <3>5 DEF s
  <2>4. CASE l \notin crossed
    <3>1. pipe'[l] = pipe[l] /\ l \notin T
      BY <1>1, <1>9, <2>4
    <3> QED
      BY <2>1, <2>2, <3>1
  <2> QED
    BY <2>3, <2>4
<1> HIDE DEF crossed
<1>13. ASSUME NEW q \in Router, NEW pc \in PC, NEW vc \in VC \cup {INVALID_VC}
       PROVE  TailsAt(q, pc, vc)' = TailsAt(q, pc, vc) + (IF <<q, pc, vc>> \in P THEN 1 ELSE 0)
                                                       - (IF <<q, pc, vc>> \in M THEN 1 ELSE 0)
  <2>1. TailsAt(q, pc, vc) \in Nat
    BY PlacesOfTails DEF TailsKnown
  <2>2. CASE vc # INVALID_VC
    <3>1. <<q, pc, vc>> \notin M
      BY <1>6, <2>2
    <3>2. TailsAt(q, pc, vc) = Tally(flitQ[q][pc][vc], Tails)
      BY <2>2 DEF TailsAt
    <3>3. TailsAt(q, pc, vc)' = Tally(flitQ[q][pc][vc], Tails)'
      BY <2>2 DEF TailsAt
    <3> QED
      BY <1>11, <2>1, <2>2, <3>1, <3>2, <3>3
  <2>3. CASE vc = INVALID_VC
    <3>1. <<q, pc, vc>> \notin P
      BY <1>2, <1>4, <1>5, <1>9, <2>3
    <3>2. <<q, pc, vc>> \in M => <<q, pc>> \in Link /\ ~ isEjectChannel(pc)
      BY <1>2, <1>6, <1>9, <2>3 DEF isEjectChannel
    <3>3. CASE isEjectChannel(pc)
      <4>1. TailsAt(q, pc, vc)' = TailsAt(q, pc, vc)
        BY <1>1, <2>3, <3>3 DEF TailsAt
      <4> QED
        BY <2>1, <3>1, <3>2, <3>3, <4>1
    <3>4. CASE ~ isEjectChannel(pc) /\ <<q, pc>> \in Link
      <4>1. TailsAt(q, pc, vc) = Tally(pipe[<<q, pc>>], TailsSent)
        BY <2>3, <3>4 DEF TailsAt
      <4>2. TailsAt(q, pc, vc)' = Tally(pipe[<<q, pc>>], TailsSent)'
        BY <2>3, <3>4 DEF TailsAt
      <4>3. Tally(pipe[<<q, pc>>], TailsSent)'
              = Tally(pipe[<<q, pc>>], TailsSent) - (IF <<q, pc, INVALID_VC>> \in M THEN 1 ELSE 0)
        BY <1>12, <3>4
      <4> QED
        BY <2>1, <2>3, <3>1, <4>1, <4>2, <4>3
    <3>5. CASE ~ isEjectChannel(pc) /\ <<q, pc>> \notin Link
      <4>1. TailsAt(q, pc, vc)' = TailsAt(q, pc, vc)
        BY <2>3, <3>5 DEF TailsAt
      <4> QED
        BY <2>1, <3>1, <3>2, <3>5, <4>1
    <3> QED
      BY <3>3, <3>4, <3>5
  <2> QED
    BY <2>2, <2>3
<1>14. /\ Total(TailCounts) \in Nat
       /\ Total(TailCounts)' = Total(TailCounts) + Cardinality(P) - Cardinality(M)
  <2>1. TailsGo(P, M)
    BY <1>10, <1>13 DEF TailsGo
  <2> QED
    BY <2>1, TailsMove
<1>15. Total(TailCounts)' = Total(TailCounts)
  BY <1>7, <1>8, <1>14
<1>16. Uncounted' = Uncounted
  BY <1>1, SameUncounted
<1> QED
  BY <1>1, <1>15, <1>16, Zenon DEF PacketsCounted

\* A flit that traverses the switch to an ejection port comes to its NI.
LEMMA Ejects ==
  ASSUME TypeOK, ControlInv, NEW r \in Router, StageST(r), NEW d \in NI
  PROVE  /\ \A i \in PC : d[1] = r /\ xbar[r][i] # INVALID_VC /\ inMod[r][i][xbar[r][i]].pc = d[2] =>
              niOut'[d] = Append(niOut[d], Head(flitQ[r][i][xbar[r][i]]))
         /\ (\A i \in PC : ~ (d[1] = r /\ xbar[r][i] # INVALID_VC /\ inMod[r][i][xbar[r][i]].pc = d[2])) =>
              niOut'[d] = niOut[d]
<1> DEFINE movers == {i \in PC : xbar[r][i] # INVALID_VC}
           flit(i) == Head(flitQ[r][i][xbar[r][i]])
           mod(i) == inMod[r][i][xbar[r][i]]
           from(o) == {i \in movers : mod(i).pc = o}
           ins(o) == InOrder(from(o))
           ejecting(o) == [n \in DOMAIN ins(o) |-> flit(ins(o)[n])]
<1>1. niOut'[d] = IF d[1] = r THEN niOut[d] \o ejecting(d[2]) ELSE niOut[d]
  <2>1. niOut' = [e \in NI |-> IF e[1] = r THEN niOut[e] \o ejecting(e[2]) ELSE niOut[e]]
    BY Zenon DEF StageST
  <2> HIDE DEF ejecting
  <2> QED
    BY <2>1
<1>2. niOut[d] \in Seq(Flit)
  BY DEF TypeOK, InterfacesOK
<1>3. movers \in SUBSET PC
  OBVIOUS
<1>4. \A i, j \in movers : mod(i).pc = mod(j).pc => i = j
  BY ZenonT(60) DEF ControlInv, XbarReady
<1>5. \A n \in DOMAIN ejecting(d[2]) : ejecting(d[2])[n] = flit(ins(d[2])[n])
  BY Zenon
<1>6. DOMAIN ejecting(d[2]) = DOMAIN ins(d[2])
  BY Zenon
<1>7. CASE d[1] = r /\ from(d[2]) # {}
  <2>1. PICK i \in movers : mod(i).pc = d[2]
    BY <1>7
  <2>2. from(d[2]) = {i}
    BY <1>4, <2>1
  <2>3. i \in Int /\ i \in PC
    BY <2>1, Finite
  <2>4. Cardinality({i}) = 1 /\ IsFiniteSet({i}) /\ {i} \in SUBSET Int
    BY <2>3, FS_Singleton
  <2>5. InOrder({i}) \in [1 .. 1 -> {i}]
    BY <2>4, InOrderLists
  <2>6. ins(d[2]) \in [1 .. 1 -> {i}]
    BY <2>2, <2>5
  <2>7. flit(i) \in Flit
    BY <2>1, Movers, Zenon
  <2> HIDE DEF ejecting, ins, flit
  <2>8. DOMAIN ejecting(d[2]) = 1 .. 1 /\ ejecting(d[2])[1] = flit(i)
    BY <1>5, <1>6, <2>6
  <2>9. ejecting(d[2]) = <<flit(i)>>
    <3>1. ejecting(d[2]) = [n \in DOMAIN ejecting(d[2]) |-> ejecting(d[2])[n]]
      BY DEF ejecting
    <3>2. ejecting(d[2]) = [n \in 1 .. 1 |-> flit(i)]
      BY <2>8, <3>1
    <3> QED
      BY <3>2
  <2>10. niOut'[d] = Append(niOut[d], flit(i))
    BY <1>1, <1>2, <1>7, <2>7, <2>9, AppendIsConcat, SMTT(30)
  <2>11. \A j \in PC : xbar[r][j] # INVALID_VC /\ mod(j).pc = d[2] => j = i
    BY <1>4, <2>1
  <2> QED
    BY <1>7, <2>1, <2>10, <2>11, Zenon DEF flit
<1>8. CASE d[1] # r \/ from(d[2]) = {}
  <2>1. niOut'[d] = niOut[d]
    <3>1. CASE d[1] # r
      BY <1>1, <3>1, Zenon
    <3>2. CASE d[1] = r /\ from(d[2]) = {}
      <4>1. Cardinality({}) = 0 /\ IsFiniteSet({}) /\ {} \in SUBSET Int
        BY FS_EmptySet
      <4>2. Len(InOrder({})) = 0 /\ DOMAIN InOrder({}) = 1 .. 0
        BY <4>1, InOrderLists
      <4>3. ins(d[2]) = InOrder({})
        <5> HIDE DEF from
        <5> QED
          BY <3>2
      <4> HIDE DEF ins
      <4>4. DOMAIN ins(d[2]) = 1 .. 0 /\ \A n \in 1 .. 0 : FALSE
        BY <4>2, <4>3
      <4>5. DOMAIN ejecting(d[2]) = 1 .. 0 /\ ejecting(d[2]) = [n \in DOMAIN ejecting(d[2]) |-> ejecting(d[2])[n]]
        BY <4>4
      <4> HIDE DEF ejecting
      <4>6. ejecting(d[2]) \in [1 .. 0 -> Flit]
        BY <4>4, <4>5
      <4>7. ejecting(d[2]) = <<>>
        BY <4>6, EmptySeq
      <4> QED
        BY <1>1, <1>2, <3>2, <4>7, ConcatEmptySeq
    <3> QED
      BY <1>8, <3>1, <3>2
  <2> QED
    BY <1>8, <2>1
<1> QED
  BY <1>7, <1>8, Zenon

\* Tails that traverse the switch leave their buffers for the output ports.
LEMMA SwitchTails ==
  ASSUME TypeOK, ControlInv, TypeOK', PacketsCounted, NEW r \in Router, StageST(r)
  PROVE  PacketsCounted'
<1> DEFINE movers == {i \in PC : xbar[r][i] # INVALID_VC}
           flit(i) == Head(flitQ[r][i][xbar[r][i]])
           mod(i) == inMod[r][i][xbar[r][i]]
           T == {i \in movers : isTail(flit(i))}
           to == [i \in T |-> <<r, mod(i).pc, INVALID_VC>>]
           from == [i \in T |-> <<r, i, xbar[r][i]>>]
           P == {to[i] : i \in T}
           M == {from[i] : i \in T}
<1>1. /\ flitQ' = [flitQ EXCEPT ![r] = [pc \in PC |-> [vc \in VC |->
                     IF xbar[r][pc] = vc THEN Tail(@[pc][vc]) ELSE @[pc][vc]]]]
      /\ UNCHANGED <<pktInNet, niCur>>
  BY Zenon DEF StageST, niInVars
<1>2. ASSUME NEW i \in movers
      PROVE  /\ i \in PC /\ xbar[r][i] \in VC /\ flitQ[r][i][xbar[r][i]] # <<>> /\ flit(i) \in Flit
             /\ mod(i).pc \in PC /\ mod(i).vc \in VC
             /\ isEjectChannel(mod(i).pc) \/ <<r, mod(i).pc>> \in Link
  BY Movers, Zenon
<1>3. IsFiniteSet(T)
  <2>1. T \in SUBSET PC
    OBVIOUS
  <2> HIDE DEF T
  <2> QED
    BY <2>1, Finite, FS_Subset
<1>4. INVALID_VC \notin VC
  BY SwArbAssumption DEF VC, INVALID_VC
<1>5. \A i, j \in movers : mod(i).pc = mod(j).pc => i = j
  BY Zenon DEF ControlInv, XbarReady
<1>6. \A x : x \in P <=> \E i \in T : x = <<r, mod(i).pc, INVALID_VC>>
  BY ZenonT(60)
<1>7. \A x : x \in M <=> \E i \in T : x = <<r, i, xbar[r][i]>>
  BY Zenon
<1>8. \A i : i \in T <=> i \in movers /\ isTail(flit(i))
  OBVIOUS
<1>9. Cardinality(P) = Cardinality(T) /\ Cardinality(T) \in Nat
  <2>1. ASSUME NEW i \in T, NEW j \in T, to[i] = to[j]
        PROVE  i = j
    <3>1. mod(i).pc = mod(j).pc
      BY <2>1, Zenon
    <3> QED
      BY <1>5, <3>1, ZenonT(60)
  <2>2. DOMAIN to = T
    OBVIOUS
  <2> HIDE DEF to, T
  <2>3. IsInjective(to)
    BY <2>1, <2>2, Zenon DEF IsInjective
  <2>4. Cardinality(P) = Cardinality(T)
    BY <1>3, <2>2, <2>3, ImageSize
  <2> QED
    BY <1>3, <2>4, FS_CardinalityType
<1>10. Cardinality(M) = Cardinality(T)
  <2>1. ASSUME NEW i \in T, NEW j \in T, from[i] = from[j]
        PROVE  i = j
    BY <2>1, ZenonT(60)
  <2>2. DOMAIN from = T
    OBVIOUS
  <2> HIDE DEF from, T
  <2>3. IsInjective(from)
    BY <2>1, <2>2, Zenon DEF IsInjective
  <2> QED
    BY <1>3, <2>2, <2>3, ImageSize
<1>11. \A i \in PC : i \in movers <=> xbar[r][i] # INVALID_VC
  OBVIOUS
<1>12. ASSUME NEW d \in NI
       PROVE  /\ \A i \in movers : d[1] = r /\ mod(i).pc = d[2] => niOut'[d] = Append(niOut[d], flit(i))
              /\ (\A i \in movers : ~ (d[1] = r /\ mod(i).pc = d[2])) => niOut'[d] = niOut[d]
  BY Ejects, SMTT(30)
<1>13. ASSUME NEW l \in Link
       PROVE  /\ \A i \in movers : l[1] = r /\ mod(i).pc = l[2] =>
                   pipe'[l] = Append(pipe[l], [f |-> flit(i), vc |-> mod(i).vc, age |-> 0])
              /\ (\A i \in movers : ~ (l[1] = r /\ mod(i).pc = l[2])) => pipe'[l] = pipe[l]
  BY Left
<1> HIDE DEF P, M, T, to, from, movers, flit, mod
<1>14. P \in SUBSET Place /\ M \in SUBSET Place /\ P \cap M = {}
  <2>1. ASSUME NEW x \in P PROVE x \in Place /\ x[3] = INVALID_VC
    <3>1. PICK i \in T : x = <<r, mod(i).pc, INVALID_VC>>
      BY <1>6
    <3> QED
      BY <1>2, <1>8, <3>1 DEF Place
  <2>2. ASSUME NEW x \in M PROVE x \in Place /\ x[3] # INVALID_VC
    <3>1. PICK i \in T : x = <<r, i, xbar[r][i]>>
      BY <1>7
    <3> QED
      BY <1>2, <1>4, <1>8, <3>1 DEF Place
  <2> QED
    BY <2>1, <2>2
<1>15. ASSUME NEW q \in Router, NEW pc \in PC, NEW vc \in VC
       PROVE  Tally(flitQ[q][pc][vc], Tails)'
                = Tally(flitQ[q][pc][vc], Tails) - (IF <<q, pc, vc>> \in M THEN 1 ELSE 0)
  <2> DEFINE s == flitQ[q][pc][vc]
  <2>1. s \in Seq(Flit) /\ Tally(s, Tails) \in Nat
    <3>1. s \in Seq(Flit) /\ <<>> \in Seq(Flit)
      BY DEF TypeOK, BuffersOK
    <3> HIDE DEF s
    <3> QED
      BY <3>1, TallyConcat
  <2>2. flitQ'[q][pc][vc] = IF q = r /\ xbar[r][pc] = vc THEN Tail(s) ELSE s
    BY <1>1 DEF TypeOK, BuffersOK
  <2>3. CASE q = r /\ xbar[r][pc] = vc
    <3>1. pc \in movers
      BY <1>4, <1>11, <2>3
    <3>2. s # <<>> /\ flit(pc) = Head(s) /\ flit(pc) \in Flit
      BY <1>2, <2>3, <3>1 DEF flit
    <3>3. Head(s) \in Tails <=> <<q, pc, vc>> \in M
      <4>1. Head(s) \in Tails <=> pc \in T
        BY <1>8, <3>1, <3>2 DEF Tails
      <4> QED
        BY <1>7, <2>3, <4>1
    <3> HIDE DEF s
    <3>4. Tally(s, Tails) = Tally(Tail(s), Tails) + (IF Head(s) \in Tails THEN 1 ELSE 0)
      BY <2>1, <3>2, TallyTail
    <3>5. Tally(Tail(s), Tails) \in Nat
      <4> DEFINE t == Tail(s)
      <4>1. t \in Seq(Flit) /\ <<>> \in Seq(Flit)
        BY <2>1, <3>2
      <4> HIDE DEF t
      <4>2. Tally(t, Tails) \in Nat
        BY <4>1, TallyConcat
      <4> QED
        BY <4>2 DEF t
    <3>6. Tally(flitQ[q][pc][vc], Tails)' = Tally(Tail(s), Tails)
      BY <2>2, <2>3
    <3> QED
      BY <3>3, <3>4, <3>5, <3>6 DEF s
  <2>4. CASE ~ (q = r /\ xbar[r][pc] = vc)
    <3>1. flitQ'[q][pc][vc] = s
      BY <2>2, <2>4
    <3>2. <<q, pc, vc>> \notin M
      BY <1>7, <2>4
    <3> QED
      BY <2>1, <3>1, <3>2
  <2> QED
    BY <2>3, <2>4
<1>16. ASSUME NEW q \in Router, NEW pc \in PC, isEjectChannel(pc)
       PROVE  Tally(niOut[<<q, pc>>], Tails)'
                = Tally(niOut[<<q, pc>>], Tails) + (IF <<q, pc, INVALID_VC>> \in P THEN 1 ELSE 0)
  <2> DEFINE d == <<q, pc>>
             s == niOut[d]
  <2>1. d \in NI /\ d[1] = q /\ d[2] = pc
    BY <1>16 DEF NI, isEjectChannel
  <2>2. s \in Seq(Flit) /\ Tally(s, Tails) \in Nat
    <3>1. s \in Seq(Flit) /\ <<>> \in Seq(Flit)
      BY <2>1 DEF TypeOK, InterfacesOK
    <3> HIDE DEF s
    <3> QED
      BY <3>1, TallyConcat
  <2> HIDE DEF d
  <2>3. CASE q = r /\ \E i \in movers : mod(i).pc = pc
    <3>1. PICK i \in movers : mod(i).pc = pc
      BY <2>3
    <3>2. niOut'[d] = Append(s, flit(i)) /\ flit(i) \in Flit
      BY <1>2, <1>12, <2>1, <2>3, <3>1
    <3>3. flit(i) \in Tails <=> <<q, pc, INVALID_VC>> \in P
      <4>1. flit(i) \in Tails <=> i \in T
        BY <1>8, <3>2 DEF Tails
      <4>2. \A j \in T : mod(j).pc = pc => j = i
        BY <1>5, <1>8, <3>1
      <4> QED
        BY <1>6, <2>3, <3>1, <4>1, <4>2
    <3> HIDE DEF s
    <3>4. Tally(Append(s, flit(i)), Tails) = Tally(s, Tails) + (IF flit(i) \in Tails THEN 1 ELSE 0)
      BY <2>2, <3>2, TallyAppend
    <3> QED
      BY <3>2, <3>3, <3>4 DEF s, d
  <2>4. CASE q # r \/ \A i \in movers : mod(i).pc # pc
    <3>1. niOut'[d] = s
      BY <1>12, <2>1, <2>4
    <3>2. <<q, pc, INVALID_VC>> \notin P
      BY <1>6, <1>8, <2>4
    <3> QED
      BY <2>2, <3>1, <3>2 DEF d
  <2> QED
    BY <2>3, <2>4
<1>17. ASSUME NEW q \in Router, NEW pc \in PC, <<q, pc>> \in Link
       PROVE  Tally(pipe[<<q, pc>>], TailsSent)'
                = Tally(pipe[<<q, pc>>], TailsSent) + (IF <<q, pc, INVALID_VC>> \in P THEN 1 ELSE 0)
  <2> DEFINE l == <<q, pc>>
             s == pipe[l]
  <2>1. l \in Link /\ l[1] = q /\ l[2] = pc
    BY <1>17
  <2>2. s \in Seq(InFlight) /\ Tally(s, TailsSent) \in Nat
    <3>1. s \in Seq(InFlight) /\ <<>> \in Seq(InFlight)
      BY <2>1 DEF TypeOK, BuffersOK
    <3> HIDE DEF s
    <3> QED
      BY <3>1, TallyConcat
  <2> HIDE DEF l
  <2>3. CASE q = r /\ \E i \in movers : mod(i).pc = pc
    <3>1. PICK i \in movers : mod(i).pc = pc
      BY <2>3
    <3> DEFINE e == [f |-> flit(i), vc |-> mod(i).vc, age |-> 0]
    <3>2. pipe'[l] = Append(s, e) /\ e \in InFlight /\ flit(i) \in Flit
      <4>1. pipe'[l] = Append(s, e)
        BY <1>13, <2>1, <2>3, <3>1
      <4>2. e \in InFlight /\ flit(i) \in Flit
        BY <1>2, <3>1 DEF InFlight
      <4> QED
        BY <4>1, <4>2
    <3>3. e \in TailsSent <=> <<q, pc, INVALID_VC>> \in P
      <4>1. e \in TailsSent <=> i \in T
        BY <1>8, <3>2 DEF TailsSent
      <4>2. \A j \in T : mod(j).pc = pc => j = i
        BY <1>5, <1>8, <3>1
      <4> QED
        BY <1>6, <2>3, <3>1, <4>1, <4>2
    <3> HIDE DEF s, e
    <3>4. Tally(Append(s, e), TailsSent) = Tally(s, TailsSent) + (IF e \in TailsSent THEN 1 ELSE 0)
      BY <2>2, <3>2, TallyAppend
    <3> QED
      BY <3>2, <3>3, <3>4 DEF s, l
  <2>4. CASE q # r \/ \A i \in movers : mod(i).pc # pc
    <3>1. pipe'[l] = s
      BY <1>13, <2>1, <2>4
    <3>2. <<q, pc, INVALID_VC>> \notin P
      BY <1>6, <1>8, <2>4
    <3> QED
      BY <2>2, <3>1, <3>2 DEF l
  <2> QED
    BY <2>3, <2>4
<1>18. ASSUME NEW q \in Router, NEW pc \in PC, NEW vc \in VC \cup {INVALID_VC}
       PROVE  TailsAt(q, pc, vc)' = TailsAt(q, pc, vc) + (IF <<q, pc, vc>> \in P THEN 1 ELSE 0)
                                                       - (IF <<q, pc, vc>> \in M THEN 1 ELSE 0)
  <2>1. TailsAt(q, pc, vc) \in Nat
    BY PlacesOfTails DEF TailsKnown
  <2>2. CASE vc # INVALID_VC
    <3>1. <<q, pc, vc>> \notin P
      BY <1>6, <2>2
    <3>2. TailsAt(q, pc, vc) = Tally(flitQ[q][pc][vc], Tails)
      BY <2>2 DEF TailsAt
    <3>3. TailsAt(q, pc, vc)' = Tally(flitQ[q][pc][vc], Tails)'
      BY <2>2 DEF TailsAt
    <3> QED
      BY <1>15, <2>1, <2>2, <3>1, <3>2, <3>3
  <2>3. CASE vc = INVALID_VC
    <3>1. <<q, pc, vc>> \notin M
      <4>1. \A i \in T : xbar[r][i] # INVALID_VC
        BY <1>2, <1>4, <1>8
      <4> QED
        BY <1>7, <2>3, <4>1
    <3>2. CASE isEjectChannel(pc)
      <4>1. TailsAt(q, pc, vc) = Tally(niOut[<<q, pc>>], Tails)
        BY <2>3, <3>2 DEF TailsAt
      <4>2. TailsAt(q, pc, vc)' = Tally(niOut[<<q, pc>>], Tails)'
        BY <2>3, <3>2 DEF TailsAt
      <4> QED
        BY <1>16, <2>1, <2>3, <3>1, <3>2, <4>1, <4>2
    <3>3. CASE ~ isEjectChannel(pc) /\ <<q, pc>> \in Link
      <4>1. TailsAt(q, pc, vc) = Tally(pipe[<<q, pc>>], TailsSent)
        BY <2>3, <3>3 DEF TailsAt
      <4>2. TailsAt(q, pc, vc)' = Tally(pipe[<<q, pc>>], TailsSent)'
        BY <2>3, <3>3 DEF TailsAt
      <4> QED
        BY <1>17, <2>1, <2>3, <3>1, <3>3, <4>1, <4>2
    <3>4. CASE ~ isEjectChannel(pc) /\ <<q, pc>> \notin Link
      <4>1. TailsAt(q, pc, vc)' = TailsAt(q, pc, vc)
        BY <2>3, <3>4 DEF TailsAt
      <4>2. <<q, pc, vc>> \notin P
        BY <1>2, <1>6, <1>8, <3>4
      <4> QED
        BY <2>1, <3>1, <4>1, <4>2
    <3> QED
      BY <3>2, <3>3, <3>4
  <2> QED
    BY <2>2, <2>3
<1>19. /\ Total(TailCounts) \in Nat
       /\ Total(TailCounts)' = Total(TailCounts) + Cardinality(P) - Cardinality(M)
  <2>1. TailsGo(P, M)
    BY <1>14, <1>18 DEF TailsGo
  <2> QED
    BY <2>1, TailsMove
<1>20. Total(TailCounts)' = Total(TailCounts)
  BY <1>9, <1>10, <1>19
<1>21. Uncounted' = Uncounted
  BY <1>1, SameUncounted
<1> QED
  BY <1>1, <1>20, <1>21 DEF PacketsCounted

\* A tail that an NI writes is not counted yet.
LEMMA InjectTails ==
  ASSUME TypeOK, TypeOK', PacketsCounted, NEW i \in NIinProcs, NIInject(i)
  PROVE  PacketsCounted'
<1> DEFINE cur == niCur[i]
           f == [p |-> cur.p, n |-> cur.n + 1]
           full == isFull(i[2], i[3], cur.vc)
           Cur == [p : Packet \cup {NoPacket}, vc : VC \cup {INVALID_VC}, n : Nat]
           place == <<i[2], i[3], cur.vc>>
           P == IF ~ full /\ isTail(f) THEN {place} ELSE {}
<1>1. /\ cur.vc # INVALID_VC /\ cur.n < NumFlits[cur.p]
      /\ UNCHANGED <<pipe, niOut, pktInNet>>
      /\ full => UNCHANGED <<flitQ, niCur>>
      /\ ~ full => /\ flitQ' = [flitQ EXCEPT ![i[2]][i[3]][cur.vc] = Append(@, f)]
                   /\ niCur' = [niCur EXCEPT ![i].n = @ + 1]
  BY Zenon DEF NIInject, NIof, netVars, niOutVars
<1>2. cur \in Cur /\ niCur \in [NIinProcs -> Cur] /\ (cur.vc # INVALID_VC => cur.p \in Packet)
  BY DEF TypeOK, InterfacesOK
<1>3. cur.vc \in VC /\ f \in Flit /\ cur.n \in Nat /\ cur.p \in Packet /\ i[2] \in Router /\ i[3] \in PC
  <2>1. i[2] \in Router /\ i[3] \in PC
    BY Finite DEF NIinProcs
  <2> HIDE DEF cur
  <2> QED
    BY <1>1, <1>2, <2>1 DEF Flit
<1>4. flitQ \in [Router -> [PC -> [VC -> Seq(Flit)]]]
  BY DEF TypeOK, BuffersOK
<1>5. INVALID_VC \notin VC
  BY SwArbAssumption DEF VC, INVALID_VC
<1> HIDE DEF full
<1>6. Uncounted' = IF ~ full /\ isTail(f) THEN Uncounted \cup {i} ELSE Uncounted
  <2>1. CASE full
    BY <1>1, <2>1, SameUncounted
  <2>2. CASE ~ full
    <3>1. ASSUME NEW j \in NIinProcs, j # i
          PROVE  Finishing(j)' <=> Finishing(j)
      <4>1. niCur'[j] = niCur[j]
        BY <1>1, <1>2, <2>2, <3>1, SMTT(30)
      <4> QED
        BY <4>1 DEF Finishing
    <3>2. Finishing(i)' <=> isTail(f)
      <4>1. niCur'[i] = [niCur[i] EXCEPT !.n = @ + 1]
        BY <1>1, <1>2, <2>2, Zenon
      <4>2. niCur'[i].n = cur.n + 1 /\ niCur'[i].p = cur.p /\ niCur'[i].vc = cur.vc
        BY <1>2, <4>1
      <4> HIDE DEF cur
      <4> QED
        BY <1>1, <4>2 DEF Finishing, isTail
    <3>3. ~ Finishing(i)
      <4> HIDE DEF cur, f
      <4>1. NumFlits[cur.p] \in Nat
        BY <1>3, LengthsKnown
      <4>2. cur.n # NumFlits[cur.p]
        BY <1>1, <1>3, <4>1
      <4> QED
        BY <4>2 DEF Finishing, cur
    <3> HIDE DEF f
    <3> QED
      BY <2>2, <3>1, <3>2, <3>3 DEF Uncounted
  <2> QED
    BY <2>1, <2>2
<1>7. P \in SUBSET Place
  BY <1>3 DEF Place
<1>8. Cardinality(P) = (IF ~ full /\ isTail(f) THEN 1 ELSE 0) /\ Cardinality({}) = 0
  BY FS_Singleton, FS_EmptySet
<1>9. Cardinality(Uncounted)' = Cardinality(Uncounted) + (IF ~ full /\ isTail(f) THEN 1 ELSE 0)
  <2>1. IsFiniteSet(Uncounted) /\ Cardinality(Uncounted) \in Nat
    BY PlacesOfTails
  <2>2. i \notin Uncounted
    <3> HIDE DEF cur, f
    <3>1. NumFlits[cur.p] \in Nat
      BY <1>3, LengthsKnown
    <3>2. cur.n # NumFlits[cur.p]
      BY <1>1, <1>3, <3>1
    <3> QED
      BY <3>2 DEF Uncounted, Finishing, cur
  <2>3. Cardinality(Uncounted \cup {i}) = Cardinality(Uncounted) + 1
    BY <2>1, <2>2, FS_AddElement
  <2> HIDE DEF f
  <2> QED
    BY <1>6, <2>1, <2>3
<1>10. ASSUME ~ full, NEW q \in Router, NEW pc \in PC, NEW vc \in VC
       PROVE  flitQ'[q][pc][vc] = IF q = i[2] /\ pc = i[3] /\ vc = cur.vc
                                  THEN Append(flitQ[q][pc][vc], f) ELSE flitQ[q][pc][vc]
  <2>1. Writes(i[2], i[3], cur.vc, f)
    BY <1>1, <1>10, Zenon DEF Writes
  <2>2. i[2] \in Router /\ i[3] \in PC /\ cur.vc \in VC
    BY <1>3, Zenon
  <2> DEFINE r == i[2]
             port == i[3]
             v == cur.vc
  <2> HIDE DEF cur, f, r, port, v
  <2>3. flitQ'[q][pc][vc] = IF q = r /\ pc = port /\ vc = v THEN Append(flitQ[q][pc][vc], f)
                            ELSE flitQ[q][pc][vc]
    <3>1. r \in Router /\ port \in PC /\ v \in VC /\ Writes(r, port, v, f)
      BY <2>1, <2>2 DEF r, port, v
    <3> QED
      BY <1>4, <3>1, BufferWritten
  <2> QED
    BY <2>3 DEF r, port, v
<1>11. ASSUME NEW q \in Router, NEW pc \in PC, NEW vc \in VC
       PROVE  Tally(flitQ[q][pc][vc], Tails)'
                = Tally(flitQ[q][pc][vc], Tails) + (IF <<q, pc, vc>> \in P THEN 1 ELSE 0)
  <2> DEFINE s == flitQ[q][pc][vc]
  <2>1. s \in Seq(Flit) /\ Tally(s, Tails) \in Nat
    <3>1. s \in Seq(Flit) /\ <<>> \in Seq(Flit)
      BY <1>4
    <3> HIDE DEF s
    <3> QED
      BY <3>1, TallyConcat
  <2>2. <<q, pc, vc>> \in P <=> ~ full /\ isTail(f) /\ q = i[2] /\ pc = i[3] /\ vc = cur.vc
    <3> HIDE DEF f, cur
    <3> QED
      OBVIOUS
  <2>3. CASE ~ full /\ q = i[2] /\ pc = i[3] /\ vc = cur.vc
    <3>1. flitQ'[q][pc][vc] = Append(s, f)
      BY <1>10, <2>3, Zenon
    <3>2. f \in Tails <=> isTail(f)
      BY <1>3 DEF Tails
    <3> HIDE DEF s, f, cur, P
    <3>3. Tally(Append(s, f), Tails) = Tally(s, Tails) + (IF f \in Tails THEN 1 ELSE 0)
      BY <1>3, <2>1, TallyAppend
    <3> QED
      BY <2>1, <2>2, <2>3, <3>1, <3>2, <3>3, Zenon DEF s
  <2>4. CASE ~ (~ full /\ q = i[2] /\ pc = i[3] /\ vc = cur.vc)
    <3>1. flitQ'[q][pc][vc] = s
      <4>1. CASE full
        BY <1>1, <4>1, Zenon
      <4>2. CASE ~ full
        BY <1>10, <2>4, <4>2, ZenonT(60)
      <4> QED
        BY <4>1, <4>2, Zenon
    <3> HIDE DEF P, f, cur
    <3> QED
      BY <2>1, <2>2, <2>4, <3>1
  <2> QED
    BY <2>3, <2>4
<1>12. \A x \in P : x[3] # INVALID_VC
  <2>1. place[3] # INVALID_VC
    BY <1>1
  <2> HIDE DEF f, cur, place
  <2> QED
    BY <2>1
<1> HIDE DEF P, f, cur, place
<1>13. ASSUME NEW q \in Router, NEW pc \in PC, NEW vc \in VC \cup {INVALID_VC}
       PROVE  TailsAt(q, pc, vc)' = TailsAt(q, pc, vc) + (IF <<q, pc, vc>> \in P THEN 1 ELSE 0)
                                                       - (IF <<q, pc, vc>> \in {} THEN 1 ELSE 0)
  <2>1. TailsAt(q, pc, vc) \in Nat
    BY PlacesOfTails DEF TailsKnown
  <2>2. CASE vc # INVALID_VC
    <3>1. TailsAt(q, pc, vc) = Tally(flitQ[q][pc][vc], Tails)
      BY <2>2 DEF TailsAt
    <3>2. TailsAt(q, pc, vc)' = Tally(flitQ[q][pc][vc], Tails)'
      BY <2>2 DEF TailsAt
    <3> QED
      BY <1>11, <2>1, <2>2, <3>1, <3>2
  <2>3. CASE vc = INVALID_VC
    <3>1. <<q, pc, vc>> \notin P
      BY <1>12, <2>3
    <3>2. TailsAt(q, pc, vc)' = TailsAt(q, pc, vc)
      BY <1>1, <2>3 DEF TailsAt
    <3> QED
      BY <2>1, <3>1, <3>2
  <2> QED
    BY <2>2, <2>3
<1>14. /\ Total(TailCounts) \in Nat
       /\ Total(TailCounts)' = Total(TailCounts) + Cardinality(P) - Cardinality({})
  <2>1. TailsGo(P, {})
    BY <1>7, <1>13 DEF TailsGo
  <2> QED
    BY <2>1, TailsMove
<1>15. Cardinality(Uncounted) \in Nat /\ pktInNet \in Int
  BY PlacesOfTails, SMTT(30) DEF TypeOK, InterfacesOK
<1>16. Total(TailCounts)' = Total(TailCounts) + Cardinality(P)
  BY <1>8, <1>14
<1>17. /\ Total(TailCounts) = pktInNet + Cardinality(Uncounted)
       /\ pktInNet' = pktInNet
       /\ PacketsCounted' <=> Total(TailCounts)' = pktInNet' + Cardinality(Uncounted)'
  BY <1>1 DEF PacketsCounted
<1> QED
  BY <1>8, <1>9, <1>15, <1>16, <1>17

\* An NI that takes or begins a packet has nothing to count, one that ends counts it.
LEMMA FinishTails ==
  ASSUME TypeOK, TypeOK', PacketInv, PacketsCounted, NEW i \in NIinProcs,
         NIRead(i) \/ NIReserve(i) \/ NIFinish(i)
  PROVE  PacketsCounted'
<1>1. UNCHANGED <<flitQ, niOut, pipe>>
  BY Zenon DEF NIRead, NIReserve, NIFinish, netVars, niOutVars
<1>2. Total(TailCounts)' = Total(TailCounts)
  BY <1>1, TailsUnmoved, TailsRest
<1>3. ~ Finishing(i)'
  BY NothingFinishes
<1>4. \E x : niCur' = [niCur EXCEPT ![i] = x]
  <2>1. niCur' = niCur => niCur' = [niCur EXCEPT ![i] = niCur[i]]
    BY DEF TypeOK, InterfacesOK
  <2>2. \A x : niCur' = [niCur EXCEPT ![i].p = x] => niCur' = [niCur EXCEPT ![i] = [niCur[i] EXCEPT !.p = x]]
    OBVIOUS
  <2>3. \A x : niCur' = [niCur EXCEPT ![i].vc = x] => niCur' = [niCur EXCEPT ![i] = [niCur[i] EXCEPT !.vc = x]]
    OBVIOUS
  <2>4. \/ niCur' = niCur
        \/ \E x : niCur' = [niCur EXCEPT ![i].p = x]
        \/ \E x : niCur' = [niCur EXCEPT ![i].vc = x]
        \/ \E x : niCur' = [niCur EXCEPT ![i] = x]
    BY DEF NIRead, NIReserve, NIFinish
  <2> QED
    BY <2>1, <2>2, <2>3, <2>4
<1>5. ASSUME NEW j \in NIinProcs, j # i
      PROVE  Finishing(j)' <=> Finishing(j)
  <2>1. niCur'[j] = niCur[j]
    BY <1>4, <1>5 DEF TypeOK, InterfacesOK
  <2> QED
    BY <2>1 DEF Finishing
<1>6. Uncounted' = Uncounted \ {i}
  BY <1>3, <1>5 DEF Uncounted
<1>7. IsFiniteSet(Uncounted) /\ Cardinality(Uncounted) \in Nat /\ pktInNet \in Int
  BY PlacesOfTails DEF TypeOK, InterfacesOK
<1>8. /\ Total(TailCounts) = pktInNet + Cardinality(Uncounted)
      /\ PacketsCounted' <=> Total(TailCounts)' = pktInNet' + Cardinality(Uncounted)'
  BY DEF PacketsCounted
<1>9. CASE NIRead(i) \/ NIReserve(i)
  <2>1. i \notin Uncounted
    BY <1>9, FinishesNext DEF Uncounted
  <2>2. Uncounted' = Uncounted
    BY <1>6, <2>1
  <2>3. pktInNet' = pktInNet
    BY <1>9 DEF NIRead, NIReserve, niOutVars
  <2> QED
    BY <1>2, <1>8, <2>2, <2>3
<1>10. CASE NIFinish(i)
  <2>1. i \in Uncounted /\ pktInNet' = pktInNet + 1
    BY <1>10 DEF NIFinish, Uncounted, Finishing
  <2>2. Cardinality(Uncounted \ {i}) = Cardinality(Uncounted) - 1
    BY <1>7, <2>1, FS_RemoveElement
  <2>3. Cardinality(Uncounted)' = Cardinality(Uncounted) - 1
    BY <1>6, <2>2
  <2> QED
    BY <1>2, <1>7, <1>8, <2>1, <2>3
<1> QED
  BY <1>9, <1>10

\* A tail that an NI takes is counted out.
LEMMA OutputTails ==
  ASSUME TypeOK, TypeOK', PacketsCounted, NEW i \in NIoutProcs, NIOutput(i)
  PROVE  PacketsCounted'
<1> DEFINE d == <<i[2], i[3]>>
           f == Head(niOut[d])
<1>1. UNCHANGED <<flitQ, pipe, niCur>>
  BY DEF NIOutput, netVars, niInVars
<1>2. d \in NI /\ i[2] \in Router /\ i[3] \in PC /\ i[3] \in LocalPC
  BY Finite DEF NIoutProcs, NI
<1>3. niOut[d] \in Seq(Flit)
  BY <1>2 DEF TypeOK, InterfacesOK
<1>4. CASE niOut[d] = <<>>
  <2>1. UNCHANGED <<niOut, pktInNet>>
    BY <1>4 DEF NIOutput, NIof, niOutVars
  <2> QED
    BY <1>1, <2>1, TailsUnmoved, SameUncounted, CountRests
<1>5. CASE niOut[d] # <<>>
  <2> DEFINE M == IF isTail(f) THEN {<<i[2], i[3], INVALID_VC>>} ELSE {}
  <2>1. /\ niOut' = [niOut EXCEPT ![d] = Tail(@)]
        /\ pktInNet' = IF isTail(f) THEN pktInNet - 1 ELSE pktInNet
    BY <1>5, ZenonT(60) DEF NIOutput, NIof
  <2>2. f \in Flit /\ (f \in Tails <=> isTail(f))
    BY <1>3, <1>5 DEF Tails
  <2>3. M \in SUBSET Place
    BY <1>2 DEF Place
  <2>4. Cardinality(M) = (IF isTail(f) THEN 1 ELSE 0) /\ Cardinality({}) = 0
    BY FS_Singleton, FS_EmptySet
  <2>5. \A x : x \in M <=> isTail(f) /\ x = <<i[2], i[3], INVALID_VC>>
    OBVIOUS
  <2> DEFINE s == niOut[d]
  <2>6. niOut'[d] = Tail(s)
    <3> HIDE DEF d
    <3> QED
      BY <1>2, <2>1 DEF TypeOK, InterfacesOK
  <2>7. \A e \in NI : e # d => niOut'[e] = niOut[e]
    <3> HIDE DEF d
    <3> QED
      BY <2>1 DEF TypeOK, InterfacesOK
  <2> HIDE DEF s, M
  <2>8. Tally(s, Tails) = Tally(Tail(s), Tails) + (IF Head(s) \in Tails THEN 1 ELSE 0)
    BY <1>3, <1>5, TallyTail DEF s
  <2>9. Tally(Tail(s), Tails) \in Nat
    <3> DEFINE t == Tail(s)
    <3>1. t \in Seq(Flit) /\ <<>> \in Seq(Flit)
      BY <1>3, <1>5 DEF s
    <3> HIDE DEF t
    <3>2. Tally(t, Tails) \in Nat
      BY <3>1, TallyConcat
    <3> QED
      BY <3>2 DEF t
  <2>10. Tally(niOut[d], Tails)' = Tally(niOut[d], Tails) - (IF isTail(f) THEN 1 ELSE 0)
    <3>1. Tally(niOut[d], Tails)' = Tally(Tail(s), Tails)
      BY <2>6
    <3>2. Tally(niOut[d], Tails) = Tally(Tail(s), Tails) + (IF isTail(f) THEN 1 ELSE 0)
      BY <2>2, <2>8 DEF s
    <3> QED
      BY <2>9, <3>1, <3>2
  <2> HIDE DEF f
  <2>11. ASSUME NEW q \in Router, NEW pc \in PC, NEW vc \in VC \cup {INVALID_VC}
         PROVE  TailsAt(q, pc, vc)' = TailsAt(q, pc, vc) + (IF <<q, pc, vc>> \in {} THEN 1 ELSE 0)
                                                         - (IF <<q, pc, vc>> \in M THEN 1 ELSE 0)
    <3>1. TailsAt(q, pc, vc) \in Nat
      BY PlacesOfTails DEF TailsKnown
    <3>2. CASE q = i[2] /\ pc = i[3] /\ vc = INVALID_VC
      <4>1. TailsAt(q, pc, vc) = Tally(niOut[d], Tails)
        BY <1>2, <3>2 DEF TailsAt, isEjectChannel
      <4>2. TailsAt(q, pc, vc)' = Tally(niOut[d], Tails)'
        BY <1>2, <3>2 DEF TailsAt, isEjectChannel
      <4>3. <<q, pc, vc>> \in M <=> isTail(f)
        BY <2>5, <3>2
      <4> HIDE DEF d
      <4> QED
        BY <2>10, <3>1, <4>1, <4>2, <4>3
    <3>3. CASE ~ (q = i[2] /\ pc = i[3] /\ vc = INVALID_VC)
      <4>1. <<q, pc, vc>> \notin M
        BY <2>5, <3>3
      <4>2. TailsAt(q, pc, vc)' = TailsAt(q, pc, vc)
        <5>1. CASE vc = INVALID_VC /\ isEjectChannel(pc)
          <6>1. <<q, pc>> \in NI /\ <<q, pc>> # d
            BY <3>3, <5>1 DEF NI, isEjectChannel
          <6>2. niOut'[<<q, pc>>] = niOut[<<q, pc>>]
            BY <2>7, <6>1
          <6> QED
            BY <5>1, <6>2 DEF TailsAt
        <5>2. CASE ~ (vc = INVALID_VC /\ isEjectChannel(pc))
          BY <1>1, <5>2 DEF TailsAt
        <5> QED
          BY <5>1, <5>2
      <4> QED
        BY <3>1, <4>1, <4>2
    <3> QED
      BY <3>2, <3>3
  <2>12. /\ Total(TailCounts) \in Nat
         /\ Total(TailCounts)' = Total(TailCounts) + Cardinality({}) - Cardinality(M)
    <3>1. TailsGo({}, M)
      BY <2>3, <2>11 DEF TailsGo
    <3> QED
      BY <3>1, TailsMove
  <2>13. Uncounted' = Uncounted /\ Cardinality(Uncounted) \in Nat /\ pktInNet \in Int
    BY <1>1, SameUncounted, PlacesOfTails DEF TypeOK, InterfacesOK
  <2>14. /\ Total(TailCounts) = pktInNet + Cardinality(Uncounted)
         /\ PacketsCounted' <=> Total(TailCounts)' = pktInNet' + Cardinality(Uncounted)'
    BY DEF PacketsCounted
  <2>15. Total(TailCounts)' = Total(TailCounts) - (IF isTail(f) THEN 1 ELSE 0)
    BY <2>4, <2>12
  <2> QED
    BY <2>1, <2>13, <2>14, <2>15
<1> QED
  BY <1>4, <1>5

\* The inductive invariant.
CountInv == TypeOK /\ ControlInv /\ PacketInv /\ ScheduledOnce /\ TailsStay /\ PacketsCounted

\* At the start nothing is in the network.
LEMMA CountAtFirst ==
  Init => CountInv
<1> SUFFICES ASSUME Init PROVE CountInv
  OBVIOUS
<1>1. TypeOK /\ ControlInv /\ PacketInv /\ ScheduledOnce
  BY WholeAtFirst, ReadyOnce
<1>2. \A i \in NIinProcs : ~ Finishing(i)
  BY DEF Init, Finishing
<1>3. TailsStay
  BY <1>2 DEF TailsStay, TailStays
<1>4. Uncounted = {}
  BY <1>2 DEF Uncounted
<1>5. ASSUME NEW x \in Place
      PROVE  TailCounts[x] = 0
  <2>1. PICK r \in Router, pc \in PC, vc \in VC \cup {INVALID_VC} : x = <<r, pc, vc>>
    BY DEF Place
  <2>2. TailCounts[x] = TailsAt(r, pc, vc)
    BY <1>1, <2>1, PlacesOfTails DEF TailsKnown
  <2>3. Tally(<<>>, Tails) = 0 /\ Tally(<<>>, TailsSent) = 0
    BY TallyOne
  <2>4. vc # INVALID_VC => flitQ[r][pc][vc] = <<>>
    BY DEF Init, PerVCState
  <2>5. isEjectChannel(pc) => niOut[<<r, pc>>] = <<>>
    BY DEF Init, NI, isEjectChannel
  <2>6. <<r, pc>> \in Link => pipe[<<r, pc>>] = <<>>
    BY DEF Init
  <2> QED
    BY <2>2, <2>3, <2>4, <2>5, <2>6 DEF TailsAt
<1>6. Total(TailCounts) = 0
  <2>1. IsFiniteSet(Place) /\ TailCounts \in [Place -> Nat]
    BY <1>1, PlacesOfTails DEF TailsKnown
  <2> QED
    BY <1>5, <2>1, TotalZero
<1>7. pktInNet = 0 /\ Cardinality({}) = 0
  BY FS_EmptySet DEF Init
<1>8. PacketsCounted
  BY <1>4, <1>6, <1>7 DEF PacketsCounted
<1> QED
  BY <1>1, <1>3, <1>8 DEF CountInv

\* Every step keeps the count right.
LEMMA CountingKept ==
  ASSUME TypeOK, ControlInv, PacketInv, PacketsCounted, TypeOK', Next
  PROVE  PacketsCounted'
<1>1. ASSUME UNCHANGED <<flitQ, niOut, pipe, niCur, pktInNet>>
      PROVE  PacketsCounted'
  BY <1>1, TailsUnmoved, SameUncounted, CountRests
<1>2. ASSUME NEW r \in Router, RouterStep(r)
      PROVE  PacketsCounted'
  <2>1. CASE RouterWake(r) \/ IncCredit(r) \/ StageSA(r) \/ StageSSA(r) \/ StageRC(r) \/ StageVA(r)
    <3>1. UNCHANGED <<flitQ, niOut, pipe, niCur, pktInNet>>
      BY <2>1, Zenon DEF RouterWake, IncCredit, StageSA, StageSSA, StageRC, StageVA,
                         bufVars, niInVars, niOutVars
    <3> QED
      BY <1>1, <3>1
  <2> QED
    BY <1>2, <2>1, TraversalTails, SwitchTails DEF RouterStep
<1>3. CASE NIStep
  BY <1>3, FinishTails, InjectTails, OutputTails DEF NIStep
<1>4. CASE Tick
  BY <1>4, TickTails
<1>5. ASSUME NEW p \in Packet, Generate(p)
      PROVE  PacketsCounted'
  <2>1. UNCHANGED <<flitQ, niOut, pipe, niCur, pktInNet>>
    BY <1>5 DEF Generate, netVars, niOutVars
  <2> QED
    BY <1>1, <2>1
<1>6. CASE UNCHANGED vars
  <2>1. UNCHANGED <<flitQ, niOut, pipe, niCur, pktInNet>>
    BY <1>6 DEF vars, bufVars, niInVars, niOutVars
  <2> QED
    BY <1>1, <2>1
<1> QED
  BY <1>2, <1>3, <1>4, <1>5, <1>6 DEF Next, Step, Finished

\* The invariant is inductive.
LEMMA CountInvInductive ==
  CountInv /\ [Next]_vars => CountInv'
<1> SUFFICES ASSUME CountInv, [Next]_vars
             PROVE  CountInv'
  OBVIOUS
<1> USE DEF CountInv
<1>1. (TypeOK /\ ControlInv /\ PacketInv)'
  BY WholeInductive
<1>2. CASE Next
  <2>1. ScheduledOnce'
    BY <1>2, OnceInductive
  <2>2. TailsStay'
    BY <1>2, TailsInductive
  <2>3. PacketsCounted'
    BY <1>1, <1>2, CountingKept
  <2> QED
    BY <1>1, <2>1, <2>2, <2>3
<1>3. CASE UNCHANGED vars
  <2>1. UNCHANGED <<flitQ, xbar, niCur, ready, held, stage, niOut, pipe, pktInNet>>
    BY <1>3 DEF vars, bufVars, ctlVars, niInVars, niOutVars, schedVars
  <2>2. ScheduledOnce'
    BY <2>1 DEF ScheduledOnce, Once, Range
  <2>3. ASSUME NEW i \in NIinProcs PROVE TailStays(i)'
    <3>1. TailStays(i)
      BY DEF TailsStay
    <3>2. TurnFirst(i, i[2])' = TurnFirst(i, i[2])
      BY <2>1 DEF TurnFirst, Running, Before
    <3> QED
      BY <2>1, <3>1, <3>2, Zenon DEF TailStays, Finishing, Waiting
  <2>4. PacketsCounted'
    BY <1>1, <2>1, TailsUnmoved, SameUncounted, CountRests
  <2> QED
    BY <1>1, <2>2, <2>3, <2>4 DEF TailsStay
<1> QED
  BY <1>2, <1>3

\* Each packet that an NI has yet to count has its tail in a buffer of its own.
LEMMA CountInvSuffices ==
  CountInv => PktInNetCount
<1> SUFFICES ASSUME CountInv PROVE PktInNetCount
  OBVIOUS
<1> USE DEF CountInv
<1> DEFINE U == Uncounted
           at == [i \in U |-> <<<<i[2], i[3], niCur[i].vc>>, 1>>]
           C == Cells(TailCounts)
           I == {at[i] : i \in U}
<1>1. IsFiniteSet(U) /\ Cardinality(U) \in Nat /\ TailsKnown /\ IsFiniteSet(Place)
  BY PlacesOfTails
<1>2. IsFiniteSet(C) /\ Total(TailCounts) \in Nat
  BY <1>1, CellsFinite DEF TailsKnown
<1>3. PICK left \in Past, landed \in Past : Stored(left, landed) /\ Written(landed)
  BY DEF PacketInv, Whole
<1>4. ASSUME NEW i \in U
      PROVE  /\ i \in NIinProcs /\ i[2] \in Router /\ i[3] \in PC
             /\ niCur[i].vc \in VC /\ niCur[i].vc # INVALID_VC
             /\ TailsAt(i[2], i[3], niCur[i].vc) >= 1
  <2> DEFINE vc == niCur[i].vc
             q == flitQ[i[2]][i[3]][vc]
             S == {k \in DOMAIN q : q[k] \in Tails}
  <2>1. i \in NIinProcs /\ Finishing(i)
    BY DEF Uncounted
  <2>2. /\ vc \in VC /\ vc # INVALID_VC /\ i[2] \in Router /\ i[3] \in PC
        /\ niCur[i].p \in Packet /\ niCur[i].n \in Nat \ {0} /\ niCur[i].n = NumFlits[niCur[i].p]
    BY <2>1, FinishesNext DEF Finishing
  <2>3. q # <<>>
    BY <2>1 DEF TailsStay, TailStays
  <2>4. q \in Seq(Flit)
    BY <2>2 DEF TypeOK, BuffersOK
  <2>5. landed[<<i[2], i[3], vc>>] = [p |-> niCur[i].p, n |-> niCur[i].n]
    BY <1>3, <2>1, <2>2 DEF Written
  <2>6. landed[<<i[2], i[3], vc>>] = q[Len(q)]
    <3>1. InBuffer(left[<<i[2], i[3], vc>>], q, landed[<<i[2], i[3], vc>>])
      BY <1>3, <2>2 DEF Stored
    <3> QED
      BY <2>3, <3>1, Zenon DEF InBuffer
  <2> HIDE DEF q
  <2>7. Len(q) \in DOMAIN q /\ IsFiniteSet(DOMAIN q)
    <3>1. Len(q) \in Nat /\ Len(q) # 0 /\ DOMAIN q = 1 .. Len(q)
      BY <2>3, <2>4, EmptySeq
    <3>2. IsFiniteSet(1 .. Len(q))
      BY <3>1, FS_Interval
    <3> QED
      BY <3>1, <3>2
  <2>8. q[Len(q)] \in Tails
    BY <2>2, <2>5, <2>6 DEF Tails, Flit, isTail
  <2>9. IsFiniteSet(S) /\ S # {} /\ Cardinality(S) \in Nat
    <3>1. S \in SUBSET DOMAIN q /\ Len(q) \in S
      BY <2>7, <2>8
    <3> HIDE DEF S
    <3> QED
      BY <2>7, <3>1, FS_Subset, FS_CardinalityType
  <2>10. Cardinality(S) # 0
    BY <2>9, FS_EmptySet
  <2>11. TailsAt(i[2], i[3], vc) = Cardinality(S)
    BY <2>2 DEF TailsAt, Tally, q
  <2> QED
    BY <2>1, <2>2, <2>9, <2>10, <2>11
<1>5. ASSUME NEW i \in U
      PROVE  at[i] \in C
  <2> DEFINE x == <<i[2], i[3], niCur[i].vc>>
  <2>1. x \in Place /\ TailCounts[x] = TailsAt(i[2], i[3], niCur[i].vc) /\ TailCounts[x] \in Nat
    BY <1>1, <1>4 DEF TailsKnown, Place
  <2>2. 1 \in 1 .. TailCounts[x]
    BY <1>4, <2>1
  <2>3. x \in DOMAIN TailCounts
    BY <1>1, <2>1 DEF TailsKnown
  <2> HIDE DEF x
  <2>4. <<x, 1>> \in {x} \X (1 .. TailCounts[x])
    BY <2>2
  <2>5. <<x, 1>> \in Cells(TailCounts)
    BY <2>3, <2>4 DEF Cells
  <2> QED
    BY <2>5 DEF x
<1>6. ASSUME NEW i \in U, NEW j \in U, at[i] = at[j]
      PROVE  i = j
  <2>1. i[2] = j[2] /\ i[3] = j[3] /\ niCur[i].vc = niCur[j].vc
    BY <1>6
  <2>2. NIof(i) = NIof(j)
    BY <2>1 DEF NIof
  <2> QED
    BY <1>3, <1>4, <2>1, <2>2 DEF Written
<1>7. DOMAIN at = U
  OBVIOUS
<1>8. Cardinality(I) = Cardinality(U)
  <2> HIDE DEF at, U
  <2>1. IsInjective(at)
    BY <1>6, <1>7, Zenon DEF IsInjective
  <2> QED
    BY <1>1, <1>7, <2>1, ImageSize
<1>9. I \in SUBSET C
  <2> HIDE DEF at, U, C
  <2> QED
    BY <1>5
<1> HIDE DEF I, C
<1>10. Cardinality(I) <= Cardinality(C)
  BY <1>2, <1>9, FS_Subset
<1>11. Cardinality(Uncounted) <= Total(TailCounts)
  BY <1>8, <1>10 DEF Total, C
<1>12. Total(TailCounts) = pktInNet + Cardinality(Uncounted) /\ pktInNet \in Int
  BY DEF PacketsCounted, TypeOK, InterfacesOK
<1> QED
  BY <1>1, <1>2, <1>11, <1>12 DEF PktInNetCount

\* The assertion of assembleFlit: a packet is counted out after it was counted in.
\* m_num_pkt_in_network is the number of tails in buffers, on links and before NIs,
\* less those whose NI is yet to count them, and these are still where they were
\* written: the NI has its turn before the router traverses its switch again.
THEOREM CountedInFirst ==
  Spec => []PktInNetCount
<1>1. Init => CountInv
  BY CountAtFirst
<1>2. CountInv /\ [Next]_vars => CountInv'
  BY CountInvInductive
<1>3. CountInv => PktInNetCount
  BY CountInvSuffices
<1> QED
  BY <1>1, <1>2, <1>3, PTL DEF Spec

-----------------------------------------------------------------------------
(* Each link is a credit loop. *)

\* A link of the network, any one: the theorems below assume that it is in Link.
CONSTANT AnyLink

\* The credit loop of that link, and what is proved of credit loops.
Loop == INSTANCE CreditLoopProofs WITH
  credit <- LoopCredit(AnyLink), rsv <- LoopRsv(AnyLink), xbar <- LoopXbar(AnyLink),
  wire <- LoopWire(AnyLink), buf <- LoopBuf(AnyLink), back <- LoopBack(AnyLink),
  awake <- LoopAwake(AnyLink)

\* What CreditLoop assumes of its constants.
LEMMA LoopSetting ==
  ASSUME BufferType # "DAMQ_R"
  PROVE  /\ IsFiniteSet(VC) /\ VC # {} /\ Depth \in Nat \ {0}
         /\ BufferType \in {"SAMQ", "DAMQ_P"}
         /\ Rsv \in IF BufferType = "SAMQ" THEN {0} ELSE 0 .. Depth
<1>1. VC # {}
  BY Finite DEF VC
<1> QED
  BY <1>1, Finite, NetworkAssumption

\* Its finite sets are those of this module.
LEMMA SameSets ==
  /\ \A S : Loop!IsFiniteSet(S) <=> IsFiniteSet(S)
  /\ \A S : Loop!Cardinality(S) = Cardinality(S)
<1>1. \A S : Loop!IsFiniteSet(S) <=> IsFiniteSet(S)
  BY DEF IsFiniteSet, Loop!IsFiniteSet
<1>2. \A S : Loop!Cardinality(S) = Cardinality(S)
  BY <1>1 DEF Cardinality, Loop!Cardinality
<1> QED
  BY <1>1, <1>2

\* The loop's counters are those of the slots.
Placed(l) ==
  /\ LoopRsv(l) \in [VC -> Int] /\ \A v \in VC : LoopRsv(l)[v] = Reserve(l, v)
  /\ LoopXbar(l) \in [VC -> Int] /\ \A v \in VC : LoopXbar(l)[v] = Granted(l, v)
  /\ LoopWire(l) \in [VC -> Int] /\ \A v \in VC : LoopWire(l)[v] = OnLink(l, v)
  /\ LoopBuf(l) \in [VC -> Int] /\ \A v \in VC : LoopBuf(l)[v] = Behind(l, v)
  /\ LoopBack(l) \in [VC -> Int] /\ \A v \in VC : LoopBack(l)[v] = Returning(l, v)
  /\ \A v \in VC : /\ Reserve(l, v) \in Int /\ Granted(l, v) \in Nat /\ OnLink(l, v) \in Nat
                   /\ Behind(l, v) \in Nat /\ Returning(l, v) \in Nat

LEMMA SlotsPlaced ==
  ASSUME TypeOK, ControlInv, NEW l \in Link
  PROVE  Placed(l)
<1>1. \A v \in VC : /\ Reserve(l, v) \in Int /\ Granted(l, v) \in Nat /\ OnLink(l, v) \in Nat
                    /\ Behind(l, v) \in Nat /\ Returning(l, v) \in Nat
                    /\ pipe[l] \in Seq(InFlight) /\ deposits[l[1]] \in Seq(Deposit)
  BY SlotTypes DEF TypeOK
<1>2. LoopRsv(l) \in [VC -> Int] /\ \A v \in VC : LoopRsv(l)[v] = Reserve(l, v)
  BY LinkEnds DEF TypeOK, CreditsOK, LoopRsv, Reserve
<1>3. ASSUME NEW v \in VC
      PROVE  LoopXbar(l)[v] = Granted(l, v)
  <2> DEFINE S == {i \in PC : Crosses(l[1], i, l[2], v)}
  <2>1. LoopXbar(l)[v] = Cardinality(S)
    BY DEF LoopXbar, Crosses
  <2>2. \A i, j \in S : i = j
    <3>1. l[1] \in Router
      BY LinkEnds, SMTT(30)
    <3>2. \A i, j \in PC : Crosses(l[1], i, l[2], v) /\ Crosses(l[1], j, l[2], v) => i = j
      <4>1. XbarReady
        BY Zenon DEF ControlInv
      <4> QED
        BY <3>1, <4>1, SMTT(30) DEF XbarReady, Crosses
    <3> QED
      BY <3>2
  <2>3. CASE \E i \in PC : Crosses(l[1], i, l[2], v)
    <3>1. PICK i \in PC : Crosses(l[1], i, l[2], v)
      BY <2>3
    <3>2. S = {i}
      BY <2>2, <3>1
    <3>3. Cardinality({i}) = 1
      BY FS_Singleton
    <3> QED
      BY <2>1, <2>3, <3>2, <3>3 DEF Granted
  <2>4. CASE ~ \E i \in PC : Crosses(l[1], i, l[2], v)
    <3>1. S = {}
      BY <2>4
    <3> QED
      BY <2>1, <2>4, <3>1, FS_EmptySet DEF Granted
  <2> QED
    BY <2>3, <2>4
<1>4. ASSUME NEW v \in VC
      PROVE  LoopWire(l)[v] = OnLink(l, v)
  <2>1. \A k \in DOMAIN pipe[l] : pipe[l][k] \in InFlight
    BY <1>1
  <2>2. \A k \in DOMAIN pipe[l] : pipe[l][k] \in FlitsOf(v) <=> pipe[l][k].vc = v
    BY <2>1 DEF InFlight, FlitsOf
  <2>3. {k \in DOMAIN pipe[l] : pipe[l][k].vc = v} = {k \in DOMAIN pipe[l] : pipe[l][k] \in FlitsOf(v)}
    BY <2>2
  <2> QED
    BY <2>3 DEF LoopWire, OnLink, Tally
<1>5. \A v \in VC : LoopBuf(l)[v] = Behind(l, v)
  BY DEF LoopBuf, Behind
<1>6. ASSUME NEW v \in VC
      PROVE  LoopBack(l)[v] = Returning(l, v)
  <2> DEFINE d == deposits[l[1]]
  <2>1. \A k \in DOMAIN d : d[k] \in Deposit
    BY <1>1
  <2>2. l[2] \in PC
    BY LinkEnds
  <2>3. \A k \in DOMAIN d : d[k] \in CreditsFor(l[2], v) <=> d[k].pc = l[2] /\ d[k].vc = v
    <3> HIDE DEF d
    <3> QED
      BY <2>1, <2>2 DEF Deposit, CreditsFor
  <2>4. {k \in DOMAIN d : d[k].pc = l[2] /\ d[k].vc = v} = {k \in DOMAIN d : d[k] \in CreditsFor(l[2], v)}
    BY <2>3, Zenon
  <2> QED
    BY <2>4 DEF LoopBack, Returning, Tally
<1>7. /\ DOMAIN LoopXbar(l) = VC /\ LoopXbar(l) = [v \in VC |-> LoopXbar(l)[v]]
      /\ DOMAIN LoopWire(l) = VC /\ LoopWire(l) = [v \in VC |-> LoopWire(l)[v]]
      /\ DOMAIN LoopBuf(l) = VC /\ LoopBuf(l) = [v \in VC |-> LoopBuf(l)[v]]
      /\ DOMAIN LoopBack(l) = VC /\ LoopBack(l) = [v \in VC |-> LoopBack(l)[v]]
  BY ZenonT(60) DEF LoopXbar, LoopWire, LoopBuf, LoopBack
<1>8. LoopXbar(l) \in [VC -> Int] /\ LoopWire(l) \in [VC -> Int]
  BY <1>1, <1>3, <1>4, <1>7
<1>9. LoopBuf(l) \in [VC -> Int] /\ LoopBack(l) \in [VC -> Int]
  BY <1>1, <1>5, <1>6, <1>7
<1> QED
  BY <1>1, <1>2, <1>3, <1>4, <1>5, <1>6, <1>8, <1>9 DEF Placed

\* The same after the step.
LEMMA SlotsPlacedNext ==
  ASSUME NEW l \in Link
  PROVE  TypeOK' /\ ControlInv' => Placed(l)'
<1>1. TypeOK /\ ControlInv => Placed(l)
  BY SlotsPlaced
<1> QED
  BY <1>1, PTL

\* Where VC v draws shared credits from.
LEMMA Pools ==
  ASSUME BufferType # "DAMQ_R"
  PROVE  /\ \A v \in VC : Loop!PoolOf(v) \in Loop!Pool
         /\ \A v, w \in VC : Loop!PoolOf(v) = Loop!PoolOf(w) <=> BufferType # "SAMQ" \/ v = w
         /\ \A p \in Loop!Pool : \E v \in VC : p = Loop!PoolOf(v)
<1>1. VC # {}
  BY LoopSetting
<1> QED
  BY <1>1 DEF Loop!Pool, Loop!PoolOf

\* The loop's credits are what hasCredit asks for.
LEMMA CreditsPlaced ==
  ASSUME TypeOK, BufferType # "DAMQ_R", NEW l \in Link
  PROVE  /\ LoopCredit(l) \in [Loop!Pool -> Int]
         /\ \A v \in VC :
              LoopCredit(l)[Loop!PoolOf(v)] = SharedCredits(l[1], credit[l[1]], l[2], v)
<1> DEFINE c == credit[l[1]]
<1>1. c \in [PC -> [VC -> Int]] /\ l[2] \in PC
  BY LinkEnds DEF TypeOK, CreditsOK
<1>2. \A v \in VC : /\ BufferType = "SAMQ" => SharedCredits(l[1], c, l[2], v) = c[l[2]][v]
                    /\ BufferType # "SAMQ" => SharedCredits(l[1], c, l[2], v) = SumFunction(c[l[2]])
                    /\ SharedCredits(l[1], c, l[2], v) \in Int
  BY <1>1, SharedIs
<1>3. CASE BufferType = "SAMQ"
  <2>1. LoopCredit(l) = c[l[2]]
    BY <1>3 DEF LoopCredit
  <2> QED
    BY <1>1, <1>2, <1>3, <2>1 DEF Loop!Pool, Loop!PoolOf
<1>4. CASE BufferType # "SAMQ"
  <2>1. LoopCredit(l) = [pool \in {"outport"} |-> SumFunction(c[l[2]])]
    BY <1>4 DEF LoopCredit
  <2>2. SumFunction(c[l[2]]) \in Int
    BY <1>2, <1>4, LoopSetting
  <2> HIDE DEF c
  <2> QED
    BY <1>2, <1>4, <2>1, <2>2 DEF Loop!Pool, Loop!PoolOf, c
<1> QED
  BY <1>3, <1>4

LEMMA CreditsPlacedNext ==
  ASSUME BufferType # "DAMQ_R", NEW l \in Link, NEW v \in VC
  PROVE  TypeOK' =>
           /\ LoopCredit(l)' \in [Loop!Pool -> Int]
           /\ LoopCredit(l)'[Loop!PoolOf(v)] = SharedCredits(l[1], credit'[l[1]], l[2], v)
<1> DEFINE P == /\ LoopCredit(l) \in [Loop!Pool -> Int]
                /\ LoopCredit(l)[Loop!PoolOf(v)] = SharedCredits(l[1], credit[l[1]], l[2], v)
<1>1. TypeOK => P
  BY CreditsPlaced
<1> HIDE DEF P
<1>2. TypeOK' => P'
  BY <1>1, PTL
<1> QED
  BY <1>2 DEF P, SharedCredits, Loop!Pool, Loop!PoolOf

\* Functions that differ at one point.
LEMMA FunctionMoves ==
  ASSUME NEW D, NEW x \in [D -> Int], NEW y \in [D -> Int], NEW e \in D,
         \A p \in D : y[p] = x[p] + (IF p = e THEN 1 ELSE 0)
  PROVE  y = [x EXCEPT ![e] = @ + 1] /\ x = [y EXCEPT ![e] = @ - 1]
<1>1. [x EXCEPT ![e] = @ + 1] \in [D -> Int] /\ [y EXCEPT ![e] = @ - 1] \in [D -> Int]
  OBVIOUS
<1>2. \A p \in D : y[p] = [x EXCEPT ![e] = @ + 1][p]
  OBVIOUS
<1>3. \A p \in D : x[p] = [y EXCEPT ![e] = @ - 1][p]
  OBVIOUS
<1> QED
  BY <1>1, <1>2, <1>3

\* What the pools x of port o hold when its counters are c.
PoolsHold(r, c, o, x) ==
  /\ c \in [PC -> [VC -> Int]] /\ x \in [Loop!Pool -> Int]
  /\ \A v \in VC : x[Loop!PoolOf(v)] = SharedCredits(r, c, o, v)

\* It follows the VCs' counts.
LEMMA PoolsSame ==
  ASSUME BufferType # "DAMQ_R", NEW r, NEW c, NEW d, NEW o \in PC, NEW x, NEW y,
         PoolsHold(r, c, o, x), PoolsHold(r, d, o, y), \A v \in VC : d[o][v] = c[o][v]
  PROVE  y = x
<1>1. \A p \in Loop!Pool : \E v \in VC : p = Loop!PoolOf(v)
  BY Pools
<1>2. \A v \in VC : SharedCredits(r, d, o, v) = SharedCredits(r, c, o, v)
  BY SharedSame DEF PoolsHold
<1>3. \A p \in Loop!Pool : y[p] = x[p]
  BY <1>1, <1>2 DEF PoolsHold
<1> QED
  BY <1>3 DEF PoolsHold

PoolGains(x, y, w) ==
  /\ y = [x EXCEPT ![Loop!PoolOf(w)] = @ + 1]
  /\ x = [y EXCEPT ![Loop!PoolOf(w)] = @ - 1]

LEMMA PoolOneMore ==
  ASSUME BufferType # "DAMQ_R", NEW r, NEW c, NEW d, NEW o \in PC, NEW w \in VC, NEW x, NEW y,
         PoolsHold(r, c, o, x), PoolsHold(r, d, o, y), OneMore(c[o], d[o], w)
  PROVE  PoolGains(x, y, w)
<1>1. ASSUME NEW p \in Loop!Pool
      PROVE  y[p] = x[p] + (IF p = Loop!PoolOf(w) THEN 1 ELSE 0)
  <2>1. PICK v \in VC : p = Loop!PoolOf(v)
    BY Pools
  <2>2. x[p] = SharedCredits(r, c, o, v) /\ y[p] = SharedCredits(r, d, o, v)
    BY <2>1 DEF PoolsHold
  <2>3. c \in [PC -> [VC -> Int]] /\ d \in [PC -> [VC -> Int]]
    BY DEF PoolsHold
  <2>4. SharedCredits(r, d, o, v) = SharedCredits(r, c, o, v)
          + (IF BufferType # "SAMQ" \/ v = w THEN 1 ELSE 0)
    BY <2>3, SharedOneMore
  <2>5. p = Loop!PoolOf(w) <=> BufferType # "SAMQ" \/ v = w
    BY <2>1, Pools
  <2> QED
    BY <2>2, <2>4, <2>5
<1>2. x \in [Loop!Pool -> Int] /\ y \in [Loop!Pool -> Int] /\ Loop!PoolOf(w) \in Loop!Pool
  BY Pools DEF PoolsHold
<1> QED
  BY <1>1, <1>2, FunctionMoves DEF PoolGains

\* A credit less or more, or none.
LEMMA PoolMoves ==
  ASSUME TypeOK, TypeOK', BufferType # "DAMQ_R", NEW l \in Link, NEW w \in VC
  PROVE  /\ (\A v \in VC : Free(l, v)' = Free(l, v)) => LoopCredit(l)' = LoopCredit(l)
         /\ (\A v \in VC : Free(l, v)' = Free(l, v) - One(v, w)) =>
              LoopCredit(l)' = [LoopCredit(l) EXCEPT ![Loop!PoolOf(w)] = @ - 1]
         /\ (\A v \in VC : Free(l, v)' = Free(l, v) + One(v, w)) =>
              LoopCredit(l)' = [LoopCredit(l) EXCEPT ![Loop!PoolOf(w)] = @ + 1]
<1> DEFINE r == l[1]
           o == l[2]
           c == credit[r]
           d == credit'[r]
           x == LoopCredit(l)
           y == LoopCredit(l)'
<1>1. c \in [PC -> [VC -> Int]] /\ d \in [PC -> [VC -> Int]] /\ o \in PC
  BY LinkEnds DEF TypeOK, CreditsOK
<1>2. \A v \in VC : /\ Free(l, v) = c[o][v] /\ Free(l, v)' = d[o][v]
                    /\ Free(l, v) \in Int /\ Free(l, v)' \in Int
  BY <1>1 DEF Free
<1>3. /\ x \in [Loop!Pool -> Int] /\ y \in [Loop!Pool -> Int]
      /\ \A v \in VC : /\ x[Loop!PoolOf(v)] = SharedCredits(r, c, o, v)
                       /\ y[Loop!PoolOf(v)] = SharedCredits(r, d, o, v)
  BY CreditsPlaced, CreditsPlacedNext
<1> HIDE DEF r, o, c, d, x, y
<1>4. PoolsHold(r, c, o, x) /\ PoolsHold(r, d, o, y)
  BY <1>1, <1>3 DEF PoolsHold
<1>5. ASSUME \A v \in VC : Free(l, v)' = Free(l, v)
      PROVE  y = x
  <2>1. \A v \in VC : d[o][v] = c[o][v]
    BY <1>2, <1>5
  <2> QED
    BY <1>1, <1>4, <2>1, PoolsSame
<1>6. ASSUME \A v \in VC : Free(l, v)' = Free(l, v) - One(v, w)
      PROVE  y = [x EXCEPT ![Loop!PoolOf(w)] = @ - 1]
  <2>1. OneMore(d[o], c[o], w)
    BY <1>2, <1>6 DEF One, OneMore
  <2>2. PoolGains(y, x, w)
    BY <1>1, <1>4, <2>1, PoolOneMore, Zenon
  <2> QED
    BY <2>2 DEF PoolGains
<1>7. ASSUME \A v \in VC : Free(l, v)' = Free(l, v) + One(v, w)
      PROVE  y = [x EXCEPT ![Loop!PoolOf(w)] = @ + 1]
  <2>1. OneMore(c[o], d[o], w)
    BY <1>2, <1>7 DEF One, OneMore
  <2>2. PoolGains(x, y, w)
    BY <1>1, <1>4, <2>1, PoolOneMore, Zenon
  <2> QED
    BY <2>2 DEF PoolGains
<1> QED
  BY <1>5, <1>6, <1>7 DEF x, y

\* Functions from VCs that differ at one, or not at all.
LEMMA CountersMove ==
  ASSUME NEW f \in [VC -> Int], NEW g \in [VC -> Int], NEW w \in VC
  PROVE  /\ (\A v \in VC : g[v] = f[v]) => g = f
         /\ (\A v \in VC : g[v] = f[v] + One(v, w)) => g = [f EXCEPT ![w] = @ + 1]
         /\ (\A v \in VC : g[v] = f[v] - One(v, w)) => g = [f EXCEPT ![w] = @ - 1]
<1>1. (\A v \in VC : g[v] = f[v]) => g = f
  OBVIOUS
<1>2. ASSUME \A v \in VC : g[v] = f[v] + One(v, w)
      PROVE  g = [f EXCEPT ![w] = @ + 1]
  <2>1. [f EXCEPT ![w] = @ + 1] \in [VC -> Int]
    OBVIOUS
  <2>2. \A v \in VC : g[v] = [f EXCEPT ![w] = @ + 1][v]
    BY <1>2 DEF One
  <2> QED
    BY <2>1, <2>2
<1>3. ASSUME \A v \in VC : g[v] = f[v] - One(v, w)
      PROVE  g = [f EXCEPT ![w] = @ - 1]
  <2>1. [f EXCEPT ![w] = @ - 1] \in [VC -> Int]
    OBVIOUS
  <2>2. \A v \in VC : g[v] = [f EXCEPT ![w] = @ - 1][v]
    BY <1>3 DEF One
  <2> QED
    BY <2>1, <2>2
<1> QED
  BY <1>1, <1>2, <1>3

(* What a step does to the slots, it does to the counters of the loop. *)

LEMMA SlotMoves ==
  ASSUME NEW l \in Link, Placed(l), Placed(l)', NEW w \in VC
  PROVE  /\ (\A v \in VC : Reserve(l, v)' = Reserve(l, v)) => LoopRsv(l)' = LoopRsv(l)
         /\ (\A v \in VC : Reserve(l, v)' = Reserve(l, v) + One(v, w)) =>
              LoopRsv(l)' = [LoopRsv(l) EXCEPT ![w] = @ + 1]
         /\ (\A v \in VC : Reserve(l, v)' = Reserve(l, v) - One(v, w)) =>
              LoopRsv(l)' = [LoopRsv(l) EXCEPT ![w] = @ - 1]
         /\ (\A v \in VC : Granted(l, v)' = Granted(l, v)) => LoopXbar(l)' = LoopXbar(l)
         /\ (\A v \in VC : Granted(l, v)' = Granted(l, v) + One(v, w)) =>
              LoopXbar(l)' = [LoopXbar(l) EXCEPT ![w] = @ + 1]
         /\ (\A v \in VC : Granted(l, v)' = Granted(l, v) - One(v, w)) =>
              LoopXbar(l)' = [LoopXbar(l) EXCEPT ![w] = @ - 1]
         /\ (\A v \in VC : OnLink(l, v)' = OnLink(l, v)) => LoopWire(l)' = LoopWire(l)
         /\ (\A v \in VC : OnLink(l, v)' = OnLink(l, v) + One(v, w)) =>
              LoopWire(l)' = [LoopWire(l) EXCEPT ![w] = @ + 1]
         /\ (\A v \in VC : OnLink(l, v)' = OnLink(l, v) - One(v, w)) =>
              LoopWire(l)' = [LoopWire(l) EXCEPT ![w] = @ - 1]
         /\ (\A v \in VC : Behind(l, v)' = Behind(l, v)) => LoopBuf(l)' = LoopBuf(l)
         /\ (\A v \in VC : Behind(l, v)' = Behind(l, v) + One(v, w)) =>
              LoopBuf(l)' = [LoopBuf(l) EXCEPT ![w] = @ + 1]
         /\ (\A v \in VC : Behind(l, v)' = Behind(l, v) - One(v, w)) =>
              LoopBuf(l)' = [LoopBuf(l) EXCEPT ![w] = @ - 1]
         /\ (\A v \in VC : Returning(l, v)' = Returning(l, v)) => LoopBack(l)' = LoopBack(l)
         /\ (\A v \in VC : Returning(l, v)' = Returning(l, v) + One(v, w)) =>
              LoopBack(l)' = [LoopBack(l) EXCEPT ![w] = @ + 1]
         /\ (\A v \in VC : Returning(l, v)' = Returning(l, v) - One(v, w)) =>
              LoopBack(l)' = [LoopBack(l) EXCEPT ![w] = @ - 1]
<1>1. ASSUME NEW f \in [VC -> Int], NEW g \in [VC -> Int]
      PROVE  /\ (\A v \in VC : g[v] = f[v]) => g = f
             /\ (\A v \in VC : g[v] = f[v] + One(v, w)) => g = [f EXCEPT ![w] = @ + 1]
             /\ (\A v \in VC : g[v] = f[v] - One(v, w)) => g = [f EXCEPT ![w] = @ - 1]
  BY CountersMove
<1> DEFINE Rule(f, g) ==
      /\ (\A v \in VC : g[v] = f[v]) => g = f
      /\ (\A v \in VC : g[v] = f[v] + One(v, w)) => g = [f EXCEPT ![w] = @ + 1]
      /\ (\A v \in VC : g[v] = f[v] - One(v, w)) => g = [f EXCEPT ![w] = @ - 1]
<1>2. \A f, g \in [VC -> Int] : Rule(f, g)
  BY <1>1
<1> HIDE DEF Rule
<1>3. Rule(LoopRsv(l), LoopRsv(l)') /\ Rule(LoopXbar(l), LoopXbar(l)') /\ Rule(LoopWire(l), LoopWire(l)')
  BY <1>2 DEF Placed
<1>4. Rule(LoopBuf(l), LoopBuf(l)') /\ Rule(LoopBack(l), LoopBack(l)')
  BY <1>2 DEF Placed
<1>5. /\ \A v \in VC : LoopRsv(l)[v] = Reserve(l, v) /\ LoopRsv(l)'[v] = Reserve(l, v)'
      /\ \A v \in VC : LoopXbar(l)[v] = Granted(l, v) /\ LoopXbar(l)'[v] = Granted(l, v)'
      /\ \A v \in VC : LoopWire(l)[v] = OnLink(l, v) /\ LoopWire(l)'[v] = OnLink(l, v)'
      /\ \A v \in VC : LoopBuf(l)[v] = Behind(l, v) /\ LoopBuf(l)'[v] = Behind(l, v)'
      /\ \A v \in VC : LoopBack(l)[v] = Returning(l, v) /\ LoopBack(l)'[v] = Returning(l, v)'
  BY DEF Placed
<1>6. /\ (\A v \in VC : Reserve(l, v)' = Reserve(l, v)) => LoopRsv(l)' = LoopRsv(l)
      /\ (\A v \in VC : Reserve(l, v)' = Reserve(l, v) + One(v, w)) =>
           LoopRsv(l)' = [LoopRsv(l) EXCEPT ![w] = @ + 1]
      /\ (\A v \in VC : Reserve(l, v)' = Reserve(l, v) - One(v, w)) =>
           LoopRsv(l)' = [LoopRsv(l) EXCEPT ![w] = @ - 1]
  BY <1>3, <1>5 DEF Rule
<1>7. /\ (\A v \in VC : Granted(l, v)' = Granted(l, v)) => LoopXbar(l)' = LoopXbar(l)
      /\ (\A v \in VC : Granted(l, v)' = Granted(l, v) + One(v, w)) =>
           LoopXbar(l)' = [LoopXbar(l) EXCEPT ![w] = @ + 1]
      /\ (\A v \in VC : Granted(l, v)' = Granted(l, v) - One(v, w)) =>
           LoopXbar(l)' = [LoopXbar(l) EXCEPT ![w] = @ - 1]
  BY <1>3, <1>5 DEF Rule
<1>8. /\ (\A v \in VC : OnLink(l, v)' = OnLink(l, v)) => LoopWire(l)' = LoopWire(l)
      /\ (\A v \in VC : OnLink(l, v)' = OnLink(l, v) + One(v, w)) =>
           LoopWire(l)' = [LoopWire(l) EXCEPT ![w] = @ + 1]
      /\ (\A v \in VC : OnLink(l, v)' = OnLink(l, v) - One(v, w)) =>
           LoopWire(l)' = [LoopWire(l) EXCEPT ![w] = @ - 1]
  BY <1>3, <1>5 DEF Rule
<1>9. /\ (\A v \in VC : Behind(l, v)' = Behind(l, v)) => LoopBuf(l)' = LoopBuf(l)
      /\ (\A v \in VC : Behind(l, v)' = Behind(l, v) + One(v, w)) =>
           LoopBuf(l)' = [LoopBuf(l) EXCEPT ![w] = @ + 1]
      /\ (\A v \in VC : Behind(l, v)' = Behind(l, v) - One(v, w)) =>
           LoopBuf(l)' = [LoopBuf(l) EXCEPT ![w] = @ - 1]
  BY <1>4, <1>5 DEF Rule
<1>10. /\ (\A v \in VC : Returning(l, v)' = Returning(l, v)) => LoopBack(l)' = LoopBack(l)
       /\ (\A v \in VC : Returning(l, v)' = Returning(l, v) + One(v, w)) =>
            LoopBack(l)' = [LoopBack(l) EXCEPT ![w] = @ + 1]
       /\ (\A v \in VC : Returning(l, v)' = Returning(l, v) - One(v, w)) =>
            LoopBack(l)' = [LoopBack(l) EXCEPT ![w] = @ - 1]
  BY <1>4, <1>5 DEF Rule
<1> QED
  BY <1>6, <1>7, <1>8, <1>9, <1>10

(* A router that runs is awake, and stays so until it finds nothing to do. *)

LEMMA RunsAwake ==
  ASSUME TypeOK, Next, NEW r \in Router, Running(<<0, r>>), stage # 0
  PROVE  ~ Waiting(<<0, r>>) /\ ~ Waiting(<<0, r>>)'
<1>1. SchedulerOK /\ <<0, r>> \in Range(ready)
  <2>1. SchedulerOK /\ ready \in Seq(Procs) /\ ready # <<>> /\ Head(ready) = <<0, r>>
    BY DEF TypeOK, Running, SchedulerOK
  <2> QED
    BY <2>1, RangeOfTail
<1>2. PICK woken : Sleepers(woken) /\ (NextStage(woken) \/ GoOn(stage, woken))
  BY RouterRuns
<1>3. woken \in Seq(Procs) /\ ready # <<>>
  BY <1>2 DEF Sleepers, Running
<1> QED
  BY <1>1, <1>2, <1>3, StayAwake DEF Waiting

\* Switch traversal changes no router's sleep, for it wakes output NIs only.
LEMMA TraversalWakesNIs ==
  ASSUME TypeOK, NEW q \in Router, StageST(q), NEW r \in Router
  PROVE  Waiting(<<0, r>>)' <=> Waiting(<<0, r>>)
<1>1. PICK woken : /\ Sleepers(woken) /\ NextStage(woken)
                   /\ \A k \in DOMAIN woken : woken[k] \in NIoutProcs
  BY SwitchWakes
<1>2. <<0, r>> \notin Range(woken)
  BY <1>1 DEF Range, NIoutProcs
<1>3. /\ ready \in Seq(Procs) /\ held \in Seq(Procs) /\ ready # <<>> /\ woken \in Seq(Procs)
  BY <1>1, Zenon DEF TypeOK, SchedulerOK, StageST, AtStage, Running, Sleepers
<1>4. CASE GoOn(stage + 1, woken)
  <2>1. Range(ready') = Range(ready) \cup Range(woken) /\ held' = held
    BY <1>3, <1>4, RangeOfConcat DEF GoOn
  <2> QED
    BY <1>2, <2>1 DEF Waiting
<1>5. CASE HoldOneCycle(woken)
  <2>1. Head(ready) \in Procs /\ Tail(ready) \in Seq(Procs)
    BY <1>3, HeadTailProperties
  <2>2. Range(ready) = {Head(ready)} \cup Range(Tail(ready))
    BY <1>3, RangeOfTail
  <2>3. Range(Tail(ready) \o woken) = Range(Tail(ready)) \cup Range(woken)
    BY <1>3, <2>1, RangeOfConcat, ZenonT(60)
  <2>4. Range(Append(held, Head(ready))) = Range(held) \cup {Head(ready)}
    BY <1>3, <2>1, RangeOfAppend
  <2>5. ready' = Tail(ready) \o woken /\ held' = Append(held, Head(ready))
    BY <1>5 DEF HoldOneCycle
  <2> QED
    BY <1>2, <2>2, <2>3, <2>4, <2>5 DEF Waiting
<1> QED
  BY <1>1, <1>4, <1>5 DEF NextStage

\* A router that falls asleep has no flit, and no credit to count.
LEMMA AsleepWithNothing ==
  ASSUME TypeOK, ControlInv, Next, NoSleepOnWork', NEW l \in Link, NEW v \in VC,
         ~ Waiting(<<0, l[1]>>), Waiting(<<0, l[1]>>)'
  PROVE  Granted(l, v) = 0 /\ OnLink(l, v) = 0 /\ Returning(l, v) = 0
<1> DEFINE r == l[1]
<1>1. r \in Router
  BY LinkEnds
<1>2. RouterWake(r)
  <2>1. <<0, r>> \notin NIinProcs /\ <<0, r>> \notin NIoutProcs
    BY DEF NIinProcs, NIoutProcs
  <2>2. PICK q \in Router : <<0, r>> = <<0, q>> /\ RouterWake(q)
    BY <2>1, FallsAsleep
  <2> QED
    BY <2>2
<1>3. UNCHANGED <<flitQ, pipe>>
  BY <1>2 DEF RouterWake, bufVars
<1>4. /\ \A pc \in PC, vc \in VC : flitQ[r][pc][vc] = <<>>
      /\ pipe[l] = <<>>
  BY <1>1, <1>3 DEF NoSleepOnWork
<1>5. deposits[r] = <<>>
  <2> SUFFICES ASSUME deposits[r] # <<>> PROVE FALSE
    OBVIOUS
  <2>1. GoOn(1, <<>>)
    BY <1>2 DEF RouterWake
  <2>2. SchedulerOK /\ <<0, r>> \in Range(ready) \cup Range(held) /\ <<>> \in Seq(Procs)
    BY DEF TypeOK, Waiting
  <2> QED
    BY <2>1, <2>2, StayAwake, Zenon
<1>6. \A i \in PC : xbar[r][i] = INVALID_VC
  <2>1. \A i \in PC : xbar[r][i] \in VC \cup {INVALID_VC}
    BY <1>1 DEF TypeOK, ControlOK
  <2>2. \A i \in PC : xbar[r][i] # INVALID_VC => flitQ[r][i][xbar[r][i]] # <<>>
    BY <1>1, Zenon DEF ControlInv, XbarReady
  <2> QED
    BY <1>4, <2>1, <2>2
<1>7. \A X : Tally(<<>>, X) = 0
  BY FS_EmptySet DEF Tally
<1>8. OnLink(l, v) = 0 /\ Returning(l, v) = 0
  BY <1>4, <1>5, <1>7, Zenon DEF OnLink, Returning
<1>9. Granted(l, v) = 0
  BY <1>6, Zenon DEF Granted, Crosses
<1> QED
  BY <1>8, <1>9

LEMMA AwakeAtFirst ==
  ASSUME Init, NEW r \in Router
  PROVE  ~ Waiting(<<0, r>>)
<1> DEFINE s == RouterProc \o NIinProc
<1>1. RouterProc \in Seq(Procs) /\ NIinProc \in Seq(Procs) /\ NIoutProc \in Seq(Procs)
  BY InitialProcesses
<1>2. s \in Seq(Procs) /\ Range(s) = Range(RouterProc) \cup Range(NIinProc)
  BY <1>1, RangeOfConcat
<1>3. ready = s \o NIoutProc
  BY DEF Init
<1> HIDE DEF s
<1>4. Range(s \o NIoutProc) = Range(s) \cup Range(NIoutProc)
  BY <1>1, <1>2, RangeOfConcat
<1>5. <<0, r>> \in Range(RouterProc)
  <2>1. NumRouter \in Nat
    BY NetworkAssumption
  <2>2. r + 1 \in 1 .. NumRouter /\ (r + 1) - 1 = r
    BY <2>1 DEF Router
  <2>3. RouterProc[r + 1] = <<0, r>> /\ r + 1 \in DOMAIN RouterProc
    BY <2>2 DEF RouterProc
  <2> QED
    BY <2>3 DEF Range
<1> QED
  BY <1>2, <1>3, <1>4, <1>5, ZenonT(60) DEF Waiting

(* The steps of the loop. *)

LEMMA LoopGrants ==
  ASSUME TypeOK, TypeOK', BufferType # "DAMQ_R", AnyLink \in Link, Placed(AnyLink), Placed(AnyLink)',
         LoopAwake(AnyLink), LoopAwake(AnyLink)' = LoopAwake(AnyLink),
         NEW w \in VC, Grants(AnyLink, w)
  PROVE  Loop!Grant(w)
<1> DEFINE n == SharedCredits(AnyLink[1], credit[AnyLink[1]], AnyLink[2], w)
<1>1. /\ LoopCredit(AnyLink)[Loop!PoolOf(w)] = n
      /\ n \in Int
      /\ LoopRsv(AnyLink)[w] = Reserve(AnyLink, w) /\ Reserve(AnyLink, w) \in Int
  <2>1. LoopCredit(AnyLink)[Loop!PoolOf(w)] = n /\ LoopCredit(AnyLink) \in [Loop!Pool -> Int]
    BY CreditsPlaced
  <2>2. Loop!PoolOf(w) \in Loop!Pool
    BY Pools
  <2> QED
    BY <2>1, <2>2 DEF Placed
<1>2. n >= 1 \/ (BufferType = "DAMQ_P" /\ Reserve(AnyLink, w) >= 1)
  <2>1. hasCredit(AnyLink[1], AnyLink[2], w)
    BY DEF Grants
  <2> QED
    BY <2>1, NetworkAssumption DEF hasCredit, Reserve
<1>3. Loop!HasCredit(w)
  BY <1>1, <1>2 DEF Loop!HasCredit
<1>4. /\ LoopXbar(AnyLink)' = [LoopXbar(AnyLink) EXCEPT ![w] = @ + 1]
      /\ LoopWire(AnyLink)' = LoopWire(AnyLink) /\ LoopBuf(AnyLink)' = LoopBuf(AnyLink)
      /\ LoopBack(AnyLink)' = LoopBack(AnyLink)
  BY SlotMoves DEF Grants
<1>5. CASE /\ \A v \in VC : /\ Free(AnyLink, v)' = Free(AnyLink, v) - One(v, w)
                            /\ Reserve(AnyLink, v)' = Reserve(AnyLink, v)
           /\ BufferType = "DAMQ_P" => n > 0
  <2>1. n >= 1
    BY <1>1, <1>2, <1>5
  <2>2. LoopCredit(AnyLink)' = [LoopCredit(AnyLink) EXCEPT ![Loop!PoolOf(w)] = @ - 1]
    BY <1>5, PoolMoves
  <2>3. LoopRsv(AnyLink)' = LoopRsv(AnyLink)
    BY <1>5, SlotMoves
  <2> HIDE DEF n
  <2> QED
    BY <1>1, <1>3, <1>4, <2>1, <2>2, <2>3 DEF Loop!Grant
<1>6. CASE /\ \A v \in VC : /\ Reserve(AnyLink, v)' = Reserve(AnyLink, v) - One(v, w)
                            /\ Free(AnyLink, v)' = Free(AnyLink, v)
           /\ BufferType # "SAMQ"
           /\ BufferType = "DAMQ_P" => ~ (n > 0)
  <2>1. ~ (n >= 1)
    BY <1>1, <1>6, NetworkAssumption
  <2>2. LoopCredit(AnyLink)' = LoopCredit(AnyLink)
    BY <1>6, PoolMoves
  <2>3. LoopRsv(AnyLink)' = [LoopRsv(AnyLink) EXCEPT ![w] = @ - 1]
    BY <1>6, SlotMoves
  <2> HIDE DEF n
  <2> QED
    BY <1>1, <1>3, <1>4, <2>1, <2>2, <2>3 DEF Loop!Grant
<1> QED
  BY <1>5, <1>6 DEF Grants

LEMMA LoopForwards ==
  ASSUME TypeOK, TypeOK', BufferType # "DAMQ_R", AnyLink \in Link, Placed(AnyLink), Placed(AnyLink)',
         LoopAwake(AnyLink)' = LoopAwake(AnyLink), NEW w \in VC
  PROVE  /\ LoopAwake(AnyLink) /\ Sends(AnyLink, w) => Loop!Send(w)
         /\ LoopAwake(AnyLink) /\ Delivers(AnyLink, w) => Loop!Deliver(w)
         /\ Frees(AnyLink, w) => Loop!Drain(w)
<1>1. CreditsStay(AnyLink) =>
        LoopCredit(AnyLink)' = LoopCredit(AnyLink) /\ LoopRsv(AnyLink)' = LoopRsv(AnyLink)
  BY PoolMoves, SlotMoves DEF CreditsStay
<1>2. /\ LoopXbar(AnyLink)[w] = Granted(AnyLink, w) /\ LoopWire(AnyLink)[w] = OnLink(AnyLink, w)
      /\ LoopBuf(AnyLink)[w] = Behind(AnyLink, w)
  BY DEF Placed
<1>3. /\ Granted(AnyLink, w)' \in Nat /\ OnLink(AnyLink, w)' \in Nat /\ Behind(AnyLink, w)' \in Nat
      /\ Granted(AnyLink, w) \in Nat /\ OnLink(AnyLink, w) \in Nat /\ Behind(AnyLink, w) \in Nat
  BY DEF Placed
<1>4. One(w, w) = 1
  BY DEF One
<1>5. ASSUME LoopAwake(AnyLink), Sends(AnyLink, w)
      PROVE  Loop!Send(w)
  <2>1. LoopXbar(AnyLink)[w] > 0
    BY <1>2, <1>3, <1>4, <1>5 DEF Sends
  <2>2. /\ LoopXbar(AnyLink)' = [LoopXbar(AnyLink) EXCEPT ![w] = @ - 1]
        /\ LoopWire(AnyLink)' = [LoopWire(AnyLink) EXCEPT ![w] = @ + 1]
        /\ LoopBuf(AnyLink)' = LoopBuf(AnyLink) /\ LoopBack(AnyLink)' = LoopBack(AnyLink)
    BY <1>5, SlotMoves DEF Sends
  <2>3. CreditsStay(AnyLink)
    BY <1>5 DEF Sends
  <2> QED
    BY <1>1, <1>5, <2>1, <2>2, <2>3 DEF Loop!Send
<1>6. ASSUME LoopAwake(AnyLink), Delivers(AnyLink, w)
      PROVE  Loop!Deliver(w)
  <2>1. LoopWire(AnyLink)[w] > 0
    BY <1>2, <1>3, <1>4, <1>6 DEF Delivers
  <2>2. /\ LoopWire(AnyLink)' = [LoopWire(AnyLink) EXCEPT ![w] = @ - 1]
        /\ LoopBuf(AnyLink)' = [LoopBuf(AnyLink) EXCEPT ![w] = @ + 1]
        /\ LoopXbar(AnyLink)' = LoopXbar(AnyLink) /\ LoopBack(AnyLink)' = LoopBack(AnyLink)
    BY <1>6, SlotMoves DEF Delivers
  <2>3. CreditsStay(AnyLink)
    BY <1>6 DEF Delivers
  <2> QED
    BY <1>1, <1>6, <2>1, <2>2, <2>3 DEF Loop!Deliver
<1>7. ASSUME Frees(AnyLink, w)
      PROVE  Loop!Drain(w)
  <2>1. LoopBuf(AnyLink)[w] > 0
    BY <1>2, <1>3, <1>4, <1>7 DEF Frees
  <2>2. /\ LoopBuf(AnyLink)' = [LoopBuf(AnyLink) EXCEPT ![w] = @ - 1]
        /\ LoopBack(AnyLink)' = [LoopBack(AnyLink) EXCEPT ![w] = @ + 1]
        /\ LoopXbar(AnyLink)' = LoopXbar(AnyLink) /\ LoopWire(AnyLink)' = LoopWire(AnyLink)
    BY <1>7, SlotMoves DEF Frees
  <2>3. CreditsStay(AnyLink)
    BY <1>7 DEF Frees
  <2> QED
    BY <1>1, <1>7, <2>1, <2>2, <2>3 DEF Loop!Drain
<1> QED
  BY <1>5, <1>6, <1>7

LEMMA LoopCounts ==
  ASSUME TypeOK, TypeOK', BufferType # "DAMQ_R", AnyLink \in Link, Placed(AnyLink), Placed(AnyLink)',
         LoopAwake(AnyLink), LoopAwake(AnyLink)' = LoopAwake(AnyLink),
         NEW w \in VC, Counts(AnyLink, w)
  PROVE  Loop!Inc(w)
<1>1. BufferType = "DAMQ_P" /\ LoopRsv(AnyLink)[w] < Rsv <=> BufferType # "SAMQ" /\ Reserve(AnyLink, w) < Rsv
  BY NetworkAssumption DEF Placed
<1>2. LoopBack(AnyLink)[w] > 0
  <2>1. /\ LoopBack(AnyLink)[w] = Returning(AnyLink, w)
        /\ Returning(AnyLink, w) \in Nat /\ Returning(AnyLink, w)' \in Nat
    BY DEF Placed
  <2> QED
    BY <2>1 DEF Counts, One
<1>3. /\ LoopXbar(AnyLink)' = LoopXbar(AnyLink) /\ LoopWire(AnyLink)' = LoopWire(AnyLink)
      /\ LoopBuf(AnyLink)' = LoopBuf(AnyLink)
      /\ LoopBack(AnyLink)' = [LoopBack(AnyLink) EXCEPT ![w] = @ - 1]
  BY SlotMoves DEF Counts, FlitsStay
<1>4. CASE BufferType # "SAMQ" /\ Reserve(AnyLink, w) < Rsv
  <2>1. \A v \in VC : /\ Reserve(AnyLink, v)' = Reserve(AnyLink, v) + One(v, w)
                      /\ Free(AnyLink, v)' = Free(AnyLink, v)
    BY <1>4 DEF Counts
  <2>2. /\ LoopRsv(AnyLink)' = [LoopRsv(AnyLink) EXCEPT ![w] = @ + 1]
        /\ LoopCredit(AnyLink)' = LoopCredit(AnyLink)
    BY <2>1, PoolMoves, SlotMoves
  <2> QED
    BY <1>1, <1>2, <1>3, <1>4, <2>2 DEF Loop!Inc
<1>5. CASE ~ (BufferType # "SAMQ" /\ Reserve(AnyLink, w) < Rsv)
  <2>1. \A v \in VC : /\ Free(AnyLink, v)' = Free(AnyLink, v) + One(v, w)
                      /\ Reserve(AnyLink, v)' = Reserve(AnyLink, v)
    BY <1>5 DEF Counts
  <2>2. /\ LoopCredit(AnyLink)' = [LoopCredit(AnyLink) EXCEPT ![Loop!PoolOf(w)] = @ + 1]
        /\ LoopRsv(AnyLink)' = LoopRsv(AnyLink)
    BY <2>1, PoolMoves, SlotMoves
  <2> QED
    BY <1>1, <1>2, <1>3, <1>5, <2>2 DEF Loop!Inc
<1> QED
  BY <1>4, <1>5

\* The upstream router falls asleep, wakes up, or neither.
LEMMA LoopSleeps ==
  ASSUME TypeOK, ControlInv, NoSleepOnWork', Next, BufferType # "DAMQ_R", AnyLink \in Link,
         Placed(AnyLink), UNCHANGED Loop!slots
  PROVE  [Loop!Next]_Loop!vars
<1>1. CASE LoopAwake(AnyLink)' = LoopAwake(AnyLink)
  BY <1>1 DEF Loop!vars
<1>2. CASE ~ LoopAwake(AnyLink) /\ LoopAwake(AnyLink)'
  <2>1. Loop!Wakeup
    BY <1>2 DEF Loop!Wakeup, LoopAwake
  <2> QED
    BY <2>1 DEF Loop!Next
<1>3. CASE LoopAwake(AnyLink) /\ ~ LoopAwake(AnyLink)'
  <2>1. \A v \in VC : /\ LoopXbar(AnyLink)[v] = 0 /\ LoopWire(AnyLink)[v] = 0
                      /\ LoopBack(AnyLink)[v] = 0
    BY <1>3, AsleepWithNothing DEF LoopAwake, Placed
  <2>2. LoopAwake(AnyLink)' = FALSE
    BY <1>3 DEF LoopAwake
  <2>3. Loop!Sleep
    BY <1>3, <2>1, <2>2 DEF Loop!Sleep
  <2> QED
    BY <2>3 DEF Loop!Next
<1> QED
  BY <1>1, <1>2, <1>3 DEF LoopAwake

LEMMA LoopMoves ==
  ASSUME BufferType # "DAMQ_R", AnyLink \in Link,
         TypeOK, ControlInv, TypeOK', ControlInv', NoSleepOnWork', Next
  PROVE  [Loop!Next]_Loop!vars
<1>1. Placed(AnyLink) /\ Placed(AnyLink)'
  BY SlotsPlaced, SlotsPlacedNext
<1>2. CASE Unmoved(AnyLink)
  <2>1. VC # {}
    BY LoopSetting
  <2>2. /\ LoopRsv(AnyLink)' = LoopRsv(AnyLink) /\ LoopXbar(AnyLink)' = LoopXbar(AnyLink)
        /\ LoopWire(AnyLink)' = LoopWire(AnyLink) /\ LoopBuf(AnyLink)' = LoopBuf(AnyLink)
        /\ LoopBack(AnyLink)' = LoopBack(AnyLink)
    BY <1>1, <1>2, <2>1, SlotMoves DEF Unmoved, CreditsStay, FlitsStay
  <2>3. LoopCredit(AnyLink)' = LoopCredit(AnyLink)
    BY <1>2, <2>1, PoolMoves DEF Unmoved, CreditsStay
  <2>4. UNCHANGED Loop!slots
    BY <2>2, <2>3 DEF Loop!slots
  <2> QED
    BY <1>1, <2>4, LoopSleeps
<1>3. CASE /\ Running(<<0, AnyLink[1]>>) /\ stage # 0
           /\ \E w \in VC : \/ Grants(AnyLink, w) \/ Sends(AnyLink, w) \/ Delivers(AnyLink, w)
                            \/ Counts(AnyLink, w)
  <2>1. LoopAwake(AnyLink) /\ LoopAwake(AnyLink)' = LoopAwake(AnyLink)
    <3>1. AnyLink[1] \in Router
      BY LinkEnds
    <3>2. ~ Waiting(<<0, AnyLink[1]>>) /\ ~ Waiting(<<0, AnyLink[1]>>)'
      BY <1>3, <3>1, RunsAwake
    <3> QED
      BY <3>2 DEF LoopAwake
  <2>2. PICK w \in VC : \/ Grants(AnyLink, w) \/ Sends(AnyLink, w) \/ Delivers(AnyLink, w)
                        \/ Counts(AnyLink, w)
    BY <1>3
  <2>3. Loop!Grant(w) \/ Loop!Send(w) \/ Loop!Deliver(w) \/ Loop!Inc(w)
    BY <1>1, <2>1, <2>2, LoopGrants, LoopForwards, LoopCounts
  <2> QED
    BY <2>3 DEF Loop!Next
<1>4. CASE StageST(Wire[AnyLink][1]) /\ \E w \in VC : Frees(AnyLink, w)
  <2>1. LoopAwake(AnyLink)' = LoopAwake(AnyLink)
    <3>1. AnyLink[1] \in Router /\ Wire[AnyLink][1] \in Router
      BY LinkEnds
    <3>2. Waiting(<<0, AnyLink[1]>>)' <=> Waiting(<<0, AnyLink[1]>>)
      BY <1>4, <3>1, TraversalWakesNIs
    <3> QED
      BY <3>2 DEF LoopAwake
  <2>2. PICK w \in VC : Frees(AnyLink, w)
    BY <1>4
  <2>3. Loop!Drain(w)
    BY <1>1, <2>1, <2>2, LoopForwards
  <2> QED
    BY <2>3 DEF Loop!Next
<1> QED
  BY <1>2, <1>3, <1>4, OneMoves

LEMMA LoopStutters ==
  ASSUME UNCHANGED vars
  PROVE  UNCHANGED Loop!vars
<1>1. /\ credit' = credit /\ rsv' = rsv /\ xbar' = xbar /\ inMod' = inMod /\ pipe' = pipe
      /\ flitQ' = flitQ /\ deposits' = deposits /\ ready' = ready /\ held' = held
  BY DEF vars, creditVars, ctlVars, bufVars, schedVars
<1>2. LoopCredit(AnyLink)' = LoopCredit(AnyLink) /\ LoopRsv(AnyLink)' = LoopRsv(AnyLink)
  BY <1>1 DEF LoopCredit, LoopRsv
<1>3. LoopXbar(AnyLink)' = LoopXbar(AnyLink) /\ LoopWire(AnyLink)' = LoopWire(AnyLink)
  BY <1>1 DEF LoopXbar, LoopWire
<1>4. LoopBuf(AnyLink)' = LoopBuf(AnyLink) /\ LoopBack(AnyLink)' = LoopBack(AnyLink)
  BY <1>1 DEF LoopBuf, LoopBack
<1>5. LoopAwake(AnyLink)' = LoopAwake(AnyLink)
  BY <1>1 DEF LoopAwake, Waiting
<1> QED
  BY <1>2, <1>3, <1>4, <1>5 DEF Loop!vars, Loop!slots

LEMMA LoopInit ==
  ASSUME Init, BufferType # "DAMQ_R", AnyLink \in Link
  PROVE  Loop!Init
<1>1. Placed(AnyLink)
  BY TypesOfInit, InitialControl, SlotsPlaced
<1>2. \A v \in VC :
        /\ Reserve(AnyLink, v) = Rsv
        /\ Granted(AnyLink, v) = 0 /\ OnLink(AnyLink, v) = 0 /\ Behind(AnyLink, v) = 0
        /\ Returning(AnyLink, v) = 0
  BY AllFree
<1>3. LoopRsv(AnyLink) = [v \in VC |-> Rsv] /\ LoopXbar(AnyLink) = [v \in VC |-> 0]
  BY <1>1, <1>2 DEF Placed
<1>4. LoopWire(AnyLink) = [v \in VC |-> 0] /\ LoopBuf(AnyLink) = [v \in VC |-> 0]
  BY <1>1, <1>2 DEF Placed
<1>5. LoopBack(AnyLink) = [v \in VC |-> 0]
  BY <1>1, <1>2 DEF Placed
<1>6. LoopCredit(AnyLink) = [p \in Loop!Pool |-> IF BufferType = "SAMQ"
                                                 THEN Depth - Rsv
                                                 ELSE Loop!Cardinality(VC) * (Depth - Rsv)]
  <2> DEFINE c == credit[AnyLink[1]][AnyLink[2]]
  <2>1. Depth - Rsv \in Int /\ IsFiniteSet(VC)
    BY NetworkAssumption, Finite
  <2>2. c = [v \in VC |-> Depth - Rsv]
    <3>1. AnyLink[1] \in Router /\ AnyLink[2] \in PC
      BY LinkEnds
    <3> QED
      BY <3>1 DEF Init, PerVCState
  <2> HIDE DEF c
  <2>3. CASE BufferType = "SAMQ"
    <3>1. LoopCredit(AnyLink) = c
      BY <2>3 DEF LoopCredit, c
    <3> QED
      BY <2>2, <2>3, <3>1 DEF Loop!Pool
  <2>4. CASE BufferType # "SAMQ"
    <3>1. LoopCredit(AnyLink) = [pool \in {"outport"} |-> SumFunction(c)]
      BY <2>4 DEF LoopCredit, c
    <3>2. SumFunction(c) = Cardinality(VC) * (Depth - Rsv)
      <4>1. c \in [VC -> Int] /\ \A v \in VC : c[v] = Depth - Rsv
        BY <2>1, <2>2
      <4> DEFINE k == Depth - Rsv
      <4>2. k \in Int /\ \A v \in VC : c[v] = k
        BY <2>1, <4>1
      <4> HIDE DEF k
      <4>3. SumFunction(c) = Cardinality(VC) * k
        BY <2>1, <4>1, <4>2, SumConstant
      <4> QED
        BY <4>3 DEF k
    <3>3. Loop!Cardinality(VC) = Cardinality(VC)
      BY SameSets
    <3>4. Loop!Pool = {"outport"}
      BY <2>4 DEF Loop!Pool
    <3> QED
      BY <2>4, <3>1, <3>2, <3>3, <3>4
  <2> QED
    BY <2>3, <2>4
<1>7. LoopAwake(AnyLink) = TRUE
  <2>1. AnyLink[1] \in Router
    BY LinkEnds
  <2> QED
    BY <2>1, AwakeAtFirst DEF LoopAwake
<1> QED
  BY <1>3, <1>4, <1>5, <1>6, <1>7 DEF Loop!Init

\* Router and links keep the protocol of CreditLoop on every link of every network,
\* when the credits are those of a VC or of a port: the pipeline stages of the two
\* routers and the scheduler that runs them do only what the credit loop may do.
THEOREM LinksAreLoops ==
  ASSUME BufferType # "DAMQ_R", AnyLink \in Link
  PROVE  Spec => Loop!Spec
<1>1. Init => Loop!Init
  BY LoopInit
<1>2. TypeOK /\ ControlInv /\ TypeOK' /\ ControlInv' /\ NoSleepOnWork' /\ [Next]_vars
        => [Loop!Next]_Loop!vars
  BY LoopMoves, LoopStutters
<1> QED
  BY <1>1, <1>2, TypeCorrect, ControlInOrder, SleepsOnlyIdle, PTL DEF Spec, Loop!Spec

\* What is proved of the credit loop is so true of every link.  A VC that holds fewer
\* slots of the buffer behind it than it has reserved is never refused a credit,
\* whatever the other VCs of the port carry.
THEOREM ReservesServe ==
  ASSUME BufferType # "DAMQ_R", AnyLink \in Link
  PROVE  Spec => []Loop!NoShutOut
<1>1. Loop!IsFiniteSet(VC) /\ VC # {} /\ Depth \in Nat \ {0}
  BY LoopSetting, SameSets
<1>2. /\ BufferType \in {"SAMQ", "DAMQ_P"}
      /\ Rsv \in IF BufferType = "SAMQ" THEN {0} ELSE 0 .. Depth
  BY LoopSetting
<1>3. Loop!Spec => []Loop!NoShutOut
  BY <1>1, <1>2, Loop!NoShutOutHolds
<1> QED
  BY <1>3, LinksAreLoops, PTL
===============================================================================
