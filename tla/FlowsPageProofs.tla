--------------------------- MODULE FlowsPageProofs ---------------------------
(***************************************************************************)
(* The types, the buttons, what a page at rest shows and how its pages fit *)
(* together, for every table, series, kinds of filters, size of a page and *)
(* number of loads that overlap.                                           *)
(***************************************************************************)
EXTENDS FlowsPage, SequenceTheorems, WellFoundedInduction, TLAPS

-----------------------------------------------------------------------------
(* Sequences put together: FlattenSeq of the community modules.            *)

\* A set of natural numbers that is not empty has a least element: the
\* recursion of FlattenSeq is followed to the first place where it would fail.
LEMMA LeastNatural ==
    ASSUME NEW S \in SUBSET Nat, S # {}
    PROVE  \E n \in S : \A m \in S : n <= m
<1>1. IsWellFoundedOn(OpToRel(<, Nat), Nat)
  BY NatLessThanWellFounded
<1>2. PICK n \in S : \A m \in S : <<m, n>> \notin OpToRel(<, Nat)
  BY <1>1, WFMin
<1>3. ASSUME NEW m \in S PROVE n <= m
  <2>1. m \in Nat /\ n \in Nat
    OBVIOUS
  <2>2. ~(m < n)
    BY <1>2, <2>1 DEF OpToRel
  <2> QED BY <2>1, <2>2
<1> QED BY <1>3

\* g holds what has been put together after each of the sequences.
Flattens(g, seqs, n) ==
    /\ DOMAIN g = 1..n
    /\ \A i \in 1..n : g[i] = IF i = 1 THEN seqs[i] ELSE g[i - 1] \o seqs[i]

\* There is such a function: the last one before the first n without one
\* would extend to n.
LEMMA FlattenExists ==
    ASSUME NEW N \in Nat, NEW seqs
    PROVE  \E g : Flattens(g, seqs, N)
<1> DEFINE Missing == {n \in Nat : ~ \E g : Flattens(g, seqs, n)}
<1>1. SUFFICES ASSUME Missing # {} PROVE FALSE
  OBVIOUS
<1>2. PICK n \in Missing : \A m \in Missing : n <= m
  <2>1. Missing \in SUBSET Nat
    OBVIOUS
  <2> HIDE DEF Missing
  <2> QED BY <1>1, <2>1, LeastNatural
<1>3. n \in Nat /\ ~ \E g : Flattens(g, seqs, n)
  OBVIOUS
<1>4. CASE n = 0
  <2> DEFINE g == [i \in 1..0 |-> i]
  <2>1. Flattens(g, seqs, 0)
    BY DEF Flattens
  <2> QED BY <1>3, <1>4, <2>1
<1>5. CASE n # 0
  <2>1. n - 1 \in Nat /\ ~(n <= n - 1)
    BY <1>3, <1>5
  <2>2. n - 1 \notin Missing
    BY <1>2, <2>1
  <2>3. PICK g : Flattens(g, seqs, n - 1)
    BY <2>1, <2>2
  <2> DEFINE last == IF n = 1 THEN seqs[1] ELSE g[n - 1] \o seqs[n]
             h == [i \in 1..n |-> IF i = n THEN last ELSE g[i]]
  <2>4. \A i \in 1..n : h[i] = IF i = 1 THEN seqs[i] ELSE h[i - 1] \o seqs[i]
    <3>1. TAKE i \in 1..n
    <3>2. CASE i = n
      <4>1. h[i] = last
        BY <3>2
      <4>2. i # 1 => h[i - 1] = g[n - 1]
        BY <1>3, <3>2
      <4> HIDE DEF h
      <4> QED BY <3>2, <4>1, <4>2
    <3>3. CASE i # n
      <4>1. i \in 1..(n - 1) /\ h[i] = g[i]
        BY <1>3, <3>3
      <4>2. i # 1 => h[i - 1] = g[i - 1]
        BY <1>3, <3>3
      <4>3. g[i] = IF i = 1 THEN seqs[i] ELSE g[i - 1] \o seqs[i]
        BY <2>3, <4>1 DEF Flattens
      <4> HIDE DEF h
      <4> QED BY <4>1, <4>2, <4>3
    <3> QED BY <3>2, <3>3
  <2>5. DOMAIN h = 1..n
    OBVIOUS
  <2> HIDE DEF h
  <2>6. Flattens(h, seqs, n)
    BY <2>4, <2>5 DEF Flattens
  <2> QED BY <1>3, <2>6
<1> QED BY <1>4, <1>5

\* FlattenSeq is the last value of such a function, and sequences over T make
\* sequences over T.
LEMMA FlattenTypes ==
    ASSUME NEW N \in Nat, NEW T, NEW seqs \in [1..N -> Seq(T)],
           NEW g, Flattens(g, seqs, N)
    PROVE  \A i \in 1..N : g[i] \in Seq(T)
<1> DEFINE Bad == {i \in 1..N : g[i] \notin Seq(T)}
<1>1. SUFFICES ASSUME Bad # {} PROVE FALSE
  OBVIOUS
<1>2. PICK i \in Bad : \A j \in Bad : i <= j
  <2>1. Bad \in SUBSET Nat
    OBVIOUS
  <2> HIDE DEF Bad
  <2> QED BY <1>1, <2>1, LeastNatural
<1>3. i \in 1..N /\ g[i] \notin Seq(T) /\ seqs[i] \in Seq(T)
  OBVIOUS
<1>4. CASE i = 1
  BY <1>3, <1>4 DEF Flattens
<1>5. CASE i # 1
  <2>1. i - 1 \in 1..N /\ ~(i <= i - 1)
    BY <1>3, <1>5
  <2>2. g[i - 1] \in Seq(T)
    BY <1>2, <2>1
  <2>3. g[i] = g[i - 1] \o seqs[i]
    BY <1>3, <1>5 DEF Flattens
  <2> QED BY <1>3, <2>2, <2>3
<1> QED BY <1>4, <1>5

LEMMA FlattenIs ==
    ASSUME NEW N \in Nat \ {0}, NEW T, NEW seqs \in [1..N -> Seq(T)]
    PROVE  \E g : Flattens(g, seqs, N) /\ FlattenSeq(seqs) = g[N]
<1> DEFINE Fits(g) == g = [i \in 1..N |-> IF i = 1 THEN seqs[i] ELSE g[i - 1] \o seqs[i]]
           c == CHOOSE g : Fits(g)
<1>1. \E g : Fits(g)
  <2>1. PICK g : Flattens(g, seqs, N)
    BY FlattenExists
  <2> DEFINE h == [i \in 1..N |-> g[i]]
  <2>2. Fits(h)
    BY <2>1 DEF Flattens
  <2> QED BY <2>2
<1>2. Fits(c)
  BY <1>1, Zenon
<1>3. Len(seqs) = N
  OBVIOUS
<1>4. FlattenSeq(seqs) = c[N]
  BY <1>3, Zenon DEF FlattenSeq
<1> HIDE DEF c
<1>5. Flattens(c, seqs, N)
  BY <1>2 DEF Flattens
<1> QED BY <1>4, <1>5

LEMMA FlattenSeqType ==
    ASSUME NEW N \in Nat, NEW T, NEW seqs \in [1..N -> Seq(T)]
    PROVE  FlattenSeq(seqs) \in Seq(T)
<1>1. CASE N = 0
  <2>1. Len(seqs) = 0 /\ seqs = <<>>
    BY <1>1
  <2> QED BY <2>1 DEF FlattenSeq
<1>2. CASE N # 0
  BY <1>2, FlattenIs, FlattenTypes
<1> QED BY <1>1, <1>2

-----------------------------------------------------------------------------
(* The rows of a filter.                                                   *)

\* A table is a sequence of flows, and so is what its cut leaves of it.
LEMMA TableType ==
    ASSUME NEW f, NEW s
    PROVE  Table(f, s) \in Seq(1..MaxFlows)
<1> DEFINE S == {n \in Matching(f) : SeriesOf[n] = s}
           one == [i \in 1..MaxFlows |-> LET n == MaxFlows + 1 - i IN IF n \in S THEN <<n>> ELSE <<>>]
<1>1. one \in [1..MaxFlows -> Seq(1..MaxFlows)]
  <2>1. ASSUME NEW i \in 1..MaxFlows PROVE one[i] \in Seq(1..MaxFlows)
    <3>1. MaxFlows + 1 - i \in 1..MaxFlows
      BY FlowsAssumption
    <3> HIDE DEF S
    <3>2. one[i] = <<MaxFlows + 1 - i>> \/ one[i] = <<>>
      OBVIOUS
    <3> HIDE DEF one
    <3>3. <<>> \in Seq(1..MaxFlows) /\ \A n \in 1..MaxFlows : <<n>> \in Seq(1..MaxFlows)
      OBVIOUS
    <3> QED BY <3>1, <3>2, <3>3
  <2> QED BY <2>1
<1>2. Table(f, s) = FlattenSeq(one)
  BY Zenon DEF Table, NewestFirst
<1> HIDE DEF one
<1> QED BY <1>1, <1>2, FlattenSeqType, FlowsAssumption

LEMMA CutType ==
    ASSUME NEW T, NEW R \in Seq(T), NEW from \in Nat \ {0}, NEW to \in Nat
    PROVE  Cut(R, from, to) \in Seq(T)
<1>1. CASE to < Len(R)
  BY <1>1, SubSeqProperties DEF Cut
<1>2. CASE ~(to < Len(R))
  <2>1. Cut(R, from, to) = SubSeq(R, from, Len(R)) /\ Len(R) \in Nat
    BY <1>2 DEF Cut
  <2> QED BY <2>1, SubSeqProperties
<1> QED BY <1>1, <1>2

\* Two sequences that are the same up to m: equal, or long enough.
Agree(F, G, m) ==
    F = G \/ (Len(F) >= m /\ Len(G) >= m /\ \A k \in 1..m : F[k] = G[k])

\* More may be appended to both.
LEMMA AgreeAppend ==
    ASSUME NEW T, NEW F \in Seq(T), NEW G \in Seq(T), NEW A \in Seq(T), NEW B \in Seq(T),
           NEW m \in Nat, Agree(F, G, m), Agree(A, B, m)
    PROVE  Agree(F \o A, G \o B, m)
<1>1. /\ Len(F) \in Nat /\ Len(G) \in Nat /\ Len(A) \in Nat /\ Len(B) \in Nat
      /\ Len(F \o A) = Len(F) + Len(A) /\ Len(G \o B) = Len(G) + Len(B)
  OBVIOUS
<1>2. CASE Len(F) >= m /\ Len(G) >= m /\ \A k \in 1..m : F[k] = G[k]
  <2>1. ASSUME NEW k \in 1..m PROVE (F \o A)[k] = (G \o B)[k]
    <3>1. k \in 1..Len(F) /\ k \in 1..Len(G)
      BY <1>1, <1>2
    <3>2. (F \o A)[k] = F[k] /\ (G \o B)[k] = G[k]
      BY <3>1
    <3> QED BY <1>2, <3>2
  <2> QED BY <1>1, <1>2, <2>1 DEF Agree
<1>3. CASE F = G
  <2>1. CASE A = B
    BY <1>3, <2>1 DEF Agree
  <2>2. CASE Len(A) >= m /\ Len(B) >= m /\ \A k \in 1..m : A[k] = B[k]
    <3>1. ASSUME NEW k \in 1..m PROVE (F \o A)[k] = (G \o B)[k]
      <4>1. CASE k <= Len(F)
        BY <1>1, <1>3, <4>1
      <4>2. CASE ~(k <= Len(F))
        <5>1. k - Len(F) \in 1..m /\ k - Len(F) \in 1..Len(A) /\ k - Len(F) \in 1..Len(B)
          BY <1>1, <2>2, <4>2
        <5>2. (F \o A)[k] = A[k - Len(F)] /\ (G \o B)[k] = B[k - Len(F)]
          BY <1>1, <1>3, <4>2, <5>1
        <5> QED BY <2>2, <5>1, <5>2
      <4> QED BY <4>1, <4>2
    <3> QED BY <1>1, <1>3, <2>2, <3>1 DEF Agree
  <2> QED BY <2>1, <2>2 DEF Agree
<1> QED BY <1>2, <1>3 DEF Agree

\* Tables each cut at n or later are, put together, the whole ones up to n.
LEMMA FlattenAgree ==
    ASSUME NEW N \in Nat, NEW T, NEW A \in [1..N -> Seq(T)], NEW B \in [1..N -> Seq(T)],
           NEW m \in Nat, \A i \in 1..N : Agree(A[i], B[i], m)
    PROVE  Agree(FlattenSeq(A), FlattenSeq(B), m)
<1>1. CASE N = 0
  <2>1. A = B
    BY <1>1
  <2> QED BY <2>1 DEF Agree
<1>2. CASE N # 0
  <2>1. PICK g : Flattens(g, A, N) /\ FlattenSeq(A) = g[N]
    BY <1>2, FlattenIs
  <2>2. PICK h : Flattens(h, B, N) /\ FlattenSeq(B) = h[N]
    BY <1>2, FlattenIs
  <2>3. \A i \in 1..N : g[i] \in Seq(T) /\ h[i] \in Seq(T)
    BY <2>1, <2>2, FlattenTypes
  <2> DEFINE Bad == {i \in 1..N : ~Agree(g[i], h[i], m)}
  <2>4. CASE Bad = {}
    <3>1. N \in 1..N
      BY <1>2
    <3>2. Agree(g[N], h[N], m)
      BY <2>4, <3>1
    <3> QED BY <2>1, <2>2, <3>2
  <2>5. ASSUME Bad # {} PROVE FALSE
    <3>1. PICK i \in Bad : \A j \in Bad : i <= j
      <4>1. Bad \in SUBSET Nat
        OBVIOUS
      <4> HIDE DEF Bad
      <4> QED BY <2>5, <4>1, LeastNatural
    <3>2. i \in 1..N /\ ~Agree(g[i], h[i], m)
      OBVIOUS
    <3>3. CASE i = 1
      BY <2>1, <2>2, <3>2, <3>3 DEF Flattens
    <3>4. CASE i # 1
      <4>1. i - 1 \in 1..N /\ ~(i <= i - 1)
        BY <3>2, <3>4
      <4>2. Agree(g[i - 1], h[i - 1], m)
        BY <3>1, <4>1
      <4>3. g[i] = g[i - 1] \o A[i] /\ h[i] = h[i - 1] \o B[i]
        BY <2>1, <2>2, <3>2, <3>4 DEF Flattens
      <4> HIDE DEF Bad
      <4>4. A[i] \in Seq(T) /\ B[i] \in Seq(T) /\ Agree(A[i], B[i], m)
        BY <3>2
      <4> QED BY <2>3, <3>2, <4>1, <4>2, <4>3, <4>4, AgreeAppend
    <3> QED BY <3>3, <3>4
  <2> QED BY <2>4, <2>5
<1> QED BY <1>1, <1>2

LEMMA CutAgree ==
    ASSUME NEW T, NEW R \in Seq(T), NEW n \in Nat, NEW m \in Nat, m <= n
    PROVE  Agree(Cut(R, 1, n), R, m)
<1>1. Len(R) \in Nat
  OBVIOUS
<1>2. CASE n < Len(R)
  <2>1. Cut(R, 1, n) = SubSeq(R, 1, n)
    BY <1>2 DEF Cut
  <2>2. Len(SubSeq(R, 1, n)) = n /\ \A k \in 1..n : SubSeq(R, 1, n)[k] = R[k]
    BY <1>1, <1>2
  <2> QED BY <1>1, <1>2, <2>1, <2>2 DEF Agree
<1>3. CASE ~(n < Len(R))
  <2>1. Cut(R, 1, n) = R
    BY <1>1, <1>3 DEF Cut
  <2> QED BY <2>1 DEF Agree
<1> QED BY <1>2, <1>3

\* What two sequences that agree up to the end of a page have on it.
LEMMA AgreeCut ==
    ASSUME NEW T, NEW F \in Seq(T), NEW G \in Seq(T), NEW from \in Nat \ {0}, NEW to \in Nat,
           Agree(F, G, to)
    PROVE  Cut(F, from, to) = Cut(G, from, to)
<1>1. CASE F = G
  BY <1>1
<1>2. CASE Len(F) >= to /\ Len(G) >= to /\ \A k \in 1..to : F[k] = G[k]
  <2>1. Cut(F, from, to) = SubSeq(F, from, to) /\ Cut(G, from, to) = SubSeq(G, from, to)
    BY <1>2 DEF Cut
  <2>2. SubSeq(F, from, to) = SubSeq(G, from, to)
    BY <1>2
  <2> QED BY <2>1, <2>2
<1> QED BY <1>1, <1>2 DEF Agree

\* A page is what it would be if nothing were cut: each table is cut behind
\* its end, however many rows the others hold.
LEMMA PageOfRows ==
    ASSUME NEW f \in Filter, NEW from \in Nat
    PROVE  /\ Rows(f) \in Seq(1..MaxFlows)
           /\ Page(f, from) = Cut(Rows(f), from + 1, from + PageSize)
<1> DEFINE n == FetchN(f, from)
           whole == [s \in Series |-> IF s \in Directed[f.kind] THEN Table(f, s) ELSE <<>>]
           cut == [s \in Series |->
                     IF s \in Directed[f.kind] THEN Cut(Table(f, s), 1, n) ELSE <<>>]
<1>1. n \in Nat /\ PageSize \in Nat \ {0} /\ from + PageSize <= n /\ NSeries \in Nat
  BY FlowsAssumption DEF FetchN
<1> HIDE DEF n
<1>2. \A s \in Series : /\ Table(f, s) \in Seq(1..MaxFlows)
                       /\ Cut(Table(f, s), 1, n) \in Seq(1..MaxFlows)
  <2>1. TAKE s \in Series
  <2>2. Table(f, s) \in Seq(1..MaxFlows) /\ 1 \in Nat \ {0}
    BY TableType
  <2> QED BY <1>1, <2>2, CutType
<1>3. whole \in [1..NSeries -> Seq(1..MaxFlows)] /\ cut \in [1..NSeries -> Seq(1..MaxFlows)]
  <2>1. <<>> \in Seq(1..MaxFlows)
    OBVIOUS
  <2>2. \A s \in Series : whole[s] \in Seq(1..MaxFlows)
    BY <1>2, <2>1
  <2>3. \A s \in Series : cut[s] \in Seq(1..MaxFlows)
    BY <1>2, <2>1
  <2> QED BY <2>2, <2>3 DEF Series
<1>4. \A s \in 1..NSeries : Agree(cut[s], whole[s], from + PageSize)
  <2>1. TAKE s \in 1..NSeries
  <2>2. CASE s \in Directed[f.kind]
    <3>1. cut[s] = Cut(Table(f, s), 1, n) /\ whole[s] = Table(f, s)
      BY <2>2 DEF Series
    <3>2. Table(f, s) \in Seq(1..MaxFlows) /\ from + PageSize \in Nat
      BY <1>1, <1>2 DEF Series
    <3> HIDE DEF cut, whole
    <3> QED BY <1>1, <3>1, <3>2, CutAgree
  <2>3. CASE s \notin Directed[f.kind]
    BY <2>3 DEF Series, Agree
  <2> QED BY <2>2, <2>3
<1>5. Rows(f) = FlattenSeq(whole) /\ AllRecords(f, n) = FlattenSeq(cut)
  BY Zenon DEF Rows, AllRecords
<1> HIDE DEF whole, cut
<1>6. Rows(f) \in Seq(1..MaxFlows) /\ AllRecords(f, n) \in Seq(1..MaxFlows)
  BY <1>1, <1>3, <1>5, FlattenSeqType
<1>7. Agree(AllRecords(f, n), Rows(f), from + PageSize)
  <2>1. from + PageSize \in Nat
    BY <1>1
  <2> QED BY <1>1, <1>3, <1>4, <1>5, <2>1, FlattenAgree
<1>8. Page(f, from) = Cut(AllRecords(f, n), from + 1, from + PageSize)
  BY DEF Page, n
<1>9. from + 1 \in Nat \ {0} /\ from + PageSize \in Nat
  BY <1>1
<1> QED BY <1>6, <1>7, <1>8, <1>9, AgreeCut

\* Of any sequence: its first k elements and the page after them.
LEMMA CutPage ==
    ASSUME NEW T, NEW R \in Seq(T), NEW k \in Nat
    PROVE  /\ Cut(R, 1, k) \o Cut(R, k + 1, k + PageSize) = Cut(R, 1, k + PageSize)
           /\ Len(Cut(R, 1, k + PageSize)) = IF k + PageSize < Len(R) THEN k + PageSize ELSE Len(R)
           /\ k + PageSize <= Len(R) => Len(Cut(R, k + 1, k + PageSize)) = PageSize
<1> DEFINE e == IF k + PageSize < Len(R) THEN k + PageSize ELSE Len(R)
<1>0. PageSize \in Nat \ {0}
  BY FlowsAssumption
<1>1. Len(R) \in Nat /\ e \in Nat /\ e <= Len(R)
  BY <1>0
<1>2. Cut(R, 1, k + PageSize) = SubSeq(R, 1, e) /\ Cut(R, k + 1, k + PageSize) = SubSeq(R, k + 1, e)
  BY DEF Cut
<1>3. Len(SubSeq(R, 1, e)) = e
  <2> HIDE DEF e
  <2> QED BY <1>1
<1>4. CASE Len(R) <= k
  <2>1. Cut(R, 1, k) = SubSeq(R, 1, Len(R)) /\ e = Len(R) /\ ~(k + PageSize <= Len(R))
    BY <1>0, <1>1, <1>4 DEF Cut
  <2>2. SubSeq(R, k + 1, Len(R)) = <<>> /\ SubSeq(R, 1, Len(R)) = R /\ R \o <<>> = R
    BY <1>1, <1>4
  <2> QED BY <1>2, <1>3, <2>1, <2>2
<1>5. CASE k < Len(R)
  <2>1. Cut(R, 1, k) = SubSeq(R, 1, k) /\ k < e /\ (k + PageSize <= Len(R) => e = k + PageSize)
    BY <1>0, <1>1, <1>5 DEF Cut
  <2> HIDE DEF e
  <2>2. SubSeq(R, 1, k) \o SubSeq(R, k + 1, e) = SubSeq(R, 1, e)
    <3>1. 1 \in 1..(Len(R) + 1) /\ k \in (1 - 1)..Len(R) /\ e \in k..Len(R)
      BY <1>1, <1>5, <2>1
    <3> QED BY <3>1, ConcatAdjacentSubSeq
  <2>3. Len(SubSeq(R, k + 1, e)) = e - k
    BY <1>1, <2>1
  <2>4. k + PageSize <= Len(R) => Len(SubSeq(R, k + 1, e)) = PageSize
    BY <1>0, <1>1, <2>1, <2>3
  <2> QED BY <1>2, <1>3, <2>1, <2>2, <2>4 DEF e
<1>6. Len(R) <= k \/ k < Len(R)
  BY <1>1
<1> QED BY <1>4, <1>5, <1>6

-----------------------------------------------------------------------------
(* The buttons and the filters shown.                                      *)

\* The newest load is that of the chosen filters; once it is answered and was
\* not overtaken, the page shows them and a loadMore() under way continues them.
Slots == DOMAIN loads = 0..MaxActs /\ acts \in 0..MaxActs

Newest == loads[acts].phase # "none" => loads[acts].filter = filters

Answered ==
    loads[acts].phase = "none" /\ ~overtaken =>
        /\ shown = {filters} \/ (error /\ flows = <<>>)
        /\ more.phase # "none" => more.filter = filters /\ shown = {filters}

Inv == Slots /\ Newest /\ Answered /\ ButtonsReturn

LEMMA InitInv == Init => Inv
<1> SUFFICES ASSUME Init PROVE Inv
  OBVIOUS
<1>1. Slots /\ loads[0] = Sent(filters, 0) /\ acts = 0
  BY FlowsAssumption DEF Init, Slots
<1>2. loads[0].phase = "sent" /\ loads[0].filter = filters
  BY <1>1 DEF Sent
<1>3. more.phase = "none"
  BY DEF Init, NoRequest, Sent
<1> QED
  BY <1>1, <1>2, <1>3 DEF Init, Inv, Slots, Newest, Answered, ButtonsReturn

\* Load of a new act: its slot, and it alone, becomes the newest.
LEMMA LoadInv ==
    ASSUME Inv, NEW f, Act, Load(f), filters' = f,
           UNCHANGED <<more, loadingMore>>
    PROVE  Inv'
<1>1. acts' = acts + 1 /\ acts' \in 0..MaxActs
  BY FlowsAssumption DEF Inv, Slots, Act
<1>2. DOMAIN loads' = 0..MaxActs /\ loads'[acts'] = Sent(f, 0)
  BY <1>1 DEF Load, Inv, Slots
<1>3. loads'[acts'].phase = "sent" /\ loads'[acts'].filter = filters'
  BY <1>2 DEF Sent
<1> QED
  BY <1>1, <1>2, <1>3 DEF Inv, Slots, Newest, Answered, ButtonsReturn

\* The end of a load: only the newest can leave the page not overtaken.
LEMMA FinishInv ==
    ASSUME Inv, NEW l \in 0..MaxActs, loads[l].phase # "none", Finish(l),
           UNCHANGED <<filters, more, loadingMore, acts>>,
           shown' = {loads[l].filter} \/ (error' /\ flows' = <<>>)
    PROVE  Inv'
<1>1. Slots' /\ loads'[l].phase = "none"
  BY DEF Inv, Slots, Finish, NoRequest, Sent
<1>2. \A k \in 0..MaxActs \ {l} : loads'[k] = loads[k]
  BY DEF Inv, Slots, Finish
<1>3. Newest'
  BY <1>1, <1>2 DEF Inv, Slots, Newest
<1>4. Answered'
  <2> SUFFICES ASSUME ~overtaken'
               PROVE  /\ shown' = {filters} \/ (error' /\ flows' = <<>>)
                      /\ more.phase = "none"
    BY DEF Answered
  <2>1. l = acts /\ more.phase = "none"
    BY DEF Finish
  <2> QED
    BY <2>1 DEF Inv, Newest
<1>5. ButtonsReturn'
  BY DEF Inv, ButtonsReturn, Finish
<1> QED
  BY <1>1, <1>3, <1>4, <1>5 DEF Inv

LEMMA NextInv == Inv /\ [Next]_vars => Inv'
<1> SUFFICES ASSUME Inv, [Next]_vars PROVE Inv'
  OBVIOUS
<1> USE DEF Inv
<1>1. ASSUME NEW l \in 0..MaxActs, ServeLoad(l) PROVE Inv'
  <2>1. DOMAIN loads' = DOMAIN loads
    BY <1>1 DEF ServeLoad, Slots
  <2>2. loads'[l].phase = "answer" /\ loads'[l].filter = loads[l].filter
    BY <1>1 DEF ServeLoad, Slots
  <2>3. \A k \in 0..MaxActs \ {l} : loads'[k] = loads[k]
    BY <1>1 DEF ServeLoad, Slots
  <2> QED
    BY <1>1, <2>1, <2>2, <2>3 DEF ServeLoad, Slots, Newest, Answered, ButtonsReturn, flags, ghosts
<1>2. ASSUME ServeMore PROVE Inv'
  <2>1. more'.phase = "answer" /\ more'.filter = more.filter /\ more.phase = "sent"
    BY <1>2 DEF ServeMore
  <2> QED
    BY <1>2, <2>1 DEF ServeMore, Slots, Newest, Answered, ButtonsReturn, flags, ghosts
<1>3. ASSUME NEW n \in 1..MaxFlows, Ingested(n) PROVE Inv'
  BY <1>3 DEF Ingested, Slots, Newest, Answered, ButtonsReturn, flags
<1>4. ASSUME MoreDone PROVE Inv'
  <2>1. more'.phase = "none"
    BY <1>4 DEF MoreDone, NoRequest, Sent
  <2>2. Answered'
    BY <1>4, <2>1 DEF MoreDone, Answered
  <2> QED
    BY <1>4, <2>1, <2>2 DEF MoreDone, Slots, Newest, ButtonsReturn
<1>5. ASSUME MoreFails PROVE Inv'
  <2>1. more'.phase = "none"
    BY <1>5 DEF MoreFails, NoRequest, Sent
  <2> QED
    BY <1>5, <2>1 DEF MoreFails, Slots, Newest, Answered, ButtonsReturn, ghosts
<1>6. ASSUME NEW l \in 0..MaxActs, LoadDone(l) PROVE Inv'
  BY <1>6, FinishInv DEF LoadDone
<1>7. ASSUME NEW l \in 0..MaxActs, LoadFails(l) PROVE Inv'
  BY <1>7, FinishInv DEF LoadFails
<1>8. ASSUME LoadMore PROVE Inv'
  <2>1. more'.phase = "sent" /\ more'.filter = filters
    BY <1>8 DEF LoadMore, Sent
  <2>2. Answered'
    BY <1>8, <2>1 DEF LoadMore, Answered, ghosts
  <2> QED
    BY <1>8, <2>1, <2>2 DEF LoadMore, Slots, Newest, ButtonsReturn
<1>9. ASSUME Refresh PROVE Inv'
  BY <1>9, LoadInv DEF Refresh
<1>10. ASSUME NEW f \in Filter, SetFilters(f) PROVE Inv'
  BY <1>10, LoadInv DEF SetFilters
<1>11. ASSUME UNCHANGED vars PROVE Inv'
  BY <1>11 DEF vars, flags, ghosts, Slots, Newest, Answered, ButtonsReturn
<1> QED
  BY <1>1, <1>2, <1>3, <1>4, <1>5, <1>6, <1>7, <1>8, <1>9, <1>10, <1>11
  DEF Next, Server, Ingest, Answers, User

-----------------------------------------------------------------------------
(* The types.                                                              *)

Types ==
    /\ stored \in SUBSET (1..MaxFlows)
    /\ filters \in Filter /\ shown \subseteq Filter
    /\ flows \in Seq(1..MaxFlows)
    /\ loading \in BOOLEAN /\ loadingMore \in BOOLEAN /\ hasMore \in BOOLEAN /\ error \in BOOLEAN
    /\ overtaken \in BOOLEAN /\ exact \in BOOLEAN
    /\ offset \in Nat
    /\ loads \in [0..MaxActs -> Request] /\ more \in Request
    /\ acts \in 0..MaxActs /\ faults \in 0..MaxFaults

\* Requests that are sent, served or gone are requests.
LEMMA RequestTypes ==
    /\ \A f \in Filter, from \in Nat : Sent(f, from) \in Request
    /\ Filter # {} => NoRequest \in Request
    /\ \A r \in Request : /\ Page(r.filter, r.offset) \in Seq(1..MaxFlows)
                          /\ [r EXCEPT !.rows = Page(r.filter, r.offset), !.phase = "answer"] \in Request
<1>0. <<>> \in Seq(1..MaxFlows)
  OBVIOUS
<1>1. \A f \in Filter, from \in Nat : Sent(f, from) \in Request
  BY <1>0 DEF Sent, Request
<1>2. ASSUME Filter # {} PROVE NoRequest \in Request
  <2> DEFINE f == CHOOSE f \in Filter : TRUE
  <2>1. f \in Filter
    BY <1>2
  <2>2. NoRequest = [Sent(f, 0) EXCEPT !.phase = "none"]
    BY DEF NoRequest
  <2> HIDE DEF f
  <2>3. Sent(f, 0) \in Request
    BY <1>1, <2>1
  <2> QED BY <2>2, <2>3 DEF Request
<1>3. ASSUME NEW r \in Request
      PROVE  /\ Page(r.filter, r.offset) \in Seq(1..MaxFlows)
             /\ [r EXCEPT !.rows = Page(r.filter, r.offset), !.phase = "answer"] \in Request
  <2> DEFINE p == Page(r.filter, r.offset)
  <2>1. r.filter \in Filter /\ r.offset \in Nat
    BY DEF Request
  <2>2. r.offset + 1 \in Nat \ {0} /\ r.offset + PageSize \in Nat
    BY <2>1, FlowsAssumption
  <2>3. p \in Seq(1..MaxFlows)
    BY <2>1, <2>2, PageOfRows, CutType
  <2> HIDE DEF p
  <2>4. [r EXCEPT !.rows = p, !.phase = "answer"] \in Request
    BY <2>3 DEF Request
  <2> QED BY <2>3, <2>4 DEF p
<1> QED BY <1>1, <1>2, <1>3

LEMMA InitTypes == Init => Types
<1> SUFFICES ASSUME Init PROVE Types
  OBVIOUS
<1>1. filters \in Filter /\ stored = 1..filters.stop /\ filters.stop \in 0..MaxFlows
  BY DEF Init, Filter
<1>2. stored \in SUBSET (1..MaxFlows)
  BY <1>1, FlowsAssumption
<1>3. NoRequest \in Request /\ Sent(filters, 0) \in Request
  BY <1>1, RequestTypes
<1>4. loads \in [0..MaxActs -> Request]
  BY <1>3 DEF Init
<1>5. acts \in 0..MaxActs /\ faults \in 0..MaxFaults
  BY FlowsAssumption DEF Init
<1>6. flows \in Seq(1..MaxFlows) /\ shown \subseteq Filter /\ offset \in Nat /\ more \in Request
  BY <1>3 DEF Init
<1> QED BY <1>1, <1>2, <1>4, <1>5, <1>6 DEF Init, Types

LEMMA LoadTypes ==
    ASSUME Types, NEW f \in Filter, Act, Load(f), filters' = f,
           UNCHANGED <<stored, flows, loadingMore, hasMore, more, shown, overtaken, faults>>
    PROVE  Types'
<1>1. acts' \in 0..MaxActs
  BY FlowsAssumption DEF Types, Act
<1>2. Sent(f, 0) \in Request
  BY RequestTypes
<1>3. loads' \in [0..MaxActs -> Request]
  BY <1>1, <1>2 DEF Types, Load
<1> QED BY <1>1, <1>3 DEF Types, Load

LEMMA FinishTypes ==
    ASSUME Types, NEW l \in 0..MaxActs, Finish(l)
    PROVE  /\ loading' \in BOOLEAN /\ overtaken' \in BOOLEAN
           /\ loads' \in [0..MaxActs -> Request]
<1>1. NoRequest \in Request
  BY RequestTypes DEF Types
<1>2. loads' \in [0..MaxActs -> Request]
  BY <1>1 DEF Types, Finish
<1>3. loading' \in BOOLEAN /\ overtaken' \in BOOLEAN
  BY Zenon DEF Finish
<1> QED BY <1>2, <1>3

LEMMA TypesStep == Types /\ [Next]_vars => Types'
<1> SUFFICES ASSUME Types, [Next]_vars PROVE Types'
  OBVIOUS
<1>0. NoRequest \in Request
  BY RequestTypes DEF Types
<1>1. ASSUME NEW l \in 0..MaxActs, ServeLoad(l) PROVE Types'
  <2> DEFINE r == loads[l]
             p == Page(r.filter, r.offset)
  <2>1. r \in Request
    BY DEF Types
  <2>2. \A q \in Request : q.filter \in Filter
    BY DEF Request
  <2>3. Page(r.filter, 0) \in Seq(1..MaxFlows)
    <3>1. 0 \in Nat /\ 0 + 1 \in Nat \ {0} /\ 0 + PageSize \in Nat
      BY FlowsAssumption
    <3> QED BY <2>1, <2>2, <3>1, PageOfRows, CutType
  <2>4. [r EXCEPT !.rows = Page(r.filter, 0), !.phase = "answer"] \in Request
    <3> DEFINE first == Page(r.filter, 0)
    <3> HIDE DEF first, r
    <3>1. [r EXCEPT !.rows = first, !.phase = "answer"] \in Request
      BY <2>1, <2>3 DEF Request, first
    <3> QED BY <3>1 DEF first
  <2>5. loads' = [loads EXCEPT ![l] = [r EXCEPT !.rows = Page(r.filter, 0), !.phase = "answer"]]
    BY <1>1 DEF ServeLoad, Types
  <2>6. loads' \in [0..MaxActs -> Request]
    BY <2>4, <2>5 DEF Types
  <2> QED BY <1>1, <2>6 DEF ServeLoad, Types, flags, ghosts
<1>2. ASSUME ServeMore PROVE Types'
  <2>1. more' \in Request
    BY <1>2, RequestTypes DEF ServeMore, Types
  <2> QED BY <1>2, <2>1 DEF ServeMore, Types, flags, ghosts
<1>3. ASSUME NEW n \in 1..MaxFlows, Ingested(n) PROVE Types'
  <2>1. exact' \in BOOLEAN
    BY <1>3, Zenon DEF Ingested
  <2>2. stored' \in SUBSET (1..MaxFlows)
    BY <1>3 DEF Ingested, Types
  <2> QED BY <1>3, <2>1, <2>2 DEF Ingested, Types, flags
<1>4. ASSUME MoreDone PROVE Types'
  <2>1. more.rows \in Seq(1..MaxFlows) /\ more.filter \in Filter /\ more.offset \in Nat
    BY DEF Types, Request
  <2>2. flows' \in Seq(1..MaxFlows) /\ shown' \subseteq Filter /\ offset' \in Nat
    BY <1>4, <2>1 DEF MoreDone, Types
  <2>3. hasMore' \in BOOLEAN
    <3>1. hasMore' = (Len(more.rows) >= PageSize)
      BY <1>4 DEF MoreDone
    <3> QED BY <3>1
  <2> QED BY <1>0, <1>4, <2>2, <2>3 DEF MoreDone, Types
<1>5. ASSUME Fault PROVE faults' \in 0..MaxFaults
  BY <1>5, FlowsAssumption DEF Fault, Types
<1>6. ASSUME MoreFails PROVE Types'
  BY <1>0, <1>5, <1>6 DEF MoreFails, Types, ghosts
<1>7. ASSUME NEW l \in 0..MaxActs, LoadDone(l) PROVE Types'
  <2>1. loads[l] \in Request
    BY DEF Types
  <2>2. loads[l].rows \in Seq(1..MaxFlows) /\ loads[l].filter \in Filter
    BY <2>1 DEF Request
  <2>3. hasMore' \in BOOLEAN /\ exact' \in BOOLEAN
    <3>1. hasMore' = (Len(loads[l].rows) >= PageSize) /\ exact' = Undisturbed(l)
      BY <1>7 DEF LoadDone
    <3>2. Undisturbed(l) \in BOOLEAN
      BY Zenon DEF Undisturbed
    <3> QED BY <3>1, <3>2
  <2>4. Finish(l)
    BY <1>7 DEF LoadDone
  <2> QED BY <1>7, <2>2, <2>3, <2>4, FinishTypes DEF LoadDone, Types
<1>8. ASSUME NEW l \in 0..MaxActs, LoadFails(l) PROVE Types'
  <2>1. Finish(l)
    BY <1>8 DEF LoadFails
  <2>2. flows' \in Seq(1..MaxFlows)
    BY <1>8 DEF LoadFails
  <2> QED BY <1>5, <1>8, <2>1, <2>2, FinishTypes DEF LoadFails, Types
<1>9. ASSUME LoadMore PROVE Types'
  <2>1. offset + PageSize \in Nat /\ filters \in Filter
    BY FlowsAssumption DEF Types
  <2>2. more' \in Request
    BY <1>9, <2>1, RequestTypes DEF LoadMore
  <2> QED BY <1>9, <2>2 DEF LoadMore, Types, ghosts
<1>10. ASSUME Refresh PROVE Types'
  BY <1>10, LoadTypes DEF Refresh, Types
<1>11. ASSUME NEW f \in Filter, SetFilters(f) PROVE Types'
  BY <1>11, LoadTypes DEF SetFilters
<1>12. ASSUME UNCHANGED vars PROVE Types'
  BY <1>12 DEF vars, flags, ghosts, Types
<1> QED BY <1>1, <1>2, <1>3, <1>4, <1>6, <1>7, <1>8, <1>9, <1>10, <1>11, <1>12
       DEF Next, Server, Ingest, Answers, User

-----------------------------------------------------------------------------
(* The pages.                                                              *)

\* While nothing disturbed the paging, a loadMore() under way asks for the
\* page that follows, and brings what the server says of it now.
Paging ==
    exact => /\ flows = Cut(Rows(filters), 1, offset + PageSize)
             /\ Len(flows) < Len(Rows(filters)) => hasMore
             /\ more.phase # "none" => more.filter = filters /\ more.offset = offset + PageSize
             /\ more.phase = "answer" =>
                  more.rows = Cut(Rows(filters), more.offset + 1, more.offset + PageSize)

\* The rows of a filter depend on the flows it selects alone.
LEMMA SameRows ==
    ASSUME filters' = filters, Matching(filters)' = Matching(filters)
    PROVE  Rows(filters)' = Rows(filters)
<1>1. \A s : Table(filters, s)' = Table(filters, s)
  BY Zenon DEF Table
<1> QED BY <1>1, Zenon DEF Rows

LEMMA RowsStay ==
    ASSUME stored' = stored, filters' = filters
    PROVE  Rows(filters)' = Rows(filters)
<1>1. Matching(filters)' = Matching(filters)
  BY Zenon DEF Matching
<1> QED BY <1>1, SameRows

\* Steps that leave the list, the offset and loadMore() alone.
LEMMA PagingKept ==
    ASSUME Paging, UNCHANGED <<filters, flows, offset, hasMore, more>>, exact' => exact,
           Rows(filters)' = Rows(filters)
    PROVE  Paging'
<1> SUFFICES ASSUME exact' PROVE Paging'
  BY Zenon DEF Paging
<1> QED BY DEF Paging

\* The first page of a load that was alone.
LEMMA LoadDonePaging ==
    ASSUME Types, NEW l \in 0..MaxActs, LoadDone(l)
    PROVE  Paging'
<1> SUFFICES ASSUME exact' PROVE Paging'
  BY Zenon DEF Paging
<1>1. Undisturbed(l)
  BY Zenon DEF LoadDone
<1>2. /\ more.phase = "none" /\ offset = 0 /\ flows' = Page(filters, 0)
      /\ hasMore' = (Len(flows') >= PageSize)
      /\ UNCHANGED <<filters, stored, offset, more>>
  BY <1>1 DEF Undisturbed, LoadDone
<1>3. Rows(filters)' = Rows(filters)
  BY <1>2, RowsStay
<1> DEFINE R == Rows(filters)
<1>4. R \in Seq(1..MaxFlows) /\ flows' = Cut(R, 1, 0 + PageSize)
  <2>1. Page(filters, 0) = Cut(R, 0 + 1, 0 + PageSize) /\ R \in Seq(1..MaxFlows)
    BY PageOfRows DEF Types
  <2> QED BY <1>2, <2>1
<1> HIDE DEF R
<1>5. Len(R) \in Nat /\ PageSize \in Nat
  BY <1>4, FlowsAssumption
<1>6. Len(flows') = IF 0 + PageSize < Len(R) THEN 0 + PageSize ELSE Len(R)
  BY <1>4, CutPage
<1>7. Len(flows') < Len(R) => hasMore'
  <2>1. HAVE Len(flows') < Len(R)
  <2>2. Len(flows') >= PageSize
    BY <1>5, <1>6, <2>1
  <2> QED BY <1>2, <2>2
<1> QED BY <1>2, <1>3, <1>4, <1>7 DEF Paging, R

\* The page that follows is appended.
LEMMA MoreDonePaging ==
    ASSUME Types, Paging, MoreDone
    PROVE  Paging'
<1> SUFFICES ASSUME exact' PROVE Paging'
  BY Zenon DEF Paging
<1> DEFINE R == Rows(filters)
           k == more.offset
<1>1. exact /\ more.phase = "answer"
  BY Zenon DEF MoreDone
<1>2. /\ flows = Cut(R, 1, offset + PageSize) /\ k = offset + PageSize
      /\ more.rows = Cut(R, k + 1, k + PageSize)
  BY <1>1 DEF Paging
<1>3. /\ flows' = flows \o more.rows /\ offset' = k
      /\ hasMore' = (Len(more.rows) >= PageSize)
      /\ more' = NoRequest
      /\ UNCHANGED <<filters, stored>>
  BY DEF MoreDone
<1>4. Rows(filters)' = Rows(filters)
  BY <1>3, RowsStay
<1>5. R \in Seq(1..MaxFlows) /\ k \in Nat /\ PageSize \in Nat
  BY <1>2, PageOfRows, FlowsAssumption DEF Types
<1>6. more'.phase = "none"
  BY <1>3 DEF NoRequest, Sent
<1> HIDE DEF R, k
<1>7. /\ flows' = Cut(R, 1, k + PageSize)
      /\ Len(flows') = IF k + PageSize < Len(R) THEN k + PageSize ELSE Len(R)
      /\ k + PageSize <= Len(R) => Len(more.rows) = PageSize
  <2>1. flows' = Cut(R, 1, k) \o Cut(R, k + 1, k + PageSize)
    BY <1>2, <1>3
  <2>2. /\ Cut(R, 1, k) \o Cut(R, k + 1, k + PageSize) = Cut(R, 1, k + PageSize)
        /\ Len(Cut(R, 1, k + PageSize)) = IF k + PageSize < Len(R) THEN k + PageSize ELSE Len(R)
        /\ k + PageSize <= Len(R) => Len(Cut(R, k + 1, k + PageSize)) = PageSize
    BY <1>5, CutPage
  <2> QED BY <1>2, <2>1, <2>2, Zenon
<1>8. Len(flows') < Len(R) => hasMore'
  <2>1. HAVE Len(flows') < Len(R)
  <2>2. Len(R) \in Nat
    BY <1>5
  <2>3. Len(more.rows) = PageSize
    BY <1>5, <1>7, <2>1, <2>2
  <2>4. Len(more.rows) >= PageSize
    BY <1>5, <2>3
  <2> QED BY <1>3, <2>4, Zenon
<1> QED BY <1>3, <1>4, <1>6, <1>7, <1>8 DEF Paging, R

LEMMA PagingStep ==
    ASSUME Types, ButtonsReturn, Paging, [Next]_vars
    PROVE  Paging'
<1>1. ASSUME NEW l \in 0..MaxActs, ServeLoad(l) PROVE Paging'
  BY <1>1, RowsStay, PagingKept DEF ServeLoad, flags, ghosts
<1>2. ASSUME ServeMore PROVE Paging'
  <2> SUFFICES ASSUME exact' PROVE Paging'
    BY Zenon DEF Paging
  <2> DEFINE p == Page(more.filter, more.offset)
  <2>1. exact /\ UNCHANGED <<stored, filters, flows, hasMore, offset>>
    BY <1>2, Zenon DEF ServeMore, flags, ghosts
  <2>2. more.filter = filters /\ more.offset = offset + PageSize
    BY <1>2, <2>1 DEF ServeMore, Paging
  <2>3. p = Cut(Rows(filters), more.offset + 1, more.offset + PageSize)
    <3>1. more.offset \in Nat /\ filters \in Filter
      BY DEF Types, Request
    <3> QED BY <2>2, <3>1, PageOfRows
  <2>4. more' = [more EXCEPT !.rows = p, !.phase = "answer"]
    BY <1>2 DEF ServeMore
  <2> HIDE DEF p
  <2>5. more'.rows = p /\ more'.filter = more.filter /\ more'.offset = more.offset
    <3>1. more \in Request
      BY DEF Types
    <3> QED BY <2>4, <3>1 DEF Request
  <2>6. Rows(filters)' = Rows(filters)
    BY <2>1, RowsStay
  <2> QED BY <2>1, <2>2, <2>3, <2>5, <2>6 DEF Paging
<1>3. ASSUME NEW n \in 1..MaxFlows, Ingested(n) PROVE Paging'
  <2> SUFFICES ASSUME exact' PROVE Paging'
    BY Zenon DEF Paging
  <2>1. /\ exact /\ ~(n \in Selected[filters.kind] /\ n <= filters.stop)
        /\ stored' = stored \cup {n}
        /\ UNCHANGED <<filters, flows, offset, hasMore, more>>
    BY <1>3, Zenon DEF Ingested, flags
  <2>2. Matching(filters)' = Matching(filters)
    BY <2>1, Zenon DEF Matching
  <2> QED BY <2>1, <2>2, SameRows, PagingKept
<1>4. ASSUME MoreDone PROVE Paging'
  BY <1>4, MoreDonePaging
<1>5. ASSUME MoreFails PROVE Paging'
  <2>1. more'.phase = "none"
    BY <1>5 DEF MoreFails, NoRequest, Sent
  <2>2. UNCHANGED <<stored, filters, flows, hasMore, offset, exact>>
    BY <1>5 DEF MoreFails, ghosts
  <2>3. Rows(filters)' = Rows(filters)
    BY <2>2, RowsStay
  <2> QED BY <2>1, <2>2, <2>3 DEF Paging
<1>6. ASSUME NEW l \in 0..MaxActs, LoadDone(l) PROVE Paging'
  BY <1>6, LoadDonePaging
<1>7. ASSUME exact' = FALSE PROVE Paging'
  BY <1>7, Zenon DEF Paging
<1>8. ASSUME NEW l \in 0..MaxActs, LoadFails(l) PROVE Paging'
  BY <1>7, <1>8 DEF LoadFails
<1>9. ASSUME LoadMore PROVE Paging'
  <2>1. more'.phase = "sent" /\ more'.filter = filters /\ more'.offset = offset + PageSize
    BY <1>9 DEF LoadMore, Sent
  <2>2. UNCHANGED <<stored, filters, flows, hasMore, offset, exact>>
    BY <1>9 DEF LoadMore, ghosts
  <2>3. Rows(filters)' = Rows(filters)
    BY <2>2, RowsStay
  <2> QED BY <2>1, <2>2, <2>3 DEF Paging
<1>10. ASSUME Refresh PROVE Paging'
  BY <1>7, <1>10 DEF Refresh, Load
<1>11. ASSUME NEW f \in Filter, SetFilters(f) PROVE Paging'
  BY <1>7, <1>11 DEF SetFilters, Load
<1>12. ASSUME UNCHANGED vars PROVE Paging'
  BY <1>12, RowsStay, PagingKept DEF vars, flags, ghosts
<1> QED BY <1>1, <1>2, <1>3, <1>4, <1>5, <1>6, <1>8, <1>9, <1>10, <1>11, <1>12
       DEF Next, Server, Ingest, Answers, User

-----------------------------------------------------------------------------
(* Theorems.                                                               *)

\* Neither the spinner nor Load More is left disabled.
THEOREM ButtonsAlwaysReturn == Spec => []ButtonsReturn
<1>1. Inv => ButtonsReturn
  BY DEF Inv
<1> QED
  BY InitInv, NextInv, <1>1, PTL DEF Spec

\* Requests, rows and buttons have their types, whatever loads overlap.
THEOREM TypeCorrect == Spec => []TypeOK
<1>1. Types => TypeOK
  BY DEF Types, TypeOK
<1> QED BY InitTypes, TypesStep, <1>1, PTL DEF Spec

\* Undisturbed, the pages of useFlowsData fit together although get_flows cuts
\* every table by itself, and Load More is offered while rows are left.
THEOREM RowsStayReachable == Spec => []RowsReachable
<1> DEFINE IInv == Types /\ Inv /\ Paging
<1>1. Init => IInv
  <2>1. Init => Paging
    BY DEF Init, Paging
  <2> QED BY InitTypes, InitInv, <2>1
<1>2. IInv /\ [Next]_vars => IInv'
  BY TypesStep, NextInv, PagingStep DEF Inv
<1>3. IInv => RowsReachable
  BY DEF Paging, RowsReachable, PagesFit, MoreOffered
<1> QED BY <1>1, <1>2, <1>3, PTL DEF Spec

\* A page at rest shows the chosen filters, or nothing and the error, if
\* nothing was overtaken.
THEOREM RestsOnItsFilters == Spec => []RestsOnFilters
<1>1. Inv => RestsOnFilters
  BY DEF Inv, Slots, Answered, RestsOnFilters, AtRest
<1> QED
  BY InitInv, NextInv, <1>1, PTL DEF Spec
=============================================================================
