--------------------------- MODULE DashboardProofs ---------------------------
(***************************************************************************)
(* Theorems about Dashboard, for any windows, requests of a load, minutes  *)
(* with traffic, and numbers of loads, reports and failures.               *)
(***************************************************************************)
EXTENDS Dashboard, FiniteSetTheorems, TLAPS

\* What the requests of a load are answered with was asked for by that load.
OwnAnswers ==
    \A l \in 0..MaxLoads : \A p \in Panel :
        loads[l].answers[p] # NoAnswer => loads[l].answers[p].filter = loads[l].filter

\* The load begun last is that of the filters of the page.
Newest == loads[newest].phase = "sent" => loads[newest].filter = filters

\* A page at rest that no answer overtook, without error, shows its filters.
AtRest == ~loading /\ ~error /\ ~overtaken => \A p \in Panel : panels[p].filter = filters

\* What handleExportPdf holds, and what it made of it.
Fits(e) == e.sure => \A p \in Panel : e.panels[p].filter = e.filters

Exporting ==
    /\ export # NoExport => Fits(export)
    /\ clicks > 0 /\ export = NoExport => report # NoReport
    /\ report # NoReport => Fits(report) /\ (report.listed => report.attacker \notin Trusted)

PanelsInv == OwnAnswers /\ Newest /\ AtRest /\ PanelsHonest

IInv == TypeOK /\ PanelsInv /\ Exporting

-----------------------------------------------------------------------------
(* The top attacker of a report.                                           *)

\* A set of natural numbers that is not empty has a least element.
LEMMA LeastNatural ==
    ASSUME NEW S \in SUBSET Nat, S # {}
    PROVE  \E n \in S : \A m \in S : n <= m
<1>1. IsWellFoundedOn(OpToRel(<, Nat), Nat)
  BY NatLessThanWellFounded
<1>2. PICK n \in S : \A m \in S : <<m, n>> \notin OpToRel(<, Nat)
  BY <1>1, WFMin
<1>3. ASSUME NEW m \in S PROVE n <= m
  <2>1. m \in Nat /\ n \in Nat
    OBVIOUS
  <2>2. ~(m < n)
    BY <1>2, <2>1 DEF OpToRel
  <2> QED BY <2>1, <2>2
<1> QED
  BY <1>3

\* The address a report names is one of the sample and not trusted.
LEMMA AttackerUntrusted ==
    ASSUME NEW trusted \in SUBSET IP
    PROVE  TopAttackerOf(Sample, trusted) \in (IP \ trusted) \cup {NoIP}
<1> DEFINE best == Best(Sample, Counted(Sample, trusted))
           first == CHOOSE i \in best : \A j \in best : i <= j
<1>1. best \subseteq Counted(Sample, trusted)
  BY DEF Best
<1>2. best \subseteq Nat /\ \A i \in DOMAIN Sample : Sample[i] \in IP \cup {NoIP}
  <2>1. Sample \in Seq(IP \cup {NoIP})
    BY DashboardAssumption
  <2>2. DOMAIN Sample \subseteq Nat /\ \A i \in DOMAIN Sample : Sample[i] \in IP \cup {NoIP}
    BY <2>1
  <2>3. best \subseteq DOMAIN Sample
    BY <1>1 DEF Counted
  <2> QED BY <2>2, <2>3
<1>3. CASE best = {}
  BY <1>3 DEF TopAttackerOf
<1>4. CASE best # {}
  <2>1. \E i \in best : \A j \in best : i <= j
    <3> HIDE DEF best
    <3> QED BY <1>2, <1>4, LeastNatural
  <2>2. first \in best
    <3> HIDE DEF best
    <3> QED BY <2>1
  <2>3. Sample[first] \in IP \ trusted
    BY <1>1, <1>2, <2>2 DEF Counted
  <2>4. TopAttackerOf(Sample, trusted) = Sample[first]
    BY <1>4 DEF TopAttackerOf
  <2> QED BY <2>3, <2>4
<1> QED
  BY <1>3, <1>4

-----------------------------------------------------------------------------
(* The loads.                                                              *)

LEMMA NoAnswers == NoPanels \in Panels /\ \A p \in Panel : NoPanels[p] = NoAnswer
BY DEF NoPanels, Panels

LEMMA SentState ==
    ASSUME NEW f \in Filter
    PROVE  /\ Sent(f) \in LoadState
           /\ Sent(f).phase = "sent" /\ Sent(f).filter = f /\ Sent(f).answers = NoPanels
BY NoAnswers DEF Sent, LoadState

LEMMA NoLoadState == NoLoad \in LoadState /\ NoLoad.phase = "none" /\ NoLoad.answers = NoPanels
<1>1. (CHOOSE f \in Filter : TRUE) \in Filter
  BY DashboardAssumption
<1>2. Sent(CHOOSE f \in Filter : TRUE) \in LoadState
      /\ Sent(CHOOSE f \in Filter : TRUE).answers = NoPanels
  BY <1>1, SentState
<1> QED
  BY <1>2 DEF NoLoad, LoadState

\* An answer is not the absence of one.
LEMMA AnswerNotNone == \A a \in Answer : a # NoAnswer
BY DashboardAssumption DEF Answer, NoAnswer

LEMMA InitPanels ==
    ASSUME Init
    PROVE  loads \in [0..MaxLoads -> LoadState] /\ PanelsInv
<1>1. filters \in Filter /\ 0 \in 0..MaxLoads /\ newest = 0
  BY DashboardAssumption DEF Init
<1>2. loads \in [0..MaxLoads -> LoadState]
  BY <1>1, SentState, NoLoadState DEF Init
<1>3. loads[0] = Sent(filters)
  BY <1>1 DEF Init
<1>4. \A l \in 0..MaxLoads : loads[l].answers = NoPanels
  BY <1>1, SentState, NoLoadState DEF Init
<1>5. OwnAnswers /\ Newest
  BY <1>1, <1>3, <1>4, NoAnswers, SentState DEF OwnAnswers, Newest
<1>6. SpinnerHonest
  BY <1>1, <1>2, <1>3, SentState DEF SpinnerHonest
<1>7. AtRest /\ PanelsTogether /\ EmptyOnlyWithError
  BY NoAnswers DEF Init, AtRest, PanelsTogether, EmptyOnlyWithError
<1> QED
  BY <1>2, <1>5, <1>6, <1>7 DEF PanelsInv, PanelsHonest

\* One request of a load is answered.
LEMMA ServeInv ==
    ASSUME TypeOK, PanelsInv, NEW l \in 0..MaxLoads, NEW p \in Panel, ServeRequest(l, p)
    PROVE  loads' \in [0..MaxLoads -> LoadState] /\ PanelsInv'
<1> DEFINE a == [filter |-> loads[l].filter,
                 points |-> IF p = "summary" THEN Points(loads[l].filter) ELSE {}]
<1>1. loads \in [0..MaxLoads -> LoadState] /\ loads[l] \in LoadState
  BY DEF TypeOK
<1>2. Points(loads[l].filter) \subseteq Minute
  BY DEF Points, TypeOK
<1>3. a \in Answer /\ a.filter = loads[l].filter
  BY <1>1, <1>2 DEF Answer, LoadState
<1>4. loads' = [loads EXCEPT ![l].answers[p] = a]
  BY DEF ServeRequest
<1>5. /\ \A k \in 0..MaxLoads : loads'[k].phase = loads[k].phase /\ loads'[k].filter = loads[k].filter
      /\ \A k \in 0..MaxLoads, q \in Panel :
            loads'[k].answers[q] = IF k = l /\ q = p THEN a ELSE loads[k].answers[q]
      /\ loads' \in [0..MaxLoads -> LoadState]
  <2> HIDE DEF a
  <2>1. loads[l].answers \in Panels
    BY <1>1 DEF LoadState
  <2>2. [loads[l].answers EXCEPT ![p] = a] \in Panels
    BY <1>3, <2>1 DEF Panels
  <2>3. loads'[l] = [loads[l] EXCEPT !.answers = [loads[l].answers EXCEPT ![p] = a]]
    BY <1>1, <1>4 DEF LoadState
  <2>4. \A k \in 0..MaxLoads \ {l} : loads'[k] = loads[k]
    BY <1>1, <1>4
  <2>5. loads'[l] \in LoadState /\ loads'[l].answers = [loads[l].answers EXCEPT ![p] = a]
        /\ loads'[l].phase = loads[l].phase /\ loads'[l].filter = loads[l].filter
    BY <1>1, <2>2, <2>3 DEF LoadState
  <2>6. \A q \in Panel : loads'[l].answers[q] = IF q = p THEN a ELSE loads[l].answers[q]
    BY <2>1, <2>5 DEF Panels
  <2>7. loads' \in [0..MaxLoads -> LoadState]
    BY <1>1, <1>4, <2>4, <2>5
  <2> QED BY <2>4, <2>5, <2>6, <2>7
<1>6. OwnAnswers'
  <2> HIDE DEF a
  <2> QED BY <1>3, <1>5 DEF PanelsInv, OwnAnswers
<1>7. newest \in 0..MaxLoads /\ DOMAIN loads = 0..MaxLoads /\ DOMAIN loads' = 0..MaxLoads
  BY <1>5 DEF TypeOK
<1>8. UNCHANGED <<panels, filters, loading, error, newest, overtaken>>
  BY DEF ServeRequest, flags
<1>9. Newest' /\ SpinnerHonest'
  BY <1>5, <1>7, <1>8 DEF PanelsInv, PanelsHonest, Newest, SpinnerHonest
<1>10. AtRest' /\ PanelsTogether' /\ EmptyOnlyWithError'
  BY <1>8 DEF PanelsInv, PanelsHonest, AtRest, PanelsTogether, EmptyOnlyWithError
<1> QED
  BY <1>5, <1>6, <1>9, <1>10 DEF PanelsInv, PanelsHonest

\* A load begins, of the filters the page has then.
LEMMA LoadInv ==
    ASSUME TypeOK, PanelsInv, NEW f \in Filter, Load(f), filters' = f, UNCHANGED <<panels, overtaken>>
    PROVE  loads' \in [0..MaxLoads -> LoadState] /\ newest' \in 0..MaxLoads /\ PanelsInv'
<1>1. loads \in [0..MaxLoads -> LoadState] /\ newest' \in 0..MaxLoads
  BY DashboardAssumption DEF TypeOK, Load
<1>2. /\ loads' = [loads EXCEPT ![newest'] = Sent(f)]
      /\ loads'[newest'] = Sent(f)
      /\ \A k \in 0..MaxLoads \ {newest'} : loads'[k] = loads[k]
  BY <1>1 DEF Load
<1>3. loads' \in [0..MaxLoads -> LoadState]
  BY <1>1, <1>2, SentState
<1>4. OwnAnswers'
  BY <1>2, SentState, NoAnswers DEF PanelsInv, OwnAnswers
<1>5. Newest' /\ SpinnerHonest'
  BY <1>1, <1>2, <1>3, SentState DEF Newest, SpinnerHonest
<1>6. AtRest' /\ PanelsTogether' /\ EmptyOnlyWithError'
  BY DEF PanelsInv, PanelsHonest, AtRest, PanelsTogether, EmptyOnlyWithError, Load
<1> QED
  BY <1>1, <1>3, <1>4, <1>5, <1>6 DEF PanelsInv, PanelsHonest

\* A load ends, with panels of its own or with the error.
LEMMA FinishInv ==
    ASSUME TypeOK, PanelsInv, NEW l \in 0..MaxLoads, loads[l].phase = "sent", Finish(l),
           UNCHANGED <<filters, newest>>,
           \/ panels' = panels /\ error' = TRUE
           \/ /\ \A p \in Panel : loads[l].answers[p] # NoAnswer
              /\ panels' = loads[l].answers /\ error' = error
    PROVE  /\ loads' \in [0..MaxLoads -> LoadState] /\ panels' \in Panels
           /\ {loading', error', overtaken'} \subseteq BOOLEAN
           /\ PanelsInv'
<1>1. loads \in [0..MaxLoads -> LoadState] /\ loads[l] \in LoadState /\ newest \in 0..MaxLoads
      /\ panels \in Panels /\ error \in BOOLEAN /\ "summary" \in Panel
  BY DashboardAssumption DEF TypeOK
<1>2. loads'[l] = NoLoad /\ \A k \in 0..MaxLoads \ {l} : loads'[k] = loads[k]
  BY <1>1 DEF Finish
<1>3. loads' \in [0..MaxLoads -> LoadState]
  BY <1>1, NoLoadState DEF Finish
<1>4. panels' \in Panels /\ {loading', error', overtaken'} \subseteq BOOLEAN /\ loading' = FALSE
  BY <1>1 DEF Finish, LoadState
<1>5. OwnAnswers'
  BY <1>2, NoLoadState, NoAnswers DEF PanelsInv, OwnAnswers
<1>6. Newest'
  BY <1>1, <1>2, NoLoadState DEF PanelsInv, Newest
<1>7. AtRest'
  <2> SUFFICES ASSUME ~error', ~overtaken', NEW p \in Panel PROVE panels'[p].filter = filters
    BY DEF AtRest
  <2>1. l = newest
    BY DEF Finish
  <2>2. loads[l].answers[p] # NoAnswer /\ panels'[p] = loads[l].answers[p]
    OBVIOUS
  <2>3. loads[l].answers[p].filter = loads[l].filter
    BY <2>2 DEF PanelsInv, OwnAnswers
  <2> QED BY <2>1, <2>2, <2>3 DEF PanelsInv, Newest
<1>8. PanelsTogether'
  BY DEF PanelsInv, PanelsHonest, OwnAnswers, PanelsTogether
<1>9. EmptyOnlyWithError' /\ SpinnerHonest'
  BY <1>1, <1>4 DEF PanelsInv, PanelsHonest, EmptyOnlyWithError, SpinnerHonest
<1> QED
  BY <1>3, <1>4, <1>5, <1>6, <1>7, <1>8, <1>9 DEF PanelsInv, PanelsHonest

-----------------------------------------------------------------------------
(* The report.                                                             *)

\* What is kept at the click is not nothing.
LEMMA HeldIsSome ==
    /\ NoExport \notin Held
    /\ \A al, at, ls, f, q, s : f \in Filter =>
          [alerts |-> al, attacker |-> at, listed |-> ls, filters |-> f, panels |-> q, sure |-> s] # NoReport
<1>1. "none" \notin Filter
  BY DashboardAssumption
<1>2. ASSUME NEW al, NEW at, NEW ls, NEW f \in Filter, NEW q, NEW s
      PROVE  [alerts |-> al, attacker |-> at, listed |-> ls, filters |-> f, panels |-> q, sure |-> s] # NoReport
  BY <1>1 DEF NoReport
<1> QED
  BY <1>1, <1>2 DEF NoExport, Held

\* A report is of the page of the click, with an attacker of its own.
LEMMA ReportedInv ==
    ASSUME TypeOK, Exporting, export # NoExport, NEW al \in {"some", "none", "unavailable"},
           NEW at \in IP \cup {NoIP}, NEW ls \in BOOLEAN, Reported(al, at, ls),
           ls => at \notin Trusted
    PROVE  /\ export' \in Held \cup {NoExport} /\ report' \in Reports \cup {NoReport}
           /\ Exporting'
<1> DEFINE r == [alerts |-> al, attacker |-> at, listed |-> ls, filters |-> export.filters,
                 panels |-> export.panels, sure |-> export.sure]
<1>1. export \in Held
  BY DEF TypeOK
<1>2. report' = r /\ export' = NoExport
  BY DEF Reported
<1>3. r \in Reports /\ r # NoReport
  BY <1>1, HeldIsSome DEF Held, Reports
<1>4. Fits(r) /\ (r.listed => r.attacker \notin Trusted)
  BY DEF Exporting, Fits
<1> QED
  <2> HIDE DEF r
  <2> QED BY <1>2, <1>3, <1>4 DEF Exporting

LEMMA ExportsInv ==
    ASSUME IInv, Exports
    PROVE  TypeOK' /\ Exporting'
<1>1. TypeOK /\ Exporting
  BY DEF IInv
<1>2. CASE HandleExportPdf
  <2> DEFINE e == [filters |-> filters, panels |-> panels, sure |-> ~overtaken /\ ~error]
  <2>1. export' = e /\ ~loading /\ clicks' \in 0..MaxExports
    BY <1>1, <1>2, DashboardAssumption DEF HandleExportPdf, TypeOK
  <2>2. e \in Held
    BY <1>1 DEF TypeOK, Held
  <2>3. Fits(e)
    BY <2>1 DEF Fits, IInv, PanelsInv, AtRest
  <2>4. TypeOK'
    <3> HIDE DEF e
    <3> QED BY <1>1, <1>2, <2>1, <2>2 DEF HandleExportPdf, TypeOK, flags
  <2>5. export' # NoExport
    BY <2>1, <2>2, HeldIsSome
  <2>6. Exporting'
    <3> HIDE DEF e
    <3> QED BY <1>1, <1>2, <2>1, <2>3, <2>5 DEF HandleExportPdf, Exporting, Fits
  <2> QED BY <2>4, <2>6
<1>3. ASSUME NEW al \in {"some", "none", "unavailable"}, NEW at \in IP \cup {NoIP}, NEW ls \in BOOLEAN,
             export # NoExport, Reported(al, at, ls), faults' \in 0..MaxFaults, ls => at \notin Trusted
      PROVE  TypeOK' /\ Exporting'
  <2>1. export' \in Held \cup {NoExport} /\ report' \in Reports \cup {NoReport} /\ Exporting'
    BY <1>1, <1>3, ReportedInv, DashboardAssumption
  <2> QED BY <1>1, <1>3, <2>1 DEF Reported, TypeOK, flags
<1>4. NoIP \notin Trusted /\ {} \in SUBSET IP /\ Trusted \in SUBSET IP
  BY DashboardAssumption
<1>5. CASE ExportDone
  <2>1. faults' \in 0..MaxFaults
    BY <1>1, <1>5 DEF ExportDone, TypeOK
  <2>2. TopAttackerOf(Sample, Trusted) \in (IP \ Trusted) \cup {NoIP}
    BY <1>4, AttackerUntrusted
  <2> QED BY <1>3, <1>4, <1>5, <2>1, <2>2 DEF ExportDone
<1>6. ASSUME Fault PROVE faults' \in 0..MaxFaults
  BY <1>1, <1>6, DashboardAssumption DEF Fault, TypeOK
<1>7. CASE ExportUntrusted
  <2>1. TopAttackerOf(Sample, {}) \in IP \cup {NoIP}
    BY <1>4, AttackerUntrusted
  <2> QED BY <1>3, <1>6, <1>7, <2>1 DEF ExportUntrusted
<1>8. CASE ExportFails
  BY <1>3, <1>4, <1>6, <1>8 DEF ExportFails
<1> QED
  BY <1>2, <1>5, <1>7, <1>8 DEF Exports

-----------------------------------------------------------------------------
(* The chart.                                                              *)

\* g holds what has been put together after each of the sequences.
Flattens(g, seqs, n) ==
    /\ DOMAIN g = 1..n
    /\ \A i \in 1..n : g[i] = IF i = 1 THEN seqs[i] ELSE g[i - 1] \o seqs[i]

\* There is such a function: the last one before the first n without one
\* would extend to n.
LEMMA FlattenExists ==
    ASSUME NEW N \in Nat, NEW seqs
    PROVE  \E g : Flattens(g, seqs, N)
<1> DEFINE Missing == {n \in Nat : ~ \E g : Flattens(g, seqs, n)}
<1>1. SUFFICES ASSUME Missing # {} PROVE FALSE
  OBVIOUS
<1>2. PICK n \in Missing : \A m \in Missing : n <= m
  <2>1. Missing \in SUBSET Nat
    OBVIOUS
  <2> HIDE DEF Missing
  <2> QED BY <1>1, <2>1, LeastNatural
<1>3. n \in Nat /\ ~ \E g : Flattens(g, seqs, n)
  OBVIOUS
<1>4. CASE n = 0
  <2> DEFINE g == [i \in 1..0 |-> i]
  <2>1. Flattens(g, seqs, 0)
    BY DEF Flattens
  <2> QED BY <1>3, <1>4, <2>1
<1>5. CASE n # 0
  <2>1. n - 1 \in Nat /\ ~(n <= n - 1)
    BY <1>3, <1>5
  <2>2. n - 1 \notin Missing
    BY <1>2, <2>1
  <2>3. PICK g : Flattens(g, seqs, n - 1)
    BY <2>1, <2>2
  <2> DEFINE last == IF n = 1 THEN seqs[1] ELSE g[n - 1] \o seqs[n]
             h == [i \in 1..n |-> IF i = n THEN last ELSE g[i]]
  <2>4. \A i \in 1..n : h[i] = IF i = 1 THEN seqs[i] ELSE h[i - 1] \o seqs[i]
    <3>1. TAKE i \in 1..n
    <3>2. CASE i = n
      <4>1. h[i] = last
        BY <3>2
      <4>2. i # 1 => h[i - 1] = g[n - 1]
        BY <1>3, <3>2
      <4> HIDE DEF h
      <4> QED BY <3>2, <4>1, <4>2
    <3>3. CASE i # n
      <4>1. i \in 1..(n - 1) /\ h[i] = g[i]
        BY <1>3, <3>3
      <4>2. i # 1 => h[i - 1] = g[i - 1]
        BY <1>3, <3>3
      <4>3. g[i] = IF i = 1 THEN seqs[i] ELSE g[i - 1] \o seqs[i]
        BY <2>3, <4>1 DEF Flattens
      <4> HIDE DEF h
      <4> QED BY <4>1, <4>2, <4>3
    <3> QED BY <3>2, <3>3
  <2>5. DOMAIN h = 1..n
    OBVIOUS
  <2> HIDE DEF h
  <2>6. Flattens(h, seqs, n)
    BY <2>4, <2>5 DEF Flattens
  <2> QED BY <1>3, <2>6
<1> QED BY <1>4, <1>5

\* FlattenSeq is the last value of such a function.
LEMMA FlattenIs ==
    ASSUME NEW N \in Nat \ {0}, NEW T, NEW seqs \in [1..N -> Seq(T)]
    PROVE  \E g : Flattens(g, seqs, N) /\ FlattenSeq(seqs) = g[N]
<1> DEFINE Unfolds(g) == g = [i \in 1..N |-> IF i = 1 THEN seqs[i] ELSE g[i - 1] \o seqs[i]]
           c == CHOOSE g : Unfolds(g)
<1>1. \E g : Unfolds(g)
  <2>1. PICK g : Flattens(g, seqs, N)
    BY FlattenExists
  <2> DEFINE h == [i \in 1..N |-> g[i]]
  <2>2. Unfolds(h)
    BY <2>1 DEF Flattens
  <2> QED BY <2>2
<1>2. Unfolds(c)
  BY <1>1, Zenon
<1>3. Len(seqs) = N
  OBVIOUS
<1>4. FlattenSeq(seqs) = c[N]
  BY <1>3, Zenon DEF FlattenSeq
<1> HIDE DEF c
<1>5. Flattens(c, seqs, N)
  BY <1>2 DEF Flattens
<1> QED BY <1>4, <1>5


\* m goes through S in order.
Enumerates(m, S) ==
    /\ m \in Surjection(1..Cardinality(S), S)
    /\ \A i, j \in DOMAIN m : i < j => m[i] < m[j]

\* A finite set of minutes can be put in order: the least one first, and then
\* the others, which are fewer.
LEMMA Enumerable ==
    ASSUME NEW S \in SUBSET Nat, IsFiniteSet(S)
    PROVE  \E m : Enumerates(m, S)
<1> DEFINE Missing == {n \in Nat : \E T \in SUBSET Nat :
                          IsFiniteSet(T) /\ Cardinality(T) = n /\ ~ \E m : Enumerates(m, T)}
<1>1. SUFFICES ASSUME Missing # {} PROVE FALSE
  <2>1. Cardinality(S) \in Nat
    BY FS_CardinalityType
  <2>2. (~ \E m : Enumerates(m, S)) => Cardinality(S) \in Missing
    BY <2>1
  <2> HIDE DEF Missing
  <2> QED BY <1>1, <2>2
<1>2. PICK n \in Missing : \A k \in Missing : n <= k
  <2>1. Missing \in SUBSET Nat
    OBVIOUS
  <2> HIDE DEF Missing
  <2> QED BY <1>1, <2>1, LeastNatural
<1>3. PICK T \in SUBSET Nat :
          IsFiniteSet(T) /\ Cardinality(T) = n /\ ~ \E m : Enumerates(m, T)
  OBVIOUS
<1>4. n \in Nat
  OBVIOUS
<1>5. CASE T = {}
  <2> DEFINE m == [i \in 1..0 |-> i]
  <2>1. Cardinality(T) = 0
    BY <1>5, FS_EmptySet
  <2>2. m \in Surjection(1..0, T) /\ \A i, j \in DOMAIN m : i < j => m[i] < m[j]
    BY <1>5 DEF Surjection
  <2>3. Enumerates(m, T)
    BY <2>1, <2>2 DEF Enumerates
  <2> QED BY <1>3, <2>3
<1>6. CASE T # {}
  <2>1. PICK x \in T : \A y \in T : x <= y
    BY <1>6, LeastNatural
  <2> DEFINE U == T \ {x}
  <2>2. IsFiniteSet(U) /\ Cardinality(U) = n - 1 /\ U \in SUBSET Nat
    BY <1>3, FS_RemoveElement
  <2>3. n - 1 \in Nat /\ ~ (n <= n - 1)
    <3>1. Cardinality(U) \in Nat
      <4> HIDE DEF U
      <4> QED BY <2>2, FS_CardinalityType
    <3> HIDE DEF U
    <3> QED BY <1>4, <2>2, <3>1
  <2>4. PICK h : Enumerates(h, U)
    <3>1. n - 1 \notin Missing
      <4> HIDE DEF Missing
      <4> QED BY <1>2, <2>3
    <3> HIDE DEF U
    <3> QED BY <2>2, <2>3, <3>1
  <2> DEFINE m == [i \in 1..n |-> IF i = 1 THEN x ELSE h[i - 1]]
  <2>5. /\ h \in [1..(n - 1) -> U] /\ \A y \in U : \E i \in 1..(n - 1) : h[i] = y
        /\ \A i, j \in 1..(n - 1) : i < j => h[i] < h[j]
    <3> HIDE DEF U
    <3>1. h \in Surjection(1..(n - 1), U) /\ \A i, j \in DOMAIN h : i < j => h[i] < h[j]
      BY <2>2, <2>4 DEF Enumerates
    <3>2. h \in [1..(n - 1) -> U] /\ \A y \in U : \E i \in 1..(n - 1) : h[i] = y
      BY <3>1 DEF Surjection
    <3> QED BY <3>1, <3>2
  <2>6. \A i \in 1..n : i # 1 => i - 1 \in 1..(n - 1)
    BY <1>4
  <2>7. DOMAIN m = 1..n /\ \A i \in 1..n : m[i] = IF i = 1 THEN x ELSE h[i - 1]
    OBVIOUS
  <2>8. m \in [1..n -> T]
    BY <2>5, <2>6
  <2>9. ASSUME NEW y \in T PROVE \E i \in 1..n : m[i] = y
    <3>1. 1 \in 1..n
      BY <2>3
    <3>2. CASE y = x
      <4> HIDE DEF m
      <4> QED BY <2>7, <3>1, <3>2
    <3>3. CASE y # x
      <4>1. PICK i \in 1..(n - 1) : h[i] = y
        BY <2>5, <3>3
      <4>2. i + 1 \in 1..n /\ i + 1 # 1 /\ (i + 1) - 1 = i
        BY <2>3
      <4> HIDE DEF m
      <4> QED BY <2>7, <4>1, <4>2
    <3> QED BY <3>2, <3>3
  <2>10. ASSUME NEW i \in 1..n, NEW j \in 1..n, i < j PROVE m[i] < m[j]
    <3>1. j # 1 /\ j - 1 \in 1..(n - 1) /\ m[j] = h[j - 1]
      BY <2>6, <2>7, <2>10
    <3>2. h[j - 1] \in T /\ h[j - 1] # x
      BY <2>5, <3>1
    <3> HIDE DEF m, U
    <3>3. CASE i = 1
      <4>1. m[i] = x /\ x \in Nat /\ h[j - 1] \in Nat /\ x <= h[j - 1]
        BY <2>1, <2>7, <3>2, <3>3
      <4> QED BY <3>1, <3>2, <4>1
    <3>4. CASE i # 1
      <4>1. i - 1 \in 1..(n - 1) /\ i - 1 < j - 1
        BY <2>6, <2>10, <3>4
      <4>2. h[i - 1] < h[j - 1]
        BY <2>5, <3>1, <4>1
      <4>3. m[i] = h[i - 1]
        BY <2>7, <3>4
      <4> QED BY <3>1, <4>2, <4>3
    <3> QED BY <3>3, <3>4
  <2> HIDE DEF m, U
  <2>11. Enumerates(m, T)
    BY <1>3, <2>7, <2>8, <2>9, <2>10 DEF Enumerates, Surjection
  <2> QED BY <1>3, <2>11
<1> QED BY <1>5, <1>6

LEMMA MappedIs ==
    ASSUME NEW S \in SUBSET Nat, IsFiniteSet(S)
    PROVE  Enumerates(Mapped(S), S)
<1>1. \E m \in Surjection(1..Cardinality(S), S) : \A i, j \in DOMAIN m : i < j => m[i] < m[j]
  BY Enumerable DEF Enumerates
<1>2. /\ Mapped(S) \in Surjection(1..Cardinality(S), S)
      /\ \A i, j \in DOMAIN Mapped(S) : i < j => Mapped(S)[i] < Mapped(S)[j]
  BY <1>1, Zenon DEF Mapped
<1> QED BY <1>2 DEF Enumerates

-----------------------------------------------------------------------------

Dot == [time : Int, bytes : {0, 1}]

\* From one point of the chart to the next.
Step(a, b) ==
    a.time < b.time /\ (b.time - a.time > GapThreshold => a.bytes = 0 /\ b.bytes = 0)

Line(s) == s \in Seq(Dot) /\ \A i \in 1..(Len(s) - 1) : Step(s[i], s[i + 1])

\* The times a line shows traffic at.
Shown(s) == {s[i].time : i \in {k \in DOMAIN s : s[k].bytes > 0}}

\* Two lines of which the second goes on after the first.
LEMMA Joined ==
    ASSUME NEW s, NEW t, Line(s), Line(t), s # <<>> /\ t # <<>> => Step(s[Len(s)], t[1])
    PROVE  Line(s \o t) /\ Shown(s \o t) = Shown(s) \cup Shown(t)
<1> DEFINE r == s \o t
           n == Len(s)
           k == Len(t)
<1>1. s \in Seq(Dot) /\ t \in Seq(Dot) /\ n \in Nat /\ k \in Nat
      /\ DOMAIN s = 1..n /\ DOMAIN t = 1..k
  BY DEF Line
<1>2. r \in Seq(Dot) /\ Len(r) = n + k /\ DOMAIN r = 1..(n + k)
  BY <1>1
<1>3. /\ \A i \in 1..n : r[i] = s[i]
      /\ \A i \in 1..k : r[n + i] = t[i]
  BY <1>1
<1>4. (s # <<>> <=> n # 0) /\ (t # <<>> <=> k # 0)
  BY <1>1
<1>5. /\ \A i \in 1..(n - 1) : Step(s[i], s[i + 1])
      /\ \A i \in 1..(k - 1) : Step(t[i], t[i + 1])
  BY DEF Line
<1> HIDE DEF r, n, k
<1>6. ASSUME NEW i \in 1..(n + k - 1) PROVE Step(r[i], r[i + 1])
  <2>1. CASE i < n
    <3>1. i \in 1..n /\ i + 1 \in 1..n /\ i \in 1..(n - 1)
      BY <1>1, <2>1
    <3> QED BY <1>3, <1>5, <3>1
  <2>2. CASE i = n
    <3>1. i \in 1..n /\ n # 0 /\ k # 0 /\ 1 \in 1..k /\ i + 1 = n + 1
      BY <1>1, <2>2
    <3>2. r[i] = s[n] /\ r[i + 1] = t[1]
      BY <1>3, <2>2, <3>1
    <3> QED BY <1>4, <3>1, <3>2 DEF n
  <2>3. CASE i > n
    <3> DEFINE j == i - n
    <3>1. j \in 1..(k - 1) /\ j \in 1..k /\ j + 1 \in 1..k /\ i = n + j /\ i + 1 = n + (j + 1)
      BY <1>1, <2>3
    <3> HIDE DEF j
    <3>2. r[i] = t[j] /\ r[i + 1] = t[j + 1]
      BY <1>3, <3>1
    <3> QED BY <1>5, <3>1, <3>2
  <2> QED BY <1>1, <2>1, <2>2, <2>3
<1>7. Line(r)
  <2>1. Len(r) - 1 = n + k - 1
    BY <1>1, <1>2
  <2>2. \A i \in 1..(Len(r) - 1) : Step(r[i], r[i + 1])
    BY <1>6, <2>1
  <2> QED BY <1>2, <2>2 DEF Line
<1>8. ASSUME NEW x \in Shown(r) PROVE x \in Shown(s) \cup Shown(t)
  <2>1. PICK i \in 1..(n + k) : r[i].bytes > 0 /\ x = r[i].time
    BY <1>2 DEF Shown
  <2>2. CASE i <= n
    <3>1. i \in 1..n
      BY <1>1, <2>2
    <3> QED BY <1>1, <1>3, <2>1, <3>1 DEF Shown
  <2>3. CASE ~ (i <= n)
    <3> DEFINE j == i - n
    <3>1. j \in 1..k /\ i = n + j
      BY <1>1, <2>3
    <3> HIDE DEF j
    <3>2. r[i] = t[j]
      BY <1>3, <3>1
    <3> QED BY <1>1, <2>1, <3>1, <3>2 DEF Shown
  <2> QED BY <2>2, <2>3
<1>9. ASSUME NEW x \in Shown(s) PROVE x \in Shown(r)
  <2>1. PICK i \in 1..n : s[i].bytes > 0 /\ x = s[i].time
    BY <1>1 DEF Shown
  <2>2. i \in 1..(n + k) /\ r[i] = s[i]
    BY <1>1, <1>3
  <2> QED BY <1>2, <2>1, <2>2 DEF Shown
<1>10. ASSUME NEW x \in Shown(t) PROVE x \in Shown(r)
  <2>1. PICK i \in 1..k : t[i].bytes > 0 /\ x = t[i].time
    BY <1>1 DEF Shown
  <2>2. n + i \in 1..(n + k) /\ r[n + i] = t[i]
    BY <1>1, <1>3
  <2> QED BY <1>2, <2>1, <2>2 DEF Shown
<1>11. Shown(r) = Shown(s) \cup Shown(t)
  BY <1>8, <1>9, <1>10
<1> QED BY <1>7, <1>11 DEF r

\* The lines the chart is joined from.
LEMMA Pieces ==
    /\ Line(<<>>) /\ Shown(<<>>) = {}
    /\ \A t \in Int : Line(<<Point(t)>>) /\ Shown(<<Point(t)>>) = {t}
    /\ \A t, u \in Int : t < u => Line(<<Zero(t), Zero(u)>>) /\ Shown(<<Zero(t), Zero(u)>>) = {}
<1>1. Line(<<>>) /\ Shown(<<>>) = {}
  BY DEF Line, Shown
<1>2. ASSUME NEW t \in Int PROVE Line(<<Point(t)>>) /\ Shown(<<Point(t)>>) = {t}
  <2> DEFINE s == <<Point(t)>>
  <2>1. Point(t) \in Dot /\ Point(t).time = t /\ Point(t).bytes = 1
    BY DEF Point, Dot
  <2>2. s \in Seq(Dot) /\ Len(s) = 1 /\ DOMAIN s = {1} /\ s[1] = Point(t)
    BY <2>1
  <2> HIDE DEF s
  <2>3. Line(s)
    BY <2>2 DEF Line
  <2>4. Shown(s) = {t}
    BY <2>1, <2>2 DEF Shown
  <2> QED BY <2>3, <2>4 DEF s
<1>3. ASSUME NEW t \in Int, NEW u \in Int, t < u
      PROVE  Line(<<Zero(t), Zero(u)>>) /\ Shown(<<Zero(t), Zero(u)>>) = {}
  <2> DEFINE s == <<Zero(t), Zero(u)>>
  <2>1. /\ Zero(t) \in Dot /\ Zero(t).time = t /\ Zero(t).bytes = 0
        /\ Zero(u) \in Dot /\ Zero(u).time = u /\ Zero(u).bytes = 0
    BY DEF Zero, Dot
  <2>2. s \in Seq(Dot) /\ Len(s) = 2 /\ DOMAIN s = {1, 2} /\ s[1] = Zero(t) /\ s[2] = Zero(u)
    BY <2>1
  <2> HIDE DEF s
  <2>3. Step(s[1], s[2])
    BY <1>3, <2>1, <2>2 DEF Step
  <2>4. 1..(Len(s) - 1) = {1}
    BY <2>2
  <2>5. Line(s)
    BY <2>2, <2>3, <2>4 DEF Line
  <2>6. Shown(s) = {}
    BY <2>1, <2>2 DEF Shown
  <2> QED BY <2>5, <2>6 DEF s
<1> QED BY <1>1, <1>2, <1>3

\* What is drawn for a point, after the gap before it if there is one.
LEMMA PointDrawn ==
    ASSUME NEW n \in Nat, NEW m \in [1..n -> Nat], \A i, j \in 1..n : i < j => m[i] < m[j],
           NEW i \in 1..n
    PROVE  LET s == Append(Gap(m, i), Point(m[i]))
           IN  /\ Line(s) /\ Shown(s) = {m[i]} /\ s # <<>> /\ s[Len(s)] = Point(m[i])
               /\ i = 1 => s[1] = Point(m[1])
               /\ i # 1 => Step(Point(m[i - 1]), s[1])
<1> DEFINE g == Gap(m, i)
           p == <<Point(m[i])>>
           s == Append(g, Point(m[i]))
<1> SUFFICES /\ Line(s) /\ Shown(s) = {m[i]} /\ s # <<>> /\ s[Len(s)] = Point(m[i])
             /\ i = 1 => s[1] = Point(m[1])
             /\ i # 1 => Step(Point(m[i - 1]), s[1])
  OBVIOUS
<1>0. m[i] \in Int /\ (i # 1 => i - 1 \in 1..n /\ m[i - 1] \in Nat /\ m[i - 1] < m[i])
  <2>1. m[i] \in Nat
    OBVIOUS
  <2>2. i # 1 => i - 1 \in 1..n /\ i - 1 < i
    OBVIOUS
  <2>3. i # 1 => m[i - 1] \in Nat /\ m[i - 1] < m[i]
    BY <2>2
  <2> QED BY <2>1, <2>2, <2>3
<1>1. Line(p) /\ Shown(p) = {m[i]}
  BY <1>0, Pieces
<1>2. /\ Point(m[i]) \in Dot /\ Point(m[i]).time = m[i] /\ Point(m[i]).bytes = 1
      /\ Point(m[i - 1]).time = m[i - 1] /\ Point(m[i - 1]).bytes = 1
  BY <1>0 DEF Point, Dot
<1>3. CASE i > 1 /\ m[i] - m[i - 1] > GapThreshold
  <2> DEFINE t == m[i - 1] + Offset
             u == m[i] - Offset
  <2>1. g = <<Zero(t), Zero(u)>>
    BY <1>3 DEF Gap
  <2>2. i # 1 /\ t \in Int /\ u \in Int /\ t < u /\ m[i - 1] < t /\ u < m[i]
        /\ t - m[i - 1] = 1 /\ m[i] - u = 1
    BY <1>0, <1>3 DEF GapThreshold, Offset
  <2> HIDE DEF t, u
  <2>3. Line(<<Zero(t), Zero(u)>>) /\ Shown(<<Zero(t), Zero(u)>>) = {}
    BY <2>2, Pieces
  <2> HIDE DEF g
  <2>4. Line(g) /\ Shown(g) = {}
    BY <2>1, <2>3
  <2>5. Zero(t).time = t /\ Zero(t).bytes = 0 /\ Zero(u).time = u /\ Zero(u).bytes = 0
    BY DEF Zero
  <2>6. Len(g) = 2 /\ g[1] = Zero(t) /\ g[2] = Zero(u)
    BY <2>1
  <2>7. Step(Zero(u), Point(m[i])) /\ Step(Point(m[i - 1]), Zero(t))
    BY <1>0, <1>2, <2>2, <2>5 DEF Step, GapThreshold
  <2>8. p[1] = Point(m[i])
    OBVIOUS
  <2>9. Line(g \o p) /\ Shown(g \o p) = {m[i]}
    <3>1. Step(g[Len(g)], p[1])
      BY <2>6, <2>7, <2>8
    <3>2. Line(g \o p) /\ Shown(g \o p) = Shown(g) \cup Shown(p)
      <4> HIDE DEF p
      <4> QED BY <1>1, <2>4, <3>1, Joined
    <3> HIDE DEF p
    <3> QED BY <1>1, <2>4, <3>2
  <2>10. g \in Seq(Dot)
    BY <2>4 DEF Line
  <2>11. s = g \o p
    BY <1>2, <2>10
  <2>12. Len(s) = 3 /\ s[1] = Zero(t) /\ s[3] = Point(m[i]) /\ s # <<>>
    <3> HIDE DEF g
    <3>1. Len(s) = Len(g) + 1 /\ s[Len(g) + 1] = Point(m[i])
      BY <1>2, <2>10
    <3>2. s[1] = g[1] /\ s # <<>>
      <4>1. \A k \in 1..Len(g) : s[k] = g[k]
        BY <1>2, <2>10
      <4>2. s # <<>>
        BY <1>2, <2>10
      <4> HIDE DEF s
      <4> QED BY <2>6, <4>1, <4>2
    <3> HIDE DEF s
    <3>3. Len(s) = 3
      BY <2>6, <3>1
    <3>4. s[3] = Point(m[i])
      BY <2>6, <3>1
    <3> QED BY <2>6, <3>2, <3>3, <3>4
  <2> HIDE DEF s, p
  <2> QED BY <2>2, <2>7, <2>9, <2>11, <2>12
<1>4. CASE ~ (i > 1 /\ m[i] - m[i - 1] > GapThreshold)
  <2>1. g = <<>>
    BY <1>4 DEF Gap
  <2>2. s = p
    BY <2>1
  <2>3. p # <<>> /\ Len(p) = 1 /\ p[1] = Point(m[i])
    OBVIOUS
  <2>4. i # 1 => Step(Point(m[i - 1]), Point(m[i]))
    <3>1. i # 1 => i > 1 /\ ~ (m[i] - m[i - 1] > GapThreshold)
      BY <1>4
    <3> QED BY <1>0, <1>2, <3>1 DEF Step
  <2> HIDE DEF s, p
  <2> QED BY <1>1, <2>2, <2>3, <2>4
<1> QED BY <1>3, <1>4

\* The middle of the chart: the first place where the points so far are not a
\* line would be one where a point does not go on from the last.
LEMMA PointsDrawn ==
    ASSUME NEW n \in Nat \ {0}, NEW m \in [1..n -> Nat], \A i, j \in 1..n : i < j => m[i] < m[j]
    PROVE  LET s == FlattenSeq([i \in 1..n |-> Append(Gap(m, i), Point(m[i]))])
           IN  /\ Line(s) /\ Shown(s) = {m[k] : k \in 1..n} /\ s # <<>>
               /\ s[1] = Point(m[1]) /\ s[Len(s)] = Point(m[n])
<1> DEFINE seqs == [i \in 1..n |-> Append(Gap(m, i), Point(m[i]))]
           Fine(s, i) == /\ Line(s) /\ Shown(s) = {m[k] : k \in 1..i} /\ s # <<>>
                         /\ s[1] = Point(m[1]) /\ s[Len(s)] = Point(m[i])
<1>1. \A i \in 1..n :
          /\ Line(seqs[i]) /\ Shown(seqs[i]) = {m[i]} /\ seqs[i] # <<>>
          /\ seqs[i][Len(seqs[i])] = Point(m[i])
          /\ i = 1 => seqs[i][1] = Point(m[1])
          /\ i # 1 => Step(Point(m[i - 1]), seqs[i][1])
  <2> TAKE i \in 1..n
  <2> DEFINE s == Append(Gap(m, i), Point(m[i]))
  <2>1. seqs[i] = s
    OBVIOUS
  <2>2. /\ Line(s) /\ Shown(s) = {m[i]} /\ s # <<>> /\ s[Len(s)] = Point(m[i])
        /\ i = 1 => s[1] = Point(m[1])
        /\ i # 1 => Step(Point(m[i - 1]), s[1])
    <3>1. n \in Nat
      OBVIOUS
    <3> QED BY <3>1, PointDrawn
  <2> HIDE DEF seqs, s
  <2> QED BY <2>1, <2>2
<1>2. seqs \in [1..n -> Seq(Dot)]
  <2>1. \A i \in 1..n : seqs[i] \in Seq(Dot)
    <3> HIDE DEF seqs
    <3> QED BY <1>1 DEF Line
  <2> QED BY <2>1
<1> HIDE DEF seqs
<1>3. PICK g : Flattens(g, seqs, n) /\ FlattenSeq(seqs) = g[n]
  BY <1>2, FlattenIs
<1> DEFINE Bad == {i \in 1..n : ~ Fine(g[i], i)}
<1>4. Bad = {}
  <2> SUFFICES ASSUME Bad # {} PROVE FALSE
    OBVIOUS
  <2>1. PICK i \in Bad : \A j \in Bad : i <= j
    <3>1. Bad \in SUBSET Nat
      OBVIOUS
    <3> HIDE DEF Bad
    <3> QED BY <3>1, LeastNatural
  <2>2. i \in 1..n /\ ~ Fine(g[i], i)
    OBVIOUS
  <2>3. CASE i = 1
    <3>1. g[i] = seqs[1] /\ {m[k] : k \in 1..i} = {m[1]}
      <4>1. g[i] = seqs[1]
        BY <1>3, <2>2, <2>3 DEF Flattens
      <4>2. {m[k] : k \in 1..i} = {m[1]}
        BY <2>3
      <4> QED BY <4>1, <4>2
    <3>2. /\ Line(seqs[1]) /\ Shown(seqs[1]) = {m[1]} /\ seqs[1] # <<>>
          /\ seqs[1][Len(seqs[1])] = Point(m[1]) /\ seqs[1][1] = Point(m[1])
      BY <1>1, <2>2, <2>3
    <3>3. Fine(g[i], i)
      BY <2>3, <3>1, <3>2
    <3> HIDE DEF Fine
    <3> QED BY <2>2, <3>3
  <2>4. CASE i # 1
    <3> DEFINE s == g[i - 1]
               t == seqs[i]
    <3>1. i - 1 \in 1..n /\ ~ (i <= i - 1)
      BY <2>2, <2>4
    <3>2. Fine(s, i - 1)
      <4> HIDE DEF Fine
      <4> QED BY <2>1, <3>1
    <3>3. g[i] = s \o t
      BY <2>2, <2>4, <1>3 DEF Flattens
    <3>4. /\ Line(t) /\ Shown(t) = {m[i]} /\ t # <<>> /\ t[Len(t)] = Point(m[i])
          /\ Step(Point(m[i - 1]), t[1])
      BY <1>1, <2>2, <2>4
    <3> HIDE DEF s, t
    <3>5. /\ Line(s) /\ s # <<>> /\ s[1] = Point(m[1]) /\ s[Len(s)] = Point(m[i - 1])
          /\ Shown(s) = {m[k] : k \in 1..(i - 1)}
      BY <3>2
    <3> HIDE DEF Fine
    <3>6. Step(s[Len(s)], t[1])
      BY <3>4, <3>5
    <3>7. Line(s \o t) /\ Shown(s \o t) = Shown(s) \cup Shown(t)
      BY <3>4, <3>5, <3>6, Joined
    <3>8. {m[k] : k \in 1..i} = {m[k] : k \in 1..(i - 1)} \cup {m[i]}
      BY <2>2, <2>4
    <3>9. s \in Seq(Dot) /\ t \in Seq(Dot)
      BY <3>4, <3>5 DEF Line
    <3>10. /\ s \o t # <<>> /\ (s \o t)[1] = s[1]
           /\ (s \o t)[Len(s \o t)] = t[Len(t)]
      <4>1. Len(s) \in Nat /\ Len(s) # 0 /\ Len(t) \in Nat /\ Len(t) # 0
        BY <3>4, <3>5, <3>9
      <4>2. Len(s \o t) = Len(s) + Len(t) /\ s \o t \in Seq(Dot)
        BY <3>9
      <4> QED BY <3>9, <4>1, <4>2
    <3>11. Fine(s \o t, i)
      <4>1. Shown(s \o t) = {m[k] : k \in 1..i}
        BY <3>4, <3>5, <3>7, <3>8
      <4> QED BY <3>4, <3>5, <3>7, <3>10, <4>1 DEF Fine
    <3> QED BY <2>2, <3>3, <3>11
  <2> QED BY <2>3, <2>4
<1>5. Fine(g[n], n)
  <2>1. n \in 1..n
    OBVIOUS
  <2> HIDE DEF Fine
  <2> QED BY <1>4, <2>1
<1>6. FlattenSeq(seqs) = g[n]
  BY <1>3
<1> QED BY <1>5, <1>6 DEF seqs

\* A chart over any window of any points, which may lie outside of it.
LEMMA ChartLine ==
    ASSUME NEW S \in SUBSET Nat, IsFiniteSet(S), NEW start \in Nat, NEW stop \in Nat, start < stop
    PROVE  Line(ChartData(S, start, stop)) /\ Shown(ChartData(S, start, stop)) = S
<1> DEFINE m == Mapped(S)
           n == Cardinality(S)
           lead == Lead(m, start)
           middle == FlattenSeq([i \in DOMAIN m |-> Append(Gap(m, i), Point(m[i]))])
           trail == Trail(m, stop)
<1>1. CASE S = {}
  <2>1. ChartData(S, start, stop) = <<Zero(start), Zero(stop)>>
    BY <1>1 DEF ChartData
  <2> QED BY <1>1, <2>1, Pieces
<1>2. CASE S # {}
  <2>1. ChartData(S, start, stop) = (lead \o middle) \o trail
    BY <1>2 DEF ChartData
  <2>2. n \in Nat \ {0}
    BY <1>2, FS_CardinalityType, FS_EmptySet
  <2>3. m \in Surjection(1..n, S) /\ \A i, j \in DOMAIN m : i < j => m[i] < m[j]
    BY MappedIs DEF Enumerates
  <2> HIDE DEF m, n
  <2>4. m \in [1..n -> S] /\ \A x \in S : \E i \in 1..n : m[i] = x
    BY <2>3 DEF Surjection
  <2>5. /\ m \in [1..n -> Nat] /\ DOMAIN m = 1..n /\ \A i, j \in 1..n : i < j => m[i] < m[j]
        /\ {m[k] : k \in 1..n} = S
    BY <2>3, <2>4
  <2>6. /\ Line(middle) /\ Shown(middle) = S /\ middle # <<>>
        /\ middle[1] = Point(m[1]) /\ middle[Len(middle)] = Point(m[n])
    <3> DEFINE s == FlattenSeq([i \in 1..n |-> Append(Gap(m, i), Point(m[i]))])
    <3>1. /\ Line(s) /\ Shown(s) = {m[k] : k \in 1..n} /\ s # <<>>
          /\ s[1] = Point(m[1]) /\ s[Len(s)] = Point(m[n])
      BY <2>2, <2>5, PointsDrawn
    <3>2. middle = s
      BY <2>5
    <3> HIDE DEF s, middle
    <3> QED BY <2>5, <3>1, <3>2
  <2>7. Len(m) = n /\ m[1] \in Nat /\ m[n] \in Nat
    <3>1. 1 \in 1..n /\ n \in 1..n
      BY <2>2
    <3>2. m[1] \in Nat /\ m[n] \in Nat
      BY <2>5, <3>1
    <3>3. m \in Seq(Nat) /\ Len(m) = n
      BY <2>2, <2>5
    <3> QED BY <3>2, <3>3
  <2> HIDE DEF middle
  <2>8. /\ Line(lead) /\ Shown(lead) = {}
        /\ lead # <<>> => Step(lead[Len(lead)], Point(m[1]))
    <3>1. CASE m[1] - start > Offset
      <4> DEFINE u == m[1] - Offset
      <4>1. lead = <<Zero(start), Zero(u)>>
        BY <3>1 DEF Lead
      <4>2. u \in Int /\ start \in Int /\ start < u /\ u < m[1] /\ m[1] - u = 1
        BY <2>7, <3>1 DEF Offset
      <4> HIDE DEF u, lead
      <4>3. Line(lead) /\ Shown(lead) = {}
        BY <4>1, <4>2, Pieces
      <4>4. Len(lead) = 2 /\ lead[2] = Zero(u)
        BY <4>1
      <4>5. Step(Zero(u), Point(m[1]))
        BY <2>7, <4>2 DEF Step, Zero, Point, GapThreshold
      <4>6. Step(lead[Len(lead)], Point(m[1]))
        BY <4>4, <4>5
      <4> QED BY <4>3, <4>6
    <3>2. CASE ~ (m[1] - start > Offset)
      <4>1. lead = <<>>
        BY <3>2 DEF Lead
      <4> HIDE DEF lead
      <4> QED BY <4>1, Pieces
    <3> QED BY <3>1, <3>2
  <2>9. /\ Line(trail) /\ Shown(trail) = {}
        /\ trail # <<>> => Step(Point(m[n]), trail[1])
    <3>1. CASE stop - m[n] > Offset
      <4> DEFINE u == m[n] + Offset
      <4>1. trail = <<Zero(u), Zero(stop)>>
        BY <2>7, <3>1 DEF Trail
      <4>2. u \in Int /\ stop \in Int /\ u < stop /\ m[n] < u /\ u - m[n] = 1
        BY <2>7, <3>1 DEF Offset
      <4> HIDE DEF u, trail
      <4>3. Line(trail) /\ Shown(trail) = {}
        BY <4>1, <4>2, Pieces
      <4>4. trail[1] = Zero(u)
        BY <4>1
      <4>5. Step(Point(m[n]), Zero(u))
        BY <2>7, <4>2 DEF Step, Zero, Point, GapThreshold
      <4> QED BY <4>3, <4>4, <4>5
    <3>2. CASE ~ (stop - m[n] > Offset)
      <4>1. trail = <<>>
        BY <2>7, <3>2 DEF Trail
      <4> HIDE DEF trail
      <4> QED BY <4>1, Pieces
    <3> QED BY <3>1, <3>2
  <2> HIDE DEF lead, trail
  <2> DEFINE both == lead \o middle
  <2>10. Line(both) /\ Shown(both) = Shown(lead) \cup Shown(middle)
    BY <2>6, <2>8, Joined
  <2>11. both # <<>> /\ both[Len(both)] = middle[Len(middle)]
    <3>1. lead \in Seq(Dot) /\ middle \in Seq(Dot)
      BY <2>6, <2>8 DEF Line
    <3>2. Len(middle) \in Nat \ {0} /\ Len(lead) \in Nat /\ Len(both) = Len(lead) + Len(middle)
      BY <2>6, <3>1
    <3> QED BY <3>1, <3>2
  <2> HIDE DEF both
  <2>12. Line(both \o trail) /\ Shown(both \o trail) = Shown(both) \cup Shown(trail)
    BY <2>6, <2>9, <2>10, <2>11, Joined
  <2>13. ChartData(S, start, stop) = both \o trail
    BY <2>1 DEF both
  <2> QED BY <2>6, <2>8, <2>9, <2>10, <2>12, <2>13
<1> QED BY <1>1, <1>2

-----------------------------------------------------------------------------
(* The layout of a report.                                                 *)

\* The parts of a report.
Name == {"Title", "Summary", "ProtocolDistribution", "IDSAlerts", "AlertsUnavailable",
         "NoAlerts", "Highlights", "TopSignatures", "TopSources", "TopDestinations"}

Part == [what : Name, page : Nat, top : Nat, lastPage : Nat, bottom : Nat]

LastOf(c) == c.drawn[Len(c.drawn)]

OnPage(a) == a.top >= TopMargin /\ a.top <= Bottom /\ a.bottom <= Bottom

Kept(a, b) == a.what = b.what => b.page = a.page /\ b.top + 2 * Row <= Bottom

\* A cursor below all that has been drawn, which is well laid out.
Well(c) ==
    /\ c \in [page : Nat, y : Nat, drawn : Seq(Part)]
    /\ c.drawn # <<>> /\ c.y >= TopMargin
    /\ OnPaper(c) /\ InOrder(c) /\ HeadsKept(c)
    /\ LastOf(c).lastPage < c.page \/ (LastOf(c).lastPage = c.page /\ LastOf(c).bottom < c.y)

EndsWith(c, what) == LastOf(c).what = what

LEMMA EndsOnce ==
    ASSUME NEW c, NEW a, NEW b, a # b, EndsWith(c, a)
    PROVE  ~ EndsWith(c, b)
BY DEF EndsWith

\* One more part, apart from the last and on its page if that is its heading.
LEMMA AppendWell ==
    ASSUME NEW c, Well(c), NEW b \in Part, OnPage(b), Apart(LastOf(c), b), Kept(LastOf(c), b),
           NEW page \in Nat, NEW y \in Nat, y >= TopMargin,
           b.lastPage < page \/ (b.lastPage = page /\ b.bottom < y)
    PROVE  LET r == [page |-> page, y |-> y, drawn |-> Append(c.drawn, b)]
           IN  Well(r) /\ LastOf(r) = b
<1> DEFINE s == Append(c.drawn, b)
           n == Len(c.drawn)
           r == [page |-> page, y |-> y, drawn |-> s]
<1>1. c.drawn \in Seq(Part) /\ n \in Nat \ {0} /\ OnPaper(c) /\ InOrder(c) /\ HeadsKept(c)
  BY DEF Well
<1>2. /\ s \in Seq(Part) /\ Len(s) = n + 1 /\ DOMAIN s = 1..(n + 1) /\ s[n + 1] = b
      /\ \A i \in 1..n : s[i] = c.drawn[i]
      /\ DOMAIN c.drawn = 1..n
  BY <1>1
<1>3. LastOf(c) = s[n]
  BY <1>1, <1>2 DEF LastOf
<1> HIDE DEF s, n
<1>4. r.drawn = s /\ r.page = page /\ r.y = y
  OBVIOUS
<1>5. r \in [page : Nat, y : Nat, drawn : Seq(Part)] /\ s # <<>>
  BY <1>1, <1>2
<1> HIDE DEF r
<1>6. LastOf(r) = b
  BY <1>2, <1>4 DEF LastOf
<1>7. OnPaper(r)
  <2> SUFFICES ASSUME NEW i \in 1..(n + 1) PROVE OnPage(s[i]) /\ Bottom < FooterY
    BY <1>2, <1>4 DEF OnPaper, OnPage
  <2>1. CASE i = n + 1
    BY <1>2, <2>1 DEF Bottom, FooterY
  <2>2. CASE i # n + 1
    <3>1. i \in 1..n
      BY <1>1, <2>2
    <3> QED BY <1>1, <1>2, <3>1 DEF OnPaper, OnPage
  <2> QED BY <2>1, <2>2
<1>8. ASSUME NEW i \in 1..n PROVE Apart(s[i], s[i + 1]) /\ Kept(s[i], s[i + 1])
  <2>1. CASE i = n
    BY <1>2, <1>3, <2>1
  <2>2. CASE i # n
    <3>1. i \in 1..(n - 1) /\ i \in 1..n /\ i + 1 \in 1..n
      BY <1>1, <2>2
    <3>2. s[i] = c.drawn[i] /\ s[i + 1] = c.drawn[i + 1]
      BY <1>2, <3>1
    <3>3. Apart(c.drawn[i], c.drawn[i + 1]) /\ Kept(c.drawn[i], c.drawn[i + 1])
      BY <1>1, <3>1 DEF InOrder, HeadsKept, Kept, n
    <3> QED BY <3>2, <3>3
  <2> QED BY <2>1, <2>2
<1>9. 1..(Len(r.drawn) - 1) = 1..n
  BY <1>1, <1>2, <1>4
<1>10. InOrder(r) /\ HeadsKept(r)
  BY <1>4, <1>8, <1>9 DEF InOrder, HeadsKept, Kept
<1>11. Well(r)
  BY <1>4, <1>5, <1>6, <1>7, <1>10 DEF Well
<1> QED BY <1>6, <1>11 DEF r, s

LEMMA BreakWell ==
    ASSUME NEW c, Well(c), NEW limit \in Nat, limit >= 20
    PROVE  Well(Break(c, limit)) /\ Break(c, limit).y <= limit
           /\ Break(c, limit).drawn = c.drawn
<1>1. c \in [page : Nat, y : Nat, drawn : Seq(Part)] /\ c.drawn # <<>> /\ c.y >= TopMargin
      /\ OnPaper(c) /\ InOrder(c) /\ HeadsKept(c)
      /\ (LastOf(c).lastPage < c.page \/ (LastOf(c).lastPage = c.page /\ LastOf(c).bottom < c.y))
  BY DEF Well
<1>2. CASE c.y <= limit
  BY <1>1, <1>2 DEF Break
<1>3. CASE ~ (c.y <= limit)
  <2> DEFINE r == [c EXCEPT !.page = @ + 1, !.y = 20]
  <2>1. Break(c, limit) = r
    BY <1>1, <1>3 DEF Break
  <2>2. r \in [page : Nat, y : Nat, drawn : Seq(Part)] /\ r.drawn = c.drawn /\ r.y = 20
        /\ r.page = c.page + 1
    <3> DEFINE moved == [c EXCEPT !.page = c.page + 1]
    <3>1. c \in [page : Nat, y : Nat, drawn : Seq(Part)] /\ c.page + 1 \in Nat
      BY <1>1
    <3>2. moved \in [page : Nat, y : Nat, drawn : Seq(Part)] /\ moved.drawn = c.drawn
          /\ moved.page = c.page + 1
      BY <3>1
    <3>3. r = [moved EXCEPT !.y = 20]
      BY <3>1
    <3> HIDE DEF r, moved
    <3> QED BY <3>2, <3>3
  <2> HIDE DEF r
  <2>3. LastOf(r) = LastOf(c) /\ LastOf(c) \in Part
    BY <1>1, <2>2 DEF LastOf
  <2>4. OnPaper(r) /\ InOrder(r) /\ HeadsKept(r)
    BY <1>1, <2>2 DEF OnPaper, InOrder, HeadsKept
  <2>5. LastOf(r).lastPage < r.page
    <3>1. LastOf(c).lastPage \in Nat /\ c.page \in Nat /\ LastOf(c).lastPage <= c.page
      BY <1>1, <2>3 DEF Part
    <3> QED BY <2>2, <2>3, <3>1
  <2>6. r.y >= TopMargin
    BY <2>2 DEF TopMargin
  <2>7. Well(r)
    BY <1>1, <2>2, <2>4, <2>5, <2>6 DEF Well
  <2> QED BY <2>1, <2>2, <2>7
<1> QED BY <1>2, <1>3

LEMMA TextWell ==
    ASSUME NEW c, Well(c), c.y <= Bottom, NEW what \in Name, ~ EndsWith(c, what),
           NEW advance \in Nat, advance > 0
    PROVE  LET r == Text(c, what, advance)
           IN  /\ Well(r) /\ r.y = c.y + advance /\ r.page = c.page
               /\ EndsWith(r, what) /\ LastOf(r).page = r.page
<1> DEFINE b == Drawn(what, c.page, c.y, c.page, c.y)
<1>1. c.page \in Nat /\ c.y \in Nat /\ c.y >= TopMargin
      /\ (LastOf(c).lastPage < c.page \/ (LastOf(c).lastPage = c.page /\ LastOf(c).bottom < c.y))
  BY DEF Well
<1>2. /\ b \in Part /\ b.what = what /\ b.page = c.page /\ b.lastPage = c.page
      /\ b.top = c.y /\ b.bottom = c.y
  BY <1>1 DEF Drawn, Part
<1>3. c.y + advance \in Nat /\ c.y + advance >= TopMargin /\ c.y < c.y + advance
  BY <1>1 DEF TopMargin
<1>4. LastOf(c) \in Part
  BY DEF Well, LastOf
<1> HIDE DEF b
<1>5. OnPage(b)
  BY <1>1, <1>2 DEF OnPage
<1>6. Apart(LastOf(c), b) /\ Kept(LastOf(c), b)
  BY <1>1, <1>2, <1>4 DEF Apart, Kept, Part, EndsWith
<1>7. Text(c, what, advance) = [page |-> c.page, y |-> c.y + advance, drawn |-> Append(c.drawn, b)]
  BY DEF Text, b
<1>8. Well(Text(c, what, advance)) /\ LastOf(Text(c, what, advance)) = b
  BY <1>1, <1>2, <1>3, <1>5, <1>6, <1>7, AppendWell
<1> QED BY <1>2, <1>7, <1>8 DEF EndsWith

\* The rows of a table over its pages: the last page takes one at least, and
\* no page more than fit.
LEMMA TableRows ==
    ASSUME NEW y \in Nat, y >= TopMargin, y + Row <= Bottom, NEW n \in Nat, n > 0
    PROVE  LET fits == (Bottom - y) \div Row - 1
               perPage == (Bottom - TopMargin) \div Row - 1
               rest == n - fits
               more == (rest + perPage - 1) \div perPage
           IN  /\ fits \in Nat /\ perPage = 25
               /\ n <= fits => y + (n + 1) * Row <= Bottom
               /\ (y + (n + 1) * Row <= Bottom) => n <= fits
               /\ n > fits =>
                     /\ more \in Nat /\ more > 0
                     /\ rest - (more - 1) * perPage \in 1..perPage
<1> DEFINE f == (Bottom - y) \div Row
<1>1. 283 - y \in Nat /\ 283 - y >= 10 /\ y \in Nat
  BY DEF TopMargin, Bottom, Row
<1>2. f \in Nat /\ 10 * f <= 283 - y /\ 283 - y < 10 * f + 10
  BY <1>1 DEF Bottom, Row
<1>3. (Bottom - TopMargin) \div Row - 1 = 25
  BY DEF Bottom, TopMargin, Row
<1> HIDE DEF f
<1>4. f - 1 \in Nat
  BY <1>1, <1>2
<1>5. n <= f - 1 => y + (n + 1) * 10 <= 283
  BY <1>1, <1>2
<1>6. y + (n + 1) * 10 <= 283 => n <= f - 1
  BY <1>1, <1>2
<1>7. ASSUME n > f - 1
      PROVE  LET rest == n - (f - 1)
                 more == (rest + 25 - 1) \div 25
             IN  more \in Nat /\ more > 0 /\ rest - (more - 1) * 25 \in 1..25
  <2> DEFINE rest == n - (f - 1)
             more == (rest + 24) \div 25
  <2>1. rest \in Nat /\ rest > 0
    BY <1>4, <1>7
  <2> HIDE DEF rest
  <2>2. more \in Nat /\ 25 * more <= rest + 24 /\ rest + 24 < 25 * more + 25
    BY <2>1
  <2>3. rest + 25 - 1 = rest + 24
    BY <2>1
  <2> HIDE DEF more
  <2>4. more > 0 /\ rest - (more - 1) * 25 \in 1..25
    BY <2>1, <2>2
  <2> QED BY <2>2, <2>3, <2>4 DEF rest, more
<1>8. Bottom = 283 /\ Row = 10
  BY DEF Bottom, Row
<1> QED BY <1>3, <1>4, <1>5, <1>6, <1>7, <1>8 DEF f

LEMMA TableWell ==
    ASSUME NEW c, Well(c), NEW what \in Name, NEW n \in Nat, n > 0,
           NEW advance \in Nat, advance > 0,
           \/ ~ EndsWith(c, what)
           \/ LastOf(c).page = c.page /\ c.y + 2 * Row <= Bottom
    PROVE  LET r == Table(c, what, n, advance)
           IN  /\ Well(r) /\ EndsWith(r, what)
               /\ c.y + (n + 1) * Row <= Bottom => r.y = c.y + (n + 1) * Row + advance
<1> DEFINE moved == c.y + Row > Bottom
           page == IF moved THEN c.page + 1 ELSE c.page
           top == IF moved THEN TopMargin ELSE c.y
           fits == (Bottom - top) \div Row - 1
           perPage == (Bottom - TopMargin) \div Row - 1
           rest == n - fits
           more == (rest + perPage - 1) \div perPage
           lastPage == IF n <= fits THEN page ELSE page + more
           finalY == IF n <= fits THEN top + (n + 1) * Row
                     ELSE TopMargin + (rest - (more - 1) * perPage + 1) * Row
           b == Drawn(what, page, top, lastPage, finalY)
<1>1. c.page \in Nat /\ c.y \in Nat /\ c.y >= TopMargin
      /\ (LastOf(c).lastPage < c.page \/ (LastOf(c).lastPage = c.page /\ LastOf(c).bottom < c.y))
      /\ LastOf(c) \in Part
  BY DEF Well, LastOf
<1>2. Bottom = 283 /\ Row = 10 /\ TopMargin = 14
  BY DEF Bottom, Row, TopMargin
<1>3. page \in Nat /\ top \in Nat /\ top >= TopMargin /\ top + Row <= Bottom
  BY <1>1, <1>2
<1>4. /\ fits \in Nat /\ perPage = 25
      /\ n <= fits => top + (n + 1) * Row <= Bottom
      /\ top + (n + 1) * Row <= Bottom => n <= fits
      /\ n > fits => more \in Nat /\ more > 0 /\ rest - (more - 1) * perPage \in 1..perPage
  <2> HIDE DEF top
  <2> QED BY <1>3, TableRows
<1>5. c.page <= page /\ (page = c.page => top = c.y)
  BY <1>1
<1>6. c.y + (n + 1) * Row <= Bottom => ~moved /\ top = c.y
  BY <1>1, <1>2
<1>7. LastOf(c).what = what => page = LastOf(c).page /\ top + 2 * Row <= Bottom
  BY <1>1, <1>2 DEF EndsWith
<1> HIDE DEF moved, page, top, fits, perPage
<1>8. /\ lastPage \in Nat /\ page <= lastPage
      /\ finalY \in Nat /\ finalY <= Bottom /\ TopMargin <= finalY
  <2>1. CASE n <= fits
    <3>1. lastPage = page /\ finalY = top + (n + 1) * Row
      BY <2>1
    <3> QED BY <1>2, <1>3, <1>4, <2>1, <3>1
  <2>2. CASE ~ (n <= fits)
    <3>1. n > fits
      BY <1>4, <2>2
    <3>2. more \in Nat /\ rest - (more - 1) * perPage \in 1..perPage
      BY <1>4, <3>1
    <3>3. lastPage = page + more /\ finalY = TopMargin + (rest - (more - 1) * perPage + 1) * Row
      BY <2>2
    <3> HIDE DEF rest, more, lastPage, finalY
    <3>4. rest - (more - 1) * perPage \in 1..25
      BY <1>4, <3>2
    <3> DEFINE k == rest - (more - 1) * perPage
    <3>5. k \in 1..25 /\ finalY = TopMargin + (k + 1) * Row
      BY <3>3, <3>4
    <3> HIDE DEF k
    <3> QED BY <1>2, <1>3, <3>2, <3>3, <3>5
  <2> QED BY <2>1, <2>2
<1>9. c.y + (n + 1) * Row <= Bottom => finalY = c.y + (n + 1) * Row
  BY <1>4, <1>6
<1>10. Table(c, what, n, advance) =
           [page |-> lastPage, y |-> finalY + advance, drawn |-> Append(c.drawn, b)]
  BY DEF Table, moved, page, top, fits, perPage
<1> HIDE DEF lastPage, finalY, rest, more
<1>11. b \in Part /\ b.what = what /\ b.page = page /\ b.top = top
       /\ b.lastPage = lastPage /\ b.bottom = finalY
  BY <1>3, <1>8 DEF Drawn, Part
<1> HIDE DEF b
<1>12. OnPage(b)
  BY <1>2, <1>3, <1>8, <1>11 DEF OnPage
<1>13. Apart(LastOf(c), b)
  BY <1>1, <1>3, <1>5, <1>11 DEF Apart, Part
<1>14. Kept(LastOf(c), b)
  BY <1>7, <1>11 DEF Kept
<1>15. finalY + advance \in Nat /\ finalY + advance >= TopMargin /\ finalY < finalY + advance
  BY <1>2, <1>8
<1>16. Well(Table(c, what, n, advance)) /\ LastOf(Table(c, what, n, advance)) = b
  BY <1>8, <1>10, <1>11, <1>12, <1>13, <1>14, <1>15, AppendWell
<1>17. Table(c, what, n, advance).y = finalY + advance
  BY <1>10
<1> QED BY <1>9, <1>11, <1>16, <1>17 DEF EndsWith

\* A table under its heading, where the head and a row fit.
LEMMA HeadedTable ==
    ASSUME NEW c, Well(c), NEW what \in Name, LastOf(c).page = c.page, c.y + 2 * Row <= Bottom,
           NEW n \in Nat, n > 0, NEW advance \in Nat, advance > 0
    PROVE  Well(Table(c, what, n, advance)) /\ EndsWith(Table(c, what, n, advance), what)
<1> DEFINE r == Table(c, what, n, advance)
<1>1. Well(r) /\ EndsWith(r, what)
  BY TableWell
<1> QED BY <1>1

LEMMA SectionWell ==
    ASSUME NEW c, Well(c), c.y + 7 + 2 * Row <= Bottom, NEW title \in Name,
           ~ EndsWith(c, title), NEW n \in Nat, n > 0
    PROVE  LET r == Section(c, title, n)
           IN  /\ Well(r) /\ EndsWith(r, title)
               /\ c.y + 7 + (n + 1) * Row <= Bottom => r.y = c.y + 7 + (n + 1) * Row + 10
<1> DEFINE t == Text(c, title, 7)
<1>1. c.y \in Nat /\ c.y <= Bottom
  BY DEF Well, Bottom, Row
<1>2. Well(t) /\ t.y = c.y + 7 /\ t.page = c.page /\ EndsWith(t, title) /\ LastOf(t).page = t.page
  BY <1>1, TextWell
<1>3. Section(c, title, n) = Table(t, title, n, 10)
  BY DEF Section
<1> HIDE DEF t
<1> QED BY <1>2, <1>3, TableWell

\* A section that first looks whether it fits.
LEMMA FreshSection ==
    ASSUME NEW c, Well(c), NEW title \in Name, ~ EndsWith(c, title), NEW n \in Nat, n > 0
    PROVE  LET r == Section(Break(c, 230), title, n)
           IN  Well(r) /\ EndsWith(r, title)
<1> DEFINE b == Break(c, 230)
<1>1. Well(b) /\ b.y <= 230 /\ b.drawn = c.drawn
  BY BreakWell
<1> HIDE DEF b
<1>2. ~ EndsWith(b, title)
  BY <1>1 DEF EndsWith, LastOf
<1>3. b.y + 7 + 2 * Row <= Bottom
  BY <1>1 DEF Well, Bottom, Row
<1>4. Well(Section(b, title, n)) /\ EndsWith(Section(b, title, n), title)
  BY <1>1, <1>2, <1>3, SectionWell
<1> QED BY <1>4 DEF b

LEMMA TitleWell == Well(TitleBlock) /\ TitleBlock.y = 76 /\ EndsWith(TitleBlock, "Title")
<1> DEFINE b == Drawn("Title", 1, 20, 1, 40 + 28)
<1>1. TitleBlock.page = 1 /\ TitleBlock.y = 76 /\ TitleBlock.drawn = <<b>>
      /\ TitleBlock \in [page : {1}, y : {76}, drawn : {<<b>>}]
  BY DEF TitleBlock
<1>2. b \in Part /\ b.what = "Title" /\ b.top = 20 /\ b.bottom = 68 /\ b.lastPage = 1
  BY DEF Drawn, Part, Name
<1> HIDE DEF b
<1>3. <<b>> \in Seq(Part) /\ Len(<<b>>) = 1 /\ <<b>>[1] = b /\ DOMAIN <<b>> = {1} /\ <<b>> # <<>>
  BY <1>2
<1>4. TitleBlock \in [page : Nat, y : Nat, drawn : Seq(Part)]
  <2>1. TitleBlock = [page |-> 1, y |-> 76, drawn |-> <<b>>]
    BY DEF TitleBlock, b
  <2> QED BY <1>3, <2>1
<1>5. LastOf(TitleBlock) = b
  BY <1>1, <1>3 DEF LastOf
<1>6. OnPaper(TitleBlock)
  BY <1>1, <1>2, <1>3 DEF OnPaper, TopMargin, Bottom, FooterY
<1>7. 1..(Len(TitleBlock.drawn) - 1) = {}
  BY <1>1, <1>3
<1>8. InOrder(TitleBlock) /\ HeadsKept(TitleBlock)
  BY <1>7 DEF InOrder, HeadsKept
<1>9. TitleBlock.y >= TopMargin
  BY <1>1 DEF TopMargin
<1>10. LastOf(TitleBlock).lastPage = TitleBlock.page /\ LastOf(TitleBlock).bottom < TitleBlock.y
  BY <1>1, <1>2, <1>5
<1> QED BY <1>1, <1>2, <1>3, <1>4, <1>5, <1>6, <1>8, <1>9, <1>10 DEF Well, EndsWith

\* The alerts, whatever is known of them.
LEMMA AlertsWell ==
    ASSUME NEW p, NEW l \in Nat, NEW d \in ReportData(p, l), NEW c, Well(c),
           NEW before \in {"Title", "Summary", "ProtocolDistribution"}, EndsWith(c, before)
    PROVE  LET r == Alerts(d, c)
           IN  /\ Well(r)
               /\ ~ EndsWith(r, "TopSources") /\ ~ EndsWith(r, "TopDestinations")
<1> DEFINE title(limit) == Text(Break(c, limit), "IDSAlerts", 7)
<1>1. ASSUME NEW limit \in Nat, limit >= 20, limit <= 250
      PROVE  LET t == title(limit)
             IN  /\ Well(t) /\ EndsWith(t, "IDSAlerts") /\ LastOf(t).page = t.page
                 /\ t.y \in Nat /\ t.y <= limit + 7
  <2> DEFINE b == Break(c, limit)
             t == Text(b, "IDSAlerts", 7)
  <2>1. Well(b) /\ b.y <= limit /\ b.drawn = c.drawn
    BY <1>1, BreakWell
  <2> HIDE DEF b
  <2>2. b.y \in Nat
    BY <2>1 DEF Well
  <2>3. b.y <= Bottom
    BY <1>1, <2>1, <2>2 DEF Bottom
  <2>4. ~ EndsWith(b, "IDSAlerts")
    <3>1. EndsWith(b, before)
      BY <2>1 DEF EndsWith, LastOf
    <3> QED BY <3>1, EndsOnce
  <2>5. Well(t) /\ t.y = b.y + 7 /\ EndsWith(t, "IDSAlerts") /\ LastOf(t).page = t.page
    <3>1. "IDSAlerts" \in Name
      BY DEF Name
    <3> QED BY <2>1, <2>3, <2>4, <3>1, TextWell
  <2>6. title(limit) = t
    BY DEF b
  <2> HIDE DEF t, title
  <2>7. t.y \in Nat /\ t.y <= limit + 7
    BY <1>1, <2>1, <2>2, <2>5
  <2> QED BY <2>5, <2>6, <2>7
<1>2. ASSUME NEW limit \in Nat, limit >= 20, limit <= 250,
             NEW text \in Name \ {"IDSAlerts"}
      PROVE  Well(Text(title(limit), text, 10)) /\ EndsWith(Text(title(limit), text, 10), text)
  <2> DEFINE t == title(limit)
  <2>1. Well(t) /\ EndsWith(t, "IDSAlerts") /\ t.y \in Nat /\ t.y <= limit + 7
    BY <1>1, <1>2
  <2> HIDE DEF t
  <2>2. t.y <= Bottom
    BY <1>2, <2>1 DEF Bottom
  <2>3. ~ EndsWith(t, text)
    BY <2>1, EndsOnce
  <2>4. Well(Text(t, text, 10)) /\ EndsWith(Text(t, text, 10), text)
    BY <2>1, <2>2, <2>3, TextWell
  <2> QED BY <2>4 DEF t
<1>3. CASE d.alerts = "unavailable"
  <2> DEFINE r == Text(title(250), "AlertsUnavailable", 10)
  <2>1. Alerts(d, c) = r
    BY <1>3 DEF Alerts
  <2>2. "AlertsUnavailable" \in Name \ {"IDSAlerts"}
    BY DEF Name
  <2>3. Well(r) /\ EndsWith(r, "AlertsUnavailable")
    <3> HIDE DEF title
    <3> QED BY <1>2, <2>2
  <2> HIDE DEF r
  <2> QED BY <2>1, <2>3, EndsOnce
<1>4. CASE d.alerts = "none"
  <2> DEFINE r == Text(title(220), "NoAlerts", 10)
  <2>1. Alerts(d, c) = r
    BY <1>4 DEF Alerts
  <2>2. "NoAlerts" \in Name \ {"IDSAlerts"}
    BY DEF Name
  <2>3. Well(r) /\ EndsWith(r, "NoAlerts")
    <3> HIDE DEF title
    <3> QED BY <1>2, <2>2
  <2> HIDE DEF r
  <2> QED BY <2>1, <2>3, EndsOnce
<1>5. CASE d.alerts = "some"
  <2> DEFINE t == title(220)
             a == Table(t, "IDSAlerts", 4, 8)
             b == Break(a, 240)
             h == Table(b, "Highlights", 3, 10)
             s == Section(Break(h, 230), "TopSignatures", d.signatures)
  <2>1. Alerts(d, c) = IF d.signatures > 0 THEN s ELSE h
    BY <1>5 DEF Alerts, AlertsTable, Headlines, TopSignatures
  <2>2. /\ Well(t) /\ EndsWith(t, "IDSAlerts") /\ LastOf(t).page = t.page
        /\ t.y \in Nat /\ t.y <= 227
    BY <1>1
  <2> HIDE DEF t
  <2>3. t.y + 2 * Row <= Bottom
    BY <2>2 DEF Bottom, Row
  <2>4. {"IDSAlerts", "Highlights", "TopSignatures"} \subseteq Name
    BY DEF Name
  <2>5. Well(a) /\ EndsWith(a, "IDSAlerts")
    <3>1. "IDSAlerts" \in Name /\ 4 \in Nat /\ 8 \in Nat /\ 4 > 0 /\ 8 > 0
      BY <2>4
    <3> QED BY <2>2, <2>3, <3>1, HeadedTable
  <2> HIDE DEF a
  <2>6. Well(b) /\ b.drawn = a.drawn
    BY <2>5, BreakWell
  <2> HIDE DEF b
  <2>7. EndsWith(b, "IDSAlerts")
    BY <2>5, <2>6 DEF EndsWith, LastOf
  <2>8. ~ EndsWith(b, "Highlights")
    BY <2>7, EndsOnce
  <2>9. Well(h) /\ EndsWith(h, "Highlights")
    BY <2>4, <2>6, <2>8, TableWell
  <2> HIDE DEF h
  <2>10. ~ EndsWith(h, "TopSignatures") /\ d.signatures \in Nat
    BY <2>9, EndsOnce DEF ReportData
  <2>11. d.signatures > 0 => Well(s) /\ EndsWith(s, "TopSignatures")
    BY <2>4, <2>9, <2>10, FreshSection
  <2> HIDE DEF s
  <2>12. CASE d.signatures > 0
    BY <2>1, <2>11, <2>12, EndsOnce
  <2>13. CASE ~ (d.signatures > 0)
    BY <2>1, <2>9, <2>13, EndsOnce
  <2> QED BY <2>12, <2>13
<1>6. d.alerts \in {"unavailable", "none", "some"}
  BY DEF ReportData
<1> QED BY <1>3, <1>4, <1>5, <1>6

\* A report is laid out well with tables of any length.
LEMMA ReportWell ==
    ASSUME NEW mp \in Nat, NEW ml \in Nat, NEW d \in ReportData(mp, ml)
    PROVE  OnPaper(Report(d)) /\ InOrder(Report(d)) /\ HeadsKept(Report(d))
<1> DEFINE s == Summary(d, TitleBlock)
           p == Protocols(d, s)
           a == Alerts(d, p)
           u == Sources(d, a)
           r == Destinations(d, u)
<1>0. /\ d.protocols \in Nat /\ d.sources \in Nat /\ d.destinations \in Nat
      /\ {"Summary", "ProtocolDistribution", "TopSources", "TopDestinations"} \subseteq Name
  BY DEF ReportData, Name
<1>1. Well(s) /\ s.y <= 143 /\ s.y \in Nat /\ (EndsWith(s, "Title") \/ EndsWith(s, "Summary"))
  <2>1. CASE d.summary
    <3> DEFINE t == Section(TitleBlock, "Summary", 4)
    <3>1. s = t
      BY <2>1 DEF Summary
    <3>2. /\ TitleBlock.y + 7 + 2 * Row <= Bottom
          /\ TitleBlock.y + 7 + (4 + 1) * Row = 133 /\ 133 <= Bottom
      BY TitleWell DEF Row, Bottom
    <3>3. ~ EndsWith(TitleBlock, "Summary")
      BY TitleWell, EndsOnce
    <3>4. Well(t) /\ EndsWith(t, "Summary") /\ t.y = 143
      BY <1>0, <3>2, <3>3, TitleWell, SectionWell
    <3> HIDE DEF s, t
    <3> QED BY <3>1, <3>4
  <2>2. CASE ~ d.summary
    <3>1. s = TitleBlock
      BY <2>2 DEF Summary
    <3> HIDE DEF s
    <3> QED BY <3>1, TitleWell
  <2> QED BY <2>1, <2>2
<1> HIDE DEF s
<1>2. \E before \in {"Title", "Summary", "ProtocolDistribution"} : EndsWith(p, before) /\ Well(p)
  <2>1. CASE d.protocols > 0
    <3>1. s.y + 7 + 2 * Row <= Bottom
      BY <1>1 DEF Row, Bottom
    <3>2. p = Section(s, "ProtocolDistribution", d.protocols)
      BY <2>1 DEF Protocols
    <3>3. ~ EndsWith(s, "ProtocolDistribution")
      BY <1>1, EndsOnce
    <3> HIDE DEF p
    <3>4. Well(p) /\ EndsWith(p, "ProtocolDistribution")
      BY <1>0, <1>1, <2>1, <3>1, <3>2, <3>3, SectionWell
    <3> QED BY <3>4
  <2>2. CASE ~ (d.protocols > 0)
    <3>1. p = s
      BY <2>2 DEF Protocols
    <3> HIDE DEF p
    <3> QED BY <1>1, <3>1
  <2> QED BY <2>1, <2>2
<1> HIDE DEF p
<1>3. Well(a) /\ ~ EndsWith(a, "TopSources") /\ ~ EndsWith(a, "TopDestinations")
  BY <1>2, AlertsWell
<1> HIDE DEF a
<1>4. Well(u) /\ ~ EndsWith(u, "TopDestinations")
  <2>1. CASE d.sources > 0
    <3>1. u = Section(Break(a, 230), "TopSources", d.sources)
      BY <2>1 DEF Sources
    <3> HIDE DEF u
    <3>2. Well(u) /\ EndsWith(u, "TopSources")
      BY <1>0, <1>3, <2>1, <3>1, FreshSection
    <3> QED BY <3>2, EndsOnce
  <2>2. CASE ~ (d.sources > 0)
    <3>1. u = a
      BY <2>2 DEF Sources
    <3> HIDE DEF u
    <3> QED BY <1>3, <3>1
  <2> QED BY <2>1, <2>2
<1>5. Report(d) = r
  BY DEF Report, s, p, a
<1> HIDE DEF u
<1>6. Well(r)
  <2>1. CASE d.destinations > 0
    <3>1. r = Section(Break(u, 230), "TopDestinations", d.destinations)
      BY <2>1 DEF Destinations
    <3> HIDE DEF r
    <3> QED BY <1>0, <1>4, <2>1, <3>1, FreshSection
  <2>2. CASE ~ (d.destinations > 0)
    <3>1. r = u
      BY <2>2 DEF Destinations
    <3> HIDE DEF r
    <3> QED BY <1>4, <3>1
  <2> QED BY <2>1, <2>2
<1> HIDE DEF r
<1> QED BY <1>5, <1>6 DEF Well

-----------------------------------------------------------------------------
(* The invariant.                                                          *)

LEMMA InitInv == Init => IInv
<1> SUFFICES ASSUME Init PROVE IInv
  OBVIOUS
<1>1. loads \in [0..MaxLoads -> LoadState] /\ PanelsInv
  BY InitPanels
<1>2. 0 \in 0..MaxLoads /\ 0 \in 0..MaxExports /\ 0 \in 0..MaxFaults
  BY DashboardAssumption
<1>3. TypeOK
  BY <1>1, <1>2, NoAnswers DEF Init, TypeOK
<1>4. Exporting
  BY DEF Init, Exporting
<1> QED
  BY <1>1, <1>3, <1>4 DEF IInv

\* The export is not touched by the other steps, which may fail.
LEMMA ExportingKept ==
    ASSUME TypeOK, Exporting, UNCHANGED exporting, faults' = faults \/ Fault
    PROVE  Exporting' /\ faults' \in 0..MaxFaults
<1>1. faults' \in 0..MaxFaults
  BY DashboardAssumption DEF TypeOK, Fault
<1> QED
  BY <1>1 DEF Exporting, Fits, exporting

LEMMA NextInv ==
    ASSUME IInv, [Next]_vars
    PROVE  IInv'
<1>1. TypeOK /\ PanelsInv /\ Exporting
  BY DEF IInv
<1>2. ASSUME NEW l \in 0..MaxLoads, NEW p \in Panel, ServeRequest(l, p) PROVE IInv'
  <2>1. loads' \in [0..MaxLoads -> LoadState] /\ PanelsInv'
    BY <1>1, <1>2, ServeInv
  <2>2. Exporting'
    BY <1>1, <1>2, ExportingKept DEF ServeRequest
  <2> QED BY <1>1, <1>2, <2>1, <2>2 DEF IInv, TypeOK, ServeRequest, flags, exporting
<1>3. ASSUME NEW l \in 0..MaxLoads, LoadDone(l) \/ LoadFails(l) PROVE IInv'
  <2>1. /\ loads' \in [0..MaxLoads -> LoadState] /\ panels' \in Panels
        /\ {loading', error', overtaken'} \subseteq BOOLEAN
        /\ PanelsInv'
    BY <1>1, <1>3, FinishInv DEF LoadDone, LoadFails
  <2>2. UNCHANGED <<stored, filters, newest, exporting>> /\ (faults' = faults \/ Fault)
    BY <1>3 DEF LoadDone, LoadFails
  <2>3. Exporting' /\ faults' \in 0..MaxFaults
    BY <1>1, <2>2, ExportingKept
  <2> QED BY <1>1, <2>1, <2>2, <2>3 DEF IInv, TypeOK, exporting
<1>4. CASE Exports
  <2>1. UNCHANGED <<filters, panels, flags, loads, newest, overtaken>>
    BY <1>4 DEF Exports, HandleExportPdf, ExportDone, ExportUntrusted, ExportFails, Reported
  <2>2. PanelsInv'
    BY <1>1, <2>1 DEF PanelsInv, OwnAnswers, Newest, AtRest, PanelsHonest, PanelsTogether,
                      EmptyOnlyWithError, SpinnerHonest, flags
  <2> QED BY <1>4, <2>2, ExportsInv DEF IInv
<1>5. ASSUME NEW f \in Filter, Load(f), filters' = f,
             UNCHANGED <<stored, panels, exporting, overtaken, faults>>
      PROVE  IInv'
  <2>1. loads' \in [0..MaxLoads -> LoadState] /\ newest' \in 0..MaxLoads /\ PanelsInv'
    BY <1>1, <1>5, LoadInv
  <2>2. Exporting'
    BY <1>1, <1>5, ExportingKept
  <2>3. loading' \in BOOLEAN /\ error' \in BOOLEAN
    BY <1>5 DEF Load
  <2> QED BY <1>1, <1>5, <2>1, <2>2, <2>3 DEF IInv, TypeOK, exporting
<1>6. CASE User
  <2>1. filters \in Filter
    BY <1>1 DEF TypeOK
  <2> QED BY <1>5, <1>6, <2>1 DEF User, Refresh, SetFilters
<1>7. ASSUME stored' \in SUBSET Minute, UNCHANGED <<filters, panels, flags, loads, newest, exporting, overtaken, faults>>
      PROVE  IInv'
  <2>1. PanelsInv'
    BY <1>1, <1>7 DEF PanelsInv, OwnAnswers, Newest, AtRest, PanelsHonest, PanelsTogether,
                      EmptyOnlyWithError, SpinnerHonest, flags
  <2>2. Exporting'
    BY <1>1, <1>7, ExportingKept
  <2> QED BY <1>1, <1>7, <2>1, <2>2 DEF IInv, TypeOK, flags, exporting
<1>8. ASSUME NEW m \in Minute, Ingested(m) PROVE IInv'
  <2>1. stored' \in SUBSET Minute
    BY <1>1, <1>8 DEF TypeOK, Ingested
  <2> QED BY <1>7, <1>8, <2>1 DEF Ingested
<1>9. CASE UNCHANGED vars
  <2>1. stored' \in SUBSET Minute
    BY <1>1, <1>9 DEF TypeOK, vars
  <2> QED BY <1>7, <1>9, <2>1 DEF vars
<1> QED
  BY <1>2, <1>3, <1>4, <1>6, <1>8, <1>9 DEF Next, Server, Answers

LEMMA Invariant == Spec => []IInv
<1>1. Init => IInv
  BY InitInv
<1>2. IInv /\ [Next]_vars => IInv'
  BY NextInv
<1> QED
  BY <1>1, <1>2, PTL DEF Spec

\* The types of the page, its loads and its reports.
THEOREM TypeCorrect == Spec => []TypeOK
<1>1. IInv => TypeOK
  BY DEF IInv
<1> QED
  BY <1>1, Invariant, PTL

\* All panels are of one filter, no page is empty without a word, and no button
\* stays disabled, for any number of loads that overlap and fail.
THEOREM PanelsAreHonest == Spec => []PanelsHonest
<1>1. IInv => PanelsHonest
  BY DEF IInv, PanelsInv
<1> QED
  BY <1>1, Invariant, PTL

\* Every report asked for comes.  One asked for on a page at rest, without error
\* and none of whose answers was overtaken, fits the filters it names; and it
\* blames no trusted address if the list of them was read.
THEOREM ReportsAreTrue == Spec => []ReportTrue
<1>1. IInv => ReportTrue
  BY DEF IInv, Exporting, Fits, ReportTrue
<1> QED
  BY <1>1, Invariant, PTL

\* The line of the chart never goes back, has each point once and crosses no
\* long time without traffic above zero, for any points over any window.
THEOREM ChartIsHonest == Spec => []ChartHonest
<1>1. ASSUME TypeOK PROVE ChartHonest
  <2> DEFINE times == panels["summary"].points
             data == ChartData(times, Start[filters], Stop[filters])
  <2>1. times \in SUBSET Minute /\ Minute \in SUBSET Nat /\ IsFiniteSet(Minute)
    <3>1. panels["summary"] \in Answer \cup {NoAnswer}
      BY <1>1, DashboardAssumption DEF TypeOK, Panels
    <3> QED BY <3>1, DashboardAssumption DEF Answer, NoAnswer
  <2>2. /\ Start[filters] \in Nat /\ Stop[filters] \in Nat
        /\ Start[filters] < Stop[filters]
    BY <1>1, DashboardAssumption DEF TypeOK
  <2>3. IsFiniteSet(times) /\ times \in SUBSET Nat
    <3> HIDE DEF times
    <3> QED BY <2>1, FS_Subset
  <2>4. Line(data) /\ Shown(data) = times
    <3> HIDE DEF times
    <3> QED BY <2>2, <2>3, ChartLine
  <2> HIDE DEF data, times
  <2>5. \A i \in 1..(Len(data) - 1) : Step(data[i], data[i + 1])
    BY <2>4 DEF Line
  <2>6. {data[i].time : i \in {k \in DOMAIN data : data[k].bytes > 0}} = times
    BY <2>4 DEF Shown
  <2> QED BY <2>5, <2>6 DEF ChartHonest, Step, data, times
<1> QED
  BY <1>1, TypeCorrect, PTL

\* No report, however long its tables, has a part off the page, on the footer
\* or on another part, or a heading without a row of its table below it.
THEOREM ReportsAreLaidOut == Spec => []ReportsLaidOut
<1>1. ASSUME NEW a \in {"some", "none", "unavailable"} PROVE a \in LaidOut
  <2>1. MaxProtocols \in Nat /\ MaxRows \in Nat
    BY DashboardAssumption
  <2>2. \A d \in ReportData(MaxProtocols, MaxRows) :
            OnPaper(Report(d)) /\ InOrder(Report(d)) /\ HeadsKept(Report(d))
    BY <2>1, ReportWell
  <2> QED BY <2>2 DEF LaidOut
<1>2. TypeOK => ReportsLaidOut
  BY <1>1 DEF TypeOK, Reports, ReportsLaidOut
<1> QED
  BY <1>2, TypeCorrect, PTL
=============================================================================
