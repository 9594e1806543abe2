-------------------------- MODULE AlertsPageProofs --------------------------
(***************************************************************************)
(* The types, the spinner, the pages and Load More of the alerts page, for *)
(* any alerts and times, kinds, page size, user and failures.              *)
(***************************************************************************)
EXTENDS AlertsPage, FiniteSetTheorems, SequenceTheorems, TLAPS

USE AlertsAssumption

\* A request is a record with its fields.
IsRequest(r) ==
    r = [phase |-> r.phase, filter |-> r.filter, offset |-> r.offset,
         spinner |-> r.spinner, total |-> r.total, rows |-> r.rows]

\* The lock is held exactly while load() runs.
Lock ==
    /\ busy <=> load.phase # "none"
    /\ busy \in BOOLEAN /\ loading \in BOOLEAN /\ exact \in BOOLEAN /\ load.spinner \in BOOLEAN
    /\ load.phase \in Phase /\ more.phase \in Phase
    /\ IsRequest(load) /\ IsRequest(more)
    /\ loadingMore \in BOOLEAN /\ (loadingMore <=> more.phase # "none")

Chosen == Matching(filters)

\* Rows that stand where an order of the alerts S may have them.
InPlace(rows, from, S) ==
    \A i \in 1..Len(rows) : rows[i] \in S /\ from + i \in Places(rows[i], S)

\* While nothing disturbed the paging, a loadMore() under way asks for the
\* page that follows, and carries what the server says of it now.
Undisturbed ==
    exact => /\ load.phase = "none"
             /\ Len(list) = Lesser(Cardinality(Chosen), offset + PageSize)
             /\ InPlace(list, 0, Chosen)
             /\ Len(list) < Cardinality(Chosen) => hasMore
             /\ more.phase # "none" => more.filter = filters /\ more.offset = offset + PageSize
             /\ more.phase \in {"select", "answer"} => more.total = Cardinality(Chosen)
             /\ more.phase = "answer" => more.rows \in Pages(Chosen, more.offset, PageSize)

IInv == TypeOK /\ Lock /\ SpinnerHonest /\ Undisturbed

-----------------------------------------------------------------------------
(* What a query answers.                                                   *)

\* The alerts that filters select, as many as there are.
LEMMA ChosenAlerts ==
    ASSUME NEW f \in Filter
    PROVE  /\ Matching(f) \in SUBSET (1..MaxAlerts)
           /\ IsFiniteSet(Matching(f)) /\ Cardinality(Matching(f)) \in Nat
<1>1. Matching(f) \in SUBSET (1..MaxAlerts)
  BY DEF Matching, Filter
<1>2. IsFiniteSet(1..MaxAlerts)
  BY FS_Interval
<1> QED BY <1>1, <1>2, FS_Subset, FS_CardinalityType

\* A function on 1..n is a sequence of length n.
LEMMA Row ==
    ASSUME NEW T, NEW n \in Nat, NEW f \in [1..n -> T]
    PROVE  f \in Seq(T) /\ Len(f) = n
  OBVIOUS

\* A page is a sequence of alerts, each in its place, and as long as LIMIT and
\* what is left allow.
LEMMA PageRows ==
    ASSUME NEW S \in SUBSET (1..MaxAlerts), Cardinality(S) \in Nat,
           NEW from \in Nat, NEW rows \in Pages(S, from, PageSize)
    PROVE  /\ rows \in Seq(1..MaxAlerts)
           /\ Len(rows) = Lesser(Cardinality(S), from + PageSize) - Lesser(Cardinality(S), from)
           /\ InPlace(rows, from, S)
<1> DEFINE n == Remaining(S, from, PageSize)
<1>1. n \in Nat /\ n = Lesser(Cardinality(S), from + PageSize) - Lesser(Cardinality(S), from)
  BY DEF Remaining, Lesser
<1>2. rows \in [1..n -> S] /\ \A i \in DOMAIN rows : from + i \in Places(rows[i], S)
  BY DEF Pages, Injection
<1> HIDE DEF n
<1>3. rows \in Seq(1..MaxAlerts) /\ Len(rows) = n
  <2>1. rows \in [1..n -> 1..MaxAlerts]
    BY <1>2
  <2> QED BY <1>1, <2>1, Row
<1>4. InPlace(rows, from, S)
  BY <1>1, <1>2, <1>3 DEF InPlace
<1> QED BY <1>1, <1>3, <1>4

\* A page put after the rows before it leaves each row in its place.
LEMMA NextPage ==
    ASSUME NEW S \in SUBSET (1..MaxAlerts), Cardinality(S) \in Nat,
           NEW from \in Nat, NEW rows \in Pages(S, from, PageSize),
           NEW before \in Seq(1..MaxAlerts), InPlace(before, 0, S),
           Len(before) = Lesser(Cardinality(S), from)
    PROVE  /\ Len(before \o rows) = Lesser(Cardinality(S), from + PageSize)
           /\ InPlace(before \o rows, 0, S)
           /\ from + PageSize < Cardinality(S) => Len(rows) = PageSize
<1> DEFINE c == Cardinality(S)
<1>1. /\ rows \in Seq(1..MaxAlerts) /\ InPlace(rows, from, S)
      /\ Len(rows) = Lesser(c, from + PageSize) - Lesser(c, from)
  BY PageRows
<1>2. Len(before) \in Nat /\ Len(rows) \in Nat /\ c \in Nat
  BY <1>1
<1>3. Len(before \o rows) = Len(before) + Len(rows)
  BY <1>1, ConcatProperties
<1>4. Len(before \o rows) = Lesser(c, from + PageSize)
  <2>1. Lesser(c, from) \in Nat /\ Lesser(c, from + PageSize) \in Nat
    <3> HIDE DEF c
    <3> QED BY <1>2 DEF Lesser
  <2>2. Len(before) = Lesser(c, from) /\ Len(rows) = Lesser(c, from + PageSize) - Lesser(c, from)
    BY <1>1
  <2> QED BY <1>3, <2>1, <2>2
<1>5. from + PageSize < c => Len(rows) = PageSize
  BY <1>1, <1>2 DEF Lesser
<1>6. ASSUME NEW i \in 1..Len(before \o rows)
      PROVE  (before \o rows)[i] \in S /\ 0 + i \in Places((before \o rows)[i], S)
  <2>1. CASE i <= Len(before)
    <3>1. (before \o rows)[i] = before[i] /\ i \in 1..Len(before)
      BY <1>1, <1>2, <1>3, <2>1
    <3> QED BY <3>1 DEF InPlace
  <2>2. CASE i > Len(before)
    <3> DEFINE j == i - Len(before)
    <3>1. (before \o rows)[i] = rows[j] /\ j \in 1..Len(rows)
      <4>1. j \in 1..Len(rows) /\ i \in 1..(Len(before) + Len(rows)) /\ ~(i <= Len(before))
        BY <1>2, <1>3, <2>2
      <4>2. (before \o rows)[i] = rows[j]
        BY <1>1, <4>1, ConcatProperties
      <4> QED BY <4>1, <4>2
    <3>2. Len(before) = from
      BY <1>1, <1>2, <3>1 DEF Lesser
    <3>3. from + j = 0 + i
      BY <1>2, <3>2
    <3>4. rows[j] \in S /\ from + j \in Places(rows[j], S)
      BY <1>1, <3>1 DEF InPlace
    <3> QED BY <3>1, <3>3, <3>4
  <2> QED BY <1>2, <1>3, <2>1, <2>2
<1> QED BY <1>4, <1>5, <1>6 DEF InPlace

\* Two alerts that may take the same place are of one instant: the places of
\* a later alert all come before those of an earlier one.
LEMMA SamePlace ==
    ASSUME NEW S \in SUBSET (1..MaxAlerts), NEW m \in S, NEW n \in S,
           NEW p \in Places(m, S), p \in Places(n, S)
    PROVE  Stamp[m] = Stamp[n]
<1>1. IsFiniteSet(S)
  <2>1. IsFiniteSet(1..MaxAlerts)
    BY FS_Interval
  <2> QED BY <2>1, FS_Subset
<1>2. ASSUME NEW a \in S, NEW b \in S, p \in Places(a, S), p \in Places(b, S), Stamp[a] > Stamp[b]
      PROVE  FALSE
  <2> DEFINE Since == {x \in S : Stamp[x] >= Stamp[a]}
             After == {x \in S : Stamp[x] > Stamp[b]}
  <2>1. \A x \in S : Stamp[x] \in Nat
    OBVIOUS
  <2>2. Since \subseteq After /\ After \subseteq S
    <3>1. ASSUME NEW x \in S, Stamp[x] >= Stamp[a] PROVE Stamp[x] > Stamp[b]
      BY <1>2, <2>1, <3>1
    <3> QED BY <3>1
  <2>3. IsFiniteSet(After)
    BY <1>1, <2>2, FS_Subset
  <2>4. Cardinality(Since) <= Cardinality(After)
    BY <2>2, <2>3, FS_Subset
  <2>5. Cardinality(Since) \in Nat /\ Cardinality(After) \in Nat
    BY <2>2, <2>3, FS_Subset, FS_CardinalityType
  <2> DEFINE c == Cardinality(Since)
             d == Cardinality(After)
             e == Cardinality({x \in S : Stamp[x] > Stamp[a]})
             g == Cardinality({x \in S : Stamp[x] >= Stamp[b]})
  <2>6. p \in (e + 1)..c /\ p \in (d + 1)..g
    BY <1>2 DEF Places
  <2> HIDE DEF c, d, e, g
  <2>7. p <= c /\ d + 1 <= p /\ p \in Int
    BY <2>6
  <2>8. c <= d /\ c \in Nat /\ d \in Nat
    BY <2>4, <2>5 DEF c, d
  <2> QED BY <2>7, <2>8
<1>3. Stamp[m] \in Nat /\ Stamp[n] \in Nat
  OBVIOUS
<1> QED BY <1>2, <1>3

\* An alert with one place shares its instant with no other.
LEMMA OnePlace ==
    ASSUME NEW S \in SUBSET (1..MaxAlerts), NEW m \in S, NEW n \in S,
           NEW p, Places(n, S) = {p}, Stamp[m] = Stamp[n]
    PROVE  m = n
<1> SUFFICES ASSUME m # n PROVE FALSE
  OBVIOUS
<1> DEFINE After == {x \in S : Stamp[x] > Stamp[n]}
           Since == {x \in S : Stamp[x] >= Stamp[n]}
<1>1. IsFiniteSet(S)
  <2>1. IsFiniteSet(1..MaxAlerts)
    BY FS_Interval
  <2> QED BY <2>1, FS_Subset
<1>2. \A x \in S : Stamp[x] \in Nat
  OBVIOUS
<1>3. m \notin After /\ n \notin After /\ After \cup {m} \cup {n} \subseteq Since /\ Since \subseteq S
  <2>1. m \notin After /\ n \notin After
    BY <1>2
  <2>2. m \in Since /\ n \in Since /\ Since \subseteq S
    BY <1>2
  <2>3. After \subseteq Since
    <3>1. ASSUME NEW x \in S, Stamp[x] > Stamp[n] PROVE Stamp[x] >= Stamp[n]
      BY <1>2, <3>1
    <3> QED BY <3>1
  <2> QED BY <2>1, <2>2, <2>3
<1> HIDE DEF After, Since
<1>4. IsFiniteSet(Since) /\ IsFiniteSet(After)
  BY <1>1, <1>3, FS_Subset
<1>5. Cardinality(After) \in Nat /\ Cardinality(Since) \in Nat
  BY <1>4, FS_CardinalityType
<1>6. IsFiniteSet(After \cup {m}) /\ Cardinality(After \cup {m}) = Cardinality(After) + 1
  BY <1>3, <1>4, FS_AddElement
<1>7. n \notin After \cup {m}
  BY <1>3
<1>8. Cardinality(After \cup {m} \cup {n}) = Cardinality(After) + 2
  <2>1. Cardinality((After \cup {m}) \cup {n}) = Cardinality(After \cup {m}) + 1
    BY <1>6, <1>7, FS_AddElement
  <2> QED BY <1>5, <1>6, <2>1
<1>9. Cardinality(After) + 2 <= Cardinality(Since)
  <2>1. Cardinality(After \cup {m} \cup {n}) <= Cardinality(Since)
    BY <1>3, <1>4, FS_Subset
  <2> QED BY <1>8, <2>1
<1> DEFINE c == Cardinality(After)
           d == Cardinality(Since)
<1>10. Places(n, S) = (c + 1)..d
  BY DEF Places, After, Since
<1> HIDE DEF c, d
<1>11. c \in Nat /\ d \in Nat /\ c + 2 <= d
  BY <1>5, <1>9 DEF c, d
<1>12. c + 1 \in Places(n, S) /\ c + 2 \in Places(n, S)
  BY <1>10, <1>11
<1> QED BY <1>11, <1>12

\* The alerts selected depend on the table and the filters alone.
LEMMA SameRows ==
    ASSUME Matching(filters)' = Matching(filters)
    PROVE  /\ Chosen' = Chosen
           /\ \A from : Pages(Chosen, from, PageSize)' = Pages(Chosen, from, PageSize)
BY Zenon DEF Chosen

LEMMA RowsStay ==
    ASSUME stored' = stored, filters' = filters
    PROVE  Chosen' = Chosen
BY Zenon DEF Chosen, Matching

-----------------------------------------------------------------------------
(* Requests.                                                               *)

\* Requests that are sent, served or gone are requests.
LEMMA RequestTypes ==
    /\ \A f \in Filter, from \in Nat, spinner \in BOOLEAN : Sent(f, from, spinner) \in Request
    /\ \A f \in Filter : NoRequest(f) \in Request
    /\ \A r \in Request : \A s \in Served(r) : s \in Request
<1>1. <<>> \in Seq(1..MaxAlerts)
  OBVIOUS
<1>2. \A f \in Filter, from \in Nat, spinner \in BOOLEAN : Sent(f, from, spinner) \in Request
  BY <1>1 DEF Sent, Fresh, Request, Phase
<1>3. \A f \in Filter : NoRequest(f) \in Request
  BY <1>1 DEF NoRequest, Fresh, Request, Phase
<1>4. ASSUME NEW r \in Request, NEW s \in Served(r)
      PROVE  s \in Request
  <2>1. r.filter \in Filter /\ r.offset \in Nat
    BY DEF Request
  <2> DEFINE S == Matching(r.filter)
             c == Cardinality(S)
  <2>2. S \in SUBSET (1..MaxAlerts) /\ c \in Nat
    BY <2>1, ChosenAlerts
  <2>3. s = [r EXCEPT !.total = c, !.phase = "select"]
           \/ \E page \in Pages(S, r.offset, PageSize) : s = [r EXCEPT !.rows = page, !.phase = "answer"]
    BY Zenon DEF Served
  <2>4. \A page \in Pages(S, r.offset, PageSize) : page \in Seq(1..MaxAlerts)
    BY <2>1, <2>2, PageRows
  <2> HIDE DEF c, S
  <2> QED BY <2>2, <2>3, <2>4 DEF Request, Phase
<1> QED BY <1>2, <1>3, <1>4

-----------------------------------------------------------------------------
(* The lock of a request.                                                  *)

\* A request that is sent, and the absence of one.
LEMMA SentRequest ==
    ASSUME NEW f, NEW from, NEW spinner
    PROVE  /\ IsRequest(Sent(f, from, spinner))
           /\ Sent(f, from, spinner).phase = "count"
           /\ Sent(f, from, spinner).filter = f
           /\ Sent(f, from, spinner).offset = from
           /\ Sent(f, from, spinner).spinner = spinner
BY SMT DEF Sent, Fresh, IsRequest

LEMMA NoRequestIsRequest ==
    ASSUME NEW f
    PROVE  /\ IsRequest(NoRequest(f))
           /\ NoRequest(f).phase = "none"
           /\ NoRequest(f).spinner = FALSE
           /\ NoRequest(f).offset = 0
BY SMT DEF NoRequest, Fresh, IsRequest

\* A request served once: it is the same request, and carries what the table
\* says at that moment.
LEMMA ServedRequest ==
    ASSUME NEW r, IsRequest(r), r.phase \in {"count", "select"}, NEW s \in Served(r)
    PROVE  /\ IsRequest(s)
           /\ s.filter = r.filter /\ s.offset = r.offset
           /\ s.spinner = r.spinner
           /\ \/ /\ r.phase = "count" /\ s.phase = "select"
                 /\ s.total = Cardinality(Matching(r.filter))
              \/ /\ r.phase = "select" /\ s.phase = "answer"
                 /\ s.total = r.total /\ s.rows \in Pages(Matching(r.filter), r.offset, PageSize)
<1>1. CASE r.phase = "count"
  <2> DEFINE c == Cardinality(Matching(r.filter))
  <2>1. s = [r EXCEPT !.total = c, !.phase = "select"]
    BY <1>1 DEF Served
  <2> HIDE DEF c
  <2>2. /\ IsRequest(s) /\ s.filter = r.filter /\ s.offset = r.offset
        /\ s.spinner = r.spinner /\ s.phase = "select" /\ s.total = c
    BY <2>1 DEF IsRequest
  <2> QED BY <1>1, <2>2 DEF c
<1>2. CASE r.phase = "select"
  <2> DEFINE P == Pages(Matching(r.filter), r.offset, PageSize)
  <2>1. PICK page \in P : s = [r EXCEPT !.rows = page, !.phase = "answer"]
    BY <1>2 DEF Served
  <2> HIDE DEF P
  <2>2. /\ IsRequest(s) /\ s.filter = r.filter /\ s.offset = r.offset
        /\ s.spinner = r.spinner /\ s.phase = "answer" /\ s.total = r.total
        /\ s.rows = page
    BY <2>1 DEF IsRequest
  <2> QED BY <1>2, <2>1, <2>2 DEF P
<1> QED BY <1>1, <1>2

-----------------------------------------------------------------------------
(* The lock and the spinner.                                               *)

LEMMA LoadKeepsLock ==
    ASSUME Lock, SpinnerHonest, NEW f, NEW spinner \in BOOLEAN, Load(f, spinner),
           UNCHANGED <<more, loadingMore>>
    PROVE  Lock' /\ SpinnerHonest'
<1>1. CASE busy
  BY <1>1 DEF Load, Lock, SpinnerHonest, IsRequest
<1>2. CASE ~busy
  <2>1. load' = Sent(f, 0, spinner) /\ busy' = TRUE /\ exact' = FALSE /\ loading' = (loading \/ spinner)
    BY <1>2, Zenon DEF Load
  <2>2. ~loading
    BY <1>2, Zenon DEF Lock, SpinnerHonest
  <2>3. /\ IsRequest(load') /\ load'.phase = "count" /\ load'.spinner = spinner
    BY <2>1, SentRequest
  <2> QED BY <2>1, <2>2, <2>3, Zenon DEF Lock, SpinnerHonest, IsRequest, Phase
<1> QED BY <1>1, <1>2

LEMMA FinishKeepsLock ==
    ASSUME Lock, SpinnerHonest, load.phase # "none", Finish, exact' \in BOOLEAN,
           UNCHANGED <<more, loadingMore>>
    PROVE  Lock' /\ SpinnerHonest'
<1>1. loading <=> load.spinner
  BY Zenon DEF SpinnerHonest
<1>2. busy' = FALSE /\ loading' = FALSE
  BY <1>1, Zenon DEF Finish, Lock
<1>3. IsRequest(load') /\ load'.phase = "none" /\ load'.spinner = FALSE
  BY NoRequestIsRequest, Zenon DEF Finish
<1> QED BY <1>2, <1>3, Zenon DEF Lock, SpinnerHonest, IsRequest, Phase

LEMMA LockInit == Init => Lock /\ SpinnerHonest
<1> SUFFICES ASSUME Init PROVE Lock /\ SpinnerHonest
  OBVIOUS
<1>1. /\ IsRequest(load) /\ load.phase = "count" /\ load.spinner = TRUE
      /\ IsRequest(more) /\ more.phase = "none"
  BY SMT DEF Init, Sent, NoRequest, Fresh, IsRequest
<1>2. busy = TRUE /\ loading = TRUE /\ exact = FALSE /\ loadingMore = FALSE
  BY Zenon DEF Init
<1> QED BY <1>1, <1>2, Zenon DEF Lock, SpinnerHonest, Phase

LEMMA LockStep ==
    ASSUME Lock, SpinnerHonest, [Next]_vars
    PROVE  Lock' /\ SpinnerHonest'
<1>1. CASE ServeLoad
  <2>1. /\ IsRequest(load') /\ load'.phase \in {"select", "answer"} /\ load'.spinner = load.spinner
    BY <1>1, ServedRequest DEF ServeLoad, Lock
  <2>2. load.phase # "none"
    BY <1>1 DEF ServeLoad
  <2>3. UNCHANGED <<busy, loading, exact, more, loadingMore>>
    BY <1>1 DEF ServeLoad, flags
  <2> QED BY <2>1, <2>2, <2>3, Zenon DEF Lock, SpinnerHonest, IsRequest, Phase
<1>2. CASE ServeMore
  <2>1. IsRequest(more') /\ more'.phase \in {"select", "answer"}
    BY <1>2, ServedRequest DEF ServeMore, Lock
  <2>2. more.phase # "none"
    BY <1>2 DEF ServeMore
  <2>3. UNCHANGED <<busy, loading, exact, load, loadingMore>>
    BY <1>2 DEF ServeMore, flags
  <2> QED BY <2>1, <2>2, <2>3, Zenon DEF Lock, SpinnerHonest, IsRequest, Phase
<1>3. CASE Tick
  BY <1>3, Zenon DEF Tick, flags, Lock, SpinnerHonest, IsRequest
<1>4. CASE Ingested
  <2>1. exact' \in BOOLEAN
    BY <1>4, Zenon DEF Ingested, Lock
  <2> QED BY <1>4, <2>1, Zenon DEF Ingested, flags, Lock, SpinnerHonest, IsRequest
<1>5. CASE LoadDone
  <2>1. load.phase # "none" /\ Finish /\ UNCHANGED <<more, loadingMore>>
    BY <1>5 DEF LoadDone
  <2>2. exact' \in BOOLEAN
    BY <1>5, Zenon DEF LoadDone
  <2> QED BY <2>1, <2>2, FinishKeepsLock
<1>6. CASE LoadFails
  <2>1. load.phase # "none" /\ Finish /\ UNCHANGED <<more, loadingMore>>
    BY <1>6 DEF LoadFails
  <2>2. exact' \in BOOLEAN
    BY <1>6, Zenon DEF LoadFails, Lock
  <2> QED BY <2>1, <2>2, FinishKeepsLock
<1>7. CASE MoreDone
  <2>1. IsRequest(more') /\ more'.phase = "none"
    BY <1>7, NoRequestIsRequest DEF MoreDone
  <2>2. loadingMore' = FALSE /\ UNCHANGED <<busy, loading, exact, load>>
    BY <1>7, Zenon DEF MoreDone
  <2> QED BY <2>1, <2>2, Zenon DEF Lock, SpinnerHonest, IsRequest, Phase
<1>8. CASE MoreFails
  <2>1. IsRequest(more') /\ more'.phase = "none"
    BY <1>8, NoRequestIsRequest DEF MoreFails
  <2>2. loadingMore' = FALSE /\ UNCHANGED <<busy, loading, exact, load>>
    BY <1>8, Zenon DEF MoreFails
  <2> QED BY <2>1, <2>2, Zenon DEF Lock, SpinnerHonest, IsRequest, Phase
<1>9. CASE Poll
  BY <1>9, LoadKeepsLock DEF Poll
<1>10. CASE LoadMore
  <2>1. IsRequest(more') /\ more'.phase = "count"
    BY <1>10, SMT DEF LoadMore, Sent, Fresh, IsRequest
  <2>2. loadingMore' = TRUE /\ UNCHANGED <<busy, loading, exact, load>>
    BY <1>10, Zenon DEF LoadMore
  <2> QED BY <2>1, <2>2, Zenon DEF Lock, SpinnerHonest, IsRequest, Phase
<1>11. CASE Refresh
  BY <1>11, LoadKeepsLock DEF Refresh
<1>12. CASE TogglePause
  BY <1>12, Zenon DEF TogglePause, Lock, SpinnerHonest, IsRequest
<1>13. ASSUME NEW f \in Filter, SetFilters(f) PROVE Lock' /\ SpinnerHonest'
  BY <1>13, LoadKeepsLock DEF SetFilters
<1>14. CASE UNCHANGED vars
  BY <1>14, Zenon DEF vars, flags, Lock, SpinnerHonest, IsRequest
<1> QED
  BY <1>1, <1>2, <1>3, <1>4, <1>5, <1>6, <1>7, <1>8, <1>9, <1>10, <1>11, <1>12, <1>13,
     <1>14, Zenon DEF Next, Server, Answers, User

-----------------------------------------------------------------------------
(* The types.                                                              *)

LEMMA TypeInit == Init => TypeOK
<1> SUFFICES ASSUME Init PROVE TypeOK
  OBVIOUS
<1>1. /\ filters \in Filter /\ now \in 0..MaxTime
      /\ stored \in 0..MaxAlerts /\ \A n \in 1..stored : Stamp[n] <= now
  BY DEF Init, Filter
<1>2. Sent(filters, 0, TRUE) \in Request /\ NoRequest(filters) \in Request
  BY <1>1, RequestTypes
<1>3. load \in Request /\ more \in Request
  BY <1>2 DEF Init
<1>4. list \in Seq(1..MaxAlerts)
  BY DEF Init
<1>5. {loading, loadingMore, hasMore, paused, error, busy, exact} \subseteq BOOLEAN
  BY DEF Init
<1>6. offset \in Nat /\ acts \in Nat /\ faults \in Nat
  BY DEF Init
<1> QED BY <1>1, <1>3, <1>4, <1>5, <1>6 DEF TypeOK

LEMMA TypeStep ==
    ASSUME TypeOK, [Next]_vars
    PROVE  TypeOK'
<1> USE DEF TypeOK
<1>1. ASSUME NEW f \in Filter, NEW spinner \in BOOLEAN, Load(f, spinner)
      PROVE  /\ loading' \in BOOLEAN /\ error' \in BOOLEAN /\ busy' \in BOOLEAN
             /\ exact' \in BOOLEAN /\ offset' \in Nat /\ load' \in Request
  <2>1. Sent(f, 0, spinner) \in Request
    BY RequestTypes
  <2>2. {loading, error, busy, exact} \subseteq BOOLEAN /\ offset \in Nat /\ load \in Request
    OBVIOUS
  <2>3. CASE busy
    BY <1>1, <2>2, <2>3 DEF Load
  <2>4. CASE ~busy
    <3>1. /\ busy' = TRUE /\ error' = FALSE /\ offset' = 0 /\ exact' = FALSE
          /\ loading' = (loading \/ spinner) /\ load' = Sent(f, 0, spinner)
      BY <1>1, <2>4 DEF Load
    <3> QED BY <2>1, <2>2, <3>1
  <2> QED BY <2>3, <2>4
<1>2. /\ load.filter \in Filter /\ load.rows \in Seq(1..MaxAlerts) /\ NoRequest(load.filter) \in Request
      /\ more.filter \in Filter /\ more.rows \in Seq(1..MaxAlerts) /\ NoRequest(more.filter) \in Request
      /\ more.offset \in Nat /\ load.spinner \in BOOLEAN
  <2>1. load \in Request /\ more \in Request
    OBVIOUS
  <2> QED BY <2>1, RequestTypes DEF Request
<1>3. ASSUME Finish
      PROVE  loading' \in BOOLEAN /\ busy' \in BOOLEAN /\ load' \in Request
  BY <1>2, <1>3 DEF Finish
<1>4. CASE ServeLoad
  <2>1. load' \in Request
    BY <1>4, RequestTypes DEF ServeLoad
  <2> QED BY <1>4, <2>1 DEF ServeLoad, table, flags
<1>5. CASE ServeMore
  <2>1. more' \in Request
    BY <1>5, RequestTypes DEF ServeMore
  <2> QED BY <1>5, <2>1 DEF ServeMore, table, flags
<1>6. CASE Tick
  BY <1>6 DEF Tick, flags
<1>7. CASE Ingested
  BY <1>7 DEF Ingested, flags
<1>8. CASE LoadDone
  <2>1. Finish /\ list' \in Seq(1..MaxAlerts) /\ hasMore' \in BOOLEAN /\ exact' \in BOOLEAN
    BY <1>2, <1>8 DEF LoadDone
  <2> QED BY <1>3, <1>8, <2>1 DEF LoadDone, table
<1>9. CASE LoadFails
  BY <1>3, <1>9 DEF LoadFails, Fault, table
<1>10. CASE MoreDone
  <2>1. list \in Seq(1..MaxAlerts)
    OBVIOUS
  <2>2. list' \in Seq(1..MaxAlerts)
    BY <1>2, <1>10, <2>1, ConcatProperties DEF MoreDone
  <2>3. /\ more' \in Request /\ offset' \in Nat
        /\ hasMore' \in BOOLEAN /\ loadingMore' \in BOOLEAN
    BY <1>2, <1>10 DEF MoreDone
  <2>4. UNCHANGED <<table, filters, loading, paused, error, busy, load, exact, acts, faults>>
    BY <1>10 DEF MoreDone
  <2> QED BY <2>2, <2>3, <2>4 DEF table
<1>11. CASE MoreFails
  <2>1. more' \in Request
    BY <1>2, <1>11 DEF MoreFails
  <2>2. /\ error' = TRUE /\ loadingMore' = FALSE /\ faults' = faults + 1
        /\ UNCHANGED <<table, filters, list, loading, hasMore, paused, busy, offset, load, exact, acts>>
    BY <1>11 DEF MoreFails, Fault
  <2>3. {loading, loadingMore, hasMore, paused, error, busy, exact}' \subseteq BOOLEAN
    <3>1. {loading, hasMore, paused, busy, exact} \subseteq BOOLEAN
      OBVIOUS
    <3> QED BY <2>2, <3>1
  <2>4. now' \in 0..MaxTime /\ stored' \in 0..MaxAlerts /\ (\A n \in 1..stored' : Stamp[n] <= now') /\ faults' \in Nat /\ offset' \in Nat
    BY <2>2 DEF table
  <2>5. filters' \in Filter /\ list' \in Seq(1..MaxAlerts) /\ load' \in Request /\ acts' \in Nat
    BY <2>2
  <2> QED BY <2>1, <2>3, <2>4, <2>5
<1>12. CASE Poll
  BY <1>1, <1>12 DEF Poll, table
<1>13. CASE LoadMore
  <2>1. offset + PageSize \in Nat /\ filters \in Filter
    OBVIOUS
  <2>2. more' \in Request
    BY <1>13, <2>1, RequestTypes DEF LoadMore
  <2> QED BY <1>13, <2>2 DEF LoadMore, table
<1>14. CASE Refresh
  <2>1. Load(filters, TRUE) /\ filters \in Filter
    BY <1>14 DEF Refresh
  <2>2. /\ UNCHANGED <<table, filters, list, loadingMore, hasMore, paused, more, faults>>
        /\ acts' = acts + 1
    BY <1>14 DEF Refresh, Act
  <2>3. /\ loading' \in BOOLEAN /\ error' \in BOOLEAN /\ busy' \in BOOLEAN
        /\ exact' \in BOOLEAN /\ offset' \in Nat /\ load' \in Request
    BY <1>1, <2>1
  <2> QED BY <2>1, <2>2, <2>3 DEF table
<1>15. CASE TogglePause
  BY <1>15 DEF TogglePause, Act, table
<1>16. ASSUME NEW f \in Filter, SetFilters(f) PROVE TypeOK'
  <2>1. /\ Load(f, TRUE) /\ filters' = f /\ acts' = acts + 1
        /\ UNCHANGED <<table, list, loadingMore, hasMore, paused, more, faults>>
    BY <1>16 DEF SetFilters, Act
  <2>2. /\ loading' \in BOOLEAN /\ error' \in BOOLEAN /\ busy' \in BOOLEAN
        /\ exact' \in BOOLEAN /\ offset' \in Nat /\ load' \in Request
    BY <1>1, <2>1
  <2> QED BY <2>1, <2>2 DEF table
<1>17. CASE UNCHANGED vars
  BY <1>17 DEF vars, table, flags
<1> HIDE DEF TypeOK
<1> QED
  BY <1>4, <1>5, <1>6, <1>7, <1>8, <1>9, <1>10, <1>11, <1>12, <1>13, <1>14, <1>15,
     <1>16, <1>17 DEF Next, Server, Answers, User

-----------------------------------------------------------------------------
(* The pages.                                                              *)

\* A load that is not dropped disturbs the paging; one that is dropped finds it
\* disturbed.
LEMMA LoadDisturbs ==
    ASSUME IInv, NEW f, NEW spinner, Load(f, spinner)
    PROVE  exact' = FALSE
<1>1. CASE busy
  BY <1>1, Zenon DEF Load, IInv, Lock, Undisturbed
<1>2. CASE ~busy
  BY <1>2, Zenon DEF Load
<1> QED BY <1>1, <1>2

\* What is shown and asked for stays, and so does what the server says.
LEMMA NothingMoves ==
    ASSUME IInv, UNCHANGED <<stored, filters, list, hasMore, offset, load, more, exact>>
    PROVE  Undisturbed'
<1>1. Chosen' = Chosen
  BY RowsStay
<1> QED BY <1>1, Zenon DEF IInv, Undisturbed, InPlace

LEMMA MoreDoneFits ==
    ASSUME IInv, MoreDone
    PROVE  Undisturbed'
<1> SUFFICES ASSUME exact' PROVE Undisturbed'
  BY Zenon DEF Undisturbed
<1> DEFINE c == Cardinality(Chosen)
           k == more.offset
<1>1. exact /\ UNCHANGED <<stored, filters, load, exact>>
  BY Zenon DEF MoreDone, table
<1>2. Chosen' = Chosen
  BY <1>1, RowsStay
<1>3. /\ more.phase = "answer" /\ more.filter = filters /\ k = offset + PageSize
      /\ more.total = c /\ more.rows \in Pages(Chosen, k, PageSize)
      /\ Len(list) = Lesser(c, k) /\ InPlace(list, 0, Chosen)
      /\ load.phase = "none"
  BY <1>1 DEF MoreDone, IInv, Undisturbed
<1>4. /\ list' = list \o more.rows /\ offset' = k
      /\ hasMore' = (Len(more.rows) >= PageSize /\ k + Len(more.rows) < c)
      /\ more'.phase = "none"
  BY <1>3, NoRequestIsRequest DEF MoreDone
<1>5. /\ k \in Nat /\ c \in Nat /\ Chosen \in SUBSET (1..MaxAlerts)
      /\ list \in Seq(1..MaxAlerts)
  <2>1. filters \in Filter /\ more \in Request /\ list \in Seq(1..MaxAlerts)
    BY DEF IInv, TypeOK
  <2> QED BY <2>1, ChosenAlerts DEF Chosen, Request
<1>6. /\ Len(list') = Lesser(c, k + PageSize) /\ InPlace(list', 0, Chosen)
      /\ k + PageSize < c => Len(more.rows) = PageSize
  BY <1>3, <1>4, <1>5, NextPage
<1> HIDE DEF c, k
<1>7. Len(list') < c => hasMore'
  <2>1. HAVE Len(list') < c
  <2>2. k + PageSize < c
    BY <1>5, <1>6, <2>1 DEF Lesser
  <2>3. Len(more.rows) >= PageSize /\ k + Len(more.rows) < c
    BY <1>5, <1>6, <2>2
  <2> QED BY <1>4, <2>3, Zenon
<1>8. InPlace(list, 0, Chosen)'
  BY <1>2, <1>6 DEF InPlace
<1> QED BY <1>1, <1>2, <1>3, <1>4, <1>6, <1>7, <1>8 DEF Undisturbed, c

LEMMA LoadDoneFits ==
    ASSUME IInv, LoadDone
    PROVE  Undisturbed'
<1> SUFFICES ASSUME exact' PROVE Undisturbed'
  BY Zenon DEF Undisturbed
<1> DEFINE c == Cardinality(Chosen)
<1>1. /\ more.phase = "none" /\ offset = 0 /\ load.rows \in Pages(Chosen, 0, PageSize)
      /\ load.total = c
  BY Zenon DEF LoadDone, Chosen
<1>2. UNCHANGED <<stored, filters, offset, more>> /\ load'.phase = "none"
  BY NoRequestIsRequest DEF LoadDone, Finish, table
<1>3. Chosen' = Chosen
  BY <1>2, RowsStay
<1>4. c \in Nat /\ Chosen \in SUBSET (1..MaxAlerts)
  BY ChosenAlerts DEF IInv, TypeOK, Chosen
<1>5. InPlace(load.rows, 0, Chosen) /\ Len(load.rows) = Lesser(c, 0 + PageSize) - Lesser(c, 0)
  BY <1>1, <1>4, PageRows
<1> HIDE DEF c
<1>6. Len(load.rows) = Lesser(c, PageSize)
  BY <1>4, <1>5 DEF Lesser
<1>7. list' = load.rows /\ hasMore' = (Len(load.rows) >= PageSize /\ Len(load.rows) < c)
  BY <1>1 DEF LoadDone
<1>8. Len(list') = Lesser(c, 0 + PageSize)
  BY <1>4, <1>6, <1>7
<1>9. Len(load.rows) < c => Len(load.rows) >= PageSize
  BY <1>4, <1>6 DEF Lesser
<1>10. Len(list') < c => hasMore'
  BY <1>7, <1>9, Zenon
<1>11. InPlace(list, 0, Chosen)'
  BY <1>3, <1>5, <1>7 DEF InPlace
<1> QED BY <1>1, <1>2, <1>3, <1>8, <1>10, <1>11 DEF Undisturbed, c

\* An alert that the filters do not select changes none of their rows.
LEMMA IngestedFits ==
    ASSUME IInv, Ingested
    PROVE  Undisturbed'
<1> SUFFICES ASSUME exact' PROVE Undisturbed'
  BY Zenon DEF Undisturbed
<1>1. /\ exact /\ ~(stored + 1 \in Selected[filters.kind] /\ Stamp[stored + 1] <= filters.stop)
      /\ stored' = stored + 1
      /\ UNCHANGED <<filters, list, hasMore, offset, load, more>>
  BY Zenon DEF Ingested, flags
<1>2. Matching(filters)' = Matching(filters)
  <2>1. filters.kind \in Kind /\ stored \in Nat /\ Selected[filters.kind] \subseteq Nat
    BY DEF IInv, TypeOK, Filter
  <2>2. \A n \in Selected[filters.kind] :
           (n <= stored + 1 /\ Stamp[n] <= filters.stop) <=> (n <= stored /\ Stamp[n] <= filters.stop)
    <3> SUFFICES ASSUME NEW n \in Selected[filters.kind], n <= stored + 1, Stamp[n] <= filters.stop
                 PROVE  n <= stored
      BY <2>1
    <3>1. n # stored + 1
      BY <1>1
    <3> QED BY <2>1, <3>1
  <2> QED BY <1>1, <2>2 DEF Matching
<1>3. Chosen' = Chosen
  BY <1>2, SameRows
<1> QED BY <1>1, <1>3, Zenon DEF IInv, Undisturbed, InPlace

LEMMA ServeMoreFits ==
    ASSUME IInv, ServeMore
    PROVE  Undisturbed'
<1> SUFFICES ASSUME exact' PROVE Undisturbed'
  BY Zenon DEF Undisturbed
<1>1. /\ exact /\ more' \in Served(more) /\ more.phase \in {"count", "select"}
      /\ UNCHANGED <<stored, filters, list, hasMore, offset, load>>
  BY Zenon DEF ServeMore, flags, table
<1>2. Chosen' = Chosen
  BY <1>1, RowsStay
<1>3. /\ more.filter = filters /\ more.offset = offset + PageSize
      /\ more.phase = "select" => more.total = Cardinality(Chosen)
  BY <1>1 DEF IInv, Undisturbed
<1>4. /\ more'.filter = filters /\ more'.offset = more.offset
      /\ \/ more'.phase = "select" /\ more'.total = Cardinality(Chosen)
         \/ /\ more'.phase = "answer" /\ more'.total = Cardinality(Chosen)
            /\ more'.rows \in Pages(Chosen, more.offset, PageSize)
  BY <1>1, <1>3, ServedRequest DEF IInv, Lock, Chosen
<1>5. more'.phase = "answer" => more'.rows \in Pages(Chosen', more'.offset, PageSize)
  BY <1>2, <1>4, Zenon
<1>6. /\ more'.phase # "none" /\ more'.total = Cardinality(Chosen)
      /\ more'.offset = offset' + PageSize
  BY <1>1, <1>3, <1>4
<1>7. /\ load'.phase = "none" /\ Len(list') = Lesser(Cardinality(Chosen), offset' + PageSize)
      /\ InPlace(list, 0, Chosen)' /\ (Len(list') < Cardinality(Chosen) => hasMore')
  BY <1>1, <1>2, Zenon DEF IInv, Undisturbed, InPlace
<1> QED BY <1>1, <1>2, <1>4, <1>5, <1>6, <1>7, Zenon DEF Undisturbed

LEMMA LoadMoreFits ==
    ASSUME IInv, LoadMore
    PROVE  Undisturbed'
<1> SUFFICES ASSUME exact' PROVE Undisturbed'
  BY Zenon DEF Undisturbed
<1>1. exact /\ UNCHANGED <<stored, filters, list, hasMore, offset, load>>
  BY Zenon DEF LoadMore, table
<1>2. Chosen' = Chosen
  BY <1>1, RowsStay
<1>3. more'.phase = "count" /\ more'.filter = filters /\ more'.offset = offset + PageSize
  BY SMT DEF LoadMore, Sent, Fresh
<1>4. /\ load'.phase = "none" /\ Len(list') = Lesser(Cardinality(Chosen), offset' + PageSize)
      /\ InPlace(list, 0, Chosen)' /\ (Len(list') < Cardinality(Chosen) => hasMore')
  BY <1>1, <1>2, Zenon DEF IInv, Undisturbed, InPlace
<1> QED BY <1>1, <1>2, <1>3, <1>4 DEF Undisturbed

LEMMA UndisturbedStep ==
    ASSUME IInv, [Next]_vars
    PROVE  Undisturbed'
<1>1. CASE ServeLoad
  <2>1. ~exact'
    BY <1>1, Zenon DEF ServeLoad, IInv, Undisturbed
  <2> QED BY <2>1, Zenon DEF Undisturbed
<1>2. CASE ServeMore
  BY <1>2, ServeMoreFits
<1>3. CASE Tick
  BY <1>3, NothingMoves DEF Tick, flags
<1>4. CASE Ingested
  BY <1>4, IngestedFits
<1>5. CASE LoadDone
  BY <1>5, LoadDoneFits
<1>6. CASE LoadFails
  <2>1. ~exact'
    BY <1>6, Zenon DEF LoadFails, IInv, Undisturbed
  <2> QED BY <2>1, Zenon DEF Undisturbed
<1>7. CASE MoreDone
  BY <1>7, MoreDoneFits
<1>8. CASE MoreFails
  <2> SUFFICES ASSUME exact' PROVE Undisturbed'
    BY Zenon DEF Undisturbed
  <2>1. exact /\ UNCHANGED <<stored, filters, list, hasMore, offset, load>>
    BY <1>8, Zenon DEF MoreFails, table
  <2>2. Chosen' = Chosen
    BY <2>1, RowsStay
  <2>3. more'.phase = "none"
    BY <1>8, NoRequestIsRequest DEF MoreFails
  <2>4. /\ load'.phase = "none" /\ Len(list') = Lesser(Cardinality(Chosen), offset' + PageSize)
        /\ InPlace(list, 0, Chosen)' /\ (Len(list') < Cardinality(Chosen) => hasMore')
    BY <2>1, <2>2, Zenon DEF IInv, Undisturbed, InPlace
  <2> QED BY <2>1, <2>2, <2>3, <2>4 DEF Undisturbed
<1>9. CASE Poll
  <2>1. exact' = FALSE
    BY <1>9, LoadDisturbs DEF Poll
  <2> QED BY <2>1, Zenon DEF Undisturbed
<1>10. CASE LoadMore
  BY <1>10, LoadMoreFits
<1>11. CASE Refresh
  <2>1. exact' = FALSE
    BY <1>11, LoadDisturbs DEF Refresh
  <2> QED BY <2>1, Zenon DEF Undisturbed
<1>12. CASE TogglePause
  BY <1>12, NothingMoves DEF TogglePause, table
<1>13. ASSUME NEW f \in Filter, SetFilters(f) PROVE Undisturbed'
  <2>1. exact' = FALSE
    BY <1>13, LoadDisturbs DEF SetFilters
  <2> QED BY <2>1, Zenon DEF Undisturbed
<1>14. CASE UNCHANGED vars
  BY <1>14, NothingMoves DEF vars, table, flags
<1> QED
  BY <1>1, <1>2, <1>3, <1>4, <1>5, <1>6, <1>7, <1>8, <1>9, <1>10, <1>11, <1>12,
     <1>13, <1>14, Zenon DEF Next, Server, Answers, User

-----------------------------------------------------------------------------
(* Theorems.                                                               *)

LEMMA IInvHolds == Spec => []IInv
<1>1. Init => IInv
  <2> SUFFICES ASSUME Init PROVE IInv
    OBVIOUS
  <2>1. exact = FALSE
    BY Zenon DEF Init
  <2> QED BY <2>1, TypeInit, LockInit, Zenon DEF IInv, Undisturbed
<1>2. IInv /\ [Next]_vars => IInv'
  <2> SUFFICES ASSUME IInv, [Next]_vars PROVE IInv'
    OBVIOUS
  <2>1. TypeOK' /\ Lock' /\ SpinnerHonest'
    BY TypeStep, LockStep DEF IInv
  <2> QED BY <2>1, UndisturbedStep DEF IInv
<1> QED BY <1>1, <1>2, PTL DEF Spec

\* The types of the table, the page and its requests.
THEOREM TypeCorrect == Spec => []TypeOK
<1>1. IInv => TypeOK
  BY DEF IInv
<1> QED BY <1>1, IInvHolds, PTL

\* load() shows and takes away its spinner, whatever calls the lock drops.
THEOREM SpinnerIsHonest == Spec => []SpinnerHonest
<1>1. IInv => SpinnerHonest
  BY DEF IInv
<1> QED BY <1>1, IInvHolds, PTL

\* The pages that load() and loadMore() put together hold each row at one of its
\* places, an alert alone at its instant once, and loadMore() is offered while
\* rows are left, as long as nothing came between.
THEOREM RowsAreReachable == Spec => []RowsReachable
<1>1. IInv => PagesFit
  <2> SUFFICES ASSUME IInv, exact PROVE PagesFit
    BY DEF PagesFit
  <2>1. list \in Seq(1..MaxAlerts)
    BY DEF IInv, TypeOK
  <2>2. \A i \in 1..Len(list) : 0 + i = i
    BY <2>1
  <2> QED BY <2>1, <2>2 DEF IInv, Undisturbed, PagesFit, InPlace, Chosen
<1>2. IInv => EachOnce
  <2> SUFFICES ASSUME IInv, exact, NEW n \in Chosen, NEW p \in 1..Len(list), Places(n, Chosen) = {p}
               PROVE  list[p] = n /\ \A i \in DOMAIN list : list[i] = n => i = p
    BY DEF EachOnce, Chosen
  <2>1. list \in Seq(1..MaxAlerts) /\ Chosen \in SUBSET (1..MaxAlerts)
    BY ChosenAlerts DEF IInv, TypeOK, Chosen
  <2>2. \A i \in DOMAIN list : list[i] \in Chosen /\ i \in Places(list[i], Chosen)
    BY <1>1 DEF PagesFit, Chosen
  <2>3. p \in DOMAIN list
    BY <2>1
  <2>4. Stamp[list[p]] = Stamp[n]
    <3>1. p \in Places(list[p], Chosen) /\ p \in Places(n, Chosen) /\ list[p] \in Chosen
      BY <2>2, <2>3
    <3> QED BY <2>1, <3>1, SamePlace
  <2>5. list[p] = n
    BY <2>1, <2>2, <2>3, <2>4, OnePlace
  <2>6. ASSUME NEW i \in DOMAIN list, list[i] = n PROVE i = p
    BY <2>2, <2>6
  <2> QED BY <2>5, <2>6
<1>3. IInv => MoreOffered
  BY DEF IInv, Undisturbed, MoreOffered, Chosen
<1>4. IInv => RowsReachable
  BY <1>1, <1>2, <1>3 DEF RowsReachable
<1> QED BY <1>4, IInvHolds, PTL
=============================================================================
