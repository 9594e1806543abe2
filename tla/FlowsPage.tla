------------------------------ MODULE FlowsPage ------------------------------
(***************************************************************************)
(* The flows page (frontend/src/hooks/useFlowsData.ts, pages/Flows.tsx)    *)
(* against the InfluxDB measurement "flow" and GET /traffic/flows.  Flows  *)
(* are numbered by their times.  A filter is the end of its time window    *)
(* and a kind, which stands for protocol, addresses, ports and direction.  *)
(* Handlers of the page are atomic; nothing keeps its loads apart.         *)
(***************************************************************************)
EXTENDS Naturals, SequencesExt

CONSTANTS
    MaxFlows,       \* bound: flows that happen
    NSeries,        \* the tables of a result, as InfluxDB orders them
    SeriesOf,       \* the table of a flow: its addresses and protocol
    Kind,           \* the kinds of filters
    Selected,       \* the flows that the query of a kind selects
    Directed,       \* the tables that have the direction of a kind (or all)
    PageSize,       \* PAGE_SIZE
    MaxActs,        \* bound: what the user does, Load More aside
    MaxFaults       \* bound: requests that fail

Series == 1..NSeries

ASSUME FlowsAssumption ==
    /\ {MaxFlows, NSeries, MaxActs, MaxFaults} \subseteq Nat /\ PageSize \in Nat \ {0}
    /\ SeriesOf \in [1..MaxFlows -> Series]
    /\ Selected \in [Kind -> SUBSET (1..MaxFlows)]
    /\ Directed \in [Kind -> SUBSET Series]

VARIABLES
    stored,         \* the flows that the ingest has written
    filters,        \* filters of the page
    flows,          \* the rows shown
    loading,        \* loading, loadingMore, hasMore, error of the hook
    loadingMore,
    hasMore,
    error,
    offset,         \* offsetRef
    loads,          \* the request of the first load(), and of the one each act began
    more,           \* the request of loadMore(), or NoRequest
    shown,          \* auxiliary: the filters whose rows are in flows
    overtaken,      \* auxiliary: an older request was or will be answered last
    exact,          \* auxiliary: nothing disturbed the paging
    acts,           \* user actions so far: the newest load
    faults          \* failed requests so far

flags == <<loading, loadingMore, hasMore, error>>
ghosts == <<shown, overtaken, exact>>
vars == <<stored, filters, flows, flags, offset, loads, more, ghosts, acts, faults>>

Filter == [stop : 0..MaxFlows, kind : Kind]
Request == [phase : {"none", "sent", "answer"}, filter : Filter, offset : Nat,
            rows : Seq(1..MaxFlows)]

Sent(f, from) == [phase |-> "sent", filter |-> f, offset |-> from, rows |-> <<>>]
NoRequest == [Sent(CHOOSE f \in Filter : TRUE, 0) EXCEPT !.phase = "none"]

-----------------------------------------------------------------------------
(* The server: get_flows.                                                  *)

Matching(f) == {n \in Selected[f.kind] \cap stored : n <= f.stop}

NewestFirst(S) ==
    FlattenSeq([i \in 1..MaxFlows |->
                  LET n == MaxFlows + 1 - i IN IF n \in S THEN <<n>> ELSE <<>>])

\* The query returns one table for each series, newest first.
Table(f, s) == NewestFirst({n \in Matching(f) : SeriesOf[n] = s})

HasDirection(f) == Directed[f.kind] # Series

\* Mutant: each table is cut at the size of the page.
FetchN_Limit(f, from) == PageSize

\* limit() cuts every table by itself.
FetchN(f, from) == IF HasDirection(f) THEN (from + PageSize) * 4 ELSE from + PageSize

Cut(rows, from, to) == SubSeq(rows, from, IF to < Len(rows) THEN to ELSE Len(rows))

\* The direction is looked at afterwards; that of a record is that of its table.
AllRecords(f, n) ==
    FlattenSeq([s \in Series |->
                  IF s \in Directed[f.kind] THEN Cut(Table(f, s), 1, n) ELSE <<>>])

Page(f, from) == Cut(AllRecords(f, FetchN(f, from)), from + 1, from + PageSize)

ServeLoad(l) ==
    /\ loads[l].phase = "sent"
    /\ loads' = [loads EXCEPT ![l].rows = Page(loads[l].filter, 0), ![l].phase = "answer"]
    /\ UNCHANGED <<stored, filters, flows, flags, offset, more, ghosts, acts, faults>>

ServeMore ==
    /\ more.phase = "sent"
    /\ more' = [more EXCEPT !.rows = Page(more.filter, more.offset), !.phase = "answer"]
    /\ UNCHANGED <<stored, filters, flows, flags, offset, loads, ghosts, acts, faults>>

\* Minutes after the flow, so maybe behind the end of the window.
Ingested(n) ==
    /\ n \notin stored
    /\ stored' = stored \cup {n}
    /\ exact' = (exact /\ ~(n \in Selected[filters.kind] /\ n <= filters.stop))
    /\ UNCHANGED <<filters, flows, flags, offset, loads, more, shown, overtaken, acts, faults>>

-----------------------------------------------------------------------------
(* load(), called with the filters of the render.                          *)

\* Every call goes ahead, whatever is under way.
Load(f) ==
    /\ loading' = TRUE /\ error' = FALSE /\ offset' = 0 /\ exact' = FALSE
    /\ loads' = [loads EXCEPT ![acts'] = Sent(f, 0)]

\* The page is mounted: its first load has begun.
Init ==
    /\ filters \in Filter /\ stored = 1..filters.stop
    /\ flows = <<>> /\ offset = 0
    /\ loading = TRUE /\ loadingMore = FALSE /\ hasMore = TRUE /\ error = FALSE
    /\ loads = [l \in 0..MaxActs |-> IF l = 0 THEN Sent(filters, 0) ELSE NoRequest]
    /\ more = NoRequest
    /\ shown = {} /\ overtaken = FALSE /\ exact = FALSE
    /\ acts = 0 /\ faults = 0

\* finally, of any load.
Finish(l) ==
    /\ loading' = FALSE
    /\ loads' = [loads EXCEPT ![l] = NoRequest]
    /\ overtaken' = (l # acts \/ more.phase # "none")

Undisturbed(l) ==
    /\ \A k \in DOMAIN loads \ {l} : loads[k].phase = "none"
    /\ more.phase = "none" /\ offset = 0
    /\ loads[l].filter = filters /\ loads[l].rows = Page(filters, 0)

LoadDone(l) ==
    /\ loads[l].phase = "answer"
    /\ flows' = loads[l].rows
    /\ hasMore' = (Len(loads[l].rows) >= PageSize)
    /\ Finish(l)
    /\ shown' = {loads[l].filter} /\ exact' = Undisturbed(l)
    /\ UNCHANGED <<stored, filters, loadingMore, error, offset, more, acts, faults>>

Fault ==
    /\ faults < MaxFaults
    /\ faults' = faults + 1

\* Refused, lost or not answered within 30 s.
LoadFails(l) ==
    /\ Fault
    /\ loads[l].phase # "none"
    /\ error' = TRUE /\ flows' = <<>>
    /\ Finish(l)
    /\ shown' = {} /\ exact' = FALSE
    /\ UNCHANGED <<stored, filters, loadingMore, hasMore, offset, more, acts>>

-----------------------------------------------------------------------------
(* loadMore().                                                             *)

\* Mutant: the page before.
LoadMore_Backwards ==
    /\ hasMore /\ flows # <<>> /\ ~loadingMore
    /\ loadingMore' = TRUE
    /\ more' = Sent(filters, offset - PageSize)
    /\ UNCHANGED <<stored, filters, flows, loading, hasMore, error, offset, loads, ghosts, acts, faults>>

LoadMore ==
    /\ hasMore /\ flows # <<>> /\ ~loadingMore
    /\ loadingMore' = TRUE
    /\ more' = Sent(filters, offset + PageSize)
    /\ UNCHANGED <<stored, filters, flows, loading, hasMore, error, offset, loads, ghosts, acts, faults>>

MoreDone ==
    /\ more.phase = "answer"
    /\ offset' = more.offset
    /\ flows' = flows \o more.rows
    /\ hasMore' = (Len(more.rows) >= PageSize)
    /\ loadingMore' = FALSE
    /\ more' = NoRequest
    /\ shown' = shown \cup {more.filter}
    /\ UNCHANGED <<stored, filters, loading, error, loads, overtaken, exact, acts, faults>>

\* Mutant: the button is left as it is after a failure.
MoreFails_NoFinally ==
    /\ Fault
    /\ more.phase # "none"
    /\ error' = TRUE
    /\ more' = NoRequest
    /\ UNCHANGED <<stored, filters, flows, loading, loadingMore, hasMore, offset, loads, ghosts, acts>>

MoreFails ==
    /\ Fault
    /\ more.phase # "none"
    /\ error' = TRUE /\ loadingMore' = FALSE
    /\ more' = NoRequest
    /\ UNCHANGED <<stored, filters, flows, loading, hasMore, offset, loads, ghosts, acts>>

-----------------------------------------------------------------------------
(* The user.                                                               *)

Act ==
    /\ acts < MaxActs
    /\ acts' = acts + 1

\* Mutant: load() depends on the time window only.
SetFilters_StaleLoad(f) ==
    /\ Act
    /\ f # filters
    /\ f.stop >= filters.stop
    /\ filters' = f
    /\ IF f.stop # filters.stop THEN Load(f) ELSE UNCHANGED <<loading, error, offset, loads, exact>>
    /\ UNCHANGED <<stored, flows, loadingMore, hasMore, more, shown, overtaken, faults>>

\* A preset moves stop to the present, the other fields keep it; each key
\* typed into a field is a change. The render with new filters calls load().
SetFilters(f) ==
    /\ Act
    /\ f # filters
    /\ f.stop >= filters.stop
    /\ filters' = f
    /\ Load(f)
    /\ UNCHANGED <<stored, flows, loadingMore, hasMore, more, shown, overtaken, faults>>

\* Disabled while the page is loading.
Refresh ==
    /\ Act
    /\ ~loading
    /\ Load(filters)
    /\ UNCHANGED <<stored, filters, flows, loadingMore, hasMore, more, shown, overtaken, faults>>

-----------------------------------------------------------------------------

Server == (\E l \in 0..MaxActs : ServeLoad(l)) \/ ServeMore

Ingest == \E n \in 1..MaxFlows : Ingested(n)

Answers == MoreDone \/ MoreFails \/ \E l \in 0..MaxActs : LoadDone(l) \/ LoadFails(l)

User == LoadMore \/ Refresh \/ \E f \in Filter : SetFilters(f)

Next == Server \/ Ingest \/ Answers \/ User

Spec == Init /\ [][Next]_vars

-----------------------------------------------------------------------------
(* Properties.                                                             *)

TypeOK ==
    /\ stored \in SUBSET (1..MaxFlows)
    /\ filters \in Filter /\ shown \subseteq Filter
    /\ flows \in Seq(1..MaxFlows)
    /\ {loading, loadingMore, hasMore, error, overtaken, exact} \subseteq BOOLEAN
    /\ offset \in Nat
    /\ loads \in [0..MaxActs -> Request] /\ more \in Request
    /\ acts \in 0..MaxActs /\ faults \in 0..MaxFaults

\* All that the filters select, table after table.
Rows(f) ==
    FlattenSeq([s \in Series |-> IF s \in Directed[f.kind] THEN Table(f, s) ELSE <<>>])

\* Although each query cuts every table by itself, filters the direction
\* afterwards and counts the offset over all of them, the pages fit together
\* while no other load, failure or insert comes between: no gap, no row twice.
PagesFit == exact => flows = Cut(Rows(filters), 1, offset + PageSize)

\* And then Load More is offered as long as there are rows left.
MoreOffered == exact => (Len(flows) < Len(Rows(filters)) => hasMore)

\* So that every row the filters select can be reached, each once.
RowsReachable == PagesFit /\ MoreOffered

\* A page at rest shows rows of the filters chosen and of no others, or
\* nothing and the error, if no request was overtaken by a newer one.
AtRest == more.phase = "none" /\ \A l \in DOMAIN loads : loads[l].phase = "none"

RestsOnFilters ==
    AtRest /\ ~overtaken => shown = {filters} \/ (error /\ flows = <<>>)

\* Neither the spinner, which disables Refresh, nor Load More is left disabled
\* by loads that overlap, finish in another order or fail.
ButtonsReturn ==
    /\ loading => \E l \in DOMAIN loads : loads[l].phase # "none"
    /\ loadingMore <=> more.phase # "none"
=============================================================================
