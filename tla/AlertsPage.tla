----------------------------- MODULE AlertsPage -----------------------------
(***************************************************************************)
(* The alerts page (frontend/src/hooks/useAlertsData.ts, pages/Alerts.tsx) *)
(* against the table ids_alerts and GET /alerts.  Alerts are numbered as   *)
(* they are inserted; a filter is the end of its time window and a kind,   *)
(* which stands for the begin of the window, severity, addresses and       *)
(* signature.  Handlers of the page are atomic, requests are not: the      *)
(* server counts, selects and answers in steps of their own.               *)
(***************************************************************************)
EXTENDS NewestFirst, Sequences

CONSTANTS
    MaxAlerts,      \* bound: alerts that happen
    MaxTime,        \* bound: the clock
    Kind,           \* the kinds of filters
    Selected,       \* the alerts that a kind selects
    PageSize,       \* PAGE_SIZE
    MaxActs,        \* bound: what the user does, Load More aside
    MaxFaults,      \* bound: requests that fail
    MaxOffset       \* bound: offset of a request (it grows with every loadMore()
                    \* that a poll overtakes)

ASSUME AlertsAssumption ==
    /\ MaxAlerts \in Nat /\ MaxTime \in Nat /\ PageSize \in Nat \ {0}
    /\ Stamp \in [1..MaxAlerts -> Nat]
    /\ Kind # {}
    /\ Selected \in [Kind -> SUBSET (1..MaxAlerts)]
    /\ MaxActs \in Nat /\ MaxFaults \in Nat /\ MaxOffset \in Nat

VARIABLES
    now,            \* the time
    stored,         \* the last alert that the ingest inserted
    filters,        \* filters of the page
    list,           \* alerts: the rows shown
    loading,        \* loading, loadingMore, hasMore, paused, error of the hook
    loadingMore,
    hasMore,
    paused,
    error,
    offset,         \* offsetRef
    busy,           \* isLoadingRef
    load,           \* the requests of load(), or NoRequest
    more,           \* the request of loadMore(), or NoRequest
    exact,          \* auxiliary: no load, failure or insert disturbed the paging
    acts,           \* user actions so far
    faults          \* failed requests so far

table == <<now, stored>>
flags == <<loading, loadingMore, hasMore, paused, error, busy>>
vars == <<table, filters, list, flags, offset, load, more, exact, acts, faults>>

Filter == [stop : 0..MaxTime, kind : Kind]

Phase == {"none", "count", "select", "answer"}

Request == [phase : Phase, filter : Filter, offset : Nat, spinner : BOOLEAN,
            total : Nat, rows : Seq(1..MaxAlerts)]

-----------------------------------------------------------------------------
(* The server: list_alerts.                                                *)

Matching(f) == {n \in Selected[f.kind] : n <= stored /\ Stamp[n] <= f.stop}

Fresh(phase, f, from, spinner) ==
    [phase |-> phase, filter |-> f, offset |-> from, spinner |-> spinner,
     total |-> 0, rows |-> <<>>]

Sent(f, from, spinner) == Fresh("count", f, from, spinner)

NoRequest(f) == Fresh("none", f, 0, FALSE)

\* total and the rows come from two statements, alerts arrive between them.
Served(r) ==
    IF r.phase = "count"
    THEN {[r EXCEPT !.total = Cardinality(Matching(r.filter)), !.phase = "select"]}
    ELSE {[r EXCEPT !.rows = page, !.phase = "answer"] :
             page \in Pages(Matching(r.filter), r.offset, PageSize)}

ServeLoad ==
    /\ load.phase \in {"count", "select"}
    /\ load' \in Served(load)
    /\ UNCHANGED <<table, filters, list, flags, offset, more, exact, acts, faults>>

ServeMore ==
    /\ more.phase \in {"count", "select"}
    /\ more' \in Served(more)
    /\ UNCHANGED <<table, filters, list, flags, offset, load, exact, acts, faults>>

Tick ==
    /\ now < MaxTime
    /\ now' = now + 1
    /\ UNCHANGED <<stored, filters, list, flags, offset, load, more, exact, acts, faults>>

\* An alert is inserted some time after it happened.
Ingested ==
    /\ stored < MaxAlerts
    /\ Stamp[stored + 1] <= now
    /\ stored' = stored + 1
    /\ exact' = (exact /\ ~(stored + 1 \in Selected[filters.kind] /\ Stamp[stored + 1] <= filters.stop))
    /\ UNCHANGED <<now, filters, list, flags, offset, load, more, acts, faults>>

-----------------------------------------------------------------------------
(* load(showSpinner), called with the filters of the render.               *)

\* Mutant: the spinner is shown before the lock is tried.
Load_SpinsFirst(f, spinner) ==
    IF busy
    THEN /\ loading' = (loading \/ spinner)
         /\ UNCHANGED <<error, offset, load, busy, exact>>
    ELSE /\ busy' = TRUE /\ error' = FALSE /\ offset' = 0 /\ exact' = FALSE
         /\ loading' = (loading \/ spinner)
         /\ load' = Sent(f, 0, spinner)

\* A call while another is under way does nothing at all.
Load(f, spinner) ==
    IF busy
    THEN UNCHANGED <<loading, error, offset, load, busy, exact>>
    ELSE /\ busy' = TRUE /\ error' = FALSE /\ offset' = 0 /\ exact' = FALSE
         /\ loading' = (loading \/ spinner)
         /\ load' = Sent(f, 0, spinner)

\* finally.
Finish ==
    /\ loading' = (loading /\ ~load.spinner)
    /\ busy' = FALSE
    /\ load' = NoRequest(load.filter)

\* The page is mounted: its first load has begun.
Init ==
    /\ now \in 0..MaxTime
    /\ stored \in 0..MaxAlerts /\ \A n \in 1..stored : Stamp[n] <= now
    /\ filters \in {[stop |-> now, kind |-> k] : k \in Kind}
    /\ list = <<>> /\ offset = 0
    /\ loading = TRUE /\ loadingMore = FALSE /\ hasMore = TRUE
    /\ paused = FALSE /\ error = FALSE
    /\ busy = TRUE /\ load = Sent(filters, 0, TRUE)
    /\ more = NoRequest(filters)
    /\ exact = FALSE /\ acts = 0 /\ faults = 0

LoadDone ==
    /\ load.phase = "answer"
    /\ list' = load.rows
    /\ hasMore' = (Len(load.rows) >= PageSize /\ Len(load.rows) < load.total)
    /\ Finish
    /\ exact' = (/\ more.phase = "none" /\ offset = 0 /\ load.filter = filters
                 /\ load.rows \in Pages(Matching(filters), 0, PageSize)
                 /\ load.total = Cardinality(Matching(filters)))
    /\ UNCHANGED <<table, filters, loadingMore, paused, error, offset, more, acts, faults>>

Fault ==
    /\ faults < MaxFaults
    /\ faults' = faults + 1

\* Mutant: nothing after a failure, for want of a finally.
LoadFails_NoFinally ==
    /\ Fault
    /\ load.phase # "none"
    /\ error' = TRUE
    /\ load' = NoRequest(load.filter)
    /\ UNCHANGED <<table, filters, list, loading, busy, loadingMore, hasMore, paused, offset, more, exact, acts>>

\* One of the three requests is refused, lost or times out after 30 s.
LoadFails ==
    /\ Fault
    /\ load.phase # "none"
    /\ error' = TRUE
    /\ Finish
    /\ UNCHANGED <<table, filters, list, loadingMore, hasMore, paused, offset, more, exact, acts>>

\* The interval of the effect, which is set while the page is not paused.
Poll ==
    /\ ~paused
    /\ ~busy
    /\ Load(filters, FALSE)
    /\ UNCHANGED <<table, filters, list, loadingMore, hasMore, paused, more, acts, faults>>

-----------------------------------------------------------------------------
(* loadMore().                                                             *)

\* Mutant: the page before.
LoadMore_Backwards ==
    /\ hasMore /\ list # <<>> /\ ~loadingMore
    /\ loadingMore' = TRUE
    /\ offset + PageSize <= MaxOffset
    /\ more' = Sent(filters, offset - PageSize, FALSE)
    /\ UNCHANGED <<table, filters, list, loading, hasMore, paused, error, busy,
                   offset, load, exact, acts, faults>>

LoadMore ==
    /\ hasMore /\ list # <<>> /\ ~loadingMore
    /\ loadingMore' = TRUE
    /\ offset + PageSize <= MaxOffset
    /\ more' = Sent(filters, offset + PageSize, FALSE)
    /\ UNCHANGED <<table, filters, list, loading, hasMore, paused, error, busy,
                   offset, load, exact, acts, faults>>

\* Mutant: the offset moves when the request is sent, not when it is answered.
MoreDone_OffByOnePage ==
    /\ more.phase = "answer"
    /\ list' = list \o more.rows
    /\ offset' = more.offset + PageSize
    /\ hasMore' = (Len(more.rows) >= PageSize /\ more.offset + Len(more.rows) < more.total)
    /\ loadingMore' = FALSE
    /\ more' = NoRequest(more.filter)
    /\ UNCHANGED <<table, filters, loading, paused, error, busy, load, exact, acts, faults>>

MoreDone ==
    /\ more.phase = "answer"
    /\ list' = list \o more.rows
    /\ offset' = more.offset
    /\ hasMore' = (Len(more.rows) >= PageSize /\ more.offset + Len(more.rows) < more.total)
    /\ loadingMore' = FALSE
    /\ more' = NoRequest(more.filter)
    /\ UNCHANGED <<table, filters, loading, paused, error, busy, load, exact, acts, faults>>

MoreFails ==
    /\ Fault
    /\ more.phase # "none"
    /\ error' = TRUE /\ loadingMore' = FALSE
    /\ more' = NoRequest(more.filter)
    /\ UNCHANGED <<table, filters, list, loading, hasMore, paused, busy, offset, load, exact, acts>>

-----------------------------------------------------------------------------
(* The user.                                                               *)

Act ==
    /\ acts < MaxActs
    /\ acts' = acts + 1

\* A preset moves stop to the present, the other fields keep it: the render
\* with new filters calls load(true).
SetFilters(f) ==
    /\ Act
    /\ f # filters
    /\ f.stop \in {filters.stop, now}
    /\ filters' = f
    /\ Load(f, TRUE)
    /\ UNCHANGED <<table, list, loadingMore, hasMore, paused, more, faults>>

\* Refresh and Pause are disabled while the page is loading.
Refresh ==
    /\ Act
    /\ ~loading
    /\ Load(filters, TRUE)
    /\ UNCHANGED <<table, filters, list, loadingMore, hasMore, paused, more, faults>>

TogglePause ==
    /\ Act
    /\ ~loading
    /\ paused' = ~paused
    /\ UNCHANGED <<table, filters, list, loading, loadingMore, hasMore, error, busy,
                   offset, load, more, exact, faults>>

-----------------------------------------------------------------------------

Server == ServeLoad \/ ServeMore \/ Tick \/ Ingested

Answers == LoadDone \/ LoadFails \/ MoreDone \/ MoreFails

User == LoadMore \/ Refresh \/ TogglePause \/ \E f \in Filter : SetFilters(f)

Next == Server \/ Answers \/ Poll \/ User

Spec == Init /\ [][Next]_vars

\* Requests are answered, or fail for good after 30 s; the ingest goes on and
\* the interval ticks. The user need not do anything.
FairSpec ==
    /\ Spec
    /\ WF_vars(ServeLoad) /\ WF_vars(LoadDone) /\ WF_vars(ServeMore) /\ WF_vars(MoreDone)
    /\ WF_vars(Ingested) /\ WF_vars(Poll)

-----------------------------------------------------------------------------
(* Properties.                                                             *)

TypeOK ==
    /\ now \in 0..MaxTime
    /\ stored \in 0..MaxAlerts /\ \A n \in 1..stored : Stamp[n] <= now
    /\ filters \in Filter
    /\ list \in Seq(1..MaxAlerts)
    /\ {loading, loadingMore, hasMore, paused, error, busy, exact} \subseteq BOOLEAN
    /\ offset \in Nat
    /\ load \in Request /\ more \in Request
    /\ acts \in Nat /\ faults \in Nat

\* The spinner turns exactly while a load that shows it is under way, in
\* spite of calls that the lock drops: otherwise Refresh and Pause, disabled
\* while it turns, could be lost for ever.
SpinnerHonest == loading <=> (load.phase # "none" /\ load.spinner)

\* What load() and loadMore() append fits together as long as no other load,
\* failure, filter or late insert comes between: each row of the list is at one
\* of its places among the alerts that the filters select, and the list is as
\* long as its pages.  Of two alerts of one instant two queries may still give
\* one twice and the other never.
PagesFit ==
    exact => /\ Len(list) = Lesser(Cardinality(Matching(filters)), offset + PageSize)
             /\ \A i \in DOMAIN list :
                   list[i] \in Matching(filters) /\ i \in Places(list[i], Matching(filters))

\* An alert that shares its instant with no other has one place, where the list
\* shows it, and nowhere else.
EachOnce ==
    exact => \A n \in Matching(filters), p \in 1..Len(list) :
                Places(n, Matching(filters)) = {p}
                    => list[p] = n /\ \A i \in DOMAIN list : list[i] = n => i = p

\* And then Load More is offered as long as there are rows left.
MoreOffered ==
    exact => (Len(list) < Cardinality(Matching(filters)) => hasMore)

\* So that each instant the filters select can be reached.
RowsReachable == PagesFit /\ EachOnce /\ MoreOffered

\* Whatever was dropped, failed or overtaken: a page left alone and not paused
\* comes to show a first page of its filters, Load More if there are others, and
\* no error.  The end of the filters' window stays where it was set: alerts of
\* a later time are not among them (NewRowsAppear).
Settled ==
    /\ list \in Pages(Matching(filters), 0, PageSize)
    /\ hasMore <=> Cardinality(Matching(filters)) > PageSize
    /\ ~error

SettlesOnFilters ==
    \A f \in Filter :
        <>[](filters = f /\ ~paused /\ ~loadingMore /\ stored = MaxAlerts) => <>[]Settled

\* The alerts stored that a kind of filter selects, and of them those of the
\* latest instant.
Newest(k) ==
    LET S == {n \in Selected[k] : n <= stored}
    IN  {n \in S : \A m \in S : Stamp[m] <= Stamp[n]}

\* A page that is left live, under a kind of filter, comes to show the newest of
\* the alerts stored.
NewRowsAppear ==
    \A k \in Kind :
        <>[](filters.kind = k /\ ~paused)
            => <>[](Newest(k) # {} => \E i \in DOMAIN list : list[i] \in Newest(k))
=============================================================================
