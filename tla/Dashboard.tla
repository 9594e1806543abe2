------------------------------ MODULE Dashboard ------------------------------
(***************************************************************************)
(* The dashboard (frontend/src/pages/Dashboard.tsx) with the hook that     *)
(* loads its panels (hooks/useTrafficData.ts) and the export of a report.  *)
(* Every change of the filters begins a load of several requests; nothing  *)
(* keeps loads apart.  A filter is a time window in minutes with a         *)
(* protocol and addresses; direction and ports, on which no load depends,  *)
(* are left out.  Handlers run without interruption up to an await.        *)
(***************************************************************************)
EXTENDS TrafficChart, ReportLayout, TopAttacker

CONSTANTS
    Minute,         \* the minutes that have traffic
    Filter,         \* the filters that are chosen, each a time window
    Start,          \* and the minutes whose rollup it selects
    Stop,
    Selected,
    Panel,          \* the requests of one load
    IP,             \* the addresses of attackers
    Trusted,        \* those of GET /firewall/trusted-ips
    Sample,         \* the src_ip of each alert that a report counts
    MaxProtocols,   \* bounds on the tables of a report: rows of the protocols,
    MaxRows,        \* and of the others, of which a request asks for no more
    MaxLoads,       \* bound: loads after the first
    MaxExports,     \* bound: reports asked for
    MaxFaults       \* bound: requests that fail

ASSUME DashboardAssumption ==
    /\ {MaxProtocols, MaxRows, MaxLoads, MaxExports, MaxFaults} \subseteq Nat
    /\ Minute \subseteq Nat /\ IsFiniteSet(Minute)
    /\ Filter # {} /\ "none" \notin Filter
    /\ Start \in [Filter -> Nat] /\ Stop \in [Filter -> Nat]
    /\ Selected \in [Filter -> SUBSET Minute]
    /\ \A f \in Filter : Start[f] < Stop[f]
    /\ "summary" \in Panel
    /\ Trusted \subseteq IP /\ NoIP \notin IP /\ Sample \in Seq(IP \cup {NoIP})

VARIABLES
    stored,         \* the minutes the ingest has written
    filters,        \* filters of the page
    panels,         \* summary, topSources, topDestinations, protocolDist
    loading,        \* loading, error of the hook
    error,
    loads,          \* the requests of each load
    newest,         \* the load begun last
    export,         \* what handleExportPdf holds while it awaits the alerts
    report,         \* what exportDashboardPdf was last given
    overtaken,      \* auxiliary: an older load was or will be answered after a newer
    clicks,         \* reports asked for, requests that failed so far
    faults

flags == <<loading, error>>
exporting == <<export, report, clicks>>
vars == <<stored, filters, panels, flags, loads, newest, exporting, overtaken, faults>>

\* An answer: what was asked for, and the points of GET /traffic/summary; of
\* the other panels only the first matters.
Answer == [filter : Filter, points : SUBSET Minute]
NoAnswer == [filter |-> "none", points |-> {}]
Panels == [Panel -> Answer \cup {NoAnswer}]
NoPanels == [p \in Panel |-> NoAnswer]

LoadState == [phase : {"none", "sent"}, filter : Filter, answers : Panels]
Sent(f) == [phase |-> "sent", filter |-> f, answers |-> NoPanels]
NoLoad == [Sent(CHOOSE f \in Filter : TRUE) EXCEPT !.phase = "none"]

NoExport == [filters |-> "none"]
NoReport == [filters |-> "none"]

-----------------------------------------------------------------------------
(* The server: each request of a load reads by itself.                     *)

Points(f) == {m \in Selected[f] \cap stored : Start[f] <= m /\ m < Stop[f]}

ServeRequest(l, p) ==
    /\ loads[l].phase = "sent" /\ loads[l].answers[p] = NoAnswer
    /\ loads' = [loads EXCEPT ![l].answers[p] =
                     [filter |-> loads[l].filter,
                      points |-> IF p = "summary" THEN Points(loads[l].filter) ELSE {}]]
    /\ UNCHANGED <<stored, filters, panels, flags, newest, exporting, overtaken, faults>>

Ingested(m) ==
    /\ m \notin stored
    /\ stored' = stored \cup {m}
    /\ UNCHANGED <<filters, panels, flags, loads, newest, exporting, overtaken, faults>>

-----------------------------------------------------------------------------
(* load().                                                                 *)

Load(f) ==
    /\ newest < MaxLoads
    /\ newest' = newest + 1
    /\ loading' = TRUE /\ error' = FALSE
    /\ loads' = [loads EXCEPT ![newest + 1] = Sent(f)]

Init ==
    /\ stored \in SUBSET Minute
    /\ filters \in Filter
    /\ panels = NoPanels
    /\ loading = TRUE /\ error = FALSE
    /\ loads = [l \in 0..MaxLoads |-> IF l = 0 THEN Sent(filters) ELSE NoLoad]
    /\ newest = 0
    /\ export = NoExport /\ report = NoReport /\ clicks = 0
    /\ overtaken = FALSE /\ faults = 0

\* finally.
Finish(l) ==
    /\ loading' = FALSE
    /\ loads' = [loads EXCEPT ![l] = NoLoad]
    /\ overtaken' = (l # newest \/ \E k \in DOMAIN loads \ {l} : loads[k].phase = "sent")

\* Mutant: a panel is shown with its request, without waiting for the others.
LoadDone_Settled(l) ==
    /\ loads[l].phase = "sent"
    /\ \E p \in Panel : loads[l].answers[p] # NoAnswer
    /\ panels' = [p \in Panel |-> IF loads[l].answers[p] = NoAnswer THEN panels[p] ELSE loads[l].answers[p]]
    /\ Finish(l)
    /\ UNCHANGED <<stored, filters, error, newest, exporting, faults>>

\* Mutant: the answers are stored as they came, with what was asked for.
LoadDone_Whole(l) ==
    /\ loads[l].phase = "sent"
    /\ \A p \in Panel : loads[l].answers[p] # NoAnswer
    /\ panels' = loads[l]
    /\ Finish(l)
    /\ UNCHANGED <<stored, filters, error, newest, exporting, faults>>

\* Promise.all: when the last request of the load is answered.
LoadDone(l) ==
    /\ loads[l].phase = "sent"
    /\ \A p \in Panel : loads[l].answers[p] # NoAnswer
    /\ panels' = loads[l].answers
    /\ Finish(l)
    /\ UNCHANGED <<stored, filters, error, newest, exporting, faults>>

Fault ==
    /\ faults < MaxFaults
    /\ faults' = faults + 1

\* Any one of the requests is refused, lost or not answered within 30 s.
LoadFails(l) ==
    /\ Fault
    /\ loads[l].phase = "sent"
    /\ error' = TRUE
    /\ Finish(l)
    /\ UNCHANGED <<stored, filters, panels, newest, exporting>>

-----------------------------------------------------------------------------
(* The user.                                                               *)

\* A preset moves stop to the present, the other fields keep it; each key typed
\* into a field is a change.  The effect of the render with new filters loads.
SetFilters(f) ==
    /\ f # filters /\ Stop[f] >= Stop[filters]
    /\ filters' = f
    /\ Load(f)
    /\ UNCHANGED <<stored, panels, exporting, overtaken, faults>>

\* Refresh and Export PDF are disabled while loading.
Refresh ==
    /\ ~loading
    /\ Load(filters)
    /\ UNCHANGED <<stored, filters, panels, exporting, overtaken, faults>>

\* handleExportPdf up to the await: it keeps the filters and panels of the
\* render.  Two at a time are independent and the bound here is one.
HandleExportPdf ==
    /\ ~loading
    /\ export = NoExport /\ clicks < MaxExports
    /\ clicks' = clicks + 1
    /\ export' = [filters |-> filters, panels |-> panels, sure |-> ~overtaken /\ ~error]
    /\ UNCHANGED <<stored, filters, panels, flags, loads, newest, report, overtaken, faults>>

\* The report shows what the render of the click showed; listed: no attacker was
\* looked for without the list of trusted addresses.
Reported(alerts, attacker, listed) ==
    /\ report' = [alerts |-> alerts, attacker |-> attacker, listed |-> listed, filters |-> export.filters,
                  panels |-> export.panels, sure |-> export.sure]
    /\ export' = NoExport
    /\ UNCHANGED <<stored, filters, panels, flags, loads, newest, clicks, overtaken>>

\* Mutant: the filters are those of the page when the alerts arrive.
ExportDone_Current ==
    /\ export # NoExport
    /\ report' = [alerts |-> "some", attacker |-> TopAttackerOf(Sample, Trusted), listed |-> TRUE,
                  filters |-> filters, panels |-> export.panels, sure |-> export.sure]
    /\ export' = NoExport
    /\ UNCHANGED <<stored, filters, panels, flags, loads, newest, clicks, overtaken, faults>>

ExportDone ==
    /\ export # NoExport
    /\ Reported("some", TopAttackerOf(Sample, Trusted), TRUE) \/ Reported("none", NoIP, TRUE)
    /\ UNCHANGED faults

\* fetchTrustedIps().catch: without the list any address may be named.
ExportUntrusted ==
    /\ Fault
    /\ export # NoExport
    /\ Reported("some", TopAttackerOf(Sample, {}), FALSE)

\* Any other request fails: the report is made without the alerts.
ExportFails ==
    /\ Fault
    /\ export # NoExport
    /\ Reported("unavailable", NoIP, TRUE)

-----------------------------------------------------------------------------

Server == \E l \in 0..MaxLoads : \E p \in Panel : ServeRequest(l, p)

Answers == \E l \in 0..MaxLoads : LoadDone(l) \/ LoadFails(l)

Exports == HandleExportPdf \/ ExportDone \/ ExportUntrusted \/ ExportFails

User == Refresh \/ \E f \in Filter : SetFilters(f)

Next == Server \/ Answers \/ Exports \/ User \/ \E m \in Minute : Ingested(m)

Spec == Init /\ [][Next]_vars

-----------------------------------------------------------------------------
(* Properties.                                                             *)

\* sure: the page of the click was at rest, without an error, and shows the answer
\* of the load begun last.
Held == [filters : Filter, panels : Panels, sure : BOOLEAN]
Reports == [filters : Filter, panels : Panels, sure : BOOLEAN,
            alerts : {"some", "none", "unavailable"}, attacker : IP \cup {NoIP}, listed : BOOLEAN]

TypeOK ==
    /\ stored \in SUBSET Minute
    /\ filters \in Filter
    /\ panels \in Panels
    /\ {loading, error, overtaken} \subseteq BOOLEAN
    /\ loads \in [0..MaxLoads -> LoadState]
    /\ export \in Held \cup {NoExport} /\ report \in Reports \cup {NoReport}
    /\ newest \in 0..MaxLoads /\ clicks \in 0..MaxExports /\ faults \in 0..MaxFaults

\* The panels belong together: whatever requests are answered in what order
\* and whichever loads fail, all of them were asked with the same filters.
PanelsTogether == \A p, q \in Panel : panels[p].filter = panels[q].filter

\* Cards at zero and empty charts, where nothing was ever loaded, come with
\* "Loading dashboard data" or with the error, never alone.
EmptyOnlyWithError == panels["summary"] = NoAnswer => loading \/ error

\* Neither Refresh nor Export PDF is left disabled by loads that overlap,
\* finish in another order or fail.
SpinnerHonest == loading => \E l \in DOMAIN loads : loads[l].phase = "sent"

\* The panels through loads that overlap, finish in any order or fail.
PanelsHonest == PanelsTogether /\ EmptyOnlyWithError /\ SpinnerHonest

\* Who asks for a report gets one, whatever fails.  One asked for on a page at
\* rest, without error and none of whose answers was overtaken, shows panels of
\* the filters it names, however the page has changed before the alerts arrive;
\* and it blames no trusted address unless the list of them could not be read.
ReportTrue ==
    /\ clicks > 0 /\ export = NoExport => report # NoReport
    /\ report # NoReport =>
          /\ report.sure => \A p \in Panel : report.panels[p].filter = report.filters
          /\ report.listed => report.attacker \notin Trusted

\* The chart, drawn over the window of the filters from points that may be of
\* another: its line never goes back, has each point once, and crosses a time
\* longer than the threshold at zero only.
ChartHonest ==
    LET times == panels["summary"].points
        data == ChartData(times, Start[filters], Stop[filters])
    IN  /\ \A i \in 1..(Len(data) - 1) :
              /\ data[i].time < data[i + 1].time
              /\ data[i + 1].time - data[i].time > GapThreshold
                    => data[i].bytes = 0 /\ data[i + 1].bytes = 0
        /\ {data[i].time : i \in {k \in DOMAIN data : data[k].bytes > 0}} = times

\* Every report, however many rows its tables have, is laid out well: nothing
\* off the page or on the footer, nothing on top of another part, and no heading
\* left alone at the end of a page.
LaidOut ==
    {a \in {"some", "none", "unavailable"} :
        \A d \in ReportData(MaxProtocols, MaxRows) :
            d.alerts = a => LET r == Report(d) IN OnPaper(r) /\ InOrder(r) /\ HeadsKept(r)}
ReportsLaidOut == report # NoReport => report.alerts \in LaidOut
=============================================================================
