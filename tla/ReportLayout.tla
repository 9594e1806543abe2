----------------------------- MODULE ReportLayout -----------------------------
(***************************************************************************)
(* Where exportDashboardPdf (utils/exportPdf.ts) puts the sections of the  *)
(* report on A4 pages, in millimetres.  Of the data only what the layout   *)
(* depends on is kept: which parts there are and the rows of their tables, *)
(* each of one line.                                                       *)
(***************************************************************************)
EXTENDS Naturals, Sequences

FooterY == 297 - 10     \* the footer: pageSize.getHeight() - 10

\* jspdf-autotable: the margins of a page and the height of a row.
TopMargin == 14
Bottom == 297 - 14
Row == 10

\* What a report is made of: the tables by their rows, 0 when the part is null
\* or empty; alerts is "unavailable", "none" or "some".
ReportData(protocols, limit) ==
    [summary : BOOLEAN, protocols : 0..protocols, alerts : {"unavailable", "none", "some"},
     signatures : 0..limit, sources : 0..limit, destinations : 0..limit]

\* A cursor: the page, y, and what has been drawn, from where to where.
Drawn(what, page, top, lastPage, bottom) ==
    [what |-> what, page |-> page, top |-> top, lastPage |-> lastPage, bottom |-> bottom]

Text(c, what, advance) ==
    [page |-> c.page, y |-> c.y + advance,
     drawn |-> Append(c.drawn, Drawn(what, c.page, c.y, c.page, c.y))]

\* if (y > limit) { doc.addPage(); y = 20; }
Break(c, limit) == IF c.y > limit THEN [c EXCEPT !.page = @ + 1, !.y = 20] ELSE c

\* autoTable: n rows under a head that each page repeats; a page takes what fits,
\* and a table whose head does not fit begins on the next.
Table(c, what, n, advance) ==
    LET moved == c.y + Row > Bottom
        page == IF moved THEN c.page + 1 ELSE c.page
        top == IF moved THEN TopMargin ELSE c.y
        fits == (Bottom - top) \div Row - 1
        perPage == (Bottom - TopMargin) \div Row - 1
        rest == n - fits
        more == (rest + perPage - 1) \div perPage
        lastPage == IF n <= fits THEN page ELSE page + more
        finalY == IF n <= fits THEN top + (n + 1) * Row
                  ELSE TopMargin + (rest - (more - 1) * perPage + 1) * Row
    IN  [page |-> lastPage, y |-> finalY + advance,
         drawn |-> Append(c.drawn, Drawn(what, page, top, lastPage, finalY))]

Section(c, title, n) == Table(Text(c, title, 7), title, n, 10)

\* Title, "Generated", and the box of the filters, 28 high.
TitleBlock == [page |-> 1, y |-> 20 + 10 + 10 + 36, drawn |-> <<Drawn("Title", 1, 20, 1, 40 + 28)>>]

Summary(d, c) == IF d.summary THEN Section(c, "Summary", 4) ELSE c

Protocols(d, c) == IF d.protocols > 0 THEN Section(c, "ProtocolDistribution", d.protocols) ELSE c

Headlines(c) == Table(Break(c, 240), "Highlights", 3, 10)

TopSignatures(d, c) ==
    IF d.signatures > 0 THEN Section(Break(c, 230), "TopSignatures", d.signatures) ELSE c

AlertsTable(c) == Table(c, "IDSAlerts", 4, 8)

\* Mutant: the heading is put where the last table ended.
Alerts_NoBreak(d, c) ==
    LET title(limit) == Text(c, "IDSAlerts", 7)
    IN  CASE d.alerts = "unavailable" -> Text(title(250), "AlertsUnavailable", 10)
          [] d.alerts = "none" -> Text(title(220), "NoAlerts", 10)
          [] d.alerts = "some" -> TopSignatures(d, Headlines(AlertsTable(title(220))))

Alerts(d, c) ==
    LET title(limit) == Text(Break(c, limit), "IDSAlerts", 7)
    IN  CASE d.alerts = "unavailable" -> Text(title(250), "AlertsUnavailable", 10)
          [] d.alerts = "none" -> Text(title(220), "NoAlerts", 10)
          [] d.alerts = "some" -> TopSignatures(d, Headlines(AlertsTable(title(220))))

Sources(d, c) == IF d.sources > 0 THEN Section(Break(c, 230), "TopSources", d.sources) ELSE c

Destinations(d, c) ==
    IF d.destinations > 0 THEN Section(Break(c, 230), "TopDestinations", d.destinations) ELSE c

Report(d) ==
    Destinations(d, Sources(d, Alerts(d, Protocols(d, Summary(d, TitleBlock)))))

-----------------------------------------------------------------------------

\* Nothing lies off the page or on its footer.
OnPaper(r) ==
    \A i \in DOMAIN r.drawn :
        /\ r.drawn[i].top >= TopMargin
        /\ r.drawn[i].top <= Bottom /\ r.drawn[i].bottom <= Bottom /\ Bottom < FooterY

\* Nothing lies on what was drawn before.
Apart(a, b) == b.page > a.lastPage \/ (b.page = a.lastPage /\ b.top > a.bottom)
InOrder(r) == \A i \in 1..(Len(r.drawn) - 1) : Apart(r.drawn[i], r.drawn[i + 1])

\* A heading is followed on its page by the head and a row of its table.
HeadsKept(r) ==
    \A i \in 1..(Len(r.drawn) - 1) :
        LET a == r.drawn[i]  b == r.drawn[i + 1]
        IN  a.what = b.what => b.page = a.page /\ b.top + 2 * Row <= Bottom
=============================================================================
