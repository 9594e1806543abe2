--------------------------- MODULE SuricataIngest ---------------------------
(***************************************************************************)
(* gateway/suricata-ingest/suricata_ingest.py: the process that tails      *)
(* eve.json and inserts the alerts into the table ids_alerts.  Lines are   *)
(* numbered in the order Suricata writes them; of an event only its type   *)
(* matters.  A long line may reach the file in two writes, and readline    *)
(* then returns each half as a line of its own, neither of them JSON.      *)
(* Its names are not those of NetflowIngest, so that IngestProofs can      *)
(* extend both.                                                            *)
(***************************************************************************)
EXTENDS Naturals, Sequences

CONSTANTS
    MaxLines,       \* bound: lines Suricata writes
    FailureKind,    \* the faults that may happen
    MaxFailures     \* how many of them

ASSUME LinesAssumption == MaxLines \in Nat
ASSUME FailuresAssumption ==
    /\ FailureKind \subseteq {"connection", "dberror", "crash"}
    /\ MaxFailures \in Nat

VARIABLES
    file,           \* the event types of the complete lines of eve.json
    partial,        \* the type of the line Suricata is in the middle of, or "none"
    at,             \* the process: "down", "connected", "follow", "handle"
    pos,            \* how many lines the process has read
    midline,        \* it has read the first half of line pos + 1
    line,           \* the line it is handling
    conn,           \* its one connection to PostgreSQL
    table,          \* ids_alerts, as the numbers of the lines, in insertion order
    failures        \* faults so far

eve == <<file, partial>>
reader == <<pos, midline>>
suricataVars == <<file, partial, at, pos, midline, line, conn, table, failures>>

EventType == {"alert", "other"}

SuricataTypeOK ==
    /\ file \in Seq(EventType)
    /\ partial \in EventType \cup {"none"}
    /\ at \in {"down", "connected", "follow", "handle"}
    /\ pos \in Nat /\ pos <= Len(file)
    /\ midline \in BOOLEAN
    /\ line \in Nat /\ line <= Len(file)
    /\ conn \in {"none", "open", "broken"}
    /\ table \in Seq(1..Len(file))
    /\ failures \in Nat

SuricataInit ==
    /\ file = <<>> /\ partial = "none"
    /\ at = "down" /\ pos = 0 /\ midline = FALSE /\ line = 0
    /\ conn = "none" /\ table = <<>> /\ failures = 0

-----------------------------------------------------------------------------
(* Suricata.                                                               *)

Written == Len(file) + (IF partial = "none" THEN 0 ELSE 1)

WriteLine(type) ==
    /\ partial = "none" /\ Written < MaxLines
    /\ file' = Append(file, type)
    /\ UNCHANGED <<partial, at, reader, line, conn, table, failures>>

WriteHead(type) ==
    /\ partial = "none" /\ Written < MaxLines
    /\ partial' = type
    /\ UNCHANGED <<file, at, reader, line, conn, table, failures>>

WriteTail ==
    /\ partial # "none"
    /\ file' = Append(file, partial)
    /\ partial' = "none"
    /\ UNCHANGED <<at, reader, line, conn, table, failures>>

-----------------------------------------------------------------------------
(* The process.                                                            *)

Connect ==
    /\ at = "down"
    /\ at' = "connected" /\ conn' = "open"
    /\ UNCHANGED <<eve, reader, line, table, failures>>

\* Mutant: a line begun counts as read.
OpenEve_CountsTorn ==
    /\ at = "connected"
    /\ pos' = Written /\ midline' = FALSE
    /\ at' = "follow"
    /\ UNCHANGED <<eve, line, conn, table, failures>>

\* f.seek(0, 2): after all there is, be it the middle of a line.
OpenEve ==
    /\ at = "connected"
    /\ pos' = Len(file) /\ midline' = (partial # "none")
    /\ at' = "follow"
    /\ UNCHANGED <<eve, line, conn, table, failures>>

ReadLine ==
    /\ at = "follow"
    /\ pos < Len(file) /\ ~midline
    /\ pos' = pos + 1 /\ line' = pos + 1
    /\ at' = "handle"
    /\ UNCHANGED <<eve, midline, conn, table, failures>>

\* Mutant: an exception from json.loads ends the process.
ReadHalf_Dies ==
    /\ at = "follow"
    /\ \/ ~midline /\ pos = Len(file) /\ partial # "none" /\ midline' = TRUE /\ UNCHANGED pos
       \/ midline /\ pos < Len(file) /\ midline' = FALSE /\ pos' = pos + 1
    /\ at' = "down" /\ conn' = "none"
    /\ UNCHANGED <<eve, line, table, failures>>

\* The first half of a line, or the second: json.loads raises, the exception
\* is caught, nothing was open to roll back.
ReadHalf ==
    /\ at = "follow"
    /\ \/ ~midline /\ pos = Len(file) /\ partial # "none" /\ midline' = TRUE /\ UNCHANGED pos
       \/ midline /\ pos < Len(file) /\ midline' = FALSE /\ pos' = pos + 1
    /\ UNCHANGED <<eve, at, line, conn, table, failures>>

Ignore ==
    /\ at = "handle"
    /\ file[line] # "alert"
    /\ at' = "follow"
    /\ UNCHANGED <<eve, reader, line, conn, table, failures>>

InsertAlert ==
    /\ at = "handle"
    /\ file[line] = "alert"
    /\ conn = "open"
    /\ table' = Append(table, line)
    /\ at' = "follow"
    /\ UNCHANGED <<eve, reader, line, conn, failures>>

\* The connection is gone and nobody opens another one: the exception is
\* caught, the alert is not tried again.
InsertOnBroken ==
    /\ at = "handle"
    /\ file[line] = "alert"
    /\ conn = "broken"
    /\ at' = "follow"
    /\ UNCHANGED <<eve, reader, line, conn, table, failures>>

-----------------------------------------------------------------------------
(* Failures, at most MaxFailures of the kinds in FailureKind.              *)

Failure(kind) ==
    /\ kind \in FailureKind
    /\ failures < MaxFailures
    /\ failures' = failures + 1

\* The INSERT or the commit is refused and rolled back.
InsertRefused ==
    /\ Failure("dberror")
    /\ at = "handle" /\ file[line] = "alert" /\ conn = "open"
    /\ at' = "follow"
    /\ UNCHANGED <<eve, reader, line, conn, table>>

\* Mutant: an alert whose commit was not confirmed is tried again.
CommitUnconfirmed_Retries ==
    /\ Failure("connection")
    /\ at = "handle" /\ file[line] = "alert" /\ conn = "open"
    /\ table' = Append(table, line)
    /\ UNCHANGED <<eve, reader, line, conn, at>>

\* The connection goes down after the server committed.
CommitUnconfirmed ==
    /\ Failure("connection")
    /\ at = "handle" /\ file[line] = "alert" /\ conn = "open"
    /\ table' = Append(table, line)
    /\ conn' = "broken" /\ at' = "follow"
    /\ UNCHANGED <<eve, reader, line>>

LoseConnection ==
    /\ Failure("connection")
    /\ conn = "open"
    /\ conn' = "broken"
    /\ UNCHANGED <<eve, at, reader, line, table>>

Dies ==
    /\ Failure("crash")
    /\ at # "down"
    /\ at' = "down" /\ conn' = "none"
    /\ UNCHANGED <<eve, reader, line, table>>

-----------------------------------------------------------------------------

Process == Connect \/ OpenEve \/ ReadLine \/ ReadHalf \/ Ignore \/ InsertAlert \/ InsertOnBroken

Suricata == WriteTail \/ \E type \in EventType : WriteLine(type) \/ WriteHead(type)

Failures == InsertRefused \/ CommitUnconfirmed \/ LoseConnection \/ Dies

SuricataNext == Process \/ Suricata \/ Failures

SuricataSpec == SuricataInit /\ [][SuricataNext]_suricataVars

\* The process runs on (README.md 525-541: systemd restarts it), a line begun is finished.
SuricataFairSpec ==
    SuricataSpec /\ WF_suricataVars(Process) /\ WF_suricataVars(WriteTail)

-----------------------------------------------------------------------------
(* Properties.                                                             *)

Inserted(n) == \E k \in DOMAIN table : table[k] = n

\* The table holds alerts only, each once, in the order Suricata wrote them,
\* through torn lines, lost connections, unconfirmed commits and restarts.
TableInOrder ==
    /\ \A k \in DOMAIN table : file[table[k]] = "alert"
    /\ \A j, k \in DOMAIN table : j < k => table[j] < table[k]

\* A complete alert ahead of the process, which has not read half of it.
Ahead(n) ==
    /\ at \in {"follow", "handle"}
    /\ pos < n /\ n <= Len(file) /\ file[n] = "alert"
    /\ ~(midline /\ n = pos + 1)

\* Until a fault happens, an alert the process meets as a whole line is
\* inserted, whatever torn lines come before it.
WholeLinesArrive ==
    \A n \in 1..MaxLines : (Ahead(n) /\ failures = 0) ~> (Inserted(n) \/ failures > 0)
=============================================================================
