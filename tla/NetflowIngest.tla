---------------------------- MODULE NetflowIngest ----------------------------
(***************************************************************************)
(* gateway/ingest/service.py: the process that reads the nfcapd files and  *)
(* writes the measurements flow and traffic_minute into InfluxDB.  Records *)
(* are numbered in the order nfcapd captures them, which is the order in   *)
(* which nfdump prints them.  A record whose time parse_flow_time does not *)
(* know gets the time at which it is read, at every poll anew.             *)
(***************************************************************************)
EXTENDS Naturals, FiniteSets

CONSTANTS
    MaxFlows,       \* bound: records captured
    Record,         \* the records: addresses, whether the time is known, minute and
                    \* second if so, protocol, bytes
    Limit,          \* --limit
    MaxTime,        \* bound: the clock, in minutes
    FaultKind,      \* the faults that may happen
    MaxFaults       \* how many of them

ASSUME FlowsAssumption ==
    /\ {MaxFlows, Limit, MaxTime, MaxFaults} \subseteq Nat
    /\ DOMAIN Record = 1..MaxFlows
    /\ \A n \in 1..MaxFlows : Record[n].bytes \in Nat /\ Record[n].proto # "ALL"
    /\ FaultKind \subseteq {"nfdump", "write", "answer", "crash"}

VARIABLES
    captured,       \* how many records the files hold
    newer,          \* the newest file is newer than last_seen_mtime
    now,            \* the minute it is
    pc,             \* the process: "down", "poll", "read", "sum", "points", "rollups"
    flows,          \* the records being handled
    read,           \* the minutes at which their points and their rollups were made
    summed,
    points,         \* measurement flow
    rollups,        \* measurement traffic_minute: [minute, proto] -> sums
    faults          \* faults so far

influx == <<points, rollups>>
sample == <<flows, read, summed>>
vars == <<captured, newer, now, pc, sample, influx, faults>>

Flow == 1..MaxFlows

Init ==
    /\ captured \in 0..MaxFlows /\ newer = TRUE
    /\ now \in 0..MaxTime
    /\ pc = "down" /\ flows = {} /\ read = now /\ summed = now
    /\ points = {} /\ rollups = <<>>
    /\ faults = 0

-----------------------------------------------------------------------------
(* nfcapd, and the time.                                                   *)

Capture ==
    /\ captured < MaxFlows
    /\ captured' = captured + 1 /\ newer' = TRUE
    /\ UNCHANGED <<now, pc, sample, influx, faults>>

\* A new file every five minutes, with records or without.
Rotate ==
    /\ newer' = TRUE
    /\ UNCHANGED <<captured, now, pc, sample, influx, faults>>

Passes ==
    /\ now < MaxTime
    /\ now' = now + 1
    /\ UNCHANGED <<captured, newer, pc, sample, influx, faults>>

-----------------------------------------------------------------------------
(* What is written.                                                        *)

\* parse_flow_time, of a record read in minute t.
Minute(n, t) == IF Record[n].timed THEN Record[n].minute ELSE t

\* The point of a record; points of one record in one minute are not told apart.
PointOf(n, t) == [flow |-> n, minute |-> Minute(n, t)]

\* InfluxDB tells points apart by their tags and time: ports are fields.  The
\* microsecond at which a record without a time is read is its own.
Tags(p) ==
    LET r == Record[p.flow]
    IN  <<r.pair, r.proto, p.minute, IF r.timed THEN r.second ELSE 0, IF r.timed THEN 0 ELSE p.flow>>

\* A point written replaces the one with its tags and time.
Overwrite(old, written) ==
    {p \in old : \A q \in written : Tags(q) # Tags(p)}
    \cup {p \in written : \A q \in written : q.flow > p.flow => Tags(q) # Tags(p)}

flow_to_points(records, t) == {PointOf(n, t) : n \in records}

InRollup(n, key, t) == Minute(n, t) = key.minute /\ key.proto \in {Record[n].proto, "ALL"}

RollupKeys(records, t) ==
    UNION {{[minute |-> Minute(n, t), proto |-> p] : p \in {"ALL", Record[n].proto}} : n \in records}

\* agg[key]["bytes_sum"] += bytes_v, from record to record.
BytesSum(records) ==
    LET agg[n \in 0..MaxFlows] ==
            IF n = 0 THEN 0 ELSE agg[n - 1] + (IF n \in records THEN Record[n].bytes ELSE 0)
    IN  agg[MaxFlows]

flows_to_minute_rollups(records, t) ==
    [key \in RollupKeys(records, t) |->
        LET Members == {n \in records : InRollup(n, key, t)}
        IN  [flows_count |-> Cardinality(Members), bytes_sum |-> BytesSum(Members)]]

Replaced(old, written) ==
    [key \in DOMAIN old \cup DOMAIN written |->
        IF key \in DOMAIN written THEN written[key] ELSE old[key]]

-----------------------------------------------------------------------------
(* The process.                                                            *)

\* last_seen_mtime = 0.0.
Start ==
    /\ pc = "down"
    /\ pc' = "poll" /\ newer' = TRUE
    /\ UNCHANGED <<captured, now, sample, influx, faults>>

\* last_seen_mtime is set before anything is read.
Poll ==
    /\ pc = "poll"
    /\ newer
    /\ newer' = FALSE
    /\ pc' = "read"
    /\ UNCHANGED <<captured, now, sample, influx, faults>>

\* Mutant: one record less than the limit.
Sample_OneShort == {n \in 1..captured : n < Limit}

\* Mutant: flows[-limit:], the newest records.
Sample_Newest == {n \in 1..captured : n + Limit > captured}

\* Mutant: the limit is ignored.
Sample_All == 1..captured

\* flows[:limit] of all files: the records from the first one on.
Sample == {n \in 1..captured : n <= Limit}

\* The points are made when the records are read, the rollups after them.
Read ==
    /\ pc = "read"
    /\ flows' = Sample /\ read' = now
    /\ pc' = IF flows' = {} THEN "poll" ELSE "sum"
    /\ UNCHANGED <<captured, newer, now, summed, influx, faults>>

Sum ==
    /\ pc = "sum"
    /\ summed' = now
    /\ pc' = "points"
    /\ UNCHANGED <<captured, newer, now, flows, read, influx, faults>>

PointsWritten == points' = Overwrite(points, flow_to_points(flows, read)) /\ UNCHANGED rollups

RollupsWritten == rollups' = Replaced(rollups, flows_to_minute_rollups(flows, summed)) /\ UNCHANGED points

WritePoints ==
    /\ pc = "points"
    /\ PointsWritten
    /\ pc' = "rollups"
    /\ UNCHANGED <<captured, newer, now, sample, faults>>

WriteRollups ==
    /\ pc = "rollups"
    /\ RollupsWritten
    /\ pc' = "poll"
    /\ UNCHANGED <<captured, newer, now, sample, faults>>

-----------------------------------------------------------------------------
(* Faults, at most MaxFaults of the kinds in FaultKind; the exception is   *)
(* caught and ends this poll.                                              *)

Fault(kind) ==
    /\ kind \in FaultKind
    /\ faults < MaxFaults
    /\ faults' = faults + 1

NfdumpFails ==
    /\ Fault("nfdump")
    /\ pc = "read"
    /\ pc' = "poll"
    /\ UNCHANGED <<captured, newer, now, sample, influx>>

\* Mutant: the failure of the first write is caught by itself.
WriteFails_GoesOn ==
    /\ Fault("write")
    /\ pc \in {"points", "rollups"}
    /\ pc' = IF pc = "points" THEN "rollups" ELSE "poll"
    /\ UNCHANGED <<captured, newer, now, sample, influx>>

WriteFails ==
    /\ Fault("write")
    /\ pc \in {"points", "rollups"}
    /\ pc' = "poll"
    /\ UNCHANGED <<captured, newer, now, sample, influx>>

\* InfluxDB has written, the answer is lost.
AnswerLost ==
    /\ Fault("answer")
    /\ \/ pc = "points" /\ PointsWritten
       \/ pc = "rollups" /\ RollupsWritten
    /\ pc' = "poll"
    /\ UNCHANGED <<captured, newer, now, sample>>

Crash ==
    /\ Fault("crash")
    /\ pc # "down"
    /\ pc' = "down"
    /\ UNCHANGED <<captured, newer, now, sample, influx>>

-----------------------------------------------------------------------------

Ingest == Start \/ Poll \/ Read \/ Sum \/ WritePoints \/ WriteRollups

Faults == NfdumpFails \/ WriteFails \/ AnswerLost \/ Crash

Next == Capture \/ Rotate \/ Passes \/ Ingest \/ Faults

Spec == Init /\ [][Next]_vars

\* The process runs on (Restart=always) and nfcapd rotates its files.
FairSpec == Spec /\ WF_vars(Ingest) /\ WF_vars(Rotate)

-----------------------------------------------------------------------------
(* Properties.                                                             *)

TypeOK ==
    /\ captured \in 0..MaxFlows
    /\ newer \in BOOLEAN
    /\ {now, read, summed} \subseteq 0..MaxTime
    /\ pc \in {"down", "poll", "read", "sum", "points", "rollups"}
    /\ flows \subseteq 1..captured /\ Cardinality(flows) <= Limit
    /\ \A p \in points : \E n \in 1..captured, t \in 0..MaxTime : p = PointOf(n, t)
    /\ \A key \in DOMAIN rollups : rollups[key].flows_count \in 1..captured
    /\ faults \in 0..MaxFaults

\* Some point has the tags of a record and its time, or one at which it was read.
\* It need not be the record's own: of the records of a scan in one instant the
\* last one's point is left.
Represented(n) == \E p \in points, t \in 0..MaxTime : Tags(p) = Tags(PointOf(n, t))

\* The records that may count in a rollup: without a time, at whatever poll.
MayCount(n, key) == \E t \in 0..MaxTime : InRollup(n, key, t)

\* A rollup counts no more than the records of its minute and protocol whose tags
\* and time have a point (not: than there are points, for records of one instant
\* share one): a record read twice counts once, and a failure of the first write
\* keeps back the second.
RollupsBacked ==
    \A key \in DOMAIN rollups :
        rollups[key].flows_count <= Cardinality({n \in 1..captured : MayCount(n, key) /\ Represented(n)})

\* Every record that may count in a rollup has a time of its own.
Timed(key, n) == \A m \in 1..n : key.proto \in {Record[m].proto, "ALL"} => Record[m].timed

\* What a rollup says never shrinks, as long as all records of its protocol have
\* a time: a later poll has seen the same records and more, through failures and
\* restarts.  (Those without one go to the minute of the last poll.)
RollupsGrow ==
    [][\A key \in DOMAIN rollups :
          Timed(key, captured) =>
            /\ key \in DOMAIN rollups'
            /\ rollups'[key].flows_count >= rollups[key].flows_count
            /\ rollups'[key].bytes_sum >= rollups[key].bytes_sum]_vars

Counted(n) ==
    LET key == [minute |-> Record[n].minute, proto |-> "ALL"]
        Before == {m \in 1..n : Record[m].timed /\ Record[m].minute = key.minute}
    IN  key \in DOMAIN rollups /\ rollups[key].flows_count >= Cardinality(Before)

\* The tags and time of each of the first Limit records come to have a point, and
\* the rollup of its minute comes to count it if it has a time, whatever failed on
\* the way.
FirstFlowsArrive ==
    \A n \in Flow : n <= Limit =>
        (captured >= n ~> Represented(n) /\ (Record[n].timed => Counted(n)))
=============================================================================
