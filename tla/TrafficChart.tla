----------------------------- MODULE TrafficChart -----------------------------
(* What the chart of the dashboard draws (components/TrafficChart.tsx): the   *)
(* points there are, and points at zero so that no line crosses a time        *)
(* without traffic.  Times are minutes; every point has some bytes.           *)
EXTENDS Integers, SequencesExt

GapThreshold == 5       \* GAP_THRESHOLD
Offset == 1             \* OFFSET

Point(t) == [time |-> t, bytes |-> 1]
Zero(t) == [time |-> t, bytes |-> 0]

\* mapped.sort: the times one after the other.
Mapped(times) ==
    CHOOSE m \in Surjection(1..Cardinality(times), times) :
        \A i, j \in DOMAIN m : i < j => m[i] < m[j]

Lead(m, start) ==
    IF m[1] - start > Offset THEN <<Zero(start), Zero(m[1] - Offset)>> ELSE <<>>

\* Mutant: traffic falls to zero after a point and rises from it over the gap.
Gap_Falls(m, i) ==
    IF i > 1 /\ m[i] - m[i - 1] > GapThreshold THEN <<Zero(m[i - 1] + Offset)>> ELSE <<>>

Gap(m, i) ==
    IF i > 1 /\ m[i] - m[i - 1] > GapThreshold
    THEN <<Zero(m[i - 1] + Offset), Zero(m[i] - Offset)>>
    ELSE <<>>

Trail(m, stop) ==
    IF stop - m[Len(m)] > Offset THEN <<Zero(m[Len(m)] + Offset), Zero(stop)>> ELSE <<>>

ChartData(times, start, stop) ==
    LET m == Mapped(times)
    IN  IF times = {} THEN <<Zero(start), Zero(stop)>>
        ELSE Lead(m, start)
             \o FlattenSeq([i \in DOMAIN m |-> Append(Gap(m, i), Point(m[i]))])
             \o Trail(m, stop)
=============================================================================
