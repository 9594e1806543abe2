---------------------------- MODULE IngestProofs ----------------------------
(***************************************************************************)
(* The two ingest processes of the gateway, for any number of records and  *)
(* lines, any limit and any faults: the rollups count no record whose tags *)
(* and time have no point, and the table ids_alerts holds alerts only,     *)
(* each once and in the order of eve.json.                                 *)
(***************************************************************************)
EXTENDS NetflowIngest, SuricataIngest, FiniteSetTheorems, WellFoundedInduction, TLAPS

\* The second write comes after the first one.
PointsFirst == pc = "rollups" => \A n \in flows : Represented(n)

IInv == TypeOK /\ PointsFirst /\ RollupsBacked

-----------------------------------------------------------------------------

\* A non-empty set of records has a last one.
LEMMA LastOne ==
    ASSUME NEW T \in SUBSET (1..MaxFlows), T # {}
    PROVE  \E n \in T : \A m \in T : ~ (m > n)
<1> DEFINE R == {ss \in Nat \X Nat : ss[1] < ss[2]}
           Rest == {MaxFlows - n : n \in T}
<1>0. MaxFlows \in Nat
  BY FlowsAssumption
<1>1. IsWellFoundedOn(R, Nat)
  BY NatLessThanWellFounded DEF OpToRel
<1>2. Rest \subseteq Nat /\ Rest # {}
  BY <1>0
<1>3. PICK x \in Rest : \A y \in Rest : ~ (<<y, x>> \in R)
  <2> HIDE DEF R, Rest
  <2> QED BY <1>1, <1>2, WFMin
<1>4. PICK n \in T : x = MaxFlows - n
  OBVIOUS
<1>5. ASSUME NEW m \in T PROVE ~ (m > n)
  <2>1. MaxFlows - m \in Rest /\ MaxFlows - m \in Nat /\ MaxFlows - n \in Nat
    BY <1>0
  <2>2. ~ (MaxFlows - m < MaxFlows - n)
    BY <1>3, <1>4, <2>1
  <2> QED BY <1>0, <2>2
<1> QED BY <1>5

\* Writing points never takes away the last point of some tags and time.
LEMMA OverwriteKeeps ==
    ASSUME NEW old, NEW records \in SUBSET Flow, NEW t,
           NEW p \in old \cup flow_to_points(records, t)
    PROVE  \E q \in Overwrite(old, flow_to_points(records, t)) : Tags(q) = Tags(p)
<1> DEFINE written == flow_to_points(records, t)
           Same == {n \in records : Tags(PointOf(n, t)) = Tags(p)}
<1>0. written = {PointOf(n, t) : n \in records}
  BY DEF flow_to_points
<1>1. CASE Same = {}
  <2>1. \A q \in written : Tags(q) # Tags(p)
    BY <1>0, <1>1
  <2>2. p \in old
    BY <2>1
  <2> HIDE DEF Same, written
  <2>3. p \in Overwrite(old, written)
    BY <2>1, <2>2 DEF Overwrite
  <2> QED BY <2>3 DEF written
<1>2. CASE Same # {}
  <2>1. Same \in SUBSET (1..MaxFlows)
    BY DEF Flow
  <2>2. PICK last \in Same : \A m \in Same : ~ (m > last)
    <3> HIDE DEF Same
    <3> QED BY <1>2, <2>1, LastOne
  <2> DEFINE q == PointOf(last, t)
  <2>3. last \in records /\ Tags(q) = Tags(p) /\ q.flow = last
    BY <2>2 DEF PointOf
  <2>4. q \in written
    BY <1>0, <2>3
  <2>5. ASSUME NEW r \in written, r.flow > q.flow PROVE Tags(r) # Tags(q)
    <3>1. PICK m \in records : r = PointOf(m, t)
      BY <1>0
    <3>2. m > last
      BY <2>3, <2>5, <3>1 DEF PointOf
    <3>3. m \notin Same
      BY <2>2, <3>2
    <3> HIDE DEF q
    <3> QED BY <2>3, <3>1, <3>3
  <2> HIDE DEF Same, written, q
  <2>6. q \in Overwrite(old, written)
    BY <2>4, <2>5 DEF Overwrite
  <2> QED BY <2>3, <2>6 DEF written
<1> QED BY <1>1, <1>2

LEMMA OverwriteAddsOnly ==
    ASSUME NEW old, NEW written
    PROVE  Overwrite(old, written) \subseteq old \cup written
BY DEF Overwrite

\* Who may count where is no matter of the state.
LEMMA RepresentedNext ==
    /\ \A n : Represented(n)' <=> \E p \in points', t \in 0..MaxTime : Tags(p) = Tags(PointOf(n, t))
    /\ \A n, key : MayCount(n, key)' <=> MayCount(n, key)
BY DEF Represented, MayCount, InRollup, Tags, PointOf, Minute

\* A rollup of some records counts those of its minute and protocol, one at least.
LEMMA RollupCounts ==
    ASSUME NEW k \in 0..MaxFlows, NEW records \in SUBSET (1..k), NEW t,
           NEW key \in DOMAIN flows_to_minute_rollups(records, t)
    PROVE  LET Members == {n \in records : InRollup(n, key, t)}
           IN  /\ flows_to_minute_rollups(records, t)[key].flows_count = Cardinality(Members)
               /\ Cardinality(Members) \in 1..k
<1> DEFINE Members == {n \in records : InRollup(n, key, t)}
<1>0. k \in Nat
  BY FlowsAssumption
<1>1. key \in RollupKeys(records, t)
  BY DEF flows_to_minute_rollups
<1>2. flows_to_minute_rollups(records, t)[key].flows_count = Cardinality(Members)
  BY <1>1 DEF flows_to_minute_rollups
<1>3. PICK n \in records : n \in Members
  BY <1>1 DEF RollupKeys, InRollup
<1>4. IsFiniteSet(1..k) /\ Cardinality(1..k) = k
  BY <1>0, FS_Interval
<1>5. Members \in SUBSET (1..k)
  OBVIOUS
<1>6. /\ IsFiniteSet(Members) /\ Cardinality(Members) \in Nat
      /\ Cardinality(Members) <= k /\ Cardinality(Members) # 0
  <2> HIDE DEF Members
  <2>1. IsFiniteSet(Members) /\ Cardinality(Members) <= k
    <3>1. IsFiniteSet(Members) /\ Cardinality(Members) <= Cardinality(1..k)
      BY <1>4, <1>5, FS_Subset
    <3> QED BY <1>4, <3>1
  <2> QED BY <1>3, <2>1, FS_CardinalityType, FS_EmptySet
<1> HIDE DEF Members
<1>7. Cardinality(Members) \in 1..k
  BY <1>0, <1>6
<1> QED BY <1>2, <1>7 DEF Members

\* While records and represented tags only increase, rollups that stay are backed.
LEMMA BackedStays ==
    ASSUME TypeOK, RollupsBacked, UNCHANGED rollups,
           captured' \in 0..MaxFlows, captured <= captured',
           \A n \in 1..captured : Represented(n) => Represented(n)'
    PROVE  RollupsBacked'
<1> SUFFICES ASSUME NEW key \in DOMAIN rollups
             PROVE  rollups[key].flows_count
                      <= Cardinality({n \in 1..captured' : MayCount(n, key) /\ Represented(n)'})
  BY RepresentedNext DEF RollupsBacked
<1> DEFINE Before == {n \in 1..captured : MayCount(n, key) /\ Represented(n)}
           After == {n \in 1..captured' : MayCount(n, key) /\ Represented(n)'}
<1>0. captured \in Nat /\ captured' \in Nat
  BY FlowsAssumption DEF TypeOK
<1>1. Before \in SUBSET After /\ After \in SUBSET (1..captured')
  BY <1>0
<1>2. rollups[key].flows_count <= Cardinality(Before) /\ rollups[key].flows_count \in Nat
  BY <1>0 DEF RollupsBacked, TypeOK
<1> HIDE DEF Before, After
<1>3. IsFiniteSet(1..captured')
  BY <1>0, FS_Interval
<1>4. IsFiniteSet(After)
  BY <1>1, <1>3, FS_Subset
<1>5. Cardinality(Before) <= Cardinality(After) /\ IsFiniteSet(Before)
  BY <1>1, <1>4, FS_Subset
<1>6. Cardinality(Before) \in Nat /\ Cardinality(After) \in Nat
  BY <1>4, <1>5, FS_CardinalityType
<1>7. rollups[key].flows_count <= Cardinality(After)
  BY <1>2, <1>5, <1>6
<1> QED BY <1>7 DEF After

\* What the first write does, whether its answer arrives or not.
LEMMA FirstWrite ==
    ASSUME TypeOK, PointsWritten, UNCHANGED captured
    PROVE  /\ \A p \in points' : \E n \in 1..captured', t \in 0..MaxTime : p = PointOf(n, t)
           /\ \A n : Represented(n) => Represented(n)'
           /\ \A n \in flows : Represented(n)'
<1> DEFINE written == flow_to_points(flows, read)
<1>1. flows \in SUBSET Flow /\ flows \subseteq 1..captured /\ read \in 0..MaxTime
  BY FlowsAssumption DEF TypeOK, Flow
<1>2. points' = Overwrite(points, written)
  BY DEF PointsWritten
<1>3. \A p \in points' : \E n \in 1..captured', t \in 0..MaxTime : p = PointOf(n, t)
  <2>1. \A p \in written : \E n \in 1..captured, t \in 0..MaxTime : p = PointOf(n, t)
    BY <1>1 DEF flow_to_points
  <2> HIDE DEF written
  <2>2. points' \subseteq points \cup written
    BY <1>2, OverwriteAddsOnly
  <2> QED BY <2>1, <2>2 DEF TypeOK
<1>4. ASSUME NEW n, NEW p \in points \cup written, NEW t \in 0..MaxTime, Tags(p) = Tags(PointOf(n, t))
      PROVE  Represented(n)'
  <2>1. \E q \in Overwrite(points, flow_to_points(flows, read)) : Tags(q) = Tags(p)
    <3>1. p \in points \cup flow_to_points(flows, read)
      BY <1>4
    <3> HIDE DEF written
    <3> QED BY <1>1, <3>1, OverwriteKeeps
  <2>2. PICK q \in Overwrite(points, written) : Tags(q) = Tags(p)
    BY <2>1
  <2> HIDE DEF written
  <2> QED BY <1>2, <1>4, <2>2, RepresentedNext
<1>5. ASSUME NEW n, Represented(n) PROVE Represented(n)'
  BY <1>4, <1>5 DEF Represented
<1>6. ASSUME NEW n \in flows PROVE Represented(n)'
  <2>1. PointOf(n, read) \in written
    BY DEF flow_to_points
  <2> HIDE DEF written
  <2> QED BY <1>1, <1>4, <2>1
<1> QED BY <1>3, <1>5, <1>6

\* What the second write does, whether its answer arrives or not.
LEMMA SecondWrite ==
    ASSUME IInv, pc = "rollups", RollupsWritten, UNCHANGED captured
    PROVE  /\ \A key \in DOMAIN rollups' : rollups'[key].flows_count \in 1..captured'
           /\ RollupsBacked'
<1> DEFINE new == flows_to_minute_rollups(flows, summed)
<1>0. /\ captured \in 0..MaxFlows /\ captured \in Nat /\ flows \in SUBSET (1..captured)
      /\ summed \in 0..MaxTime /\ rollups' = Replaced(rollups, new) /\ points' = points
  BY FlowsAssumption DEF IInv, TypeOK, RollupsWritten
<1>00. \A n : Represented(n)' <=> Represented(n)
  BY <1>0, RepresentedNext DEF Represented
<1> SUFFICES ASSUME NEW key \in DOMAIN rollups'
             PROVE  /\ rollups'[key].flows_count \in 1..captured
                    /\ rollups'[key].flows_count
                         <= Cardinality({n \in 1..captured : MayCount(n, key) /\ Represented(n)})
  BY <1>00, RepresentedNext DEF RollupsBacked
<1>1. CASE key \in DOMAIN new
  <2> DEFINE Members == {n \in flows : InRollup(n, key, summed)}
             After == {n \in 1..captured : MayCount(n, key) /\ Represented(n)}
  <2>1. rollups'[key] = new[key]
    BY <1>0, <1>1 DEF Replaced
  <2>2. new[key].flows_count = Cardinality(Members) /\ Cardinality(Members) \in 1..captured
    BY <1>0, <1>1, RollupCounts
  <2>3. Members \in SUBSET After /\ After \in SUBSET (1..captured)
    BY <1>0 DEF IInv, PointsFirst, MayCount
  <2> HIDE DEF Members, After, new
  <2>4. IsFiniteSet(After)
    <3>1. IsFiniteSet(1..captured)
      BY <1>0, FS_Interval
    <3> QED BY <2>3, <3>1, FS_Subset
  <2>5. Cardinality(Members) <= Cardinality(After)
    BY <2>3, <2>4, FS_Subset
  <2>6. /\ rollups'[key].flows_count \in 1..captured
        /\ rollups'[key].flows_count <= Cardinality(After)
    BY <2>1, <2>2, <2>5
  <2> QED BY <2>6 DEF After
<1>2. CASE key \notin DOMAIN new
  <2>1. key \in DOMAIN rollups /\ rollups'[key] = rollups[key]
    BY <1>0, <1>2 DEF Replaced
  <2> QED BY <2>1 DEF IInv, TypeOK, RollupsBacked
<1> QED BY <1>1, <1>2

-----------------------------------------------------------------------------

LEMMA InitInv == Init => IInv
<1> SUFFICES ASSUME Init PROVE IInv
  OBVIOUS
<1>1. IsFiniteSet({}) /\ Cardinality({}) = 0
  BY FS_EmptySet
<1>2. TypeOK
  BY <1>1, FlowsAssumption DEF Init, TypeOK
<1>3. DOMAIN rollups = {}
  BY DEF Init
<1> QED BY <1>2, <1>3 DEF Init, IInv, PointsFirst, RollupsBacked

\* A step that writes nothing and enters no write of rollups.
LEMMA NothingWritten ==
    ASSUME IInv, TypeOK', UNCHANGED influx, captured <= captured',
           pc' = "rollups" => pc = "rollups" /\ flows' = flows
    PROVE  IInv'
<1>1. \A n : Represented(n) => Represented(n)'
  BY RepresentedNext DEF Represented, influx
<1>2. RollupsBacked'
  BY <1>1, BackedStays DEF IInv, TypeOK, influx
<1> QED BY <1>1, <1>2 DEF IInv, PointsFirst

\* What a step says of the points there are is kept when records are added.
LEMMA PointsTyped ==
    ASSUME TypeOK, UNCHANGED points, captured <= captured', captured' \in Nat
    PROVE  \A p \in points' : \E n \in 1..captured', t \in 0..MaxTime : p = PointOf(n, t)
<1>1. captured \in Nat /\ 1..captured \subseteq 1..captured'
  BY FlowsAssumption DEF TypeOK
<1> QED BY <1>1 DEF TypeOK

LEMMA PointOfNext ==
    ASSUME \A p \in points' : \E n \in 1..captured', t \in 0..MaxTime : p = PointOf(n, t)
    PROVE  (\A p \in points : \E n \in 1..captured, t \in 0..MaxTime : p = PointOf(n, t))'
BY DEF PointOf, Minute

LEMMA NextInv == IInv /\ [Next]_vars => IInv'
<1> SUFFICES ASSUME IInv, [Next]_vars PROVE IInv'
  OBVIOUS
<1>0. /\ captured \in Nat /\ MaxFlows \in Nat /\ Limit \in Nat /\ MaxFaults \in Nat /\ MaxTime \in Nat
      /\ TypeOK
  BY FlowsAssumption DEF IInv, TypeOK
<1>1. CASE Capture
  <2>1. captured <= captured' /\ captured' \in 0..MaxFlows /\ UNCHANGED influx
    BY <1>0, <1>1 DEF Capture, TypeOK
  <2>2. (\A p \in points : \E n \in 1..captured, t \in 0..MaxTime : p = PointOf(n, t))'
    BY <1>0, <2>1, PointsTyped, PointOfNext DEF influx
  <2>3. flows' \subseteq 1..captured' /\ \A key \in DOMAIN rollups' : rollups'[key].flows_count \in 1..captured'
    BY <1>0, <1>1, <2>1 DEF Capture, TypeOK, sample, influx
  <2>4. TypeOK'
    BY <1>0, <1>1, <2>1, <2>2, <2>3 DEF Capture, TypeOK, sample
  <2> QED BY <1>1, <2>1, <2>4, NothingWritten DEF Capture, sample
<1> DEFINE Typed == \A p \in points : \E n \in 1..captured, t \in 0..MaxTime : p = PointOf(n, t)
<1>T. ASSUME UNCHANGED <<captured, points>> PROVE Typed'
  BY <1>0, <1>T, PointsTyped, PointOfNext
<1>2. CASE Rotate \/ Start \/ Poll \/ Passes
  <2>1. UNCHANGED <<captured, sample, influx, faults>>
    BY <1>2 DEF Rotate, Start, Poll, Passes
  <2>2. /\ newer' \in BOOLEAN /\ now' \in 0..MaxTime
        /\ pc' \in {"down", "poll", "read", "sum", "points", "rollups"}
        /\ pc' = "rollups" => pc = "rollups"
    <3>1. now \in 0..MaxTime
      BY <1>0 DEF TypeOK
    <3>2. CASE Rotate
      BY <1>0, <3>1, <3>2 DEF Rotate, TypeOK
    <3>3. CASE Start \/ Poll
      BY <1>0, <3>1, <3>3 DEF Start, Poll, TypeOK
    <3>4. CASE Passes
      BY <1>0, <3>1, <3>4 DEF Passes, TypeOK
    <3> QED BY <1>2, <3>2, <3>3, <3>4
  <2>3. TypeOK' /\ captured <= captured'
    <3>1. Typed'
      BY <1>T, <2>1 DEF influx
    <3> QED BY <1>0, <2>1, <2>2, <3>1 DEF TypeOK, influx, sample
  <2> QED BY <2>1, <2>2, <2>3, NothingWritten DEF sample
<1>3. CASE Read
  <2>1. Sample \subseteq 1..captured /\ Sample \in SUBSET (1..Limit)
    BY <1>0 DEF Sample
  <2>2. Cardinality(Sample) <= Limit
    <3>1. IsFiniteSet(1..Limit) /\ Cardinality(1..Limit) = Limit
      BY <1>0, FS_Interval
    <3> QED BY <2>1, <3>1, FS_Subset
  <2>3. Typed'
    BY <1>3, <1>T DEF Read, influx
  <2>4. TypeOK' /\ captured <= captured' /\ pc' # "rollups"
    BY <1>0, <1>3, <2>1, <2>2, <2>3 DEF Read, TypeOK, influx
  <2> QED BY <1>3, <2>4, NothingWritten DEF Read
<1>9. CASE Sum
  <2>1. Typed'
    BY <1>9, <1>T DEF Sum, influx
  <2>2. TypeOK' /\ captured <= captured' /\ pc' # "rollups"
    BY <1>0, <1>9, <2>1 DEF Sum, TypeOK, influx
  <2> QED BY <1>9, <2>2, NothingWritten DEF Sum
<1>W. ASSUME PointsWritten, UNCHANGED captured
      PROVE  /\ Typed'
             /\ RollupsBacked'
             /\ \A n \in flows : Represented(n)'
  <2>1. /\ \A n : Represented(n) => Represented(n)'
        /\ \A n \in flows : Represented(n)'
        /\ Typed'
    BY <1>0, <1>W, FirstWrite, PointOfNext
  <2>2. RollupsBacked'
    BY <1>0, <1>W, <2>1, BackedStays DEF PointsWritten, IInv, TypeOK
  <2> QED BY <2>1, <2>2
<1>4. CASE WritePoints
  <2>1. PointsWritten /\ UNCHANGED <<captured, newer, now, sample, faults>> /\ pc' = "rollups"
    BY <1>4 DEF WritePoints
  <2>2. TypeOK'
    BY <1>0, <1>W, <2>1 DEF TypeOK, sample, PointsWritten
  <2> QED BY <1>W, <2>1, <2>2 DEF IInv, PointsFirst, sample
<1>5. CASE WriteRollups
  <2>1. /\ \A key \in DOMAIN rollups' : rollups'[key].flows_count \in 1..captured'
        /\ RollupsBacked'
    BY <1>5, SecondWrite DEF WriteRollups
  <2>2. UNCHANGED <<captured, newer, now, sample, faults, points>> /\ pc' = "poll"
    BY <1>5 DEF WriteRollups, RollupsWritten
  <2>3. TypeOK'
    BY <1>0, <1>T, <2>1, <2>2 DEF TypeOK, sample
  <2> QED BY <2>1, <2>2, <2>3 DEF IInv, PointsFirst
<1>6. CASE NfdumpFails \/ WriteFails \/ Crash
  <2>1. /\ UNCHANGED <<captured, newer, now, sample, influx>>
        /\ faults < MaxFaults /\ faults' = faults + 1
        /\ pc' \in {"down", "poll"}
    BY <1>6 DEF NfdumpFails, WriteFails, Crash, Fault
  <2>2. faults' \in 0..MaxFaults /\ Typed'
    BY <1>0, <1>T, <2>1 DEF TypeOK, influx
  <2>3. TypeOK' /\ captured <= captured'
    BY <1>0, <2>1, <2>2 DEF TypeOK, influx, sample
  <2> QED BY <2>1, <2>3, NothingWritten
<1>7. CASE AnswerLost
  <2>1. /\ UNCHANGED <<captured, newer, now, sample>> /\ pc' = "poll"
        /\ faults' \in 0..MaxFaults
    BY <1>0, <1>7 DEF AnswerLost, Fault, TypeOK
  <2>2. CASE pc = "points" /\ PointsWritten
    <3>1. TypeOK'
      BY <1>0, <1>W, <2>1, <2>2 DEF TypeOK, sample, PointsWritten
    <3> QED BY <1>W, <2>1, <2>2, <3>1 DEF IInv, PointsFirst
  <2>3. CASE pc = "rollups" /\ RollupsWritten
    <3>1. /\ \A key \in DOMAIN rollups' : rollups'[key].flows_count \in 1..captured'
          /\ RollupsBacked'
      BY <2>1, <2>3, SecondWrite
    <3>2. TypeOK'
      BY <1>0, <1>T, <2>1, <2>3, <3>1 DEF RollupsWritten, TypeOK, sample
    <3> QED BY <2>1, <3>1, <3>2 DEF IInv, PointsFirst
  <2> QED BY <1>7, <2>2, <2>3 DEF AnswerLost
<1>8. CASE UNCHANGED vars
  <2>1. Typed'
    BY <1>8, <1>T DEF vars, influx
  <2>2. TypeOK' /\ captured <= captured'
    BY <1>0, <1>8, <2>1 DEF vars, TypeOK, influx, sample
  <2> QED BY <1>8, <2>2, NothingWritten DEF vars, sample
<1> QED BY <1>1, <1>2, <1>3, <1>4, <1>5, <1>6, <1>7, <1>8, <1>9 DEF Next, Ingest, Faults

\* The type invariant of the ingest: never more records than the limit, and
\* never a rollup that counts nothing.
THEOREM TypeCorrect == Spec => []TypeOK
<1>1. IInv => TypeOK
  BY DEF IInv
<1> QED BY <1>1, InitInv, NextInv, PTL DEF Spec

\* A rollup counts no more than the records whose tags and time have a point,
\* whichever write fails or is answered too late, and whenever the process restarts.
THEOREM RollupsAreBacked == Spec => []RollupsBacked
<1>1. IInv => RollupsBacked
  BY DEF IInv
<1> QED BY <1>1, InitInv, NextInv, PTL DEF Spec

-----------------------------------------------------------------------------
(* What a rollup says never shrinks.                                       *)

\* A non-empty set of natural numbers has a least one.
LEMMA LeastOne ==
    ASSUME NEW S \in SUBSET Nat, S # {}
    PROVE  \E n \in S : \A m \in S : n <= m
<1>1. IsWellFoundedOn(OpToRel(<, Nat), Nat)
  BY NatLessThanWellFounded
<1>2. PICK n \in S : \A m \in S : <<m, n>> \notin OpToRel(<, Nat)
  BY <1>1, WFMin
<1>3. ASSUME NEW m \in S PROVE n <= m
  <2>1. m \in Nat /\ n \in Nat /\ ~(m < n)
    BY <1>2 DEF OpToRel
  <2> QED BY <2>1
<1> QED BY <1>3

\* g holds the sums of the bytes of the given records after each record.
Adds(g, records, k) ==
    /\ DOMAIN g = 0..k
    /\ \A n \in 0..k :
          g[n] = IF n = 0 THEN 0 ELSE g[n - 1] + (IF n \in records THEN Record[n].bytes ELSE 0)

\* There is such a function: the last one before the first k without one
\* would extend to k.
LEMMA AddsExists ==
    ASSUME NEW N \in Nat, NEW records
    PROVE  \E g : Adds(g, records, N)
<1> DEFINE Missing == {k \in Nat : ~ \E g : Adds(g, records, k)}
<1>1. SUFFICES ASSUME Missing # {} PROVE FALSE
  OBVIOUS
<1>2. PICK k \in Missing : \A m \in Missing : k <= m
  <2>1. Missing \in SUBSET Nat
    OBVIOUS
  <2> HIDE DEF Missing
  <2> QED BY <1>1, <2>1, LeastOne
<1>3. k \in Nat /\ ~ \E g : Adds(g, records, k)
  OBVIOUS
<1>4. CASE k = 0
  <2> DEFINE g == [n \in 0..0 |-> 0]
  <2>1. Adds(g, records, 0)
    BY DEF Adds
  <2> QED BY <1>3, <1>4, <2>1
<1>5. CASE k # 0
  <2>1. k - 1 \in Nat /\ ~(k <= k - 1)
    BY <1>3, <1>5
  <2>2. PICK g : Adds(g, records, k - 1)
    BY <1>2, <2>1
  <2> DEFINE last == g[k - 1] + (IF k \in records THEN Record[k].bytes ELSE 0)
             h == [n \in 0..k |-> IF n = k THEN last ELSE g[n]]
  <2>3. ASSUME NEW n \in 0..k
        PROVE  h[n] = IF n = 0 THEN 0 ELSE h[n - 1] + (IF n \in records THEN Record[n].bytes ELSE 0)
    <3>1. CASE n = k
      <4>1. h[n] = last /\ h[n - 1] = g[k - 1] /\ n # 0
        BY <1>3, <1>5, <3>1
      <4> HIDE DEF h
      <4> QED BY <3>1, <4>1
    <3>2. CASE n # k
      <4>1. n \in 0..(k - 1) /\ h[n] = g[n]
        BY <1>3, <3>2
      <4>2. n # 0 => h[n - 1] = g[n - 1]
        BY <1>3, <3>2
      <4>3. g[n] = IF n = 0 THEN 0 ELSE g[n - 1] + (IF n \in records THEN Record[n].bytes ELSE 0)
        BY <2>2, <4>1 DEF Adds
      <4> HIDE DEF h
      <4> QED BY <4>1, <4>2, <4>3
    <3> QED BY <3>1, <3>2
  <2>4. DOMAIN h = 0..k
    OBVIOUS
  <2> HIDE DEF h
  <2>5. Adds(h, records, k)
    BY <2>3, <2>4 DEF Adds
  <2> QED BY <1>3, <2>5
<1> QED BY <1>4, <1>5

LEMMA BytesSumIs ==
    ASSUME NEW records
    PROVE  \E g : Adds(g, records, MaxFlows) /\ BytesSum(records) = g[MaxFlows]
<1> DEFINE Fits(g) ==
               g = [n \in 0..MaxFlows |->
                       IF n = 0 THEN 0
                       ELSE g[n - 1] + (IF n \in records THEN Record[n].bytes ELSE 0)]
           c == CHOOSE g : Fits(g)
<1>1. \E g : Fits(g)
  <2>1. PICK g : Adds(g, records, MaxFlows)
    BY AddsExists, FlowsAssumption
  <2> DEFINE h == [n \in 0..MaxFlows |-> g[n]]
  <2>2. Fits(h)
    BY <2>1, FlowsAssumption DEF Adds
  <2> QED BY <2>2
<1>2. Fits(c)
  BY <1>1, Zenon
<1>3. BytesSum(records) = c[MaxFlows]
  BY Zenon DEF BytesSum
<1> HIDE DEF c
<1>4. Adds(c, records, MaxFlows)
  BY <1>2 DEF Adds
<1> QED BY <1>3, <1>4

\* The bytes of more records are no fewer: the first record after which the
\* sums are the other way round would be one that is added to the fewer only.
LEMMA MoreBytes ==
    ASSUME NEW fewer, NEW more, \A n \in fewer : n \in more
    PROVE  BytesSum(fewer) <= BytesSum(more)
<1>1. PICK g : Adds(g, fewer, MaxFlows) /\ BytesSum(fewer) = g[MaxFlows]
  BY BytesSumIs
<1>2. PICK h : Adds(h, more, MaxFlows) /\ BytesSum(more) = h[MaxFlows]
  BY BytesSumIs
<1> DEFINE Bad == {n \in 0..MaxFlows : ~ (g[n] \in Nat /\ h[n] \in Nat /\ g[n] <= h[n])}
<1>3. Bad = {}
  <2> SUFFICES ASSUME Bad # {} PROVE FALSE
    OBVIOUS
  <2>1. PICK n \in Bad : \A m \in Bad : n <= m
    <3>1. Bad \in SUBSET Nat
      BY FlowsAssumption
    <3> HIDE DEF Bad
    <3> QED BY <3>1, LeastOne
  <2>2. n \in 0..MaxFlows /\ ~ (g[n] \in Nat /\ h[n] \in Nat /\ g[n] <= h[n])
    OBVIOUS
  <2>3. CASE n = 0
    <3>1. g[n] = 0 /\ h[n] = 0
      BY <1>1, <1>2, <2>2, <2>3 DEF Adds
    <3> QED BY <2>2, <3>1
  <2>4. CASE n # 0
    <3>1. n - 1 \in 0..MaxFlows /\ ~ (n <= n - 1) /\ n \in 1..MaxFlows
      BY <2>2, <2>4, FlowsAssumption
    <3>2. g[n - 1] \in Nat /\ h[n - 1] \in Nat /\ g[n - 1] <= h[n - 1]
      BY <2>1, <3>1
    <3>3. Record[n].bytes \in Nat
      BY <3>1, FlowsAssumption
    <3>4. /\ g[n] = g[n - 1] + (IF n \in fewer THEN Record[n].bytes ELSE 0)
          /\ h[n] = h[n - 1] + (IF n \in more THEN Record[n].bytes ELSE 0)
      BY <1>1, <1>2, <2>2, <2>4 DEF Adds
    <3> HIDE DEF Bad
    <3> QED BY <2>2, <3>2, <3>3, <3>4
  <2> QED BY <2>3, <2>4
<1>4. MaxFlows \in 0..MaxFlows
  BY FlowsAssumption
<1> QED BY <1>1, <1>2, <1>3, <1>4

\* Where all records have a time of their own, it does not matter when they are read.
LEMMA ReadAnyTime ==
    ASSUME NEW k \in 0..MaxFlows, NEW key, NEW t, Timed(key, k)
    PROVE  /\ \A n \in 1..k : InRollup(n, key, t) <=> InRollup(n, key, 0)
           /\ key \in RollupKeys(1..k, t) <=> key \in RollupKeys(1..k, 0)
           /\ key \in RollupKeys(1..k, 0) =>
                flows_to_minute_rollups(1..k, t)[key] = flows_to_minute_rollups(1..k, 0)[key]
<1>1. ASSUME NEW n \in 1..k PROVE InRollup(n, key, t) <=> InRollup(n, key, 0)
  BY DEF Timed, InRollup, Minute
<1>2. ASSUME NEW u, NEW v, key \in RollupKeys(1..k, u) PROVE key \in RollupKeys(1..k, v)
  <2>1. PICK n \in 1..k : \E p \in {"ALL", Record[n].proto} : key = [minute |-> Minute(n, u), proto |-> p]
    BY <1>2 DEF RollupKeys
  <2>2. Record[n].timed
    BY <2>1 DEF Timed
  <2>3. Minute(n, u) = Minute(n, v)
    BY <2>2 DEF Minute
  <2> QED BY <2>1, <2>3 DEF RollupKeys
<1>3. ASSUME key \in RollupKeys(1..k, 0)
      PROVE  flows_to_minute_rollups(1..k, t)[key] = flows_to_minute_rollups(1..k, 0)[key]
  <2>1. {n \in 1..k : InRollup(n, key, t)} = {n \in 1..k : InRollup(n, key, 0)}
    BY <1>1
  <2>2. key \in RollupKeys(1..k, t)
    BY <1>2, <1>3
  <2> QED BY <1>3, <2>1, <2>2 DEF flows_to_minute_rollups
<1> QED BY <1>1, <1>2, <1>3

\* The rollups of the first k records say no less than those of the first j.
LEMMA LaterRollups ==
    ASSUME NEW k \in 0..MaxFlows, NEW j \in 0..k, NEW t,
           NEW key \in DOMAIN flows_to_minute_rollups(1..j, t)
    PROVE  LET new == flows_to_minute_rollups(1..k, t)[key]
               old == flows_to_minute_rollups(1..j, t)[key]
           IN  /\ key \in DOMAIN flows_to_minute_rollups(1..k, t)
               /\ new.flows_count >= old.flows_count
               /\ new.bytes_sum >= old.bytes_sum
<1> DEFINE Of(i) == {n \in 1..i : InRollup(n, key, t)}
<1>0. k \in Nat /\ j \in 0..MaxFlows /\ 1..j \subseteq 1..k
  BY FlowsAssumption
<1>1. key \in DOMAIN flows_to_minute_rollups(1..k, t)
  BY <1>0 DEF flows_to_minute_rollups, RollupKeys
<1>2. /\ flows_to_minute_rollups(1..k, t)[key].flows_count = Cardinality(Of(k))
      /\ flows_to_minute_rollups(1..j, t)[key].flows_count = Cardinality(Of(j))
      /\ Cardinality(Of(k)) \in 1..k /\ Cardinality(Of(j)) \in 1..j
  <2>1. k \in 0..MaxFlows /\ 1..k \in SUBSET (1..k) /\ 1..j \in SUBSET (1..j)
    OBVIOUS
  <2>2. /\ flows_to_minute_rollups(1..k, t)[key].flows_count = Cardinality(Of(k))
        /\ Cardinality(Of(k)) \in 1..k
    BY <1>1, <2>1, RollupCounts
  <2>3. /\ flows_to_minute_rollups(1..j, t)[key].flows_count = Cardinality(Of(j))
        /\ Cardinality(Of(j)) \in 1..j
    BY <1>0, <2>1, RollupCounts
  <2> QED BY <2>2, <2>3
<1>3. Of(j) \in SUBSET Of(k) /\ Of(k) \in SUBSET (1..k)
  BY <1>0
<1>4. /\ flows_to_minute_rollups(1..k, t)[key].bytes_sum = BytesSum(Of(k))
      /\ flows_to_minute_rollups(1..j, t)[key].bytes_sum = BytesSum(Of(j))
  BY <1>1 DEF flows_to_minute_rollups
<1> HIDE DEF Of
<1>5. Cardinality(Of(j)) <= Cardinality(Of(k))
  <2>1. IsFiniteSet(1..k)
    BY <1>0, FS_Interval
  <2>2. IsFiniteSet(Of(k))
    BY <1>3, <2>1, FS_Subset
  <2> QED BY <1>3, <2>2, FS_Subset
<1>6. BytesSum(Of(j)) <= BytesSum(Of(k))
  BY <1>3, MoreBytes
<1>7. flows_to_minute_rollups(1..k, t)[key].flows_count
         >= flows_to_minute_rollups(1..j, t)[key].flows_count
  BY <1>2, <1>5
<1>8. BytesSum(Of(k)) >= BytesSum(Of(j))
  BY <1>6
<1> QED BY <1>1, <1>4, <1>7, <1>8

-----------------------------------------------------------------------------

\* The rollups stored are those of the first j records, wherever the first n all
\* have a time.
RollupsOf(j, n) ==
    \A key : Timed(key, n) =>
        /\ key \in DOMAIN rollups <=> key \in RollupKeys(1..j, 0)
        /\ key \in DOMAIN rollups => rollups[key] = flows_to_minute_rollups(1..j, 0)[key]

\* What is stored are the rollups of the first records, and what is handled
\* are the first records, as many at least: every sample starts at the first
\* record of all files, so the next write knows all that the last one knew.
Prefix ==
    \E k \in 0..captured :
        /\ k <= Limit /\ flows = 1..k
        /\ \E j \in 0..k : RollupsOf(j, captured)

\* Each rollup after a step says what it said before, or more.
Grown ==
    \A key \in DOMAIN rollups :
        Timed(key, captured) =>
            /\ key \in DOMAIN rollups'
            /\ rollups'[key].flows_count >= rollups[key].flows_count
            /\ rollups'[key].bytes_sum >= rollups[key].bytes_sum

\* RollupsOf and Prefix after a step: only the state changes.
LEMMA PrefixNext ==
    ASSUME NEW k \in 0..captured', k <= Limit, flows' = 1..k, NEW j \in 0..k,
           \A key : Timed(key, captured') =>
               /\ key \in DOMAIN rollups' <=> key \in RollupKeys(1..j, 0)
               /\ key \in DOMAIN rollups' => rollups'[key] = flows_to_minute_rollups(1..j, 0)[key]
    PROVE  Prefix'
BY DEF Prefix, RollupsOf, Timed, flows_to_minute_rollups, RollupKeys, InRollup, Minute, BytesSum

LEMMA InitPrefix == Init => Prefix
<1> SUFFICES ASSUME Init PROVE Prefix
  OBVIOUS
<1>1. 0 \in 0..captured /\ 0 <= Limit /\ flows = 1..0
  BY FlowsAssumption DEF Init
<1>2. RollupsOf(0, captured)
  <2>1. RollupKeys(1..0, 0) = {}
    BY DEF RollupKeys
  <2> QED BY <2>1 DEF Init, RollupsOf
<1>3. 0 \in 0..0
  OBVIOUS
<1> QED BY <1>1, <1>2, <1>3 DEF Prefix

\* The second write puts the rollups of all handled records in the place of
\* the stored ones.
LEMMA WrittenGrows ==
    ASSUME TypeOK, Prefix, RollupsWritten, UNCHANGED <<captured, flows>>
    PROVE  Prefix' /\ Grown
<1>1. PICK k \in 0..captured : k <= Limit /\ flows = 1..k /\ \E j \in 0..k : RollupsOf(j, captured)
  BY DEF Prefix
<1>2. PICK j \in 0..k : RollupsOf(j, captured)
  BY <1>1
<1> DEFINE new == flows_to_minute_rollups(1..k, summed)
<1>3. k \in 0..MaxFlows /\ k \in 0..k /\ 1..k \subseteq 1..captured /\ j \in 0..MaxFlows
  BY FlowsAssumption DEF TypeOK
<1>4. rollups' = Replaced(rollups, new)
  BY <1>1 DEF RollupsWritten
<1>5. DOMAIN new = RollupKeys(1..k, summed) /\ DOMAIN flows_to_minute_rollups(1..j, 0) = RollupKeys(1..j, 0)
      /\ DOMAIN flows_to_minute_rollups(1..k, 0) = RollupKeys(1..k, 0)
  BY DEF flows_to_minute_rollups
<1>6. ASSUME NEW key, Timed(key, captured)
      PROVE  /\ key \in DOMAIN new <=> key \in RollupKeys(1..k, 0)
             /\ key \in DOMAIN new => new[key] = flows_to_minute_rollups(1..k, 0)[key]
             /\ key \in DOMAIN rollups =>
                   /\ key \in DOMAIN new
                   /\ new[key].flows_count >= rollups[key].flows_count
                   /\ new[key].bytes_sum >= rollups[key].bytes_sum
  <2>1. Timed(key, k)
    BY <1>3, <1>6 DEF Timed
  <2>2. /\ key \in RollupKeys(1..k, summed) <=> key \in RollupKeys(1..k, 0)
        /\ key \in RollupKeys(1..k, 0) => new[key] = flows_to_minute_rollups(1..k, 0)[key]
    BY <1>3, <2>1, ReadAnyTime
  <2>3. ASSUME key \in DOMAIN rollups
        PROVE  LET later == flows_to_minute_rollups(1..k, 0)[key]
               IN  /\ key \in RollupKeys(1..k, 0)
                   /\ later.flows_count >= rollups[key].flows_count
                   /\ later.bytes_sum >= rollups[key].bytes_sum
    <3>1. key \in RollupKeys(1..j, 0) /\ rollups[key] = flows_to_minute_rollups(1..j, 0)[key]
      BY <1>2, <1>6, <2>3 DEF RollupsOf
    <3>2. key \in DOMAIN flows_to_minute_rollups(1..j, 0)
      BY <1>5, <3>1
    <3> QED BY <1>3, <1>5, <3>1, <3>2, LaterRollups
  <2> HIDE DEF new
  <2> QED BY <1>5, <2>2, <2>3
<1> HIDE DEF new
<1>7. DOMAIN rollups' = DOMAIN rollups \cup DOMAIN new
      /\ \A key \in DOMAIN new : rollups'[key] = new[key]
  BY <1>4 DEF Replaced
<1>8. Grown
  BY <1>6, <1>7 DEF Grown
<1>9. Prefix'
  <2>1. ASSUME NEW key, Timed(key, captured')
        PROVE  /\ key \in DOMAIN rollups' <=> key \in RollupKeys(1..k, 0)
               /\ key \in DOMAIN rollups' => rollups'[key] = flows_to_minute_rollups(1..k, 0)[key]
    <3>1. Timed(key, captured)
      BY <2>1
    <3> QED BY <1>6, <1>7, <3>1
  <2> QED BY <1>1, <1>3, <2>1, PrefixNext
<1> QED BY <1>8, <1>9

\* What is stored is all the more.
LEMMA KeptGrows ==
    ASSUME TypeOK, Prefix, UNCHANGED rollups
    PROVE  Grown
<1>1. PICK j \in 0..captured : RollupsOf(j, captured)
  BY FlowsAssumption DEF Prefix, TypeOK
<1>2. j \in 0..MaxFlows /\ j \in 0..j
  BY FlowsAssumption DEF TypeOK
<1>3. ASSUME NEW key \in DOMAIN rollups, Timed(key, captured)
      PROVE  /\ rollups[key].flows_count >= rollups[key].flows_count
             /\ rollups[key].bytes_sum >= rollups[key].bytes_sum
  <2>1. key \in RollupKeys(1..j, 0) /\ rollups[key] = flows_to_minute_rollups(1..j, 0)[key]
    BY <1>1, <1>3 DEF RollupsOf
  <2>2. key \in DOMAIN flows_to_minute_rollups(1..j, 0)
    BY <2>1 DEF flows_to_minute_rollups
  <2> QED BY <1>2, <2>1, <2>2, LaterRollups
<1> QED BY <1>3 DEF Grown

LEMMA PrefixStep == TypeOK /\ Prefix /\ [Next]_vars => Prefix' /\ Grown
<1> SUFFICES ASSUME TypeOK, Prefix, [Next]_vars PROVE Prefix' /\ Grown
  OBVIOUS
<1>0. PICK k \in 0..captured : k <= Limit /\ flows = 1..k /\ \E j \in 0..k : RollupsOf(j, captured)
  BY DEF Prefix
<1>00. PICK j \in 0..k : RollupsOf(j, captured)
  BY <1>0
<1>4. captured \in Nat
  BY FlowsAssumption DEF TypeOK
<1>K. ASSUME UNCHANGED rollups, captured' >= captured, captured' \in Nat,
             NEW new \in 0..captured', new <= Limit, flows' = 1..new, j \in 0..new
      PROVE  Prefix'
  <2>1. ASSUME NEW key, Timed(key, captured') PROVE Timed(key, captured)
    BY <1>4, <1>K, <2>1 DEF Timed
  <2> QED BY <1>00, <1>K, <2>1, PrefixNext DEF RollupsOf
<1>1. CASE Read
  <2> DEFINE new == IF captured <= Limit THEN captured ELSE Limit
  <2>1. Sample = 1..new /\ new \in 0..captured /\ new <= Limit /\ k \in 0..new
    BY <1>0, FlowsAssumption DEF Sample, TypeOK
  <2>2. flows' = 1..new /\ captured' = captured /\ rollups' = rollups
    BY <1>1, <2>1 DEF Read, influx
  <2> HIDE DEF new
  <2>4. j \in 0..new
    BY <2>1, <1>4
  <2> QED BY <1>4, <1>K, <2>1, <2>2, <2>4, KeptGrows
<1>2. CASE RollupsWritten /\ UNCHANGED <<captured, flows>>
  BY <1>2, WrittenGrows
<1>3. CASE UNCHANGED <<flows, rollups>> /\ captured' >= captured /\ captured' \in Nat
  <2>1. k \in 0..captured'
    BY <1>3, <1>4
  <2> QED BY <1>0, <1>3, <1>K, <2>1, KeptGrows
<1>5. CASE Capture \/ Rotate \/ Passes \/ Start \/ Poll \/ Sum
  <2>1. UNCHANGED <<flows, rollups>> /\ captured' >= captured /\ captured' \in Nat
    BY <1>4, <1>5 DEF Capture, Rotate, Passes, Start, Poll, Sum, influx, sample
  <2> QED BY <1>3, <2>1
<1>6. CASE WritePoints \/ NfdumpFails \/ WriteFails \/ Crash \/ UNCHANGED vars
  <2>1. UNCHANGED <<flows, rollups>> /\ captured' >= captured /\ captured' \in Nat
    BY <1>4, <1>6 DEF WritePoints, PointsWritten, NfdumpFails, WriteFails, Crash, Fault, influx, vars, sample
  <2> QED BY <1>3, <2>1
<1>7. CASE WriteRollups
  BY <1>2, <1>7 DEF WriteRollups, sample
<1>8. CASE AnswerLost
  <2>1. UNCHANGED <<captured, flows>> /\ captured' >= captured /\ captured' \in Nat
    BY <1>4, <1>8 DEF AnswerLost, sample
  <2>2. rollups' = rollups \/ RollupsWritten
    BY <1>8 DEF AnswerLost, PointsWritten
  <2> QED BY <1>2, <1>3, <2>1, <2>2
<1> QED BY <1>1, <1>5, <1>6, <1>7, <1>8 DEF Next, Ingest, Faults

\* What a rollup whose records have times says never shrinks, whichever of the two
\* writes fails, is answered too late or is cut off by a crash: the poll after it has
\* seen the same first records, and it replaces each rollup by one of more of them.
THEOREM RollupsOnlyGrow == Spec => RollupsGrow
<1>1. Init => Prefix
  BY InitPrefix
<1>2. IInv /\ Prefix /\ [Next]_vars => Prefix' /\ Grown
  BY PrefixStep DEF IInv
<1>3. Grown =>
        [\A key \in DOMAIN rollups :
          Timed(key, captured) =>
            /\ key \in DOMAIN rollups'
            /\ rollups'[key].flows_count >= rollups[key].flows_count
            /\ rollups'[key].bytes_sum >= rollups[key].bytes_sum]_vars
  BY DEF Grown
<1> QED BY <1>1, <1>2, <1>3, InitInv, NextInv, PTL DEF Spec, RollupsGrow

-----------------------------------------------------------------------------
(* suricata_ingest.py, with a process and faults of its own.               *)

\* Nothing ahead of the reader is in the table, and the line being handled
\* is not in it yet.
Behind ==
    /\ \A k \in DOMAIN table : table[k] <= pos
    /\ at = "handle" => line = pos /\ line > 0 /\ \A k \in DOMAIN table : table[k] < line

SuricataInv == SuricataTypeOK /\ TableInOrder /\ Behind

-----------------------------------------------------------------------------

\* Appending the number of an alert greater than all in the table keeps its
\* order: the two actions that insert rest on it.
LEMMA AppendKeepsOrder ==
    ASSUME SuricataInv, at = "handle", file[line] = "alert",
           table' = Append(table, line), UNCHANGED <<file, pos, line>>
    PROVE  /\ table' \in Seq(1..Len(file))
           /\ TableInOrder'
           /\ \A k \in DOMAIN table' : table'[k] <= pos
<1>1. table \in Seq(1..Len(file)) /\ line \in 1..Len(file) /\ line = pos /\ pos \in Nat
  BY DEF SuricataInv, SuricataTypeOK, Behind
<1>2. /\ table' \in Seq(1..Len(file))
      /\ DOMAIN table' = 1..(Len(table) + 1)
      /\ DOMAIN table = 1..Len(table) /\ Len(table) \in Nat
      /\ table'[Len(table) + 1] = line
      /\ \A k \in 1..Len(table) : table'[k] = table[k]
  BY <1>1
<1>3. \A k \in DOMAIN table : table[k] \in 1..Len(file) /\ table[k] < line
  BY <1>1, <1>2 DEF SuricataInv, Behind
<1>4. \A k \in DOMAIN table' : file'[table'[k]] = "alert"
  <2>1. TAKE k \in DOMAIN table'
  <2>2. CASE k = Len(table) + 1
    BY <1>2, <2>2
  <2>3. CASE k \in DOMAIN table
    BY <1>2, <2>3 DEF SuricataInv, TableInOrder
  <2> QED BY <1>2, <2>2, <2>3
<1>5. \A j, k \in DOMAIN table' : j < k => table'[j] < table'[k]
  <2>1. TAKE j, k \in DOMAIN table'
  <2>2. HAVE j < k
  <2>3. CASE k = Len(table) + 1
    BY <1>2, <1>3, <2>2, <2>3
  <2>4. CASE k \in DOMAIN table
    BY <1>2, <2>2, <2>4 DEF SuricataInv, TableInOrder
  <2> QED BY <1>2, <2>3, <2>4
<1>6. \A k \in DOMAIN table' : table'[k] <= pos
  <2>1. TAKE k \in DOMAIN table'
  <2>2. CASE k = Len(table) + 1
    BY <1>1, <1>2, <2>2
  <2>3. CASE k \in DOMAIN table
    BY <1>1, <1>2, <1>3, <2>3
  <2> QED BY <1>2, <2>2, <2>3
<1> QED BY <1>2, <1>4, <1>5, <1>6 DEF TableInOrder

\* A line added to eve.json changes nothing of what the table refers to.
LEMMA FileGrows ==
    ASSUME SuricataInv, NEW type \in EventType, file' = Append(file, type),
           UNCHANGED <<pos, line, table>>
    PROVE  /\ file' \in Seq(EventType)
           /\ pos' <= Len(file') /\ line' <= Len(file')
           /\ table' \in Seq(1..Len(file'))
           /\ TableInOrder'
<1>1. /\ file \in Seq(EventType) /\ Len(file) \in Nat
      /\ pos \in Nat /\ pos <= Len(file) /\ line \in Nat /\ line <= Len(file)
      /\ table \in Seq(1..Len(file))
  BY DEF SuricataInv, SuricataTypeOK
<1>2. /\ file' \in Seq(EventType) /\ Len(file') = Len(file) + 1
      /\ \A k \in 1..Len(file) : file'[k] = file[k]
  BY <1>1
<1>3. /\ DOMAIN table = 1..Len(table) /\ Len(table) \in Nat
      /\ \A k \in DOMAIN table : table[k] \in 1..Len(file)
  BY <1>1
<1>4. table' \in Seq(1..Len(file'))
  BY <1>1, <1>2, <1>3
<1>5. TableInOrder'
  BY <1>2, <1>3 DEF SuricataInv, TableInOrder
<1> QED BY <1>1, <1>2, <1>4, <1>5

LEMMA SuricataInvInit == SuricataInit => SuricataInv
<1> SUFFICES ASSUME SuricataInit PROVE SuricataInv
  OBVIOUS
<1>1. midline \in BOOLEAN
  BY Zenon DEF SuricataInit
<1>2. file = <<>> /\ table = <<>> /\ Len(file) = 0 /\ pos = 0 /\ line = 0 /\ at = "down"
  BY DEF SuricataInit
<1>3. file \in Seq(EventType) /\ table \in Seq(1..Len(file)) /\ DOMAIN table = {}
  BY <1>2
<1>4. SuricataTypeOK
  BY <1>1, <1>2, <1>3 DEF SuricataInit, SuricataTypeOK
<1> QED BY <1>2, <1>3, <1>4 DEF SuricataInv, TableInOrder, Behind

\* Each action keeps the invariant.
LEMMA SuricataInvStep == SuricataInv /\ [SuricataNext]_suricataVars => SuricataInv'
<1> SUFFICES ASSUME SuricataInv, [SuricataNext]_suricataVars PROVE SuricataInv'
  OBVIOUS
<1> USE DEF SuricataInv
<1>1. CASE Connect
  BY <1>1 DEF Connect, eve, reader, SuricataTypeOK, TableInOrder, Behind
<1>2. CASE OpenEve
  <2>1. Len(file) \in Nat /\ pos <= Len(file) /\ \A k \in DOMAIN table : table[k] \in Nat
    BY DEF SuricataTypeOK
  <2>2. SuricataTypeOK'
    BY <1>2, <2>1 DEF OpenEve, eve, SuricataTypeOK
  <2>3. TableInOrder'
    BY <1>2 DEF OpenEve, eve, TableInOrder
  <2>4. Behind'
    BY <1>2, <2>1 DEF OpenEve, Behind, SuricataTypeOK
  <2> QED BY <2>2, <2>3, <2>4
<1>3. CASE ReadLine
  <2>1. Len(file) \in Nat /\ pos \in Nat /\ \A k \in DOMAIN table : table[k] \in Nat
    BY DEF SuricataTypeOK
  <2>2. SuricataTypeOK'
    BY <1>3, <2>1 DEF ReadLine, eve, SuricataTypeOK
  <2>3. TableInOrder'
    BY <1>3 DEF ReadLine, eve, TableInOrder
  <2>4. Behind'
    BY <1>3, <2>1 DEF ReadLine, Behind
  <2> QED BY <2>2, <2>3, <2>4
<1>4. CASE ReadHalf
  <2>1. Len(file) \in Nat /\ pos \in Nat /\ \A k \in DOMAIN table : table[k] \in Nat
    BY DEF SuricataTypeOK
  <2>2. /\ midline' = TRUE \/ midline' = FALSE
        /\ (pos' = pos /\ pos = Len(file)) \/ (pos' = pos + 1 /\ pos < Len(file))
    BY <1>4, Zenon DEF ReadHalf
  <2>3. midline' \in BOOLEAN
    BY <2>2, Zenon
  <2>4. pos' \in {pos, pos + 1} /\ pos' <= Len(file)
    BY <2>1, <2>2, SMT
  <2>5. SuricataTypeOK'
    BY <1>4, <2>1, <2>3, <2>4 DEF ReadHalf, eve, SuricataTypeOK
  <2>6. TableInOrder'
    BY <1>4 DEF ReadHalf, eve, TableInOrder
  <2>7. Behind'
    BY <1>4, <2>1, <2>4 DEF ReadHalf, Behind
  <2> QED BY <2>5, <2>6, <2>7
<1>5. CASE Ignore
  BY <1>5 DEF Ignore, eve, reader, SuricataTypeOK, TableInOrder, Behind
<1>6. CASE InsertAlert
  BY <1>6, AppendKeepsOrder DEF InsertAlert, eve, reader, SuricataTypeOK, Behind
<1>7. CASE InsertOnBroken
  BY <1>7 DEF InsertOnBroken, eve, reader, SuricataTypeOK, TableInOrder, Behind
<1>8. CASE WriteTail
  <2>1. partial \in EventType
    BY <1>8 DEF WriteTail, SuricataTypeOK
  <2> QED BY <1>8, <2>1, FileGrows DEF WriteTail, reader, SuricataTypeOK, Behind
<1>9. ASSUME NEW type \in EventType, WriteLine(type) PROVE SuricataInv'
  BY <1>9, FileGrows DEF WriteLine, reader, SuricataTypeOK, Behind
<1>10. ASSUME NEW type \in EventType, WriteHead(type) PROVE SuricataInv'
  BY <1>10 DEF WriteHead, reader, SuricataTypeOK, TableInOrder, Behind
<1>11. CASE InsertRefused
  BY <1>11 DEF InsertRefused, Failure, eve, reader, SuricataTypeOK, TableInOrder, Behind
<1>12. CASE CommitUnconfirmed
  BY <1>12, AppendKeepsOrder DEF CommitUnconfirmed, Failure, eve, reader, SuricataTypeOK, Behind
<1>13. CASE LoseConnection
  BY <1>13 DEF LoseConnection, Failure, eve, reader, SuricataTypeOK, TableInOrder, Behind
<1>14. CASE Dies
  BY <1>14 DEF Dies, Failure, eve, reader, SuricataTypeOK, TableInOrder, Behind
<1>15. CASE UNCHANGED suricataVars
  BY <1>15 DEF suricataVars, SuricataTypeOK, TableInOrder, Behind
<1> QED
  BY <1>1, <1>2, <1>3, <1>4, <1>5, <1>6, <1>7, <1>8, <1>9, <1>10, <1>11, <1>12,
     <1>13, <1>14, <1>15 DEF SuricataNext, Process, Suricata, Failures

\* SuricataInv holds of every state main() and Suricata can reach.
LEMMA SuricataInvHolds == SuricataSpec => []SuricataInv
BY SuricataInvInit, SuricataInvStep, PTL DEF SuricataSpec

\* The type invariant of the tail of eve.json.
THEOREM SuricataTypeCorrect == SuricataSpec => []SuricataTypeOK
<1>1. SuricataInv => SuricataTypeOK
  BY DEF SuricataInv
<1> QED BY <1>1, SuricataInvHolds, PTL

\* ids_alerts holds alerts only, each once, in the order they were written,
\* whatever main() meets: torn lines, lost connections, restarts.
THEOREM EveryTableInOrder == SuricataSpec => []TableInOrder
<1>1. SuricataInv => TableInOrder
  BY DEF SuricataInv
<1> QED BY <1>1, SuricataInvHolds, PTL
=============================================================================
