----------------------------- MODULE TopAttacker -----------------------------
(* The source that most of a sample of alerts come from, as AlertsOverview.tsx *)
(* and the export of Dashboard.tsx both work it out.                           *)
EXTENDS Naturals, Sequences, FiniteSets

CONSTANT NoIP       \* no address: the null of src_ip, and of the answer

\* The alerts that count, by their place in the sample.
Counted(sample, skipped) == {i \in DOMAIN sample : sample[i] # NoIP /\ sample[i] \notin skipped}

\* Of those, the alerts of the addresses that come most often.
Best(sample, counted) ==
    LET Hits(i) == Cardinality({j \in counted : sample[j] = sample[i]})
    IN  {i \in counted : \A j \in counted : Hits(j) <= Hits(i)}

\* sample: the src_ip of each alert, newest first.  Of several that come
\* equally often the Map gives the one it met first.
TopAttackerOf(sample, skipped) ==
    LET best == Best(sample, Counted(sample, skipped))
        first == CHOOSE i \in best : \A j \in best : i <= j
    IN  IF best = {} THEN NoIP ELSE sample[first]
=============================================================================
