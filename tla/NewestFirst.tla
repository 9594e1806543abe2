----------------------------- MODULE NewestFirst -----------------------------
(***************************************************************************)
(* How list_alerts of alerts_service.py orders and cuts what it selects:   *)
(* by descending time, under OFFSET and LIMIT.  Alerts of one instant come *)
(* in any order, and in each query in another.                             *)
(***************************************************************************)
EXTENDS Naturals, FiniteSets, Functions

CONSTANT Stamp      \* the time of each alert

\* The places that alert n may take among the alerts S.
Places(n, S) ==
    (Cardinality({m \in S : Stamp[m] > Stamp[n]}) + 1)..Cardinality({m \in S : Stamp[m] >= Stamp[n]})

Lesser(a, b) == IF a < b THEN a ELSE b

\* The rows that are left of S after the first ones, size at most.
Remaining(S, from, size) == Lesser(Cardinality(S), from + size) - Lesser(Cardinality(S), from)

\* What a query may answer: different alerts, each at one of its places.
Pages(S, from, size) ==
    {rows \in Injection(1..Remaining(S, from, size), S) :
        \A i \in DOMAIN rows : from + i \in Places(rows[i], S)}
=============================================================================
