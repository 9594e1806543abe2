---------------------------- MODULE MCAlertsPage ----------------------------
(* The instances of AlertsPage for TLC: two alerts of one instant and one of a
   later, all of which match "all", the first and the third "severe" ones; and,
   of the live page, one alert after the other under one kind of filter. *)
EXTENDS AlertsPage

MCStamp == <<1, 1, 2>>
MCKind == {"all", "severe"}
MCSelected == [k \in MCKind |-> IF k = "all" THEN 1..MaxAlerts ELSE {1, 3}]

MCStampLive == <<1, 2>>
MCKindLive == {"all"}
MCSelectedLive == [k \in MCKindLive |-> 1..MaxAlerts]
=============================================================================
