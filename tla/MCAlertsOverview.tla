--------------------------- MODULE MCAlertsOverview ---------------------------
(* The instance of AlertsOverview for TLC: the attacker raises an alert, later
   the gateway, which is trusted; at the end the first is older than 24 hours. *)
EXTENDS AlertsOverview

MCIP == {"lan", "kali"}
MCSource == <<"kali", "lan">>
MCStamp == <<0, 1>>
MCPoll == 1..2
=============================================================================
