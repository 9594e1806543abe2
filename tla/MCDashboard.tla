----------------------------- MODULE MCDashboard -----------------------------
(* The instance of Dashboard for TLC: three minutes with traffic, the last
   after a gap; a window that has ended, all of it for one protocol, and the
   end of it. *)
EXTENDS Dashboard

MCMinute == {2, 3, 11}
MCFilter == {"early", "tcp", "late"}
MCStart == [early |-> 0, tcp |-> 0, late |-> 10]
MCStop == [early |-> 5, tcp |-> 14, late |-> 14]
MCSelected == [early |-> MCMinute, tcp |-> {2, 11}, late |-> MCMinute]
MCPanel == {"summary", "topSources"}
MCIP == {"lan", "kali"}
MCSample == <<"lan", "none", "kali", "lan">>
=============================================================================
