-------------------------- MODULE MCAccessRulesPage --------------------------
(* The instance of AccessRulesPage for TLC. *)
EXTENDS AccessRulesPage

MCLoad == {"load1", "load2"}
MCCall == {"call1", "call2"}
MCRule == {"rule"}
=============================================================================
