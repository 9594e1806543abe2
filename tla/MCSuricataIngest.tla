-------------------------- MODULE MCSuricataIngest --------------------------
(* The instance of SuricataIngest for TLC; its constants are numbers and
   strings, given in the configurations. *)
EXTENDS SuricataIngest
=============================================================================
