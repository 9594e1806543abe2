---------------------------- MODULE MCAccessRules ----------------------------
(* Instances of AccessRules for TLC.  "kali" is an ordinary address, "host"
   one the backend trusts, "lan" one only the agent protects. *)
EXTENDS AccessRulesInv, TLC

CONSTANTS t1, w1, s1, s2, kali, host, lan

\* One process: a request thread and the worker.
OneThread == {t1}
OneProcess == {w1}
OneThreadClient == {t1, w1}
SameServer == [t \in Thread |-> w1]

Rules2 == {1, 2}

AgentThreads == Permutations({s1, s2})
=============================================================================
