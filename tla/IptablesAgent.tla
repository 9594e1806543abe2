---------------------------- MODULE IptablesAgent ----------------------------
(***************************************************************************)
(* The gateway firewall agent (gateway/firewall-agent/agent.py) and the    *)
(* two iptables chains it edits.  FastAPI runs the two handlers in a       *)
(* thread pool, so the iptables commands of several requests interleave;   *)
(* every handler runs its commands one by one and a client that gave up    *)
(* waiting does not stop it.                                               *)
(*                                                                         *)
(* "owed" is an auxiliary variable: the agent knows addresses only, it     *)
(* records on behalf of which backend rule a DROP was inserted.            *)
(***************************************************************************)
EXTENDS Naturals

CONSTANTS
    IP,             \* addresses
    RuleId,         \* ids of the backend's rules (auxiliary, see owed)
    Client,         \* the backend's callers, one outstanding call each
    AgentThread,    \* the agent's pool of handler threads
    AgentTrusted,   \* TRUSTED_IPS of the agent
    None

ASSUME NoneAssumption == None \notin IP \cup RuleId \cup Client
ASSUME AgentTrustedAssumption == AgentTrusted \subseteq IP

VARIABLES
    chain,          \* chain[c][i]: number of DROP rules for source i in chain c
    owed,           \* owed[c]: rules whose DROP was put into c and not deleted since
    req,            \* req[s]: the request handler thread s is executing
    reply           \* reply[a]: what client a has of its call

agentVars == <<chain, owed, req, reply>>

Chain == {"INPUT", "FORWARD"}

Request == [op : {"none", "block", "unblock"}, ip : IP \cup {None},
            rule : RuleId \cup {None}, client : Client \cup {None},
            step : Chain \cup {"idle", "answer"}]

NoReq == [op |-> "none", ip |-> None, rule |-> None, client |-> None, step |-> "idle"]

AgentTypeOK ==
    /\ chain \in [Chain -> [IP -> Nat]]
    /\ owed \in [Chain -> SUBSET RuleId]
    /\ req \in [AgentThread -> Request]
    /\ reply \in [Client -> {"none", "wait", "ok", "error"}]

AgentInit ==
    /\ chain = [c \in Chain |-> [i \in IP |-> 0]]
    /\ owed = [c \in Chain |-> {}]
    /\ req = [s \in AgentThread |-> NoReq]
    /\ reply = [a \in Client |-> "none"]

-----------------------------------------------------------------------------
(* The client side of a call: httpx posts and waits for an answer.         *)

Post(a, op, i, r) ==
    /\ reply[a] = "none"
    /\ \E s \in AgentThread :
          /\ req[s].step = "idle"
          /\ req' = [req EXCEPT ![s] = [op |-> op, ip |-> i, rule |-> r,
                                        client |-> a, step |-> "INPUT"]]
    /\ reply' = [reply EXCEPT ![a] = "wait"]
    /\ UNCHANGED <<chain, owed>>

\* No connection: httpx.ConnectError, the agent never sees the request.
NoConnection(a) ==
    /\ reply[a] = "none"
    /\ reply' = [reply EXCEPT ![a] = "error"]
    /\ UNCHANGED <<chain, owed, req>>

\* The requests of a set of clients with nobody left to answer to.
Orphaned(A) == [s \in AgentThread |->
                  IF req[s].client \in A THEN [req[s] EXCEPT !.client = None] ELSE req[s]]

\* httpx.TimeoutException after 5 s: the handler runs on, its answer is lost.
Timeout(a) ==
    /\ reply[a] = "wait"
    /\ reply' = [reply EXCEPT ![a] = "error"]
    /\ req' = Orphaned({a})
    /\ UNCHANGED <<chain, owed>>

-----------------------------------------------------------------------------
(* The handlers.                                                           *)

After(step) == IF step = "INPUT" THEN "FORWARD" ELSE "answer"

Respond(s, what) ==
    /\ reply' = [a \in Client |-> IF a = req[s].client THEN what ELSE reply[a]]
    /\ req' = [req EXCEPT ![s] = NoReq]

\* validate_ip: HTTP 400 for a trusted address, for both operations.
Refuse(s) ==
    /\ req[s].step = "INPUT"
    /\ req[s].ip \in AgentTrusted
    /\ Respond(s, "error")
    /\ UNCHANGED <<chain, owed>>

\* iptables -I <chain> -s <ip> -j DROP, first INPUT, then FORWARD.
Insert(s) ==
    /\ req[s].op = "block"
    /\ req[s].step \in Chain
    /\ req[s].ip \notin AgentTrusted
    /\ chain' = [chain EXCEPT ![req[s].step][req[s].ip] = @ + 1]
    /\ owed' = [owed EXCEPT ![req[s].step] = @ \cup {req[s].rule}]
    /\ req' = [req EXCEPT ![s].step = After(@)]
    /\ UNCHANGED reply

\* run_cmd raises HTTP 500 on a nonzero exit; what INPUT got stays there.
InsertFails(s) ==
    /\ req[s].op = "block"
    /\ req[s].step \in Chain
    /\ req[s].ip \notin AgentTrusted
    /\ Respond(s, "error")
    /\ UNCHANGED <<chain, owed>>

\* Mutant: a DROP is taken off the count whether or not one is there.
Delete_Uncounted(s) ==
    /\ req[s].op = "unblock"
    /\ req[s].step \in Chain
    /\ req[s].ip \notin AgentTrusted
    /\ chain' = [chain EXCEPT ![req[s].step][req[s].ip] = @ - 1]
    /\ owed' = [owed EXCEPT ![req[s].step] = @ \ {req[s].rule}]
    /\ req' = [req EXCEPT ![s].step = After(@)]
    /\ UNCHANGED reply

\* Mutant: the INPUT rule is deleted, the FORWARD rule is forgotten.
Delete_InputOnly(s) ==
    /\ req[s].op = "unblock"
    /\ req[s].step = "INPUT"
    /\ req[s].ip \notin AgentTrusted
    /\ chain' = [chain EXCEPT !["INPUT"][req[s].ip] = IF @ = 0 THEN 0 ELSE @ - 1]
    /\ owed' = [owed EXCEPT !["INPUT"] = @ \ {req[s].rule}]
    /\ req' = [req EXCEPT ![s].step = "answer"]
    /\ UNCHANGED reply

\* iptables -D removes one matching rule; with none left it exits nonzero,
\* which the handler ignores.
Delete(s) ==
    /\ req[s].op = "unblock"
    /\ req[s].step \in Chain
    /\ req[s].ip \notin AgentTrusted
    /\ chain' = [chain EXCEPT ![req[s].step][req[s].ip] = IF @ = 0 THEN 0 ELSE @ - 1]
    /\ owed' = [owed EXCEPT ![req[s].step] = @ \ {req[s].rule}]
    /\ req' = [req EXCEPT ![s].step = After(@)]
    /\ UNCHANGED reply

\* A -D that fails with the rule in place (xtables lock, sudo): ignored too.
DeleteFails(s) ==
    /\ req[s].op = "unblock"
    /\ req[s].step \in Chain
    /\ req[s].ip \notin AgentTrusted
    /\ req' = [req EXCEPT ![s].step = After(@)]
    /\ UNCHANGED <<chain, owed, reply>>

Answer(s) ==
    /\ req[s].step = "answer"
    /\ Respond(s, "ok")
    /\ UNCHANGED <<chain, owed>>

HandlerStep(s) == Refuse(s) \/ Insert(s) \/ Delete(s) \/ Answer(s)

-----------------------------------------------------------------------------
(* The agent's process dies (systemd restarts it, Restart=always) or the   *)
(* gateway reboots, which also empties the chains: nothing saves them.     *)

CutConnections ==
    /\ req' = [s \in AgentThread |-> NoReq]
    /\ reply' = [a \in Client |-> IF reply[a] = "wait" THEN "error" ELSE reply[a]]

AgentCrash == CutConnections /\ UNCHANGED <<chain, owed>>

Reboot ==
    /\ CutConnections
    /\ chain' = [c \in Chain |-> [i \in IP |-> 0]]
    /\ owed' = [c \in Chain |-> {}]

\* The backend process of clients A dies: their calls have no caller left.
Hangup(A) ==
    /\ req' = Orphaned(A)
    /\ reply' = [a \in Client |-> IF a \in A THEN "none" ELSE reply[a]]
    /\ UNCHANGED <<chain, owed>>

\* The caller has read its answer.
TakeReply(a, what) ==
    /\ reply[a] = what
    /\ reply' = [reply EXCEPT ![a] = "none"]
    /\ UNCHANGED <<chain, owed, req>>
=============================================================================
