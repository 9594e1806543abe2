--------------------------- MODULE AccessRulesInv ---------------------------
(***************************************************************************)
(* The inductive invariants behind the safety properties of AccessRules,   *)
(* in named parts, proved in AccessRulesProofs.                            *)
(***************************************************************************)
EXTENDS AccessRules

Calling == {"blocking", "unblocking"}
OpOf(label) == IF label = "blocking" THEN "block" ELSE "unblock"
Unblockable == {"ACTIVE"} \cup Closed

\* What an actor's place in the code says of its job and of its call.
JobOK(a) ==
    /\ pc[a] \in {"block", "insert"} \cup Calling => job[a].ip \in IP
    /\ pc[a] \in {"unblock"} \cup Calling => job[a].rule \in RuleId
    /\ pc[a] \in Calling => rules[job[a].rule].ip = job[a].ip
    /\ pc[a] \notin Calling => reply[a] = "none"
    /\ pc[a] = "blocking" => rules[job[a].rule].status = "PENDING"
    /\ pc[a] = "unblocking" => rules[job[a].rule].status \in Unblockable

\* A request belongs to a recorded rule, and to the client that waits for it.
RequestOK(s) ==
    /\ req[s].step = "idle" => req[s] = NoReq
    /\ req[s].step # "idle" =>
          /\ req[s].op \in {"block", "unblock"}
          /\ req[s].ip \in IP
          /\ req[s].rule \in RuleId
          /\ rules[req[s].rule].ip = req[s].ip
          /\ req[s].op = "block" => rules[req[s].rule].status \in {"PENDING", "FAILED"}
          /\ req[s].op = "unblock" => rules[req[s].rule].status \in Unblockable
    /\ req[s].client # None =>
          /\ reply[req[s].client] = "wait"
          /\ req[s].op = OpOf(pc[req[s].client])
          /\ req[s].rule = job[req[s].client].rule

Shape ==
    /\ \A a \in Client : JobOK(a)
    /\ \A s \in AgentThread : RequestOK(s)
    /\ \A r \in RuleId : rules[r].status # "NONE" => rules[r].ip \in IP
    /\ \A w \in Worker : \A r \in due[w] : rules[r].status \in Unblockable

\* A client waits for one request; a rule is blocked by one actor, with one
\* request, once.
Single ==
    /\ \A s, u \in AgentThread : req[s].client # None /\ s # u =>
                               req[s].client # req[u].client
    /\ \A a, b \in Client : pc[a] = "blocking" /\ pc[b] = "blocking" /\ a # b =>
                               job[a].rule # job[b].rule
    /\ \A s, u \in AgentThread : req[s].op = "block" /\ req[u].op = "block" /\ s # u =>
                               req[s].rule # req[u].rule
    /\ \A a \in Client, s \in AgentThread :
          pc[a] = "blocking" /\ reply[a] \in {"none", "ok"} /\ req[s].op = "block" =>
                               req[s].rule # job[a].rule

\* The protected addresses, wherever the scan or a request carries one.
Protected ==
    /\ \A i \in Trusted : RulesOf(i) = {}
    /\ \A i \in Trusted \cup AgentTrusted : \A c \in Chain : chain[c][i] = 0
    /\ \A a \in Client : pc[a] = "insert" => job[a].ip \notin Trusted
    /\ \A w \in Worker : rows[w] \cap Trusted = {}

\* The DROPs of a chain are accounted for by the rules it owes them to.
OwedTo(c, i) == {r \in owed[c] : rules[r].ip = i}
Owed ==
    /\ \A c \in Chain, i \in IP : chain[c][i] <= Cardinality(OwedTo(c, i))
    /\ \A c \in Chain : \A r \in owed[c] : rules[r].status # "NONE"
    /\ \A a \in Client : pc[a] = "blocking" /\ reply[a] = "none" =>
          \A c \in Chain : job[a].rule \notin owed[c]
    /\ \A s \in AgentThread : req[s].op = "block" =>
          /\ req[s].step = "INPUT" => req[s].rule \notin owed["INPUT"] \cup owed["FORWARD"]
          /\ req[s].step = "FORWARD" => req[s].rule \notin owed["FORWARD"]

\* Nothing is owed to a closed rule; needs the -D commands to work.
Released ==
    /\ \A r \in RuleId : rules[r].status \in Closed => \A c \in Chain : r \notin owed[c]
    /\ \A s \in AgentThread : req[s].op = "unblock" =>
          /\ req[s].step \in {"FORWARD", "answer"} => req[s].rule \notin owed["INPUT"]
          /\ req[s].step = "answer" => req[s].rule \notin owed["FORWARD"]
    /\ \A a \in Client : pc[a] = "unblocking" /\ reply[a] = "ok" =>
          \A c \in Chain : job[a].rule \notin owed[c]

IInv == TypeOK /\ Shape /\ Single /\ Protected /\ Owed /\ Released

\* What an entry says of a rule is, and stays, what became of the rule.
Truthful(e) ==
    /\ e.outcome = <<"BLOCK_REJECTED", "TRUSTED">> => e.ip \in Trusted
    /\ e.rule # None => e.ip = rules[e.rule].ip /\ rules[e.rule].status # "NONE"
    /\ e.outcome \in {<<"BLOCK", "ACTIVE">>, <<"BLOCK", "FAILED">>,
                      <<"UNBLOCK", "REMOVED">>, <<"EXPIRE", "EXPIRED">>} => e.rule # None
    /\ e.outcome = <<"BLOCK", "FAILED">> => rules[e.rule].status = "FAILED"
    /\ e.outcome = <<"BLOCK", "ACTIVE">> => rules[e.rule].status \in Closed \cup {"ACTIVE"}
    /\ e.outcome \in {<<"UNBLOCK", "REMOVED">>, <<"EXPIRE", "EXPIRED">>} =>
          rules[e.rule].status \in Closed

\* An actor that writes an entry tells the truth, and one that has no rule
\* yet carries none over from its last request.
Audited ==
    /\ \A e \in audit : Truthful(e)
    /\ \A a \in Client : pc[a] = "audit" => Truthful(job[a])
    /\ \A a \in Client : pc[a] \in {"idle", "block", "insert", "sweep", "scan"} =>
          job[a].rule = None
=============================================================================
