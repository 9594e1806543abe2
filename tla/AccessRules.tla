----------------------------- MODULE AccessRules -----------------------------
(***************************************************************************)
(* Blocking and unblocking addresses: backend/app/services/                *)
(* firewall_service.py and firewall_worker.py, over the gateway agent.     *)
(*                                                                         *)
(* The actors are the request threads of the backend's processes and the   *)
(* periodic worker of each process.  An actor reads the database, commits, *)
(* calls the gateway and commits again; each of these is an action, since  *)
(* between any two of them every other actor and the gateway may move.     *)
(* The worker's tick is an async function that never awaits, so while it   *)
(* runs its process dispatches no request: the requests already handed to  *)
(* a thread go on.                                                         *)
(***************************************************************************)
EXTENDS IptablesAgent, FiniteSets

CONSTANTS
    Thread,         \* request threads, of all backend processes
    Worker,         \* one background worker for each backend process
    ServerOf,       \* the worker of the process a thread belongs to
    Trusted,        \* the table trusted_ips
    FaultKind,      \* the faults that may happen
    MaxFaults       \* how many of them

ASSUME ActorAssumption == Client = Thread \cup Worker /\ Thread \cap Worker = {}
ASSUME ServerAssumption == ServerOf \in [Thread -> Worker]
ASSUME TrustedAssumption == Trusted \subseteq IP
ASSUME RuleIdAssumption == IsFiniteSet(RuleId)
ASSUME FaultAssumption ==
    /\ FaultKind \subseteq {"unreachable", "timeout", "insertfails", "deletefails",
                            "agentcrash", "reboot", "crash", "dberror"}
    /\ MaxFaults \in Nat

VARIABLES
    rules,          \* firewall_rules; status "NONE": the id is not allocated
    elapsed,        \* rules whose expires_at has passed
    audit,          \* firewall_audit_log, as a set
    auto,           \* firewall_settings.auto_block_enabled
    pc,             \* where each actor is
    job,            \* the rule, address and audit entry it is working on
    due,            \* rules a worker's sweep has still to visit
    rows,           \* addresses a worker's scan has still to visit
    faults          \* faults so far

dbVars == <<rules, elapsed, audit, auto>>
vars == <<agentVars, dbVars, pc, job, due, rows, faults>>

Status == {"NONE", "PENDING", "ACTIVE", "FAILED", "REMOVED", "EXPIRED"}
Closed == {"REMOVED", "EXPIRED"}

\* <<action, status>> of an audit entry.
Outcome == {<<"BLOCK_REJECTED", "TRUSTED">>, <<"BLOCK", "ACTIVE">>, <<"BLOCK", "FAILED">>,
            <<"UNBLOCK", "REMOVED">>, <<"UNBLOCK", "FAILED">>,
            <<"EXPIRE", "EXPIRED">>, <<"EXPIRE", "FAILED">>, <<"SETTINGS_UPDATE", "OK">>}
NoOutcome == <<"none", "none">>

Job == [rule : RuleId \cup {None}, ip : IP \cup {None}, outcome : Outcome \cup {NoOutcome}]
NoJob == [rule |-> None, ip |-> None, outcome |-> NoOutcome]

PC == {"idle", "block", "insert", "blocking", "unblock", "unblocking", "audit",
       "sweep", "scan"}

TypeOK ==
    /\ AgentTypeOK
    /\ rules \in [RuleId -> [ip : IP \cup {None}, status : Status]]
    /\ elapsed \subseteq RuleId
    /\ audit \subseteq Job
    /\ auto \in BOOLEAN
    /\ pc \in [Client -> PC]
    /\ job \in [Client -> Job]
    /\ due \in [Worker -> SUBSET RuleId]
    /\ rows \in [Worker -> SUBSET IP]
    /\ faults \in Nat

Init ==
    /\ AgentInit
    /\ rules = [r \in RuleId |-> [ip |-> None, status |-> "NONE"]]
    /\ elapsed = {}
    /\ audit = {}
    /\ auto \in BOOLEAN
    /\ pc = [a \in Client |-> "idle"]
    /\ job = [a \in Client |-> NoJob]
    /\ due = [w \in Worker |-> {}]
    /\ rows = [w \in Worker |-> {}]
    /\ faults = 0

-----------------------------------------------------------------------------
(* Helpers.                                                                *)

Unused == {r \in RuleId : rules[r].status = "NONE"}
ActiveRules(i) == {r \in RuleId : rules[r].status = "ACTIVE" /\ rules[r].ip = i}

\* Bound: a block is taken up only while RuleId has an id left for it.
Room == Cardinality({a \in Client : pc[a] \in {"block", "insert"}}) < Cardinality(Unused)

Goto(a, label) == pc' = [pc EXCEPT ![a] = label]
SetStatus(r, s) == rules' = [rules EXCEPT ![r].status = s]
Outcomes(a, action, status) == job' = [job EXCEPT ![a].outcome = <<action, status>>]

\* A worker in the middle of expire_due_rules.
InSweep(w) ==
    \/ pc[w] \in {"sweep", "unblocking"}
    \/ pc[w] = "audit" /\ job[w].outcome[1] = "EXPIRE"

\* The event loop of a thread's process takes requests: its worker sleeps.
LoopFree(t) == pc[ServerOf[t]] = "idle"

-----------------------------------------------------------------------------
(* manual_block.                                                           *)

ReceiveBlock(t, i) ==
    /\ pc[t] = "idle"
    /\ LoopFree(t)
    /\ Room
    /\ Goto(t, "block")
    /\ job' = [job EXCEPT ![t].ip = i]
    /\ UNCHANGED <<agentVars, dbVars, due, rows, faults>>

RejectTrusted(t) ==
    /\ pc[t] = "block"
    /\ job[t].ip \in Trusted
    /\ Goto(t, "audit")
    /\ Outcomes(t, "BLOCK_REJECTED", "TRUSTED")
    /\ UNCHANGED <<agentVars, dbVars, due, rows, faults>>

\* HTTP 409; with two ACTIVE rules scalar_one_or_none raises, HTTP 500.
RejectActive(t) ==
    /\ pc[t] = "block"
    /\ job[t].ip \notin Trusted
    /\ ActiveRules(job[t].ip) # {}
    /\ Goto(t, "idle")
    /\ job' = [job EXCEPT ![t] = NoJob]
    /\ UNCHANGED <<agentVars, dbVars, due, rows, faults>>

\* Mutant: the trusted list is not consulted.
AcceptBlock_AnyAddress(t) ==
    /\ pc[t] = "block"
    /\ ActiveRules(job[t].ip) = {}
    /\ Goto(t, "insert")
    /\ UNCHANGED <<agentVars, dbVars, job, due, rows, faults>>

AcceptBlock(t) ==
    /\ pc[t] = "block"
    /\ job[t].ip \notin Trusted
    /\ ActiveRules(job[t].ip) = {}
    /\ Goto(t, "insert")
    /\ UNCHANGED <<agentVars, dbVars, job, due, rows, faults>>

-----------------------------------------------------------------------------
(* The part manual_block and run_auto_block_scan share: commit a PENDING   *)
(* row, call the gateway, commit ACTIVE or FAILED, then the audit entry.   *)

InsertPending(a) ==
    /\ pc[a] = "insert"
    /\ Unused # {}
    /\ LET r == CHOOSE r \in Unused : TRUE
       IN  /\ rules' = [rules EXCEPT ![r] = [ip |-> job[a].ip, status |-> "PENDING"]]
           /\ job' = [job EXCEPT ![a].rule = r]
    /\ Goto(a, "blocking")
    /\ UNCHANGED <<agentVars, elapsed, audit, auto, due, rows, faults>>

CallGateway(a) ==
    /\ pc[a] \in {"blocking", "unblocking"}
    /\ Post(a, IF pc[a] = "blocking" THEN "block" ELSE "unblock", job[a].ip, job[a].rule)
    /\ UNCHANGED <<dbVars, pc, job, due, rows, faults>>

BlockDone(a) ==
    /\ pc[a] = "blocking"
    /\ TakeReply(a, "ok")
    /\ SetStatus(job[a].rule, "ACTIVE")
    /\ Outcomes(a, "BLOCK", "ACTIVE")
    /\ Goto(a, "audit")
    /\ UNCHANGED <<elapsed, audit, auto, due, rows, faults>>

\* Mutant: a failed block is rolled back, its row is gone.
BlockFails_Rollback(a) ==
    /\ pc[a] = "blocking"
    /\ TakeReply(a, "error")
    /\ rules' = [rules EXCEPT ![job[a].rule].status = "NONE"]
    /\ Outcomes(a, "BLOCK", "FAILED")
    /\ Goto(a, "audit")
    /\ UNCHANGED <<elapsed, audit, auto, due, rows, faults>>

BlockFails(a) ==
    /\ pc[a] = "blocking"
    /\ TakeReply(a, "error")
    /\ SetStatus(job[a].rule, "FAILED")
    /\ Outcomes(a, "BLOCK", "FAILED")
    /\ Goto(a, "audit")
    /\ UNCHANGED <<elapsed, audit, auto, due, rows, faults>>

\* _audit: a commit of its own.  A thread then answers its request, a
\* worker takes the next rule of its sweep or the next row of its scan.
Audit(a) ==
    /\ pc[a] = "audit"
    /\ audit' = audit \cup {job[a]}
    /\ job' = [job EXCEPT ![a] = NoJob]
    /\ Goto(a, CASE a \in Thread -> "idle"
                 [] a \in Worker /\ InSweep(a) -> "sweep"
                 [] OTHER -> "scan")
    /\ UNCHANGED <<agentVars, rules, elapsed, auto, due, rows, faults>>

-----------------------------------------------------------------------------
(* manual_unblock; its gateway call and commit are also those of           *)
(* expire_due_rules.                                                       *)

ReceiveUnblock(t, r) ==
    /\ pc[t] = "idle"
    /\ LoopFree(t)
    /\ Goto(t, "unblock")
    /\ job' = [job EXCEPT ![t].rule = r]
    /\ UNCHANGED <<agentVars, dbVars, due, rows, faults>>

\* HTTP 404 for an unknown id, HTTP 409 for a rule that is not ACTIVE.
RejectUnblock(t) ==
    /\ pc[t] = "unblock"
    /\ rules[job[t].rule].status # "ACTIVE"
    /\ Goto(t, "idle")
    /\ job' = [job EXCEPT ![t] = NoJob]
    /\ UNCHANGED <<agentVars, dbVars, due, rows, faults>>

AcceptUnblock(t) ==
    /\ pc[t] = "unblock"
    /\ rules[job[t].rule].status = "ACTIVE"
    /\ Goto(t, "unblocking")
    /\ job' = [job EXCEPT ![t].ip = rules[job[t].rule].ip]
    /\ UNCHANGED <<agentVars, dbVars, due, rows, faults>>

\* Mutant: the rule is closed whatever the gateway answered.
UnblockDone_IgnoreReply(a) ==
    /\ pc[a] = "unblocking"
    /\ \E what \in {"ok", "error"} : TakeReply(a, what)
    /\ SetStatus(job[a].rule, IF a \in Worker THEN "EXPIRED" ELSE "REMOVED")
    /\ IF a \in Worker THEN Outcomes(a, "EXPIRE", "EXPIRED") ELSE Outcomes(a, "UNBLOCK", "REMOVED")
    /\ Goto(a, "audit")
    /\ UNCHANGED <<elapsed, audit, auto, due, rows, faults>>

\* Mutant: an expiry leaves no audit entry.
UnblockDone_SilentExpiry(a) ==
    /\ pc[a] = "unblocking"
    /\ TakeReply(a, "ok")
    /\ SetStatus(job[a].rule, IF a \in Worker THEN "EXPIRED" ELSE "REMOVED")
    /\ IF a \in Worker THEN Outcomes(a, "EXPIRE", "EXPIRED") ELSE Outcomes(a, "UNBLOCK", "REMOVED")
    /\ Goto(a, IF a \in Worker THEN "sweep" ELSE "audit")
    /\ UNCHANGED <<elapsed, audit, auto, due, rows, faults>>

\* The status read before the call is not read again: REMOVED may become
\* EXPIRED here, and EXPIRED REMOVED.
UnblockDone(a) ==
    /\ pc[a] = "unblocking"
    /\ TakeReply(a, "ok")
    /\ SetStatus(job[a].rule, IF a \in Worker THEN "EXPIRED" ELSE "REMOVED")
    /\ IF a \in Worker THEN Outcomes(a, "EXPIRE", "EXPIRED") ELSE Outcomes(a, "UNBLOCK", "REMOVED")
    /\ Goto(a, "audit")
    /\ UNCHANGED <<elapsed, audit, auto, due, rows, faults>>

\* Mutant: a failed unblock marks the rule FAILED, as a failed block does.
UnblockFails_Marks(a) ==
    /\ pc[a] = "unblocking"
    /\ TakeReply(a, "error")
    /\ SetStatus(job[a].rule, "FAILED")
    /\ Outcomes(a, IF a \in Worker THEN "EXPIRE" ELSE "UNBLOCK", "FAILED")
    /\ Goto(a, "audit")
    /\ UNCHANGED <<elapsed, audit, auto, due, rows, faults>>

\* Mutant: the audit entry says what was meant, not what happened.
UnblockFails_WrongEntry(a) ==
    /\ pc[a] = "unblocking"
    /\ TakeReply(a, "error")
    /\ IF a \in Worker THEN Outcomes(a, "EXPIRE", "EXPIRED") ELSE Outcomes(a, "UNBLOCK", "REMOVED")
    /\ Goto(a, "audit")
    /\ UNCHANGED <<dbVars, due, rows, faults>>

\* The rule stays ACTIVE.
UnblockFails(a) ==
    /\ pc[a] = "unblocking"
    /\ TakeReply(a, "error")
    /\ Outcomes(a, IF a \in Worker THEN "EXPIRE" ELSE "UNBLOCK", "FAILED")
    /\ Goto(a, "audit")
    /\ UNCHANGED <<dbVars, due, rows, faults>>

-----------------------------------------------------------------------------
(* update_settings: the committed switch, then its audit entry.            *)

UpdateSettings(t) ==
    /\ pc[t] = "idle"
    /\ LoopFree(t)
    /\ auto' = ~auto
    /\ Outcomes(t, "SETTINGS_UPDATE", "OK")
    /\ Goto(t, "audit")
    /\ UNCHANGED <<agentVars, rules, elapsed, audit, due, rows, faults>>

-----------------------------------------------------------------------------
(* The worker's tick: expire_due_rules, then run_auto_block_scan.          *)

StartTick(w) ==
    /\ pc[w] = "idle"
    /\ due' = [due EXCEPT ![w] = {r \in elapsed : rules[r].status = "ACTIVE"}]
    /\ Goto(w, "sweep")
    /\ UNCHANGED <<agentVars, dbVars, job, rows, faults>>

\* The next rule of the snapshot; its status is not looked at again.
SweepNext(w, r) ==
    /\ pc[w] = "sweep"
    /\ r \in due[w]
    /\ due' = [due EXCEPT ![w] = @ \ {r}]
    /\ job' = [job EXCEPT ![w] = [rule |-> r, ip |-> rules[r].ip, outcome |-> NoOutcome]]
    /\ Goto(w, "unblocking")
    /\ UNCHANGED <<agentVars, dbVars, rows, faults>>

\* The scan reads the settings and, if enabled, the addresses with enough
\* recent alerts and no row in trusted_ips: any set, the IDS decides.
BeginScan(w) ==
    /\ due' = [due EXCEPT ![w] = {}]
    /\ job' = [job EXCEPT ![w] = NoJob]
    /\ \E offenders \in IF auto THEN SUBSET (IP \ Trusted) ELSE {{}} :
          rows' = [rows EXCEPT ![w] = offenders]
    /\ Goto(w, "scan")

EndSweep(w) ==
    /\ pc[w] = "sweep"
    /\ due[w] = {}
    /\ BeginScan(w)
    /\ UNCHANGED <<agentVars, dbVars, faults>>

\* A row with an ACTIVE rule is skipped.  (Bound: so is one without Room.)
ScanSkip(w, i) ==
    /\ pc[w] = "scan"
    /\ i \in rows[w]
    /\ \/ Cardinality(ActiveRules(i)) = 1
       \/ ActiveRules(i) = {} /\ ~Room
    /\ rows' = [rows EXCEPT ![w] = @ \ {i}]
    /\ UNCHANGED <<agentVars, dbVars, pc, job, due, faults>>

\* Two ACTIVE rules: MultipleResultsFound ends the whole scan.
ScanAbort(w, i) ==
    /\ pc[w] = "scan"
    /\ i \in rows[w]
    /\ Cardinality(ActiveRules(i)) > 1
    /\ rows' = [rows EXCEPT ![w] = {}]
    /\ Goto(w, "idle")
    /\ UNCHANGED <<agentVars, dbVars, job, due, faults>>

ScanBlock(w, i) ==
    /\ pc[w] = "scan"
    /\ i \in rows[w]
    /\ ActiveRules(i) = {}
    /\ Room
    /\ rows' = [rows EXCEPT ![w] = @ \ {i}]
    /\ job' = [job EXCEPT ![w].ip = i]
    /\ Goto(w, "insert")
    /\ UNCHANGED <<agentVars, dbVars, due, faults>>

EndScan(w) ==
    /\ pc[w] = "scan"
    /\ rows[w] = {}
    /\ Goto(w, "idle")
    /\ UNCHANGED <<agentVars, dbVars, job, due, rows, faults>>

-----------------------------------------------------------------------------
(* Time.                                                                   *)

\* expires_at matters only once the rule is ACTIVE.
Elapse(r) ==
    /\ rules[r].status = "ACTIVE"
    /\ r \notin elapsed
    /\ elapsed' = elapsed \cup {r}
    /\ UNCHANGED <<agentVars, rules, audit, auto, pc, job, due, rows, faults>>

-----------------------------------------------------------------------------
(* Faults, at most MaxFaults of the kinds in FaultKind.                    *)

Fault(kind) ==
    /\ kind \in FaultKind
    /\ faults < MaxFaults
    /\ faults' = faults + 1

CallFails(a) ==
    /\ pc[a] \in {"blocking", "unblocking"}
    /\ \/ Fault("unreachable") /\ NoConnection(a)
       \/ Fault("timeout") /\ Timeout(a)
    /\ UNCHANGED <<dbVars, pc, job, due, rows>>

AgentFails ==
    /\ \/ \E s \in AgentThread : \/ Fault("insertfails") /\ InsertFails(s)
                                 \/ Fault("deletefails") /\ DeleteFails(s)
       \/ Fault("agentcrash") /\ AgentCrash
       \/ Fault("reboot") /\ Reboot
    /\ UNCHANGED <<dbVars, pc, job, due, rows>>

\* A backend process dies and comes back: nothing in lifespan looks at the
\* rules its threads and its worker were in the middle of.
Crash(w) ==
    LET dead == {w} \cup {t \in Thread : ServerOf[t] = w}
    IN  /\ Fault("crash")
        /\ Hangup(dead)
        /\ pc' = [a \in Client |-> IF a \in dead THEN "idle" ELSE pc[a]]
        /\ job' = [a \in Client |-> IF a \in dead THEN NoJob ELSE job[a]]
        /\ due' = [due EXCEPT ![w] = {}]
        /\ rows' = [rows EXCEPT ![w] = {}]
        /\ UNCHANGED dbVars

\* A statement or commit fails: HTTP 500 for a request; the worker's tick
\* logs it and goes on with the scan, or ends if it was in the scan or its
\* session is unusable.
DbError(a) ==
    /\ Fault("dberror")
    /\ pc[a] # "idle"
    /\ reply[a] # "wait"
    /\ pc[a] \in {"blocking", "unblocking"} => reply[a] # "none"
    /\ Hangup({a})
    /\ \/ a \in Worker /\ InSweep(a) /\ BeginScan(a)
       \/ /\ Goto(a, "idle")
          /\ job' = [job EXCEPT ![a] = NoJob]
          /\ due' = [w \in Worker |-> IF w = a THEN {} ELSE due[w]]
          /\ rows' = [w \in Worker |-> IF w = a THEN {} ELSE rows[w]]
    /\ UNCHANGED dbVars

-----------------------------------------------------------------------------

AgentNext ==
    /\ \E s \in AgentThread : HandlerStep(s)
    /\ UNCHANGED <<dbVars, pc, job, due, rows, faults>>

\* What goes on by itself once a request or a tick has begun.
Progress(a) ==
    \/ a \in Thread /\ (RejectTrusted(a) \/ RejectActive(a) \/ AcceptBlock(a))
    \/ a \in Thread /\ (RejectUnblock(a) \/ AcceptUnblock(a))
    \/ InsertPending(a) \/ CallGateway(a) \/ BlockDone(a) \/ BlockFails(a)
    \/ UnblockDone(a) \/ UnblockFails(a) \/ Audit(a)
    \/ /\ a \in Worker
       /\ \/ StartTick(a) \/ EndSweep(a) \/ EndScan(a)
          \/ \E r \in RuleId : SweepNext(a, r)
          \/ \E i \in IP : ScanSkip(a, i) \/ ScanAbort(a, i) \/ ScanBlock(a, i)

Requests ==
    \E t \in Thread : \/ \E i \in IP : ReceiveBlock(t, i)
                      \/ \E r \in RuleId : ReceiveUnblock(t, r)
                      \/ UpdateSettings(t)

Faults ==
    \/ AgentFails
    \/ \E a \in Client : CallFails(a) \/ DbError(a)
    \/ \E w \in Worker : Crash(w)

Next ==
    \/ AgentNext
    \/ Requests
    \/ \E a \in Client : Progress(a)
    \/ \E r \in RuleId : Elapse(r)
    \/ Faults

Spec == Init /\ [][Next]_vars

\* Threads and workers run on, the agent's handlers run on, time passes.
\* Nobody has to send a request, and no fault has to happen.
Fairness ==
    /\ \A a \in Client : WF_vars(Progress(a))
    /\ \A s \in AgentThread :
          WF_vars(HandlerStep(s) /\ UNCHANGED <<dbVars, pc, job, due, rows, faults>>)
    /\ \A r \in RuleId : WF_vars(Elapse(r))

FairSpec == Spec /\ Fairness

-----------------------------------------------------------------------------
(* Properties.                                                             *)

RulesOf(i) == {r \in RuleId : rules[r].ip = i /\ rules[r].status # "NONE"}
OpenRulesOf(i) == {r \in RulesOf(i) : rules[r].status \notin Closed}

\* No address the backend or the agent protects is ever dropped by a chain,
\* and no rule is ever recorded for one the backend protects: the hard
\* safety guard, in manual_block, in the scan and in the agent's validate_ip.
TrustedNeverBlocked ==
    \A i \in IP : /\ i \in Trusted => RulesOf(i) = {}
                  /\ i \in Trusted \cup AgentTrusted => \A c \in Chain : chain[c][i] = 0

\* A DROP on the gateway always has a row of its own in firewall_rules,
\* whatever crashed, timed out or was lost: PENDING is committed before the
\* call.  The operator can account for every blocked address.
EveryDropRecorded ==
    \A c \in Chain, i \in IP : chain[c][i] <= Cardinality(RulesOf(i))

\* A rule shown as REMOVED or EXPIRED holds no DROP: an address has no more
\* DROPs than it has rules still PENDING, ACTIVE or FAILED, even when the
\* agent answers late, a second unblock runs or the sweep meets a request.
ClosedHoldsNothing ==
    \A c \in Chain, i \in IP : chain[c][i] <= Cardinality(OpenRulesOf(i))

\* A status only moves forward; a closed rule is never reopened, and a row
\* keeps its address and is never deleted.
StatusMoves ==
    {<<"NONE", "PENDING">>, <<"PENDING", "ACTIVE">>, <<"PENDING", "FAILED">>,
     <<"ACTIVE", "REMOVED">>, <<"ACTIVE", "EXPIRED">>,
     <<"REMOVED", "EXPIRED">>, <<"EXPIRED", "REMOVED">>}
StatusLifecycle ==
    [][\A r \in RuleId :
          /\ rules'[r].status # rules[r].status =>
                <<rules[r].status, rules'[r].status>> \in StatusMoves
          /\ rules[r].status # "NONE" => rules'[r].ip = rules[r].ip]_vars

\* An audit entry tells the truth about the rule it names, then and later.
AuditSound ==
    \A e \in audit :
       /\ e.outcome = <<"BLOCK_REJECTED", "TRUSTED">> => e.ip \in Trusted
       /\ e.rule # None => e.ip = rules[e.rule].ip
       /\ e.outcome = <<"BLOCK", "FAILED">> => rules[e.rule].status = "FAILED"
       /\ e.outcome = <<"BLOCK", "ACTIVE">> => rules[e.rule].status \in Closed \cup {"ACTIVE"}
       /\ e.outcome \in {<<"UNBLOCK", "REMOVED">>, <<"EXPIRE", "EXPIRED">>} =>
             rules[e.rule].status \in Closed

\* The log is complete: a rule that reached a status has the entry for it,
\* or the actor that wrote the status is about to write the entry (no
\* backend crash, no database error: the entry is a commit of its own).
EntryFor(status) ==
    CASE status \in {"ACTIVE", "FAILED"} -> <<"BLOCK", status>>
      [] status = "REMOVED" -> <<"UNBLOCK", status>>
      [] OTHER -> <<"EXPIRE", status>>
AuditComplete ==
    \A r \in RuleId : rules[r].status \in {"ACTIVE", "FAILED", "REMOVED", "EXPIRED"} =>
        LET entry == [rule |-> r, ip |-> rules[r].ip, outcome |-> EntryFor(rules[r].status)]
        IN  entry \in audit \/ \E a \in Client : pc[a] = "audit" /\ job[a] = entry

\* One ACTIVE rule for an address: scalar_one_or_none relies on it.
AtMostOneActive == \A i \in IP : Cardinality(ActiveRules(i)) <= 1

\* A rule whose time is up is closed in the end, after at most MaxFaults
\* failures: the sweep tries it again on every tick.
DueRuleCloses ==
    \A r \in RuleId : (rules[r].status = "ACTIVE" /\ r \in elapsed)
                         ~> rules[r].status \in Closed

\* A rule does not stay PENDING: the call is answered or times out (no
\* backend crash, no database error).
PendingResolved ==
    \A r \in RuleId : rules[r].status = "PENDING" ~> rules[r].status # "PENDING"

\* No rule is left behind: what is begun is decided, what is due is closed.
RulesSettle == DueRuleCloses /\ PendingResolved

-----------------------------------------------------------------------------
(* Refinement: each rule goes through the life RuleLedger allows.          *)

StageOf == [NONE |-> "unused", PENDING |-> "open", ACTIVE |-> "live", FAILED |-> "dead",
            REMOVED |-> "lifted", EXPIRED |-> "lifted"]

Ledger == INSTANCE RuleLedger WITH
    Rule <- RuleId,
    stage <- [r \in RuleId |-> StageOf[rules[r].status]],
    held <- owed["INPUT"] \cup owed["FORWARD"]

\* AccessRules implements RuleLedger: a rule is recorded as lifted only when
\* neither chain holds a DROP on its behalf, and none comes back after that.
KeepsLedger == Ledger!LedgerSpec
=============================================================================
