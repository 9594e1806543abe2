-------------------------- MODULE AccessRulesProofs --------------------------
(***************************************************************************)
(* Proofs about AccessRules, for any threads, workers, addresses and       *)
(* rules, and any mix and number of faults.                                *)
(***************************************************************************)
EXTENDS AccessRulesInv, FiniteSetTheorems, TLAPS

USE NoneAssumption, AgentTrustedAssumption, ActorAssumption, ServerAssumption,
    TrustedAssumption, FaultAssumption

-----------------------------------------------------------------------------
(* Types.                                                                  *)

\* What the agent's handlers leave alone.
agentRest == <<dbVars, pc, job, due, rows, faults>>

\* A handler that goes on to its next command still runs a request.
LEMMA NextRequest ==
  ASSUME NEW q \in Request
  PROVE  [q EXCEPT !.step = After(q.step)] \in Request
<1>1. After(q.step) \in Chain \cup {"idle", "answer"}
  BY DEF After, Chain
<1> QED BY <1>1 DEF Request

\* Nor is it disturbed by the loss of its caller.
LEMMA OrphanType ==
  ASSUME req \in [AgentThread -> Request], NEW A
  PROVE  Orphaned(A) \in [AgentThread -> Request]
BY DEF Orphaned, Request

\* The fields of a job that the actions set.
LEMMA JobFields ==
  ASSUME job \in [Client -> Job], NEW a \in Client
  PROVE  /\ \A i \in IP \cup {None} : [job EXCEPT ![a].ip = i] \in [Client -> Job]
         /\ \A r \in RuleId : [job EXCEPT ![a].rule = r] \in [Client -> Job]
         /\ \A o \in Outcome : [job EXCEPT ![a].outcome = o] \in [Client -> Job]
<1>1. \A i \in IP \cup {None} : [job[a] EXCEPT !.ip = i] \in Job
  BY DEF Job
<1>2. \A r \in RuleId : [job[a] EXCEPT !.rule = r] \in Job
  BY DEF Job
<1>3. \A o \in Outcome : [job[a] EXCEPT !.outcome = o] \in Job
  BY DEF Job
<1> QED BY <1>1, <1>2, <1>3

\* A rule's status is set to a status.
LEMMA RuleFields ==
  ASSUME NEW rule, rules \in [RuleId -> [ip : IP \cup {None}, status : Status]]
  PROVE  \A st \in Status :
            [rules EXCEPT ![rule].status = st] \in [RuleId -> [ip : IP \cup {None}, status : Status]]
<1>1. \A st \in Status, r \in RuleId :
         [rules[r] EXCEPT !.status = st] \in [ip : IP \cup {None}, status : Status]
  OBVIOUS
<1> QED BY <1>1

\* Every step keeps the types, from states whose jobs and requests name rules.
LEMMA TypeStep ==
  ASSUME TypeOK, Shape, [Next]_vars
  PROVE  TypeOK'
<1>1. ASSUME NEW s \in AgentThread, Refuse(s), UNCHANGED agentRest
      PROVE  TypeOK'
  BY <1>1 DEF Refuse, Respond, agentRest, dbVars, TypeOK, AgentTypeOK, Request, NoReq, Chain
<1>2. ASSUME NEW s \in AgentThread, Insert(s), UNCHANGED agentRest
      PROVE  TypeOK'
  <2>1. req[s].ip \in IP /\ req[s].rule \in RuleId /\ req[s].step \in Chain
    BY <1>2 DEF Insert, Chain, Shape, RequestOK
  <2>2. chain' \in [Chain -> [IP -> Nat]]
    BY <1>2, <2>1 DEF Insert, TypeOK, AgentTypeOK
  <2>3. owed' \in [Chain -> SUBSET RuleId]
    BY <1>2, <2>1 DEF Insert, TypeOK, AgentTypeOK
  <2>4. req' \in [AgentThread -> Request]
    <3>1. [req[s] EXCEPT !.step = After(req[s].step)] \in Request
      BY NextRequest, <2>1 DEF TypeOK, AgentTypeOK
    <3> QED BY <1>2, <3>1 DEF Insert, TypeOK, AgentTypeOK
  <2> QED BY <1>2, <2>2, <2>3, <2>4 DEF Insert, agentRest, dbVars, TypeOK, AgentTypeOK
<1>3. ASSUME NEW s \in AgentThread, Delete(s), UNCHANGED agentRest
      PROVE  TypeOK'
  <2>1. req[s].ip \in IP /\ req[s].rule \in RuleId /\ req[s].step \in Chain
    BY <1>3 DEF Delete, Chain, Shape, RequestOK
  <2>2. chain' \in [Chain -> [IP -> Nat]]
    <3> DEFINE n == chain[req[s].step][req[s].ip]
               row == [chain[req[s].step] EXCEPT ![req[s].ip] = IF n = 0 THEN 0 ELSE n - 1]
    <3>1. (IF n = 0 THEN 0 ELSE n - 1) \in Nat
      BY <2>1 DEF TypeOK, AgentTypeOK
    <3>2. row \in [IP -> Nat]
      BY <2>1, <3>1 DEF TypeOK, AgentTypeOK
    <3>3. chain' = [chain EXCEPT ![req[s].step] = row]
      BY <1>3 DEF Delete
    <3> QED BY <2>1, <3>2, <3>3 DEF TypeOK, AgentTypeOK
  <2>3. owed' \in [Chain -> SUBSET RuleId]
    BY <1>3, <2>1 DEF Delete, TypeOK, AgentTypeOK
  <2>4. req' \in [AgentThread -> Request]
    <3>1. [req[s] EXCEPT !.step = After(req[s].step)] \in Request
      BY NextRequest, <2>1 DEF TypeOK, AgentTypeOK
    <3> QED BY <1>3, <3>1 DEF Delete, TypeOK, AgentTypeOK
  <2> QED BY <1>3, <2>2, <2>3, <2>4 DEF Delete, agentRest, dbVars, TypeOK, AgentTypeOK
<1>4. ASSUME NEW s \in AgentThread, Answer(s), UNCHANGED agentRest
      PROVE  TypeOK'
  BY <1>4 DEF Answer, Respond, agentRest, dbVars, TypeOK, AgentTypeOK, Request, NoReq, Chain
<1>5. ASSUME NEW t \in Thread, NEW i \in IP, ReceiveBlock(t, i)
      PROVE  TypeOK'
  BY <1>5, JobFields DEF ReceiveBlock, Goto, PC, TypeOK, AgentTypeOK, agentVars, dbVars
<1>6. ASSUME NEW t \in Thread, RejectTrusted(t)
      PROVE  TypeOK'
  BY <1>6, JobFields DEF RejectTrusted, Goto, Outcomes, Outcome, PC, TypeOK, AgentTypeOK, agentVars, dbVars
<1>7. ASSUME NEW t \in Thread, RejectActive(t)
      PROVE  TypeOK'
  BY <1>7 DEF RejectActive, Goto, NoJob, Job, PC, TypeOK, AgentTypeOK, agentVars, dbVars
<1>8. ASSUME NEW t \in Thread, AcceptBlock(t)
      PROVE  TypeOK'
  BY <1>8 DEF AcceptBlock, Goto, PC, TypeOK, AgentTypeOK, agentVars, dbVars
<1>9. ASSUME NEW a \in Client, InsertPending(a)
      PROVE  TypeOK'
  BY <1>9, JobFields DEF InsertPending, Unused, Goto, PC, Status, Shape, JobOK, TypeOK, AgentTypeOK, agentVars, dbVars
<1>10. ASSUME NEW a \in Client, CallGateway(a)
      PROVE  TypeOK'
  BY <1>10 DEF CallGateway, Post, Request, Chain, Job, TypeOK, AgentTypeOK, agentVars, dbVars
<1>11. ASSUME NEW a \in Client, BlockDone(a)
      PROVE  TypeOK'
  BY <1>11, JobFields, RuleFields DEF BlockDone, TakeReply, SetStatus, Outcomes, Outcome, Goto, PC, Status, TypeOK, AgentTypeOK, agentVars, dbVars
<1>12. ASSUME NEW a \in Client, BlockFails(a)
      PROVE  TypeOK'
  BY <1>12, JobFields, RuleFields DEF BlockFails, TakeReply, SetStatus, Outcomes, Outcome, Goto, PC, Status, TypeOK, AgentTypeOK, agentVars, dbVars
<1>13. ASSUME NEW a \in Client, UnblockDone(a)
      PROVE  TypeOK'
  <2> "EXPIRED" \in Status /\ "REMOVED" \in Status
    BY DEF Status
  <2> <<"EXPIRE", "EXPIRED">> \in Outcome /\ <<"UNBLOCK", "REMOVED">> \in Outcome
    BY DEF Outcome
  <2>1. job' \in [Client -> Job]
    BY <1>13, JobFields
       DEF UnblockDone, Outcomes, TypeOK
  <2>2. rules' \in [RuleId -> [ip : IP \cup {None}, status : Status]]
    BY <1>13, RuleFields
       DEF UnblockDone, SetStatus, TypeOK
  <2> QED
    BY <1>13, <2>1, <2>2 DEF UnblockDone, TakeReply, Goto, PC, TypeOK, AgentTypeOK, agentVars, dbVars
<1>14. ASSUME NEW a \in Client, UnblockFails(a)
      PROVE  TypeOK'
  BY <1>14, JobFields DEF UnblockFails, TakeReply, Outcomes, Outcome, Goto, PC, Status, TypeOK, AgentTypeOK, agentVars, dbVars
<1>15. ASSUME NEW a \in Client, Audit(a)
      PROVE  TypeOK'
  BY <1>15 DEF Audit, Goto, Job, NoJob, PC, TypeOK, AgentTypeOK, agentVars, dbVars
<1>16. ASSUME NEW t \in Thread, NEW r \in RuleId, ReceiveUnblock(t, r)
      PROVE  TypeOK'
  BY <1>16, JobFields DEF ReceiveUnblock, Goto, PC, TypeOK, AgentTypeOK, agentVars, dbVars
<1>17. ASSUME NEW t \in Thread, RejectUnblock(t)
      PROVE  TypeOK'
  BY <1>17 DEF RejectUnblock, Goto, NoJob, Job, PC, TypeOK, AgentTypeOK, agentVars, dbVars
<1>18. ASSUME NEW t \in Thread, AcceptUnblock(t)
      PROVE  TypeOK'
  BY <1>18, JobFields DEF AcceptUnblock, Goto, PC, Shape, JobOK, TypeOK, AgentTypeOK, agentVars, dbVars
<1>19. ASSUME NEW t \in Thread, UpdateSettings(t)
      PROVE  TypeOK'
  BY <1>19, JobFields DEF UpdateSettings, Goto, Outcomes, Outcome, PC, TypeOK, AgentTypeOK, agentVars, dbVars
<1>20. ASSUME NEW w \in Worker, StartTick(w)
      PROVE  TypeOK'
  BY <1>20 DEF StartTick, Goto, PC, TypeOK, AgentTypeOK, agentVars, dbVars
<1>21. ASSUME NEW w \in Worker, NEW r \in RuleId, SweepNext(w, r)
      PROVE  TypeOK'
  BY <1>21 DEF SweepNext, Goto, PC, Job, TypeOK, AgentTypeOK, agentVars, dbVars
<1>22. ASSUME NEW w \in Worker, EndSweep(w)
      PROVE  TypeOK'
  BY <1>22 DEF EndSweep, BeginScan, Goto, PC, Job, NoJob, TypeOK, AgentTypeOK, agentVars, dbVars
<1>23. ASSUME NEW w \in Worker, NEW i \in IP, ScanSkip(w, i)
      PROVE  TypeOK'
  BY <1>23 DEF ScanSkip, TypeOK, AgentTypeOK, agentVars, dbVars
<1>24. ASSUME NEW w \in Worker, NEW i \in IP, ScanAbort(w, i)
      PROVE  TypeOK'
  BY <1>24 DEF ScanAbort, Goto, PC, TypeOK, AgentTypeOK, agentVars, dbVars
<1>25. ASSUME NEW w \in Worker, NEW i \in IP, ScanBlock(w, i)
      PROVE  TypeOK'
  BY <1>25, JobFields DEF ScanBlock, Goto, PC, TypeOK, AgentTypeOK, agentVars, dbVars
<1>26. ASSUME NEW w \in Worker, EndScan(w)
      PROVE  TypeOK'
  BY <1>26 DEF EndScan, Goto, PC, TypeOK, AgentTypeOK, agentVars, dbVars
<1>27. ASSUME NEW r \in RuleId, Elapse(r)
      PROVE  TypeOK'
  BY <1>27 DEF Elapse, TypeOK, AgentTypeOK, agentVars, dbVars
<1>28. ASSUME AgentFails
      PROVE  TypeOK'
  <2>1. ASSUME NEW s \in AgentThread, InsertFails(s)
        PROVE  req' \in [AgentThread -> Request]
    BY <2>1 DEF InsertFails, Respond, NoReq, Request, Chain, TypeOK, AgentTypeOK
  <2>2. ASSUME NEW s \in AgentThread, DeleteFails(s)
        PROVE  req' \in [AgentThread -> Request]
    BY <2>2, NextRequest DEF DeleteFails, TypeOK, AgentTypeOK
  <2>3. CutConnections => req' \in [AgentThread -> Request]
    BY DEF CutConnections, NoReq, Request, Chain
  <2>4. req' \in [AgentThread -> Request] /\ faults' \in Nat /\ UNCHANGED <<dbVars, pc, job, due, rows>>
    BY <1>28, <2>1, <2>2, <2>3 DEF AgentFails, AgentCrash, Reboot, Fault, TypeOK
  <2>5. reply' \in [Client -> {"none", "wait", "ok", "error"}]
    BY <1>28 DEF AgentFails, InsertFails, DeleteFails, AgentCrash, Reboot, CutConnections,
                 Respond, TypeOK, AgentTypeOK
  <2>6. chain' \in [Chain -> [IP -> Nat]] /\ owed' \in [Chain -> SUBSET RuleId]
    BY <1>28 DEF AgentFails, InsertFails, DeleteFails, AgentCrash, Reboot, TypeOK, AgentTypeOK
  <2> QED
    BY <2>4, <2>5, <2>6 DEF TypeOK, AgentTypeOK, dbVars
<1>29. ASSUME NEW a \in Client, CallFails(a)
      PROVE  TypeOK'
  BY <1>29, OrphanType DEF CallFails, Fault, NoConnection, Timeout, TypeOK, AgentTypeOK, agentVars, dbVars
<1>30. ASSUME NEW w \in Worker, Crash(w)
      PROVE  TypeOK'
  BY <1>30, OrphanType DEF Crash, Fault, Hangup, NoJob, Job, PC, TypeOK, AgentTypeOK, agentVars, dbVars
<1>31. ASSUME NEW a \in Client, DbError(a)
      PROVE  TypeOK'
  <2>1. req' \in [AgentThread -> Request]
    BY <1>31, OrphanType DEF DbError, Hangup, TypeOK, AgentTypeOK
  <2>2. NoJob \in Job
    BY DEF NoJob, Job
  <2>3. due' \in [Worker -> SUBSET RuleId] /\ rows' \in [Worker -> SUBSET IP]
    BY <1>31 DEF DbError, BeginScan, TypeOK
  <2>4. pc' \in [Client -> PC] /\ job' \in [Client -> Job]
    BY <1>31, <2>2 DEF DbError, BeginScan, Goto, TypeOK, PC
  <2>5. faults' \in Nat
    BY <1>31 DEF DbError, Fault, TypeOK
  <2>6. /\ UNCHANGED <<chain, owed, dbVars>>
        /\ reply' \in [Client -> {"none", "wait", "ok", "error"}]
    BY <1>31 DEF DbError, Hangup, TypeOK, AgentTypeOK
  <2> QED
    BY <2>1, <2>3, <2>4, <2>5, <2>6 DEF TypeOK, AgentTypeOK, dbVars
<1>32. ASSUME UNCHANGED vars
      PROVE  TypeOK'
  BY <1>32 DEF vars, TypeOK, AgentTypeOK, agentVars, dbVars
<1> QED
  BY <1>1, <1>2, <1>3, <1>4, <1>5, <1>6, <1>7, <1>8, <1>9, <1>10, <1>11, <1>12, <1>13, <1>14, <1>15, <1>16, <1>17, <1>18, <1>19, <1>20, <1>21, <1>22, <1>23, <1>24, <1>25, <1>26, <1>27, <1>28, <1>29, <1>30, <1>31, <1>32
     DEF Next, AgentNext, HandlerStep, agentRest, Requests, Progress, Faults

-----------------------------------------------------------------------------
(* What a step does to the rules.                                          *)

\* A step leaves a rule as it is or moves its status as StatusMoves says.
LEMMA StatusStep ==
  ASSUME TypeOK, Shape, [Next]_vars, NEW r \in RuleId
  PROVE  \/ rules'[r] = rules[r]
         \/ /\ <<rules[r].status, rules'[r].status>> \in StatusMoves
            /\ rules[r].status # "NONE" => rules'[r].ip = rules[r].ip
            /\ rules'[r].ip \in IP
<1> DEFINE Moved == \/ rules'[r] = rules[r]
                    \/ /\ <<rules[r].status, rules'[r].status>> \in StatusMoves
                       /\ rules[r].status # "NONE" => rules'[r].ip = rules[r].ip
                       /\ rules'[r].ip \in IP
<1>1. ASSUME NEW a \in Client, InsertPending(a)
      PROVE  Moved
  <2>1. PICK n \in Unused : rules' = [rules EXCEPT ![n] = [ip |-> job[a].ip, status |-> "PENDING"]]
    BY <1>1 DEF InsertPending
  <2>2. job[a].ip \in IP
    BY <1>1 DEF InsertPending, Shape, JobOK
  <2> QED BY <2>1, <2>2 DEF Unused, StatusMoves, TypeOK
<1>2. ASSUME NEW a \in Client, BlockDone(a)
      PROVE  Moved
  BY <1>2 DEF BlockDone, SetStatus, Shape, JobOK, StatusMoves, TypeOK, Calling
<1>3. ASSUME NEW a \in Client, BlockFails(a)
      PROVE  Moved
  BY <1>3 DEF BlockFails, SetStatus, Shape, JobOK, StatusMoves, TypeOK, Calling
<1>4. ASSUME NEW a \in Client, UnblockDone(a)
      PROVE  Moved
  BY <1>4 DEF UnblockDone, SetStatus, Shape, JobOK, StatusMoves, TypeOK, Calling, Unblockable, Closed
<1>5. CASE UNCHANGED rules
  BY <1>5
<1>6. UNCHANGED rules \/ \E a \in Client : \/ InsertPending(a) \/ BlockDone(a)
                                           \/ BlockFails(a) \/ UnblockDone(a)
  BY DEF Next, AgentNext, Requests, Progress, Faults, ReceiveBlock, RejectTrusted, RejectActive,
         AcceptBlock, CallGateway, UnblockFails, Audit, ReceiveUnblock, RejectUnblock,
         AcceptUnblock, UpdateSettings, StartTick, SweepNext, EndSweep, ScanSkip, ScanAbort,
         ScanBlock, EndScan, Elapse, AgentFails, CallFails, Crash, DbError, vars, dbVars
<1> QED BY <1>1, <1>2, <1>3, <1>4, <1>5, <1>6

-----------------------------------------------------------------------------
(* What a step does to the jobs, the requests and the chains: the actions  *)
(* of Next sorted by what they leave alone.                                *)

control == <<rules, pc, job>>

\* Only actor a moves, and not from, into or during a block.
Quiet(a) ==
    /\ UNCHANGED <<agentVars, rules>>
    /\ pc[a] \notin Calling
    /\ pc'[a] # "blocking"
    /\ JobOK(a)'
    /\ \A b \in Client : b # a => pc'[b] = pc[b] /\ job'[b] = job[b]

\* The actors in A lose their calls and what they were doing.
Dies(A) ==
    /\ Hangup(A)
    /\ UNCHANGED rules
    /\ \A a \in A : pc'[a] \in {"idle", "scan"}
    /\ \A a \in Client \ A : pc'[a] = pc[a] /\ job'[a] = job[a]

Sorted ==
    \/ UNCHANGED <<agentVars, control>>
    \/ \E a \in Client : Quiet(a)
    \/ \E s \in AgentThread :
          /\ \/ Refuse(s) \/ Insert(s) \/ Delete(s) \/ Answer(s) \/ InsertFails(s)
             \/ "deletefails" \in FaultKind /\ DeleteFails(s)
          /\ UNCHANGED control
    \/ (AgentCrash \/ Reboot) /\ UNCHANGED control
    \/ \E a \in Client : \/ InsertPending(a) \/ CallGateway(a) \/ BlockDone(a)
                         \/ BlockFails(a) \/ UnblockDone(a) \/ UnblockFails(a)
    \/ \E a \in Client : /\ pc[a] \in Calling
                         /\ NoConnection(a) \/ Timeout(a)
                         /\ UNCHANGED control
    \/ \E A \in SUBSET Client : Dies(A)

\* Every step is of one of these sorts.
LEMMA Sorting ==
  ASSUME TypeOK, Shape, [Next]_vars
  PROVE  Sorted
<1>1. ASSUME Requests
      PROVE  \E a \in Client : Quiet(a)
  <2>1. ASSUME NEW u \in Thread, NEW i \in IP, ReceiveBlock(u, i)
        PROVE  Quiet(u)
    BY <2>1 DEF ReceiveBlock, Goto, Quiet, Calling, JobOK, Shape, TypeOK, dbVars, agentVars
  <2>2. ASSUME NEW u \in Thread, NEW r \in RuleId, ReceiveUnblock(u, r)
        PROVE  Quiet(u)
    BY <2>2 DEF ReceiveUnblock, Goto, Quiet, Calling, JobOK, Shape, TypeOK, dbVars, agentVars
  <2>3. ASSUME NEW u \in Thread, UpdateSettings(u)
        PROVE  Quiet(u)
    BY <2>3 DEF UpdateSettings, Goto, Outcomes, Quiet, Calling, JobOK, Shape, TypeOK, agentVars
  <2> QED BY <1>1, <2>1, <2>2, <2>3 DEF Requests
<1>2. ASSUME NEW t \in Thread,
             RejectTrusted(t) \/ RejectActive(t) \/ AcceptBlock(t) \/ RejectUnblock(t)
      PROVE  Quiet(t)
  BY <1>2 DEF RejectTrusted, RejectActive, AcceptBlock, RejectUnblock, Goto, Outcomes, NoJob,
              Quiet, Calling, JobOK, Shape, TypeOK, dbVars, agentVars
<1>3. ASSUME NEW t \in Thread, AcceptUnblock(t)
      PROVE  Quiet(t)
  BY <1>3 DEF AcceptUnblock, Goto, Quiet, Calling, JobOK, Shape, TypeOK, dbVars, agentVars,
              Unblockable
<1>4. ASSUME NEW a \in Client, Audit(a)
      PROVE  Quiet(a)
  BY <1>4 DEF Audit, Goto, NoJob, Quiet, Calling, JobOK, Shape, TypeOK, agentVars
<1>5. ASSUME NEW w \in Worker, StartTick(w) \/ EndSweep(w) \/ EndScan(w)
      PROVE  Quiet(w)
  BY <1>5 DEF StartTick, EndSweep, EndScan, BeginScan, Goto, NoJob, Quiet, Calling, JobOK, Shape,
              TypeOK, dbVars, agentVars
<1>6. ASSUME NEW w \in Worker, NEW r \in RuleId, SweepNext(w, r)
      PROVE  Quiet(w)
  <2>1. rules[r].status \in Unblockable /\ rules[r].ip \in IP
    BY <1>6 DEF SweepNext, Shape, Unblockable, Closed
  <2> QED
    BY <1>6, <2>1 DEF SweepNext, Goto, Quiet, Calling, JobOK, Shape, TypeOK, dbVars, agentVars
<1>7. ASSUME NEW w \in Worker, NEW i \in IP, ScanAbort(w, i) \/ ScanBlock(w, i)
      PROVE  Quiet(w)
  <2>1. CASE ScanAbort(w, i)
    BY <2>1 DEF ScanAbort, Goto, Quiet, Calling, JobOK, Shape, TypeOK, dbVars, agentVars
  <2>2. CASE ScanBlock(w, i)
    BY <2>2 DEF ScanBlock, Goto, Quiet, Calling, JobOK, Shape, TypeOK, dbVars, agentVars
  <2> QED BY <1>7, <2>1, <2>2
<1>8. ASSUME NEW w \in Worker, Crash(w)
      PROVE  \E A \in SUBSET Client : Dies(A)
  BY <1>8 DEF Crash, Dies, dbVars
<1>9. ASSUME NEW a \in Client, DbError(a)
      PROVE  Dies({a})
  BY <1>9 DEF DbError, BeginScan, Dies, Goto, TypeOK, dbVars
<1>10. ASSUME AgentNext \/ AgentFails
       PROVE  Sorted
  BY <1>10 DEF AgentNext, AgentFails, HandlerStep, Fault, Sorted, control, dbVars
<1>11. ASSUME NEW a \in Client, CallFails(a)
       PROVE  Sorted
  BY <1>11 DEF CallFails, Sorted, Calling, control, dbVars
<1>12. ASSUME \/ \E r \in RuleId : Elapse(r)
              \/ \E w \in Worker, i \in IP : ScanSkip(w, i)
              \/ UNCHANGED vars
       PROVE  UNCHANGED <<agentVars, control>>
  BY <1>12 DEF Elapse, ScanSkip, vars, dbVars, control
<1> QED
  BY <1>1, <1>2, <1>3, <1>4, <1>5, <1>6, <1>7, <1>8, <1>9, <1>10, <1>11, <1>12
     DEF Next, Progress, Faults, Requests, Sorted

-----------------------------------------------------------------------------
(* The parts of Shape and Single, step by step.                          *)

LEMMA JobsStep ==
  ASSUME TypeOK, Shape, Single, Sorted, NEW b \in Client
  PROVE  JobOK(b)'
<1> USE DEF JobOK, Calling
<1>0. JobOK(b)
  BY DEF Shape
<1>1. CASE UNCHANGED <<agentVars, control>>
  BY <1>0, <1>1 DEF agentVars, control
<1>2. ASSUME NEW a \in Client, Quiet(a)
      PROVE  JobOK(b)'
  BY <1>0, <1>2 DEF Quiet, agentVars
<1>3. ASSUME NEW s \in AgentThread, UNCHANGED control,
             Refuse(s) \/ InsertFails(s) \/ Answer(s)
      PROVE  JobOK(b)'
  BY <1>0, <1>3 DEF Refuse, InsertFails, Answer, Respond, control, Shape, RequestOK, TypeOK, AgentTypeOK, Request, Chain
<1>4. ASSUME NEW s \in AgentThread, UNCHANGED control,
             Insert(s) \/ Delete(s) \/ DeleteFails(s)
      PROVE  JobOK(b)'
  BY <1>0, <1>4 DEF Insert, Delete, DeleteFails, control
<1>5. CASE (AgentCrash \/ Reboot) /\ UNCHANGED control
  BY <1>0, <1>5 DEF AgentCrash, Reboot, CutConnections, control
<1>6. ASSUME NEW a \in Client, InsertPending(a)
      PROVE  JobOK(b)'
  <2>1. PICK n \in Unused : /\ rules' = [rules EXCEPT ![n] = [ip |-> job[a].ip, status |-> "PENDING"]]
                            /\ job' = [job EXCEPT ![a].rule = n]
    BY <1>6 DEF InsertPending
  <2>2. CASE b = a
    BY <1>0, <1>6, <2>1, <2>2 DEF InsertPending, Goto, Unused, agentVars, TypeOK, Job
  <2>3. CASE b # a
    BY <1>0, <1>6, <2>1, <2>3 DEF InsertPending, Goto, Unused, agentVars, TypeOK, Unblockable, Closed
  <2> QED BY <2>2, <2>3
<1>7. ASSUME NEW a \in Client, CallGateway(a)
      PROVE  JobOK(b)'
  BY <1>0, <1>7 DEF CallGateway, Post, dbVars, TypeOK, AgentTypeOK
<1>8. ASSUME NEW a \in Client, BlockDone(a) \/ BlockFails(a)
      PROVE  JobOK(b)'
  <2>1. CASE b = a
    BY <1>0, <1>8, <2>1 DEF BlockDone, BlockFails, TakeReply, Goto, Outcomes, TypeOK, AgentTypeOK
  <2>2. CASE b # a
    <3>1. pc[b] \in {"blocking", "unblocking"} => job[b].rule # job[a].rule
      BY <1>8, <2>2 DEF BlockDone, BlockFails, Single, Shape, Unblockable, Closed
    <3> QED BY <1>0, <1>8, <2>2, <3>1
      DEF BlockDone, BlockFails, TakeReply, SetStatus, Goto, Outcomes, TypeOK, AgentTypeOK
  <2> QED BY <2>1, <2>2
<1>9. ASSUME NEW a \in Client, UnblockDone(a)
      PROVE  JobOK(b)'
  <2>1. CASE b = a
    BY <1>0, <1>9, <2>1 DEF UnblockDone, TakeReply, Goto, Outcomes, TypeOK, AgentTypeOK
  <2>2. CASE b # a
    <3>1. pc[b] = "blocking" => job[b].rule # job[a].rule
      BY <1>9, <2>2 DEF UnblockDone, Shape, Unblockable, Closed
    <3> QED BY <1>0, <1>9, <2>2, <3>1
      DEF UnblockDone, TakeReply, SetStatus, Goto, Outcomes, TypeOK, AgentTypeOK, Unblockable, Closed
  <2> QED BY <2>1, <2>2
<1>10. ASSUME NEW a \in Client, UnblockFails(a)
       PROVE  JobOK(b)'
  BY <1>0, <1>10 DEF UnblockFails, TakeReply, Goto, Outcomes, dbVars, TypeOK, AgentTypeOK
<1>11. ASSUME NEW a \in Client, pc[a] \in Calling, NoConnection(a) \/ Timeout(a), UNCHANGED control
       PROVE  JobOK(b)'
  BY <1>0, <1>11 DEF NoConnection, Timeout, control, TypeOK, AgentTypeOK
<1>12. ASSUME NEW A \in SUBSET Client, Dies(A)
       PROVE  JobOK(b)'
  BY <1>0, <1>12 DEF Dies, Hangup
<1> QED
  BY <1>1, <1>2, <1>3, <1>4, <1>5, <1>6, <1>7, <1>8, <1>9, <1>10, <1>11, <1>12 DEF Sorted

LEMMA RequestsStep ==
  ASSUME TypeOK, Shape, Single, Sorted, NEW u \in AgentThread
  PROVE  RequestOK(u)'
<1>0. RequestOK(u)
  BY DEF Shape
<1>a. req[u].client # None => pc[req[u].client] \in Calling /\ req[u].client \in Client
  BY <1>0 DEF RequestOK, TypeOK, AgentTypeOK, Request, Shape, JobOK
<1>1. CASE UNCHANGED <<agentVars, control>>
  BY <1>0, <1>1 DEF agentVars, control, RequestOK
<1>2. ASSUME NEW a \in Client, Quiet(a)
      PROVE  RequestOK(u)'
  BY <1>0, <1>a, <1>2 DEF Quiet, agentVars, RequestOK
<1>3. ASSUME NEW s \in AgentThread, UNCHANGED control,
             Refuse(s) \/ InsertFails(s) \/ Answer(s)
      PROVE  RequestOK(u)'
  <2>1. CASE u = s
    BY <1>3, <2>1 DEF Refuse, InsertFails, Answer, Respond, NoReq, RequestOK, TypeOK, AgentTypeOK
  <2>2. CASE u # s
    <3>1. req'[u] = req[u]
      <4>1. req' = [req EXCEPT ![s] = NoReq]
        BY <1>3 DEF Refuse, InsertFails, Answer, Respond
      <4> QED BY <2>2, <4>1 DEF TypeOK, AgentTypeOK
    <3>2. req[u].client # None => reply'[req[u].client] = reply[req[u].client]
      BY <1>a, <1>3, <2>2 DEF Refuse, InsertFails, Answer, Respond, Single
    <3> QED BY <1>0, <1>3, <3>1, <3>2 DEF RequestOK, control
  <2> QED BY <2>1, <2>2
<1>4. ASSUME NEW s \in AgentThread, UNCHANGED control,
             Insert(s) \/ Delete(s) \/ DeleteFails(s)
      PROVE  RequestOK(u)'
  <2>1. \/ req'[u] = req[u]
        \/ req[u].step # "idle" /\ req'[u] = [req[u] EXCEPT !.step = After(@)]
    BY <1>4 DEF Insert, Delete, DeleteFails, Chain, TypeOK, AgentTypeOK
  <2>2. After(req[u].step) # "idle"
    BY DEF After
  <2>3. CASE req[u].step # "idle" /\ req'[u] = [req[u] EXCEPT !.step = After(@)]
    <3>1. /\ req'[u].step # "idle"
          /\ req'[u].op = req[u].op /\ req'[u].ip = req[u].ip
          /\ req'[u].rule = req[u].rule /\ req'[u].client = req[u].client
      BY <2>2, <2>3 DEF TypeOK, AgentTypeOK, Request
    <3> QED BY <1>0, <1>4, <2>3, <3>1 DEF Insert, Delete, DeleteFails, RequestOK, control
  <2> QED BY <1>0, <1>4, <2>1, <2>3 DEF Insert, Delete, DeleteFails, RequestOK, control
<1>5. CASE (AgentCrash \/ Reboot) /\ UNCHANGED control
  BY <1>5 DEF AgentCrash, Reboot, CutConnections, NoReq, RequestOK
<1>6. ASSUME NEW a \in Client, InsertPending(a)
      PROVE  RequestOK(u)'
  <2>1. PICK n \in Unused : /\ rules' = [rules EXCEPT ![n] = [ip |-> job[a].ip, status |-> "PENDING"]]
                            /\ job' = [job EXCEPT ![a].rule = n]
    BY <1>6 DEF InsertPending
  <2>2. req[u].step # "idle" => req[u].rule # n
    BY <1>0, <2>1 DEF RequestOK, Unused, Unblockable, Closed
  <2>3. req[u].client # a
    BY <1>0, <1>a, <1>6 DEF InsertPending, Calling, RequestOK
  <2> QED BY <1>0, <1>a, <1>6, <2>1, <2>2, <2>3 DEF InsertPending, Goto, agentVars, RequestOK, TypeOK
<1>7. ASSUME NEW a \in Client, CallGateway(a)
      PROVE  RequestOK(u)'
  BY <1>0, <1>7 DEF CallGateway, Post, dbVars, RequestOK, OpOf, Shape, JobOK, Calling, Unblockable, TypeOK, AgentTypeOK
<1>8. ASSUME NEW a \in Client, BlockDone(a)
      PROVE  RequestOK(u)'
  <2>1. req[u].step # "idle" => req[u].rule # job[a].rule
    BY <1>0, <1>8 DEF BlockDone, TakeReply, Single, Shape, JobOK, RequestOK, Unblockable, Closed
  <2>2. req[u].client # a
    BY <1>0, <1>8 DEF BlockDone, TakeReply, RequestOK
  <2> QED BY <1>0, <1>a, <1>8, <2>1, <2>2
    DEF BlockDone, TakeReply, SetStatus, Outcomes, Goto, RequestOK, TypeOK, AgentTypeOK
<1>9. ASSUME NEW a \in Client, BlockFails(a)
      PROVE  RequestOK(u)'
  <2>1. req[u].step # "idle" /\ req[u].op = "unblock" => req[u].rule # job[a].rule
    BY <1>0, <1>9 DEF BlockFails, Shape, JobOK, RequestOK, Unblockable, Closed, Calling
  <2>2. req[u].client # a
    BY <1>0, <1>9 DEF BlockFails, TakeReply, RequestOK
  <2> QED BY <1>0, <1>a, <1>9, <2>1, <2>2
    DEF BlockFails, TakeReply, SetStatus, Outcomes, Goto, RequestOK, TypeOK, AgentTypeOK
<1>10. ASSUME NEW a \in Client, UnblockDone(a)
       PROVE  RequestOK(u)'
  <2>1. req[u].step # "idle" /\ req[u].op = "block" => req[u].rule # job[a].rule
    BY <1>0, <1>10 DEF UnblockDone, Shape, JobOK, RequestOK, Unblockable, Closed, Calling
  <2>2. req[u].client # a
    BY <1>0, <1>10 DEF UnblockDone, TakeReply, RequestOK
  <2> QED BY <1>0, <1>a, <1>10, <2>1, <2>2
    DEF UnblockDone, TakeReply, SetStatus, Outcomes, Goto, RequestOK, TypeOK, AgentTypeOK,
        Unblockable, Closed
<1>11. ASSUME NEW a \in Client, UnblockFails(a)
       PROVE  RequestOK(u)'
  <2>1. req[u].client # a
    BY <1>0, <1>11 DEF UnblockFails, TakeReply, RequestOK
  <2> QED BY <1>0, <1>a, <1>11, <2>1
    DEF UnblockFails, TakeReply, Outcomes, Goto, dbVars, RequestOK, TypeOK, AgentTypeOK
<1>12. ASSUME NEW a \in Client, pc[a] \in Calling, NoConnection(a) \/ Timeout(a), UNCHANGED control
       PROVE  RequestOK(u)'
  <2>1. CASE NoConnection(a)
    BY <1>0, <1>12, <2>1 DEF NoConnection, control, RequestOK, TypeOK, AgentTypeOK
  <2>2. CASE Timeout(a)
    BY <1>0, <1>12, <2>2 DEF Timeout, Orphaned, control, RequestOK, TypeOK, AgentTypeOK, Request, NoReq
  <2> QED BY <1>12, <2>1, <2>2
<1>13. ASSUME NEW A \in SUBSET Client, Dies(A)
       PROVE  RequestOK(u)'
  BY <1>0, <1>a, <1>13 DEF Dies, Hangup, Orphaned, RequestOK, TypeOK, AgentTypeOK, Request, NoReq
<1> QED
  BY <1>1, <1>2, <1>3, <1>4, <1>5, <1>6, <1>7, <1>8, <1>9, <1>10, <1>11, <1>12, <1>13 DEF Sorted

\* A request's fields but for its step.
SameRequest(p, q) == p.op = q.op /\ p.rule = q.rule /\ p.client = q.client /\ p.ip = q.ip

LEMMA SingleStep ==
  ASSUME TypeOK, Shape, Single, Sorted
  PROVE  Single'
<1>1. CASE UNCHANGED <<agentVars, control>>
  BY <1>1 DEF agentVars, control, Single
<1>2. ASSUME NEW a \in Client, Quiet(a)
      PROVE  Single'
  BY <1>2 DEF Quiet, agentVars, Single
<1>3. ASSUME NEW s \in AgentThread, UNCHANGED control,
             Refuse(s) \/ InsertFails(s) \/ Answer(s)
      PROVE  Single'
  <2>1. req' = [req EXCEPT ![s] = NoReq]
    BY <1>3 DEF Refuse, InsertFails, Answer, Respond
  <2>2. \A a \in Client : a # req[s].client => reply'[a] = reply[a]
    BY <1>3 DEF Refuse, InsertFails, Answer, Respond
  <2>3. \A u \in AgentThread : req'[u] = IF u = s THEN NoReq ELSE req[u]
    BY <2>1 DEF TypeOK, AgentTypeOK
  <2>4. ASSUME NEW a \in Client, NEW u \in AgentThread, pc[a] = "blocking",
               reply'[a] \in {"none", "ok"}, req'[u].op = "block"
        PROVE  req'[u].rule # job[a].rule
    <3>1. u # s /\ req'[u] = req[u]
      BY <2>3, <2>4 DEF NoReq
    <3>2. CASE a = req[s].client
      BY <2>4, <3>1, <3>2 DEF Single, Shape, RequestOK, OpOf
    <3>3. CASE a # req[s].client
      BY <2>2, <2>4, <3>1, <3>3 DEF Single
    <3> QED BY <3>2, <3>3
  <2> QED BY <1>3, <2>3, <2>4 DEF Single, NoReq, control
<1>4. ASSUME NEW s \in AgentThread, UNCHANGED control,
             Insert(s) \/ Delete(s) \/ DeleteFails(s)
      PROVE  Single'
  <2>1. \A u \in AgentThread : SameRequest(req'[u], req[u])
    BY <1>4 DEF Insert, Delete, DeleteFails, SameRequest, TypeOK, AgentTypeOK, Request
  <2> QED BY <1>4, <2>1 DEF Insert, Delete, DeleteFails, SameRequest, Single, control
<1>5. CASE (AgentCrash \/ Reboot) /\ UNCHANGED control
  BY <1>5 DEF AgentCrash, Reboot, CutConnections, NoReq, Single, control
<1>6. ASSUME NEW a \in Client, InsertPending(a)
      PROVE  Single'
  <2>1. PICK n \in Unused : job' = [job EXCEPT ![a].rule = n]
    BY <1>6 DEF InsertPending
  <2>2. \A u \in AgentThread : req[u].op = "block" => req[u].rule # n
    BY <2>1 DEF Unused, Shape, RequestOK, NoReq
  <2>3. \A b \in Client : pc[b] = "blocking" => job[b].rule # n
    BY <2>1 DEF Unused, Shape, JobOK
  <2>4. job'[a].rule = n /\ \A b \in Client : b # a => job'[b] = job[b] /\ pc'[b] = pc[b]
    BY <1>6, <2>1 DEF InsertPending, Goto, TypeOK, Job
  <2>5. UNCHANGED <<req, reply>>
    BY <1>6 DEF InsertPending, agentVars
  <2>6. \A b, c \in Client : pc'[b] = "blocking" /\ pc'[c] = "blocking" /\ b # c =>
                             job'[b].rule # job'[c].rule
    BY <2>3, <2>4 DEF Single
  <2>7. \A b \in Client, u \in AgentThread :
           pc'[b] = "blocking" /\ reply[b] \in {"none", "ok"} /\ req[u].op = "block" =>
                             req[u].rule # job'[b].rule
    BY <2>2, <2>4 DEF Single
  <2> QED BY <2>5, <2>6, <2>7 DEF Single
<1>7. ASSUME NEW a \in Client, CallGateway(a)
      PROVE  Single'
  <2>1. PICK s \in AgentThread :
           /\ req[s].step = "idle"
           /\ req' = [req EXCEPT ![s] = [op |-> OpOf(pc[a]), ip |-> job[a].ip, rule |-> job[a].rule,
                                         client |-> a, step |-> "INPUT"]]
    BY <1>7 DEF CallGateway, Post, OpOf
  <2>2. \A u \in AgentThread : u # s => req'[u] = req[u]
    BY <2>1 DEF TypeOK, AgentTypeOK
  <2>3. req'[s].op = OpOf(pc[a]) /\ req'[s].rule = job[a].rule /\ req'[s].client = a
    BY <2>1 DEF TypeOK, AgentTypeOK
  <2>4. \A u \in AgentThread : req[u].client # a
    BY <1>7 DEF CallGateway, Post, Shape, RequestOK
  <2>5. reply'[a] = "wait" /\ \A b \in Client : b # a => reply'[b] = reply[b]
    BY <1>7 DEF CallGateway, Post, TypeOK, AgentTypeOK
  <2>6. req'[s].op = "block" => pc[a] = "blocking" /\ reply[a] = "none"
    BY <1>7, <2>3 DEF CallGateway, Post, OpOf
  <2> QED BY <1>7, <2>2, <2>3, <2>4, <2>5, <2>6 DEF CallGateway, Single
<1>8. ASSUME NEW a \in Client, BlockDone(a) \/ BlockFails(a) \/ UnblockDone(a) \/ UnblockFails(a)
      PROVE  Single'
  <2>1. /\ UNCHANGED req
        /\ pc'[a] = "audit"
        /\ \A b \in Client : b # a => pc'[b] = pc[b] /\ job'[b] = job[b] /\ reply'[b] = reply[b]
    BY <1>8 DEF BlockDone, BlockFails, UnblockDone, UnblockFails, TakeReply, Goto, Outcomes,
                TypeOK, AgentTypeOK
  <2> QED BY <2>1 DEF Single
<1>9. ASSUME NEW a \in Client, pc[a] \in Calling, NoConnection(a) \/ Timeout(a), UNCHANGED control
      PROVE  Single'
  <2>1. reply'[a] = "error" /\ \A b \in Client : b # a => reply'[b] = reply[b]
    BY <1>9 DEF NoConnection, Timeout, TypeOK, AgentTypeOK
  <2>2. \A u \in AgentThread : /\ req'[u].op = req[u].op /\ req'[u].rule = req[u].rule
                               /\ req'[u].client \in {req[u].client, None}
    BY <1>9 DEF NoConnection, Timeout, Orphaned, TypeOK, AgentTypeOK, Request
  <2> QED BY <1>9, <2>1, <2>2 DEF Single, control
<1>10. ASSUME NEW A \in SUBSET Client, Dies(A)
       PROVE  Single'
  <2>1. \A u \in AgentThread : /\ req'[u].op = req[u].op /\ req'[u].rule = req[u].rule
                               /\ req'[u].client \in {req[u].client, None}
    BY <1>10 DEF Dies, Hangup, Orphaned, TypeOK, AgentTypeOK, Request
  <2> QED BY <1>10, <2>1 DEF Dies, Hangup, Single
<1> QED
  BY <1>1, <1>2, <1>3, <1>4, <1>5, <1>6, <1>7, <1>8, <1>9, <1>10 DEF Sorted

\* A worker's list of due rules only shrinks, but for the sweep's query.
LEMMA DueStep ==
  ASSUME TypeOK, [Next]_vars, NEW w \in Worker
  PROVE  \/ due'[w] \subseteq due[w]
         \/ UNCHANGED rules /\ due'[w] = {r \in elapsed : rules[r].status = "ACTIVE"}
<1>1. ASSUME NEW v \in Worker, StartTick(v)
      PROVE  \/ due'[w] = due[w]
             \/ UNCHANGED rules /\ due'[w] = {r \in elapsed : rules[r].status = "ACTIVE"}
  BY <1>1 DEF StartTick, dbVars, TypeOK
<1>2. ASSUME NEW v \in Worker, NEW r \in RuleId, SweepNext(v, r)
      PROVE  due'[w] \subseteq due[w]
  BY <1>2 DEF SweepNext, TypeOK
<1>3. ASSUME NEW v \in Worker, EndSweep(v) \/ Crash(v)
      PROVE  due'[w] \subseteq due[w]
  BY <1>3 DEF EndSweep, BeginScan, Crash, TypeOK
<1>4. ASSUME NEW a \in Client, DbError(a)
      PROVE  due'[w] \subseteq due[w]
  BY <1>4 DEF DbError, BeginScan, TypeOK
<1> QED
  BY <1>1, <1>2, <1>3, <1>4
     DEF Next, AgentNext, Requests, Progress, Faults, ReceiveBlock, RejectTrusted, RejectActive,
         AcceptBlock, CallGateway, InsertPending, BlockDone, BlockFails, UnblockDone, UnblockFails,
         Audit, ReceiveUnblock, RejectUnblock, AcceptUnblock, UpdateSettings, ScanSkip, ScanAbort,
         ScanBlock, EndScan, Elapse, AgentFails, CallFails, vars

LEMMA ShapeStep ==
  ASSUME TypeOK, Shape, Single, [Next]_vars
  PROVE  Shape' /\ Single'
<1>1. Sorted
  BY Sorting
<1>2. \A a \in Client : JobOK(a)'
  BY <1>1, JobsStep
<1>3. \A s \in AgentThread : RequestOK(s)'
  BY <1>1, RequestsStep
<1>4. ASSUME NEW r \in RuleId, rules'[r].status # "NONE"
      PROVE  rules'[r].ip \in IP
  BY <1>4, StatusStep DEF Shape
<1>5. ASSUME NEW w \in Worker, NEW r \in due'[w]
      PROVE  rules'[r].status \in Unblockable
  <2>1. r \in RuleId
    BY TypeStep DEF TypeOK
  <2>2. rules[r].status \in Unblockable \/ rules'[r].status = "ACTIVE"
    BY DueStep, <2>1 DEF Shape
  <2> QED BY StatusStep, <2>1, <2>2 DEF StatusMoves, Unblockable, Closed
<1>6. Single'
  BY <1>1, SingleStep
<1> QED BY <1>2, <1>3, <1>4, <1>5, <1>6 DEF Shape

LEMMA ShapeInit ==
  ASSUME Init
  PROVE  TypeOK /\ Shape /\ Single
BY DEF Init, AgentInit, TypeOK, AgentTypeOK, Shape, Single, JobOK, RequestOK, Calling, NoReq, NoJob,
       NoOutcome, Outcome, Job, Request, Chain, PC, Status

\* Jobs, requests and rules fit together in every reachable state.
LEMMA BaseInvariant == Spec => [](TypeOK /\ Shape /\ Single)
<1>1. Init => TypeOK /\ Shape /\ Single
  BY ShapeInit
<1>2. TypeOK /\ Shape /\ Single /\ [Next]_vars => (TypeOK /\ Shape /\ Single)'
  BY TypeStep, ShapeStep
<1> QED BY <1>1, <1>2, PTL DEF Spec

\* Every variable keeps its type, whatever the threads, the workers, the
\* agent's handlers and the faults do.
THEOREM TypeCorrect == Spec => []TypeOK
BY BaseInvariant, PTL

-----------------------------------------------------------------------------
(* The trusted addresses.                                                  *)

\* The addresses a scan still has to visit never come from Trusted.
LEMMA RowsStep ==
  ASSUME TypeOK, [Next]_vars, NEW w \in Worker
  PROVE  rows'[w] \subseteq rows[w] \/ rows'[w] \cap Trusted = {}
<1>1. ASSUME NEW v \in Worker, NEW i \in IP, ScanSkip(v, i) \/ ScanAbort(v, i) \/ ScanBlock(v, i)
      PROVE  rows'[w] \subseteq rows[w]
  BY <1>1 DEF ScanSkip, ScanAbort, ScanBlock, TypeOK
<1>2. ASSUME NEW v \in Client, EndSweep(v) \/ DbError(v)
      PROVE  rows'[w] \subseteq rows[w] \/ rows'[w] \cap Trusted = {}
  <2>1. CASE BeginScan(v)
    <3>1. PICK offenders \in IF auto THEN SUBSET (IP \ Trusted) ELSE {{}} :
             rows' = [rows EXCEPT ![v] = offenders]
      BY <2>1 DEF BeginScan
    <3> QED BY <3>1 DEF TypeOK
  <2>2. CASE rows' = [u \in Worker |-> IF u = v THEN {} ELSE rows[u]]
    BY <2>2
  <2> QED BY <1>2, <2>1, <2>2 DEF EndSweep, DbError
<1>3. ASSUME NEW v \in Worker, Crash(v)
      PROVE  rows'[w] \subseteq rows[w]
  BY <1>3 DEF Crash, TypeOK
<1> QED
  BY <1>1, <1>2, <1>3
     DEF Next, AgentNext, Requests, Progress, Faults, ReceiveBlock, RejectTrusted, RejectActive,
         AcceptBlock, CallGateway, InsertPending, BlockDone, BlockFails, UnblockDone, UnblockFails,
         Audit, ReceiveUnblock, RejectUnblock, AcceptUnblock, UpdateSettings, StartTick, SweepNext,
         EndScan, Elapse, AgentFails, CallFails, vars

\* Nor does the address a rule is about to be inserted for.
LEMMA InsertStep ==
  ASSUME TypeOK, Protected, [Next]_vars, NEW b \in Client, pc'[b] = "insert"
  PROVE  job'[b].ip \notin Trusted
<1>1. ASSUME NEW t \in Thread, AcceptBlock(t)
      PROVE  job'[b].ip \notin Trusted
  BY <1>1 DEF AcceptBlock, Goto, Protected, TypeOK
<1>2. ASSUME NEW w \in Worker, NEW i \in IP, ScanBlock(w, i)
      PROVE  job'[b].ip \notin Trusted
  BY <1>2 DEF ScanBlock, Goto, Protected, TypeOK, Job
<1>3. ASSUME NEW a \in Client, \A c \in Client : c # a => pc'[c] = pc[c] /\ job'[c] = job[c],
             pc'[a] # "insert"
      PROVE  job'[b].ip \notin Trusted
  BY <1>3 DEF Protected
<1>4. ASSUME Requests
      PROVE  \E a \in Client : /\ pc'[a] # "insert"
                               /\ \A c \in Client : c # a => pc'[c] = pc[c] /\ job'[c] = job[c]
  BY <1>4 DEF Requests, ReceiveBlock, ReceiveUnblock, UpdateSettings, Outcomes, Goto, TypeOK
<1>5. ASSUME NEW a \in Client,
             \/ RejectTrusted(a) \/ RejectActive(a) \/ RejectUnblock(a) \/ AcceptUnblock(a)
             \/ InsertPending(a) \/ BlockDone(a) \/ BlockFails(a) \/ UnblockDone(a)
             \/ UnblockFails(a) \/ Audit(a)
      PROVE  /\ pc'[a] # "insert"
             /\ \A c \in Client : c # a => pc'[c] = pc[c] /\ job'[c] = job[c]
  BY <1>5 DEF RejectTrusted, RejectActive, RejectUnblock, AcceptUnblock, InsertPending, BlockDone,
              BlockFails, UnblockDone, UnblockFails, Audit, Outcomes, Goto, TypeOK
<1>6. ASSUME NEW w \in Worker,
             \/ StartTick(w) \/ EndSweep(w) \/ EndScan(w)
             \/ \E r \in RuleId : SweepNext(w, r)
             \/ \E i \in IP : ScanAbort(w, i)
      PROVE  /\ pc'[w] # "insert"
             /\ \A c \in Client : c # w => pc'[c] = pc[c] /\ job'[c] = job[c]
  BY <1>6 DEF StartTick, EndSweep, BeginScan, EndScan, SweepNext, ScanAbort, Goto, TypeOK
<1>7. ASSUME NEW a \in Client, DbError(a)
      PROVE  /\ pc'[a] # "insert"
             /\ \A c \in Client : c # a => pc'[c] = pc[c] /\ job'[c] = job[c]
  BY <1>7 DEF DbError, BeginScan, Goto, TypeOK
<1>8. ASSUME NEW w \in Worker, Crash(w)
      PROVE  job'[b].ip \notin Trusted
  BY <1>8 DEF Crash, Protected
<1>9. CASE UNCHANGED <<pc, job>>
  BY <1>9 DEF Protected
<1> QED
  BY <1>1, <1>2, <1>3, <1>4, <1>5, <1>6, <1>7, <1>8, <1>9
     DEF Next, AgentNext, Progress, Faults, CallGateway, ScanSkip, Elapse, AgentFails, CallFails, vars

\* A DROP is inserted for the address of a recorded rule, and not for one
\* the agent protects.
LEMMA ChainStep ==
  ASSUME TypeOK, Shape, Protected, Sorted, NEW i \in Trusted \cup AgentTrusted, NEW c \in Chain
  PROVE  chain'[c][i] = 0
<1>0. i \in IP /\ chain[c][i] = 0
  BY DEF Protected
<1>1. ASSUME NEW s \in AgentThread, Insert(s)
      PROVE  chain'[c][i] = 0
  <2>1. req[s].ip # i
    BY <1>1 DEF Insert, Chain, Shape, RequestOK, Protected, RulesOf, Unblockable, Closed
  <2> QED BY <1>0, <1>1, <2>1 DEF Insert, TypeOK, AgentTypeOK
<1>2. ASSUME NEW s \in AgentThread, Delete(s)
      PROVE  chain'[c][i] = 0
  <2>1. chain' = [chain EXCEPT ![req[s].step][req[s].ip] = IF @ = 0 THEN 0 ELSE @ - 1]
    BY <1>2 DEF Delete
  <2>2. chain'[c][i] = chain[c][i] \/ (chain[c][i] # 0 /\ chain'[c][i] = chain[c][i] - 1)
    BY <1>0, <2>1 DEF TypeOK, AgentTypeOK
  <2> QED BY <1>0, <2>2
<1>3. ASSUME Reboot
      PROVE  chain'[c][i] = 0
  BY <1>0, <1>3 DEF Reboot
<1>4. CASE UNCHANGED chain
  BY <1>0, <1>4
<1> QED
  BY <1>1, <1>2, <1>3, <1>4
     DEF Sorted, Quiet, Refuse, Answer, InsertFails, DeleteFails, AgentCrash, InsertPending,
         CallGateway, Post, BlockDone, BlockFails, UnblockDone, UnblockFails, TakeReply,
         NoConnection, Timeout, Dies, Hangup, agentVars

LEMMA ProtectedStep ==
  ASSUME TypeOK, Shape, Protected, [Next]_vars
  PROVE  Protected'
<1>1. \A i \in Trusted \cup AgentTrusted : \A c \in Chain : chain'[c][i] = 0
  BY ChainStep, Sorting
<1>2. \A a \in Client : pc'[a] = "insert" => job'[a].ip \notin Trusted
  BY InsertStep
<1>3. \A w \in Worker : rows'[w] \cap Trusted = {}
  BY RowsStep DEF Protected
<1>4. ASSUME NEW r \in RuleId, rules'[r].ip \in Trusted, rules'[r].status # "NONE"
      PROVE  FALSE
  <2>1. rules[r].status # "NONE" => rules'[r].ip = rules[r].ip
    BY StatusStep
  <2>2. CASE rules[r].status # "NONE"
    BY <1>4, <2>1, <2>2 DEF Protected, RulesOf
  <2>3. CASE rules[r].status = "NONE"
    <3>1. rules'[r] # rules[r]
      BY <1>4, <2>3
    <3>2. PICK a \in Client : InsertPending(a)
      <4>1. ASSUME NEW a \in Client, BlockDone(a) \/ BlockFails(a) \/ UnblockDone(a)
            PROVE  rules'[r] = rules[r]
        BY <2>3, <4>1 DEF BlockDone, BlockFails, UnblockDone, SetStatus, Shape, JobOK, Calling,
                          Unblockable, Closed, TypeOK
      <4>2. UNCHANGED rules \/ \E a \in Client : \/ InsertPending(a) \/ BlockDone(a)
                                                 \/ BlockFails(a) \/ UnblockDone(a)
        BY Sorting DEF Sorted, Quiet, CallGateway, UnblockFails, Dies, control, dbVars
      <4> QED BY <3>1, <4>1, <4>2
    <3>3. rules'[r].ip = job[a].ip
      BY <3>1, <3>2 DEF InsertPending, TypeOK
    <3> QED BY <1>4, <3>2, <3>3 DEF InsertPending, Protected
  <2> QED BY <2>2, <2>3
<1> QED BY <1>1, <1>2, <1>3, <1>4 DEF Protected, RulesOf

LEMMA ProtectedInit ==
  ASSUME Init
  PROVE  Protected
BY DEF Init, AgentInit, Protected, RulesOf, Chain

\* The safety guard: whatever the interleaving, the faults and the alerts, no
\* rule is recorded for an address in trusted_ips and no chain drops an
\* address that the backend or the agent protects.
THEOREM TrustedSafe == Spec => []TrustedNeverBlocked
<1>1. Init => Protected
  BY ProtectedInit
<1>2. TypeOK /\ Shape /\ Single /\ Protected /\ [Next]_vars => Protected'
  BY ProtectedStep
<1>3. Protected => TrustedNeverBlocked
  BY DEF Protected, TrustedNeverBlocked
<1> QED BY <1>1, <1>2, <1>3, BaseInvariant, PTL DEF Spec

-----------------------------------------------------------------------------
(* The account of the DROPs.                                               *)

\* The steps that leave the chains alone, and the rules owed to.
Untouched ==
    /\ UNCHANGED <<chain, owed>>
    /\ \A r \in RuleId : rules[r].status # "NONE" => /\ rules'[r].ip = rules[r].ip
                                                     /\ rules'[r].status # "NONE"

LEMMA TouchCases ==
  ASSUME TypeOK, Shape, [Next]_vars
  PROVE  \/ Untouched
         \/ Reboot /\ UNCHANGED control
         \/ \E s \in AgentThread : (Insert(s) \/ Delete(s)) /\ UNCHANGED control
<1>1. \A r \in RuleId : rules[r].status # "NONE" => /\ rules'[r].ip = rules[r].ip
                                                    /\ rules'[r].status # "NONE"
  BY StatusStep DEF StatusMoves
<1> QED
  BY <1>1, Sorting
     DEF Sorted, Untouched, Quiet, Refuse, Answer, InsertFails, DeleteFails, AgentCrash,
         InsertPending, CallGateway, Post, BlockDone, BlockFails, UnblockDone, UnblockFails,
         TakeReply, NoConnection, Timeout, Dies, Hangup, agentVars

\* Taking one element out of a finite set lowers its cardinality by one at most.
LEMMA RemoveOne ==
  ASSUME NEW S, IsFiniteSet(S), NEW x
  PROVE  Cardinality(S \ {x}) \in Nat /\ Cardinality(S) <= Cardinality(S \ {x}) + 1
<1>1. CASE x \in S
  <2>1. Cardinality(S \ {x}) = Cardinality(S) - 1 /\ IsFiniteSet(S \ {x})
    BY <1>1, FS_RemoveElement
  <2>2. Cardinality(S) \in Nat /\ Cardinality(S \ {x}) \in Nat
    BY <2>1, FS_CardinalityType
  <2> QED BY <2>1, <2>2
<1>2. CASE x \notin S
  <2>1. S \ {x} = S /\ Cardinality(S) \in Nat
    BY <1>2, FS_CardinalityType
  <2> QED BY <2>1
<1> QED BY <1>1, <1>2

LEMMA OwedFinite ==
  ASSUME TypeOK, NEW c \in Chain, NEW i \in IP
  PROVE  IsFiniteSet(OwedTo(c, i)) /\ Cardinality(OwedTo(c, i)) \in Nat
<1>1. OwedTo(c, i) \subseteq RuleId
  BY DEF OwedTo, TypeOK, AgentTypeOK
<1> QED BY <1>1, RuleIdAssumption, FS_Subset, FS_CardinalityType

LEMMA AccountStep ==
  ASSUME TypeOK, Shape, Owed, [Next]_vars, NEW c \in Chain, NEW i \in IP
  PROVE  chain'[c][i] <= Cardinality(OwedTo(c, i)')
<1> DEFINE n == Cardinality(OwedTo(c, i))
<1>0. chain[c][i] <= n /\ n \in Nat /\ IsFiniteSet(OwedTo(c, i)) /\ chain[c][i] \in Nat
  BY OwedFinite DEF Owed, TypeOK, AgentTypeOK
<1>1. CASE Untouched
  <2>1. OwedTo(c, i)' = OwedTo(c, i)
    BY <1>1 DEF Untouched, OwedTo, Owed, TypeOK, AgentTypeOK
  <2> QED BY <1>0, <1>1, <2>1 DEF Untouched
<1>2. CASE Reboot
  <2>1. OwedTo(c, i)' = {} /\ chain'[c][i] = 0
    BY <1>2 DEF Reboot, OwedTo
  <2> QED BY <2>1, FS_EmptySet
<1>3. ASSUME NEW s \in AgentThread, Insert(s), UNCHANGED control
      PROVE  chain'[c][i] <= Cardinality(OwedTo(c, i)')
  <2>0. req[s].ip = rules[req[s].rule].ip /\ req[s].rule \in RuleId
    BY <1>3 DEF Insert, Chain, Shape, RequestOK
  <2>1. CASE req[s].step = c /\ req[s].ip = i
    <3>1. chain'[c][i] = chain[c][i] + 1
      BY <1>0, <1>3, <2>1 DEF Insert, TypeOK, AgentTypeOK
    <3>2. OwedTo(c, i)' = OwedTo(c, i) \cup {req[s].rule}
      BY <1>3, <2>0, <2>1 DEF Insert, OwedTo, control, TypeOK, AgentTypeOK
    <3>3. req[s].rule \notin OwedTo(c, i)
      BY <1>3, <2>1 DEF Insert, Chain, OwedTo, Owed
    <3>4. Cardinality(OwedTo(c, i)') = n + 1
      BY <1>0, <3>2, <3>3, FS_AddElement
    <3> QED BY <1>0, <3>1, <3>4
  <2>2. CASE req[s].step # c \/ req[s].ip # i
    <3>1. chain'[c][i] = chain[c][i]
      BY <1>3, <2>2 DEF Insert, TypeOK, AgentTypeOK
    <3>2. OwedTo(c, i)' = OwedTo(c, i)
      BY <1>3, <2>0, <2>2 DEF Insert, OwedTo, control, TypeOK, AgentTypeOK
    <3> QED BY <1>0, <3>1, <3>2
  <2> QED BY <2>1, <2>2
<1>4. ASSUME NEW s \in AgentThread, Delete(s), UNCHANGED control
      PROVE  chain'[c][i] <= Cardinality(OwedTo(c, i)')
  <2>0. req[s].ip = rules[req[s].rule].ip /\ req[s].rule \in RuleId
    BY <1>4 DEF Delete, Chain, Shape, RequestOK
  <2>1. CASE req[s].step = c /\ req[s].ip = i
    <3>0. chain' = [chain EXCEPT ![c][i] = IF @ = 0 THEN 0 ELSE @ - 1]
      BY <1>4, <2>1 DEF Delete
    <3>1. chain'[c][i] = IF chain[c][i] = 0 THEN 0 ELSE chain[c][i] - 1
      BY <3>0 DEF TypeOK, AgentTypeOK
    <3>2. OwedTo(c, i)' = OwedTo(c, i) \ {req[s].rule}
      BY <1>4, <2>0, <2>1 DEF Delete, OwedTo, control, TypeOK, AgentTypeOK
    <3>3. Cardinality(OwedTo(c, i)') \in Nat /\ n <= Cardinality(OwedTo(c, i)') + 1
      BY <1>0, <3>2, RemoveOne
    <3> QED BY <1>0, <3>1, <3>3
  <2>2. CASE req[s].step # c \/ req[s].ip # i
    <3>0. chain' = [chain EXCEPT ![req[s].step][req[s].ip] = IF @ = 0 THEN 0 ELSE @ - 1]
      BY <1>4 DEF Delete
    <3>1. chain'[c][i] = chain[c][i]
      BY <2>2, <3>0 DEF TypeOK, AgentTypeOK
    <3>2. OwedTo(c, i)' = OwedTo(c, i)
      BY <1>4, <2>0, <2>2 DEF Delete, OwedTo, control, TypeOK, AgentTypeOK
    <3> QED BY <1>0, <3>1, <3>2
  <2> QED BY <2>1, <2>2
<1> QED BY <1>1, <1>2, <1>3, <1>4, TouchCases

\* A chain owes only to recorded rules.
LEMMA RecordedStep ==
  ASSUME TypeOK, Shape, Owed, [Next]_vars, NEW c \in Chain, NEW r \in owed'[c]
  PROVE  rules'[r].status # "NONE"
<1>1. CASE Untouched
  BY <1>1 DEF Untouched, Owed, TypeOK, AgentTypeOK
<1>2. CASE Reboot
  BY <1>2 DEF Reboot
<1>3. ASSUME NEW s \in AgentThread, Insert(s), UNCHANGED control
      PROVE  rules'[r].status # "NONE"
  <2>1. rules[req[s].rule].status # "NONE"
    BY <1>3 DEF Insert, Chain, Shape, RequestOK, Unblockable, Closed
  <2> QED BY <1>3, <2>1 DEF Insert, control, Owed, TypeOK, AgentTypeOK
<1>4. ASSUME NEW s \in AgentThread, Delete(s), UNCHANGED control
      PROVE  rules'[r].status # "NONE"
  BY <1>4 DEF Delete, control, Owed, TypeOK, AgentTypeOK
<1> QED BY <1>1, <1>2, <1>3, <1>4, TouchCases

\* What an Insert adds to and a Delete takes from what a chain owes.
LEMMA OwedAfter ==
  ASSUME TypeOK, NEW s \in AgentThread, NEW c \in Chain
  PROVE  /\ Insert(s) => owed'[c] = IF c = req[s].step THEN owed[c] \cup {req[s].rule} ELSE owed[c]
         /\ Delete(s) => owed'[c] = IF c = req[s].step THEN owed[c] \ {req[s].rule} ELSE owed[c]
BY DEF Insert, Delete, TypeOK, AgentTypeOK

\* Nothing is owed yet to a rule whose gateway call is still to be made.
LEMMA BeforeCallStep ==
  ASSUME TypeOK, Shape, Single, Owed, [Next]_vars,
         NEW a \in Client, pc'[a] = "blocking", reply'[a] = "none", NEW c \in Chain
  PROVE  job'[a].rule \notin owed'[c]
<1>1. CASE UNCHANGED <<agentVars, control>>
  BY <1>1 DEF agentVars, control, Owed
<1>2. ASSUME NEW b \in Client, Quiet(b)
      PROVE  job'[a].rule \notin owed'[c]
  BY <1>2 DEF Quiet, agentVars, Owed
<1>3. ASSUME NEW s \in AgentThread, UNCHANGED control,
             Refuse(s) \/ InsertFails(s) \/ Answer(s) \/ DeleteFails(s)
      PROVE  job'[a].rule \notin owed'[c]
  BY <1>3 DEF Refuse, InsertFails, Answer, Respond, DeleteFails, Owed, control
<1>4. ASSUME NEW s \in AgentThread, UNCHANGED control, Insert(s)
      PROVE  job'[a].rule \notin owed'[c]
  <2>1. req[s].rule # job[a].rule
    BY <1>4 DEF Insert, Single, control
  <2> QED BY <1>4, <2>1, OwedAfter DEF Insert, Owed, control
<1>5. ASSUME NEW s \in AgentThread, UNCHANGED control, Delete(s)
      PROVE  job'[a].rule \notin owed'[c]
  BY <1>5, OwedAfter DEF Delete, Owed, control
<1>6. CASE (AgentCrash \/ Reboot) /\ UNCHANGED control
  BY <1>6 DEF AgentCrash, Reboot, CutConnections, Owed, control
<1>7. ASSUME NEW b \in Client, InsertPending(b)
      PROVE  job'[a].rule \notin owed'[c]
  <2>1. PICK n \in Unused : job' = [job EXCEPT ![b].rule = n]
    BY <1>7 DEF InsertPending
  <2>2. CASE a = b
    BY <1>7, <2>1, <2>2 DEF InsertPending, agentVars, Unused, Owed, TypeOK, Job
  <2>3. CASE a # b
    BY <1>7, <2>1, <2>3 DEF InsertPending, Goto, agentVars, Owed, TypeOK
  <2> QED BY <2>2, <2>3
<1>8. ASSUME NEW b \in Client, CallGateway(b)
      PROVE  job'[a].rule \notin owed'[c]
  BY <1>8 DEF CallGateway, Post, Owed, TypeOK, AgentTypeOK
<1>9. ASSUME NEW b \in Client, BlockDone(b) \/ BlockFails(b) \/ UnblockDone(b) \/ UnblockFails(b)
      PROVE  job'[a].rule \notin owed'[c]
  <2>1. a # b /\ pc[a] = "blocking" /\ job'[a] = job[a] /\ reply'[a] = reply[a] /\ UNCHANGED owed
    BY <1>9 DEF BlockDone, BlockFails, UnblockDone, UnblockFails, TakeReply, Goto, Outcomes,
                TypeOK, AgentTypeOK
  <2> QED BY <2>1 DEF Owed
<1>10. ASSUME NEW b \in Client, pc[b] \in Calling, NoConnection(b) \/ Timeout(b), UNCHANGED control
       PROVE  job'[a].rule \notin owed'[c]
  BY <1>10 DEF NoConnection, Timeout, Owed, control, TypeOK, AgentTypeOK
<1>11. ASSUME NEW A \in SUBSET Client, Dies(A)
       PROVE  job'[a].rule \notin owed'[c]
  BY <1>11 DEF Dies, Hangup, Owed
<1> QED
  BY <1>1, <1>2, <1>3, <1>4, <1>5, <1>6, <1>7, <1>8, <1>9, <1>10, <1>11, Sorting DEF Sorted

\* How a handler's request may change.
Kept(u) == req'[u].op = req[u].op /\ req'[u].rule = req[u].rule /\ req'[u].step = req[u].step
Stepped(u) ==
    /\ req[u].step \in Chain
    /\ Insert(u) \/ Delete(u) \/ ("deletefails" \in FaultKind /\ DeleteFails(u))
    /\ UNCHANGED control
    /\ req'[u].op = req[u].op /\ req'[u].rule = req[u].rule
    /\ req'[u].step = After(req[u].step)
Posted(u) ==
    \E a \in Client : /\ pc[a] \in Calling /\ reply[a] = "none" /\ UNCHANGED <<chain, owed>>
                      /\ req'[u].op = OpOf(pc[a]) /\ req'[u].rule = job[a].rule
                      /\ req'[u].step = "INPUT"

LEMMA RequestMoves ==
  ASSUME TypeOK, Shape, [Next]_vars, NEW u \in AgentThread
  PROVE  req'[u] = NoReq \/ Kept(u) \/ Stepped(u) \/ Posted(u)
<1>1. CASE UNCHANGED req
  BY <1>1 DEF Kept
<1>2. ASSUME NEW s \in AgentThread, Refuse(s) \/ InsertFails(s) \/ Answer(s)
      PROVE  req'[u] = NoReq \/ Kept(u)
  <2>1. req' = [req EXCEPT ![s] = NoReq]
    BY <1>2 DEF Refuse, InsertFails, Answer, Respond
  <2> QED BY <2>1 DEF Kept, TypeOK, AgentTypeOK
<1>3. ASSUME NEW s \in AgentThread, UNCHANGED control,
             Insert(s) \/ Delete(s) \/ ("deletefails" \in FaultKind /\ DeleteFails(s))
      PROVE  Kept(u) \/ Stepped(u)
  <2>1. req' = [req EXCEPT ![s].step = After(@)] /\ req[s].step \in Chain
    BY <1>3 DEF Insert, Delete, DeleteFails
  <2>2. CASE u = s
    BY <1>3, <2>1, <2>2 DEF Stepped, TypeOK, AgentTypeOK, Request
  <2>3. CASE u # s
    BY <2>1, <2>3 DEF Kept, TypeOK, AgentTypeOK
  <2> QED BY <2>2, <2>3
<1>4. CASE AgentCrash \/ Reboot
  BY <1>4 DEF AgentCrash, Reboot, CutConnections
<1>5. ASSUME NEW a \in Client, CallGateway(a)
      PROVE  Kept(u) \/ Posted(u)
  <2>1. PICK s \in AgentThread :
           req' = [req EXCEPT ![s] = [op |-> OpOf(pc[a]), ip |-> job[a].ip, rule |-> job[a].rule,
                                      client |-> a, step |-> "INPUT"]]
    BY <1>5 DEF CallGateway, Post, OpOf
  <2>2. CASE u = s
    BY <1>5, <2>1, <2>2 DEF CallGateway, Post, Calling, Posted, TypeOK, AgentTypeOK
  <2>3. CASE u # s
    BY <2>1, <2>3 DEF Kept, TypeOK, AgentTypeOK
  <2> QED BY <2>2, <2>3
<1>6. ASSUME NEW A \in SUBSET Client, req' = Orphaned(A)
      PROVE  Kept(u)
  BY <1>6 DEF Orphaned, Kept, TypeOK, AgentTypeOK, Request
<1> QED
  BY <1>1, <1>2, <1>3, <1>4, <1>5, <1>6, Sorting
     DEF Sorted, Quiet, agentVars, InsertPending, BlockDone, BlockFails, UnblockDone, UnblockFails,
         TakeReply, NoConnection, Timeout, Dies, Hangup

\* What a chain owes grows by the rule of a block request only.
LEMMA OwedMoves ==
  ASSUME TypeOK, Shape, [Next]_vars, NEW c \in Chain, NEW r \in RuleId
  PROVE  r \in owed'[c] /\ r \notin owed[c] =>
            \E s \in AgentThread : /\ req[s].op = "block" /\ req[s].rule = r
                                   /\ req[s].step = c /\ Insert(s) /\ UNCHANGED control
<1>1. CASE UNCHANGED owed
  BY <1>1
<1>2. CASE Reboot
  BY <1>2 DEF Reboot
<1>3. ASSUME NEW s \in AgentThread, Insert(s) \/ Delete(s), UNCHANGED control,
             r \in owed'[c], r \notin owed[c]
      PROVE  req[s].op = "block" /\ req[s].rule = r /\ req[s].step = c /\ Insert(s)
  <2>1. ~Delete(s)
    BY <1>3, OwedAfter
  <2>2. Insert(s)
    BY <1>3, <2>1
  <2>3. owed'[c] = IF c = req[s].step THEN owed[c] \cup {req[s].rule} ELSE owed[c]
    BY <2>2, OwedAfter
  <2>4. req[s].op = "block"
    BY <2>2 DEF Insert
  <2> QED BY <1>3, <2>2, <2>3, <2>4
<1> QED BY <1>1, <1>2, <1>3, TouchCases DEF Untouched

\* A block request finds nothing owed to its rule in the chains it has still
\* to edit.
LEMMA BlockRequestStep ==
  ASSUME TypeOK, Shape, Single, Owed, [Next]_vars, NEW u \in AgentThread, req'[u].op = "block"
  PROVE  /\ req'[u].step = "INPUT" => req'[u].rule \notin owed'["INPUT"] \cup owed'["FORWARD"]
         /\ req'[u].step = "FORWARD" => req'[u].rule \notin owed'["FORWARD"]
<1> USE DEF Chain
<1>1. req'[u] # NoReq
  BY DEF NoReq
<1>2. CASE Kept(u)
  <2>1. req[u].rule \in RuleId
    BY <1>2 DEF Kept, Shape, RequestOK, NoReq
  <2>2. \A s \in AgentThread : s # u /\ req[s].op = "block" => req[s].rule # req[u].rule
    BY <1>2 DEF Kept, Single
  <2>3. ~Insert(u) \/ req[u].step \notin Chain
    BY <1>2 DEF Kept, Insert, After, TypeOK, AgentTypeOK, Request
  <2>4. \A c \in Chain : req[u].rule \in owed'[c] => req[u].rule \in owed[c]
    BY <2>1, <2>2, <2>3, OwedMoves
  <2> QED BY <1>2, <2>4 DEF Kept, Owed
<1>3. CASE Stepped(u)
  <2>1. req[u].op = "block" /\ Insert(u)
    BY <1>3 DEF Stepped, Delete, DeleteFails
  <2> QED BY <1>3, <2>1, OwedAfter DEF Stepped, After, Owed
<1>4. CASE Posted(u)
  BY <1>4 DEF Posted, OpOf, Owed, Calling
<1> QED BY <1>1, <1>2, <1>3, <1>4, RequestMoves

LEMMA OwedStep ==
  ASSUME TypeOK, Shape, Single, Owed, [Next]_vars
  PROVE  Owed'
BY AccountStep, RecordedStep, BeforeCallStep, BlockRequestStep DEF Owed

-----------------------------------------------------------------------------
(* What is released stays released.                                        *)

\* A rule is closed by an actor that has the gateway's answer.
LEMMA ClosedBy ==
  ASSUME TypeOK, Shape, [Next]_vars, NEW r \in RuleId,
         rules[r].status \notin Closed, rules'[r].status \in Closed
  PROVE  \E a \in Client : UnblockDone(a) /\ job[a].rule = r
<1>1. ASSUME NEW a \in Client, InsertPending(a)
      PROVE  FALSE
  BY <1>1 DEF InsertPending, Closed, TypeOK
<1>2. ASSUME NEW a \in Client, BlockDone(a) \/ BlockFails(a)
      PROVE  FALSE
  BY <1>2 DEF BlockDone, BlockFails, SetStatus, Closed, TypeOK
<1>3. ASSUME NEW a \in Client, UnblockDone(a), job[a].rule # r
      PROVE  FALSE
  BY <1>3 DEF UnblockDone, SetStatus, TypeOK
<1> QED
  BY <1>1, <1>2, <1>3, Sorting DEF Sorted, Quiet, CallGateway, UnblockFails, Dies, control, dbVars

\* Nothing comes to be owed to a rule that can be unblocked.
LEMMA NotOwedAnew ==
  ASSUME TypeOK, Shape, [Next]_vars, NEW r \in RuleId, NEW c \in Chain,
         rules[r].status \in Unblockable, r \in owed'[c]
  PROVE  r \in owed[c]
BY OwedMoves DEF Shape, RequestOK, Unblockable, Closed, NoReq

LEMMA ClosedStep ==
  ASSUME TypeOK, Shape, Released, [Next]_vars, NEW r \in RuleId, rules'[r].status \in Closed,
         NEW c \in Chain
  PROVE  r \notin owed'[c]
<1>1. CASE rules[r].status \in Closed
  BY <1>1, NotOwedAnew DEF Released, Unblockable
<1>2. CASE rules[r].status \notin Closed
  <2>1. PICK a \in Client : UnblockDone(a) /\ job[a].rule = r
    BY <1>2, ClosedBy
  <2> QED BY <2>1 DEF UnblockDone, TakeReply, Released
<1> QED BY <1>1, <1>2

LEMMA UnblockRequestStep ==
  ASSUME "deletefails" \notin FaultKind,
         TypeOK, Shape, Released, [Next]_vars, NEW u \in AgentThread, req'[u].op = "unblock"
  PROVE  /\ req'[u].step \in {"FORWARD", "answer"} => req'[u].rule \notin owed'["INPUT"]
         /\ req'[u].step = "answer" => req'[u].rule \notin owed'["FORWARD"]
<1> USE DEF Chain
<1>1. req'[u] # NoReq
  BY DEF NoReq
<1>2. CASE Kept(u)
  <2>1. req[u].rule \in RuleId /\ rules[req[u].rule].status \in Unblockable
    BY <1>2 DEF Kept, Shape, RequestOK, NoReq
  <2>2. \A c \in Chain : req[u].rule \in owed'[c] => req[u].rule \in owed[c]
    BY <2>1, NotOwedAnew
  <2> QED BY <1>2, <2>2 DEF Kept, Released
<1>3. CASE Stepped(u)
  <2>1. Delete(u) /\ req[u].op = "unblock"
    BY <1>3 DEF Stepped, Insert
  <2> QED BY <1>3, <2>1, OwedAfter DEF Stepped, After, Released
<1>4. CASE Posted(u)
  BY <1>4 DEF Posted
<1> QED BY <1>1, <1>2, <1>3, <1>4, RequestMoves

\* An unblock is answered with ok by a handler that ran both commands.
LEMMA AnswerStep ==
  ASSUME TypeOK, Shape, Released, [Next]_vars,
         NEW a \in Client, pc'[a] = "unblocking", reply'[a] = "ok", NEW c \in Chain
  PROVE  job'[a].rule \notin owed'[c]
<1>1. ASSUME NEW s \in AgentThread, UNCHANGED control, Answer(s), reply[a] # "ok"
      PROVE  job'[a].rule \notin owed'[c]
  <2>1. req[s].client = a /\ req[s].step = "answer" /\ UNCHANGED owed
    BY <1>1 DEF Answer, Respond
  <2>2. req[s].op = "unblock" /\ req[s].rule = job[a].rule
    BY <1>1, <2>1 DEF Shape, RequestOK, OpOf, control
  <2> QED BY <1>1, <2>1, <2>2 DEF Released, Chain, control
<1>2. pc[a] = "unblocking" /\ reply[a] = "ok" /\ job'[a] = job[a] => job'[a].rule \notin owed'[c]
  <2>1. ASSUME pc[a] = "unblocking", reply[a] = "ok", job'[a] = job[a]
        PROVE  job'[a].rule \notin owed'[c]
    <3>1. job[a].rule \in RuleId /\ rules[job[a].rule].status \in Unblockable
      BY <2>1 DEF Shape, JobOK, Calling
    <3>2. job[a].rule \notin owed[c]
      BY <2>1 DEF Released
    <3> QED BY <2>1, <3>1, <3>2, NotOwedAnew
  <2> QED BY <2>1
<1>3. \/ pc[a] = "unblocking" /\ reply[a] = "ok" /\ job'[a] = job[a]
      \/ \E s \in AgentThread : UNCHANGED control /\ Answer(s) /\ reply[a] # "ok"
  <2>1. CASE UNCHANGED <<agentVars, control>>
    BY <2>1 DEF agentVars, control
  <2>2. ASSUME NEW b \in Client, Quiet(b)
        PROVE  pc[a] = "unblocking" /\ reply[a] = "ok" /\ job'[a] = job[a]
    BY <2>2 DEF Quiet, agentVars, Shape, JobOK
  <2>3. ASSUME NEW s \in AgentThread, UNCHANGED control,
               \/ Refuse(s) \/ InsertFails(s) \/ Insert(s) \/ Delete(s) \/ DeleteFails(s)
               \/ Answer(s) /\ reply[a] = "ok"
        PROVE  pc[a] = "unblocking" /\ reply[a] = "ok" /\ job'[a] = job[a]
    BY <2>3 DEF Refuse, InsertFails, Insert, Delete, DeleteFails, Respond, control
  <2>4. ASSUME (AgentCrash \/ Reboot) /\ UNCHANGED control
        PROVE  pc[a] = "unblocking" /\ reply[a] = "ok" /\ job'[a] = job[a]
    BY <2>4 DEF AgentCrash, Reboot, CutConnections, control
  <2>5. ASSUME NEW b \in Client,
               \/ InsertPending(b) \/ CallGateway(b)
               \/ BlockDone(b) \/ BlockFails(b) \/ UnblockDone(b) \/ UnblockFails(b)
        PROVE  pc[a] = "unblocking" /\ reply[a] = "ok" /\ job'[a] = job[a]
    BY <2>5 DEF InsertPending, CallGateway, Post, BlockDone, BlockFails, UnblockDone, UnblockFails,
                TakeReply, Goto, Outcomes, agentVars, dbVars, TypeOK, AgentTypeOK
  <2>6. ASSUME NEW b \in Client, NoConnection(b) \/ Timeout(b), UNCHANGED control
        PROVE  pc[a] = "unblocking" /\ reply[a] = "ok" /\ job'[a] = job[a]
    BY <2>6 DEF NoConnection, Timeout, control, TypeOK, AgentTypeOK
  <2>7. ASSUME NEW A \in SUBSET Client, Dies(A)
        PROVE  pc[a] = "unblocking" /\ reply[a] = "ok" /\ job'[a] = job[a]
    BY <2>7 DEF Dies, Hangup
  <2> QED BY <2>1, <2>2, <2>3, <2>4, <2>5, <2>6, <2>7, Sorting DEF Sorted
<1> QED BY <1>1, <1>2, <1>3

LEMMA ReleasedStep ==
  ASSUME "deletefails" \notin FaultKind, TypeOK, Shape, Released, [Next]_vars
  PROVE  Released'
BY ClosedStep, UnblockRequestStep, AnswerStep DEF Released

-----------------------------------------------------------------------------
(* The theorems.                                                           *)

LEMMA OwedInit ==
  ASSUME Init
  PROVE  Owed /\ Released
<1>1. \A c \in Chain, i \in IP : OwedTo(c, i) = {}
  BY DEF Init, AgentInit, OwedTo
<1>2. \A c \in Chain, i \in IP : chain[c][i] <= Cardinality(OwedTo(c, i))
  <2>1. \A c \in Chain, i \in IP : chain[c][i] = 0
    BY DEF Init, AgentInit
  <2>2. \A c \in Chain, i \in IP : Cardinality(OwedTo(c, i)) = 0
    <3>1. Cardinality({}) = 0
      BY FS_EmptySet
    <3> QED BY <1>1, <3>1
  <2> QED BY <2>1, <2>2
<1> QED BY <1>2 DEF Init, AgentInit, Owed, Released, Chain, NoReq, Closed

\* The rules a chain owes an address's DROPs to are rules of that address.
LEMMA OwedBounds ==
  ASSUME TypeOK, Owed, NEW c \in Chain, NEW i \in IP
  PROVE  /\ chain[c][i] <= Cardinality(RulesOf(i))
         /\ Released => chain[c][i] <= Cardinality(OpenRulesOf(i))
<1>1. chain[c][i] <= Cardinality(OwedTo(c, i)) /\ chain[c][i] \in Nat
  BY DEF Owed, TypeOK, AgentTypeOK
<1>2. OwedTo(c, i) \subseteq RulesOf(i) /\ RulesOf(i) \subseteq RuleId
  BY DEF Owed, OwedTo, RulesOf, TypeOK, AgentTypeOK
<1>3. IsFiniteSet(RulesOf(i))
  BY <1>2, RuleIdAssumption, FS_Subset
<1>4. Cardinality(OwedTo(c, i)) <= Cardinality(RulesOf(i))
  BY <1>2, <1>3, FS_Subset
<1>5. Cardinality(OwedTo(c, i)) \in Nat /\ Cardinality(RulesOf(i)) \in Nat
  BY <1>2, <1>3, FS_Subset, FS_CardinalityType
<1>6. ASSUME Released
      PROVE  chain[c][i] <= Cardinality(OpenRulesOf(i))
  <2>1. OwedTo(c, i) \subseteq OpenRulesOf(i) /\ OpenRulesOf(i) \subseteq RulesOf(i)
    BY <1>2, <1>6 DEF Released, OwedTo, OpenRulesOf, RulesOf
  <2>2. /\ Cardinality(OwedTo(c, i)) <= Cardinality(OpenRulesOf(i))
        /\ Cardinality(OpenRulesOf(i)) \in Nat
    BY <1>3, <2>1, FS_Subset, FS_CardinalityType
  <2> QED BY <1>1, <1>5, <2>2
<1> QED BY <1>1, <1>4, <1>5, <1>6

LEMMA OwedInvariant == Spec => []Owed
<1>1. Init => Owed
  BY OwedInit
<1>2. TypeOK /\ Shape /\ Single /\ Owed /\ [Next]_vars => Owed'
  BY OwedStep
<1> QED BY <1>1, <1>2, BaseInvariant, PTL DEF Spec

\* Every DROP on the gateway is backed by a row of firewall_rules, under any
\* faults: the PENDING row is committed before the gateway is called.
THEOREM DropsRecorded == Spec => []EveryDropRecorded
<1>1. TypeOK /\ Owed => EveryDropRecorded
  BY OwedBounds DEF EveryDropRecorded
<1> QED BY <1>1, BaseInvariant, OwedInvariant, PTL

LEMMA ReleasedInvariant ==
  ASSUME "deletefails" \notin FaultKind
  PROVE  Spec => []Released
<1>1. Init => Released
  BY OwedInit
<1>2. TypeOK /\ Shape /\ Released /\ [Next]_vars => Released'
  BY ReleasedStep
<1> QED BY <1>1, <1>2, BaseInvariant, PTL DEF Spec

\* If the agent's -D commands work, a REMOVED or EXPIRED rule holds no DROP,
\* whatever else is lost, late or repeated.
THEOREM ClosedRulesHoldNothing ==
  ASSUME "deletefails" \notin FaultKind
  PROVE  Spec => []ClosedHoldsNothing
<1>1. TypeOK /\ Owed /\ Released => ClosedHoldsNothing
  BY OwedBounds DEF ClosedHoldsNothing
<1> QED BY <1>1, BaseInvariant, OwedInvariant, ReleasedInvariant, PTL

\* A rule's status only moves forward and its row keeps its address.
THEOREM StatusesMoveForward == Spec => StatusLifecycle
<1> DEFINE Moves == \A r \in RuleId :
                       /\ rules'[r].status # rules[r].status =>
                             <<rules[r].status, rules'[r].status>> \in StatusMoves
                       /\ rules[r].status # "NONE" => rules'[r].ip = rules[r].ip
<1>1. TypeOK /\ Shape /\ [Next]_vars => [Moves]_vars
  BY StatusStep
<1> QED BY <1>1, BaseInvariant, PTL DEF Spec, StatusLifecycle

-----------------------------------------------------------------------------
(* The audit log.                                                          *)

\* An entry that is true stays true: a rule keeps its address, FAILED is
\* final and a closed rule stays closed.
LEMMA TruthStays ==
  ASSUME TypeOK, Shape, [Next]_vars, NEW e \in Job, Truthful(e)
  PROVE  Truthful(e)'
<1>1. CASE e.rule = None
  BY <1>1 DEF Truthful
<1>2. CASE e.rule # None
  <2>1. e.rule \in RuleId
    BY <1>2 DEF Job
  <2>2. \/ rules'[e.rule] = rules[e.rule]
        \/ /\ <<rules[e.rule].status, rules'[e.rule].status>> \in StatusMoves
           /\ rules[e.rule].status # "NONE" => rules'[e.rule].ip = rules[e.rule].ip
    BY <2>1, StatusStep
  <2>3. rules[e.rule].status # "NONE" /\ e.ip = rules[e.rule].ip
    BY <1>2 DEF Truthful
  <2>4. /\ rules'[e.rule].status # "NONE"
        /\ rules'[e.rule].ip = rules[e.rule].ip
        /\ rules[e.rule].status = "FAILED" => rules'[e.rule].status = "FAILED"
        /\ rules[e.rule].status \in Closed => rules'[e.rule].status \in Closed
        /\ rules[e.rule].status \in Closed \cup {"ACTIVE"} =>
              rules'[e.rule].status \in Closed \cup {"ACTIVE"}
    BY <2>2, <2>3 DEF StatusMoves, Closed
  <2> QED BY <1>2, <2>3, <2>4 DEF Truthful
<1> QED BY <1>1, <1>2

\* The actions that have an entry to write, and the others.
LEMMA EntryCases ==
  ASSUME TypeOK, [Next]_vars
  PROVE  \/ \E a \in Client : \/ a \in Thread /\ (RejectTrusted(a) \/ UpdateSettings(a))
                              \/ BlockDone(a) \/ BlockFails(a) \/ UnblockDone(a) \/ UnblockFails(a)
         \/ \A b \in Client : pc'[b] = "audit" => pc[b] = "audit" /\ job'[b] = job[b]
<1> DEFINE Silent == \A b \in Client : pc'[b] = "audit" => pc[b] = "audit" /\ job'[b] = job[b]
<1> USE DEF TypeOK, Goto
<1>1. ASSUME NEW t \in Thread,
             \/ \E i \in IP : ReceiveBlock(t, i)
             \/ \E r \in RuleId : ReceiveUnblock(t, r)
             \/ RejectActive(t) \/ AcceptBlock(t) \/ RejectUnblock(t) \/ AcceptUnblock(t)
      PROVE  Silent
  BY <1>1 DEF ReceiveBlock, ReceiveUnblock, RejectActive, AcceptBlock, RejectUnblock, AcceptUnblock
<1>2. ASSUME NEW a \in Client, InsertPending(a) \/ CallGateway(a) \/ Audit(a)
      PROVE  Silent
  BY <1>2 DEF InsertPending, CallGateway, Audit, PC
<1>3. ASSUME NEW w \in Worker,
             \/ StartTick(w) \/ EndSweep(w) \/ EndScan(w)
             \/ \E r \in RuleId : SweepNext(w, r)
             \/ \E i \in IP : ScanSkip(w, i) \/ ScanAbort(w, i) \/ ScanBlock(w, i)
      PROVE  Silent
  BY <1>3 DEF StartTick, EndSweep, EndScan, SweepNext, ScanSkip, ScanAbort, ScanBlock, BeginScan
<1>4. ASSUME \/ AgentNext \/ AgentFails
             \/ \E a \in Client : CallFails(a)
             \/ UNCHANGED vars
      PROVE  Silent
  BY <1>4 DEF AgentNext, AgentFails, CallFails, vars
<1>5. ASSUME NEW w \in Worker, Crash(w)
      PROVE  Silent
  BY <1>5 DEF Crash
<1>6. ASSUME NEW a \in Client, DbError(a)
      PROVE  Silent
  BY <1>6 DEF DbError, BeginScan
<1>7. (\E r \in RuleId : Elapse(r)) => Silent
  BY DEF Elapse
<1> QED BY <1>1, <1>2, <1>3, <1>4, <1>5, <1>6, <1>7 DEF Next, Requests, Progress, Faults

\* A new entry is true when its actor is about to write it.
LEMMA EntryStep ==
  ASSUME TypeOK, Shape, Audited, [Next]_vars, NEW b \in Client, pc'[b] = "audit"
  PROVE  Truthful(job[b])'
<1>1. ASSUME pc[b] = "audit", job'[b] = job[b]
      PROVE  Truthful(job[b])'
  <2>1. job[b] \in Job /\ Truthful(job[b])
    BY <1>1 DEF TypeOK, Audited
  <2> QED BY <1>1, <2>1, TruthStays DEF Truthful
<1>2. ASSUME NEW t \in Thread, RejectTrusted(t) \/ UpdateSettings(t), b = t
      PROVE  Truthful(job[b])'
  <2>1. job[b].rule = None /\ job[b] \in Job
    BY <1>2 DEF RejectTrusted, UpdateSettings, Audited, TypeOK
  <2>2. job'[b].rule = None /\ job'[b].ip = job[b].ip
    BY <1>2, <2>1 DEF RejectTrusted, UpdateSettings, Outcomes, TypeOK, Job
  <2>3. \/ job'[b].outcome = <<"BLOCK_REJECTED", "TRUSTED">> /\ job[b].ip \in Trusted
        \/ job'[b].outcome = <<"SETTINGS_UPDATE", "OK">>
    BY <1>2, <2>1 DEF RejectTrusted, UpdateSettings, Outcomes, TypeOK, Job
  <2> QED BY <2>2, <2>3 DEF Truthful
<1>3. ASSUME NEW a \in Client,
             BlockDone(a) \/ BlockFails(a) \/ UnblockDone(a) \/ UnblockFails(a), b = a
      PROVE  Truthful(job[b])'
  <2> DEFINE r == job[b].rule
  <2>1. /\ r \in RuleId
        /\ rules[r].ip = job[b].ip
        /\ job[b] \in Job
        /\ pc[b] = "blocking" => rules[r].status = "PENDING"
        /\ pc[b] = "unblocking" => rules[r].status \in Unblockable
    BY <1>3 DEF BlockDone, BlockFails, UnblockDone, UnblockFails, Shape, JobOK, Calling, TypeOK
  <2>2. /\ job'[b].rule = r /\ job'[b].ip = job[b].ip
        /\ rules'[r].ip = rules[r].ip
    BY <1>3, <2>1 DEF BlockDone, BlockFails, UnblockDone, UnblockFails, SetStatus, Outcomes,
                      TypeOK, Job, dbVars
  <2>3. r # None
    BY <2>1
  <2>4. CASE BlockDone(a)
    <3>1. rules'[r].status = "ACTIVE" /\ job'[b].outcome = <<"BLOCK", "ACTIVE">>
      BY <1>3, <2>1, <2>4 DEF BlockDone, SetStatus, Outcomes, TypeOK, Job
    <3> QED BY <2>1, <2>2, <2>3, <3>1 DEF Truthful
  <2>5. CASE BlockFails(a)
    <3>1. rules'[r].status = "FAILED" /\ job'[b].outcome = <<"BLOCK", "FAILED">>
      BY <1>3, <2>1, <2>5 DEF BlockFails, SetStatus, Outcomes, TypeOK, Job
    <3> QED BY <2>1, <2>2, <2>3, <3>1 DEF Truthful
  <2>6. CASE UnblockDone(a)
    <3>1. /\ rules'[r].status \in Closed
          /\ job'[b].outcome \in {<<"UNBLOCK", "REMOVED">>, <<"EXPIRE", "EXPIRED">>}
      BY <1>3, <2>1, <2>6 DEF UnblockDone, SetStatus, Outcomes, TypeOK, Job, Closed
    <3> QED BY <2>1, <2>2, <2>3, <3>1 DEF Truthful, Closed
  <2>7. CASE UnblockFails(a)
    <3>1. /\ rules'[r].status # "NONE"
          /\ job'[b].outcome \in {<<"UNBLOCK", "FAILED">>, <<"EXPIRE", "FAILED">>}
      BY <1>3, <2>1, <2>7 DEF UnblockFails, Outcomes, TypeOK, Job, Unblockable, Closed, dbVars
    <3> QED BY <2>1, <2>2, <2>3, <3>1 DEF Truthful
  <2> QED BY <1>3, <2>4, <2>5, <2>6, <2>7
<1>4. ASSUME NEW a \in Client, b # a,
             \/ a \in Thread /\ (RejectTrusted(a) \/ UpdateSettings(a))
             \/ BlockDone(a) \/ BlockFails(a) \/ UnblockDone(a) \/ UnblockFails(a)
      PROVE  pc[b] = "audit" /\ job'[b] = job[b]
  BY <1>4 DEF RejectTrusted, UpdateSettings, BlockDone, BlockFails, UnblockDone, UnblockFails,
              Goto, Outcomes, TypeOK
<1> QED BY <1>1, <1>2, <1>3, <1>4, EntryCases

\* An actor that has no rule yet carries none over.
LEMMA CarryStep ==
  ASSUME TypeOK, Audited, [Next]_vars, NEW b \in Client,
         pc'[b] \in {"idle", "block", "insert", "sweep", "scan"}
  PROVE  job'[b].rule = None
<1> USE DEF TypeOK, Goto, NoJob, Job
<1> DEFINE Clean == pc[b] \in {"idle", "block", "insert", "sweep", "scan"} => job[b].rule = None
<1>0. Clean
  BY DEF Audited
<1>1. ASSUME NEW t \in Thread,
             \/ \E i \in IP : ReceiveBlock(t, i)
             \/ \E r \in RuleId : ReceiveUnblock(t, r)
             \/ RejectTrusted(t) \/ UpdateSettings(t)
      PROVE  job'[b].rule = None
  BY <1>0, <1>1 DEF ReceiveBlock, ReceiveUnblock, RejectTrusted, UpdateSettings, Outcomes
<1>2. ASSUME NEW t \in Thread,
             RejectActive(t) \/ AcceptBlock(t) \/ RejectUnblock(t) \/ AcceptUnblock(t)
      PROVE  job'[b].rule = None
  BY <1>0, <1>2 DEF RejectActive, AcceptBlock, RejectUnblock, AcceptUnblock
<1>3. ASSUME NEW a \in Client, InsertPending(a) \/ CallGateway(a) \/ Audit(a)
      PROVE  job'[b].rule = None
  BY <1>0, <1>3 DEF InsertPending, CallGateway, Audit
<1>4. ASSUME NEW a \in Client,
             BlockDone(a) \/ BlockFails(a) \/ UnblockDone(a) \/ UnblockFails(a)
      PROVE  job'[b].rule = None
  BY <1>0, <1>4 DEF BlockDone, BlockFails, UnblockDone, UnblockFails, Outcomes
<1>5. ASSUME NEW w \in Worker,
             \/ StartTick(w) \/ EndSweep(w) \/ EndScan(w)
             \/ \E r \in RuleId : SweepNext(w, r)
      PROVE  job'[b].rule = None
  BY <1>0, <1>5 DEF StartTick, EndSweep, EndScan, SweepNext, BeginScan
<1>6. ASSUME NEW w \in Worker, NEW i \in IP, ScanSkip(w, i) \/ ScanAbort(w, i) \/ ScanBlock(w, i)
      PROVE  job'[b].rule = None
  BY <1>0, <1>6 DEF ScanSkip, ScanAbort, ScanBlock
<1>7. ASSUME \/ AgentNext \/ AgentFails
             \/ \E a \in Client : CallFails(a)
             \/ \E r \in RuleId : Elapse(r)
             \/ UNCHANGED vars
      PROVE  job'[b].rule = None
  BY <1>0, <1>7 DEF AgentNext, AgentFails, CallFails, Elapse, vars
<1>8. ASSUME NEW w \in Worker, Crash(w)
      PROVE  job'[b].rule = None
  BY <1>0, <1>8 DEF Crash
<1>9. ASSUME NEW a \in Client, DbError(a)
      PROVE  job'[b].rule = None
  BY <1>0, <1>9 DEF DbError, BeginScan
<1> QED BY <1>1, <1>2, <1>3, <1>4, <1>5, <1>6, <1>7, <1>8, <1>9
     DEF Next, Requests, Progress, Faults

\* The log only grows, by what an actor has at hand.
LEMMA LogStep ==
  ASSUME [Next]_vars
  PROVE  audit' \subseteq audit \cup {job[a] : a \in {c \in Client : pc[c] = "audit"}}
<1>1. audit' = audit \/ \E a \in Client : Audit(a)
  BY DEF Next, AgentNext, Requests, Progress, Faults, ReceiveBlock, RejectTrusted, RejectActive,
         AcceptBlock, CallGateway, InsertPending, BlockDone, BlockFails, UnblockDone, UnblockFails,
         ReceiveUnblock, RejectUnblock, AcceptUnblock, UpdateSettings, StartTick, SweepNext,
         EndSweep, ScanSkip, ScanAbort, ScanBlock, EndScan, Elapse, AgentFails, CallFails, Crash,
         DbError, vars, dbVars
<1> QED BY <1>1 DEF Audit

LEMMA AuditedStep ==
  ASSUME TypeOK, Shape, Audited, [Next]_vars
  PROVE  Audited'
<1>1. ASSUME NEW e \in audit'
      PROVE  Truthful(e)'
  <2>1. e \in audit \/ \E a \in Client : pc[a] = "audit" /\ e = job[a]
    BY <1>1, LogStep
  <2>2. e \in Job /\ Truthful(e)
    BY <2>1 DEF TypeOK, Audited
  <2> QED BY <2>2, TruthStays
<1>2. \A b \in Client : pc'[b] = "audit" => Truthful(job[b])'
  BY EntryStep
<1>3. \A b \in Client : pc'[b] \in {"idle", "block", "insert", "sweep", "scan"} =>
         job'[b].rule = None
  BY CarryStep
<1> QED BY <1>1, <1>2, <1>3 DEF Audited

\* Every entry of the audit log is true of its rule for good, under every
\* fault of the model: what it calls done was done, what it calls FAILED
\* never comes to life, and an address refused as trusted is trusted.
THEOREM AuditIsSound == Spec => []AuditSound
<1>1. Init => Audited
  BY DEF Init, Audited, NoJob
<1>2. TypeOK /\ Shape /\ Audited /\ [Next]_vars => Audited'
  BY AuditedStep
<1>3. Audited => AuditSound
  BY DEF Audited, Truthful, AuditSound
<1> QED BY <1>1, <1>2, <1>3, BaseInvariant, PTL DEF Spec

\* No entry is lost: it stays in the log, or on its way there.
LEMMA EntryKept ==
  ASSUME "crash" \notin FaultKind, "dberror" \notin FaultKind, TypeOK, [Next]_vars, NEW e,
         e \in audit \/ \E a \in Client : pc[a] = "audit" /\ job[a] = e
  PROVE  e \in audit' \/ \E a \in Client : pc'[a] = "audit" /\ job'[a] = e
<1>1. audit \subseteq audit'
  BY DEF Next, AgentNext, Requests, Progress, Faults, ReceiveBlock, RejectTrusted, RejectActive,
         AcceptBlock, CallGateway, InsertPending, BlockDone, BlockFails, UnblockDone, UnblockFails,
         Audit, ReceiveUnblock, RejectUnblock, AcceptUnblock, UpdateSettings, StartTick, SweepNext,
         EndSweep, ScanSkip, ScanAbort, ScanBlock, EndScan, Elapse, AgentFails, CallFails, Crash,
         DbError, vars, dbVars
<1>2. ASSUME NEW a \in Client, pc[a] = "audit", job[a] = e
      PROVE  e \in audit' \/ (pc'[a] = "audit" /\ job'[a] = e)
  <2> USE DEF TypeOK, Goto
  <2>1. ASSUME NEW t \in Thread,
               \/ \E i \in IP : ReceiveBlock(t, i)
               \/ \E r \in RuleId : ReceiveUnblock(t, r)
               \/ UpdateSettings(t)
               \/ RejectTrusted(t) \/ RejectActive(t) \/ AcceptBlock(t)
               \/ RejectUnblock(t) \/ AcceptUnblock(t)
        PROVE  pc'[a] = "audit" /\ job'[a] = e
    BY <1>2, <2>1 DEF ReceiveBlock, ReceiveUnblock, UpdateSettings, RejectTrusted, RejectActive,
                      AcceptBlock, RejectUnblock, AcceptUnblock, Outcomes
  <2>2. ASSUME NEW b \in Client,
               \/ InsertPending(b) \/ CallGateway(b) \/ BlockDone(b) \/ BlockFails(b)
               \/ UnblockDone(b) \/ UnblockFails(b)
               \/ b # a /\ Audit(b)
        PROVE  pc'[a] = "audit" /\ job'[a] = e
    BY <1>2, <2>2 DEF InsertPending, CallGateway, BlockDone, BlockFails, UnblockDone, UnblockFails,
                      Audit, Outcomes
  <2>3. ASSUME NEW w \in Worker,
               \/ StartTick(w) \/ EndSweep(w) \/ EndScan(w)
               \/ \E r \in RuleId : SweepNext(w, r)
               \/ \E i \in IP : ScanSkip(w, i) \/ ScanAbort(w, i) \/ ScanBlock(w, i)
        PROVE  pc'[a] = "audit" /\ job'[a] = e
    BY <1>2, <2>3 DEF StartTick, EndSweep, EndScan, SweepNext, ScanSkip, ScanAbort, ScanBlock,
                      BeginScan
  <2>4. ASSUME \/ AgentNext \/ AgentFails
               \/ \E b \in Client : CallFails(b)
               \/ UNCHANGED vars
        PROVE  pc'[a] = "audit" /\ job'[a] = e
    BY <1>2, <2>4 DEF AgentNext, AgentFails, CallFails, vars
  <2>5. ASSUME NEW r \in RuleId, Elapse(r)
        PROVE  pc'[a] = "audit" /\ job'[a] = e
    BY <1>2, <2>5 DEF Elapse
  <2>6. ~ (\E w \in Worker : Crash(w)) /\ ~ (\E b \in Client : DbError(b))
    BY DEF Crash, DbError, Fault
  <2> HIDE DEF TypeOK, Goto
  <2>7. ASSUME NEW b \in Client, Progress(b)
        PROVE  e \in audit' \/ (pc'[a] = "audit" /\ job'[a] = e)
    <3>1. CASE Audit(b)
      <4>1. audit' = audit \cup {job[b]}
        BY <3>1 DEF Audit
      <4>2. CASE b = a
        BY <1>2, <4>1, <4>2
      <4>3. CASE b # a
        BY <2>2, <3>1, <4>3
      <4> QED BY <4>2, <4>3
    <3> QED BY <2>1, <2>2, <2>3, <2>7, <3>1 DEF Progress
  <2>8. CASE Requests
    BY <2>1, <2>8 DEF Requests
  <2>9. CASE Faults
    BY <2>4, <2>6, <2>9 DEF Faults
  <2> QED BY <2>4, <2>5, <2>7, <2>8, <2>9 DEF Next
<1> QED BY <1>1, <1>2

\* Who gives a rule a new status is about to write the entry for it.
LEMMA EntryMade ==
  ASSUME TypeOK, Shape, [Next]_vars, NEW r \in RuleId, rules'[r] # rules[r],
         rules'[r].status \in {"ACTIVE", "FAILED", "REMOVED", "EXPIRED"}
  PROVE  \E a \in Client : /\ pc'[a] = "audit"
                           /\ job'[a] = [rule |-> r, ip |-> rules'[r].ip,
                                         outcome |-> EntryFor(rules'[r].status)]
<1>1. ASSUME NEW a \in Client, InsertPending(a)
      PROVE  FALSE
  <2>1. PICK n \in Unused : rules' = [rules EXCEPT ![n] = [ip |-> job[a].ip, status |-> "PENDING"]]
    BY <1>1 DEF InsertPending
  <2> QED BY <2>1 DEF TypeOK, Unused
<1>2. ASSUME NEW a \in Client,
             BlockDone(a) \/ BlockFails(a) \/ UnblockDone(a)
      PROVE  /\ pc'[a] = "audit"
             /\ job'[a] = [rule |-> r, ip |-> rules'[r].ip,
                           outcome |-> EntryFor(rules'[r].status)]
  <2>1. r = job[a].rule /\ rules[r].ip = job[a].ip /\ job[a].ip \in IP \cup {None}
    BY <1>2 DEF BlockDone, BlockFails, UnblockDone, SetStatus, Shape, JobOK, Calling, TypeOK, Job
  <2>2. rules'[r].ip = rules[r].ip /\ pc'[a] = "audit"
    BY <1>2 DEF BlockDone, BlockFails, UnblockDone, SetStatus, Goto, TypeOK
  <2>3. job'[a] \in Job
    BY TypeStep DEF TypeOK
  <2>4. job'[a].rule = job[a].rule /\ job'[a].ip = job[a].ip
    <3>1. job[a] \in Job /\ a \in DOMAIN job
      BY DEF TypeOK
    <3>2. \E o \in Outcome : job'[a] = [job[a] EXCEPT !.outcome = o]
      BY <1>2, <3>1 DEF BlockDone, BlockFails, UnblockDone, Outcomes, Outcome
    <3> QED BY <3>1, <3>2 DEF Job
  <2>5. job'[a].outcome = EntryFor(rules'[r].status)
    <3>1. CASE BlockDone(a)
      <4>1. rules'[r].status = "ACTIVE" /\ job'[a].outcome = <<"BLOCK", "ACTIVE">>
        BY <2>1, <3>1 DEF BlockDone, SetStatus, Outcomes, TypeOK, Job
      <4> QED BY <4>1 DEF EntryFor
    <3>2. CASE BlockFails(a)
      <4>1. rules'[r].status = "FAILED" /\ job'[a].outcome = <<"BLOCK", "FAILED">>
        BY <2>1, <3>2 DEF BlockFails, SetStatus, Outcomes, TypeOK, Job
      <4> QED BY <4>1 DEF EntryFor
    <3>3. CASE UnblockDone(a) /\ a \in Worker
      <4>1. rules'[r].status = "EXPIRED" /\ job'[a].outcome = <<"EXPIRE", "EXPIRED">>
        BY <2>1, <3>3 DEF UnblockDone, SetStatus, Outcomes, TypeOK, Job
      <4> QED BY <4>1 DEF EntryFor
    <3>4. CASE UnblockDone(a) /\ a \notin Worker
      <4>1. rules'[r].status = "REMOVED" /\ job'[a].outcome = <<"UNBLOCK", "REMOVED">>
        BY <2>1, <3>4 DEF UnblockDone, SetStatus, Outcomes, TypeOK, Job
      <4> QED BY <4>1 DEF EntryFor
    <3> QED BY <1>2, <3>1, <3>2, <3>3, <3>4
  <2> QED BY <2>1, <2>2, <2>3, <2>4, <2>5 DEF Job
<1>3. UNCHANGED rules \/ \E a \in Client : \/ InsertPending(a) \/ BlockDone(a)
                                           \/ BlockFails(a) \/ UnblockDone(a)
  BY DEF Next, AgentNext, Requests, Progress, Faults, ReceiveBlock, RejectTrusted, RejectActive,
         AcceptBlock, CallGateway, UnblockFails, Audit, ReceiveUnblock, RejectUnblock,
         AcceptUnblock, UpdateSettings, StartTick, SweepNext, EndSweep, ScanSkip, ScanAbort,
         ScanBlock, EndScan, Elapse, AgentFails, CallFails, Crash, DbError, vars, dbVars
<1> QED BY <1>1, <1>2, <1>3

\* While no process dies and no commit fails, the log is complete: each
\* status a rule has reached has its entry, or an actor about to write it.
THEOREM AuditIsComplete ==
  ASSUME "crash" \notin FaultKind, "dberror" \notin FaultKind
  PROVE  Spec => []AuditComplete
<1>1. Init => AuditComplete
  BY DEF Init, AuditComplete
<1>2. ASSUME TypeOK, Shape, AuditComplete, [Next]_vars
      PROVE  AuditComplete'
  <2> SUFFICES ASSUME NEW r \in RuleId,
                      rules'[r].status \in {"ACTIVE", "FAILED", "REMOVED", "EXPIRED"}
               PROVE  LET entry == [rule |-> r, ip |-> rules'[r].ip,
                                    outcome |-> EntryFor(rules'[r].status)]
                      IN  entry \in audit' \/ \E a \in Client : pc'[a] = "audit" /\ job'[a] = entry
    BY DEF AuditComplete, EntryFor
  <2> DEFINE entry == [rule |-> r, ip |-> rules'[r].ip, outcome |-> EntryFor(rules'[r].status)]
  <2>1. CASE rules'[r] = rules[r]
    <3>1. entry \in audit \/ \E a \in Client : pc[a] = "audit" /\ job[a] = entry
      BY <1>2, <2>1 DEF AuditComplete
    <3> HIDE DEF entry
    <3>2. entry \in audit' \/ \E a \in Client : pc'[a] = "audit" /\ job'[a] = entry
      BY <1>2, <3>1, EntryKept
    <3> QED BY <3>2 DEF entry
  <2>2. CASE rules'[r] # rules[r]
    BY <1>2, <2>2, EntryMade
  <2> QED BY <2>1, <2>2
<1> QED BY <1>1, <1>2, BaseInvariant, PTL DEF Spec

-----------------------------------------------------------------------------
(* The refinement.                                                         *)

\* A change of one rule's row is a change of that rule's stage.
LEMMA StageChange ==
  ASSUME TypeOK, TypeOK', NEW r \in RuleId,
         \A q \in RuleId \ {r} : rules'[q] = rules[q]
  PROVE  [q \in RuleId |-> StageOf[rules'[q].status]] =
            [[q \in RuleId |-> StageOf[rules[q].status]] EXCEPT ![r] = StageOf[rules'[r].status]]
OBVIOUS

\* Each step is a step of RuleLedger for one rule, or none.
LEMMA LedgerStep ==
  ASSUME "deletefails" \notin FaultKind, TypeOK, Shape, Released, [Next]_vars
  PROVE  [Ledger!LedgerNext]_(Ledger!ledgerVars)
<1> DEFINE stage == [r \in RuleId |-> StageOf[rules[r].status]]
           held == owed["INPUT"] \cup owed["FORWARD"]
           Stutters == stage' = stage /\ held' = held
<1>1. ASSUME UNCHANGED <<rules, owed>>
      PROVE  Stutters
  BY <1>1
<1>2. ASSUME NEW a \in Client, InsertPending(a)
      PROVE  \E r \in RuleId : Ledger!Open(r)
  <2>1. PICK n \in Unused : rules' = [rules EXCEPT ![n] = [ip |-> job[a].ip, status |-> "PENDING"]]
    BY <1>2 DEF InsertPending
  <2>2. n \in RuleId /\ stage[n] = "unused"
    BY <2>1 DEF Unused, StageOf, TypeOK
  <2>4. /\ rules'[n].status = "PENDING"
        /\ \A q \in RuleId \ {n} : rules'[q] = rules[q]
    BY <2>1, <2>2 DEF TypeOK
  <2>6. StageOf[rules'[n].status] = "open"
    BY <2>4 DEF StageOf
  <2>5. stage' = [stage EXCEPT ![n] = "open"]
    BY <2>2, <2>4, <2>6, TypeStep, StageChange
  <2>3. held' = held
    BY <1>2 DEF InsertPending, agentVars
  <2> QED BY <2>2, <2>3, <2>5 DEF Ledger!Open, Ledger!Move
<1>3. ASSUME NEW a \in Client, BlockDone(a)
      PROVE  \E r \in RuleId : Ledger!Confirm(r)
  <2>1. job[a].rule \in RuleId /\ rules[job[a].rule].status = "PENDING"
    BY <1>3 DEF BlockDone, Shape, JobOK, Calling
  <2>2. stage[job[a].rule] = "open"
    BY <2>1 DEF StageOf
  <2>4. /\ rules'[job[a].rule].status = "ACTIVE"
        /\ \A q \in RuleId \ {job[a].rule} : rules'[q] = rules[q]
    BY <1>3, <2>1 DEF BlockDone, SetStatus, TypeOK
  <2>6. StageOf[rules'[job[a].rule].status] = "live"
    BY <2>4 DEF StageOf
  <2>5. stage' = [stage EXCEPT ![job[a].rule] = "live"]
    BY <2>1, <2>4, <2>6, TypeStep, StageChange
  <2>3. held' = held
    BY <1>3 DEF BlockDone, TakeReply
  <2> QED BY <2>1, <2>2, <2>3, <2>5 DEF Ledger!Confirm, Ledger!Move
<1>4. ASSUME NEW a \in Client, BlockFails(a)
      PROVE  \E r \in RuleId : Ledger!Fail(r)
  <2>1. job[a].rule \in RuleId /\ rules[job[a].rule].status = "PENDING"
    BY <1>4 DEF BlockFails, Shape, JobOK, Calling
  <2>2. stage[job[a].rule] = "open"
    BY <2>1 DEF StageOf
  <2>4. /\ rules'[job[a].rule].status = "FAILED"
        /\ \A q \in RuleId \ {job[a].rule} : rules'[q] = rules[q]
    BY <1>4, <2>1 DEF BlockFails, SetStatus, TypeOK
  <2>6. StageOf[rules'[job[a].rule].status] = "dead"
    BY <2>4 DEF StageOf
  <2>5. stage' = [stage EXCEPT ![job[a].rule] = "dead"]
    BY <2>1, <2>4, <2>6, TypeStep, StageChange
  <2>3. held' = held
    BY <1>4 DEF BlockFails, TakeReply
  <2> QED BY <2>1, <2>2, <2>3, <2>5 DEF Ledger!Fail, Ledger!Move
<1>5. ASSUME NEW a \in Client, UnblockDone(a)
      PROVE  Stutters \/ \E r \in RuleId : Ledger!Lift(r)
  <2>1. job[a].rule \in RuleId /\ rules[job[a].rule].status \in Unblockable
    BY <1>5 DEF UnblockDone, Shape, JobOK, Calling
  <2>6. /\ rules'[job[a].rule].status \in Closed
        /\ \A q \in RuleId \ {job[a].rule} : rules'[q] = rules[q]
    BY <1>5, <2>1 DEF UnblockDone, SetStatus, TypeOK, Closed
  <2>7. StageOf[rules'[job[a].rule].status] = "lifted"
    BY <2>6 DEF StageOf, Closed
  <2>2. stage' = [stage EXCEPT ![job[a].rule] = "lifted"]
    BY <2>1, <2>6, <2>7, TypeStep, StageChange
  <2>3. held' = held /\ job[a].rule \notin held
    BY <1>5 DEF UnblockDone, TakeReply, Released, Chain
  <2>4. CASE rules[job[a].rule].status = "ACTIVE"
    <3>1. stage[job[a].rule] = "live"
      BY <2>1, <2>4 DEF StageOf
    <3> QED BY <2>1, <2>2, <2>3, <3>1 DEF Ledger!Lift, Ledger!Move
  <2>5. CASE rules[job[a].rule].status \in Closed
    <3>1. stage[job[a].rule] = "lifted"
      BY <2>1, <2>5 DEF StageOf, Closed
    <3> QED BY <2>1, <2>2, <2>3, <3>1
  <2> QED BY <2>1, <2>4, <2>5 DEF Unblockable
<1>6. ASSUME NEW s \in AgentThread, Insert(s), UNCHANGED control
      PROVE  \E r \in RuleId : Ledger!Place(r)
  <2>1. req[s].rule \in RuleId /\ rules[req[s].rule].status \in {"PENDING", "FAILED"}
    BY <1>6 DEF Insert, Chain, Shape, RequestOK
  <2>2. stage[req[s].rule] \in {"open", "dead"} /\ stage' = stage
    BY <1>6, <2>1 DEF StageOf, control
  <2>4. /\ req[s].step \in Chain
        /\ owed' = [owed EXCEPT ![req[s].step] = @ \cup {req[s].rule}]
    BY <1>6 DEF Insert
  <2>3. held' = held \cup {req[s].rule}
    BY <2>4 DEF Chain, TypeOK, AgentTypeOK
  <2> QED BY <2>1, <2>2, <2>3 DEF Ledger!Place
<1>7. ASSUME NEW s \in AgentThread, Delete(s), UNCHANGED control
      PROVE  Stutters \/ \E r \in RuleId : Ledger!Release(r)
  <2>1. req[s].rule \in RuleId /\ rules[req[s].rule].status \in Unblockable
    BY <1>7 DEF Delete, Chain, Shape, RequestOK
  <2>2. stage[req[s].rule] \in {"live", "lifted"} /\ stage' = stage
    BY <1>7, <2>1 DEF StageOf, Unblockable, Closed, control
  <2>3. held' = held \/ held' = held \ {req[s].rule}
    BY <1>7, OwedAfter DEF Delete, Chain
  <2> QED BY <2>1, <2>2, <2>3 DEF Ledger!Release
<1>8. ASSUME Reboot, UNCHANGED control
      PROVE  Ledger!Purge
  BY <1>8 DEF Reboot, control, Chain, Ledger!Purge
<1>9. \/ UNCHANGED <<rules, owed>>
      \/ \E a \in Client : InsertPending(a) \/ BlockDone(a) \/ BlockFails(a) \/ UnblockDone(a)
      \/ \E s \in AgentThread : (Insert(s) \/ Delete(s)) /\ UNCHANGED control
      \/ Reboot /\ UNCHANGED control
  BY Sorting
     DEF Sorted, Quiet, Refuse, Answer, InsertFails, DeleteFails, AgentCrash, CallGateway, Post,
         UnblockFails, TakeReply, NoConnection, Timeout, Dies, Hangup, agentVars, control, dbVars
<1> QED
  BY <1>1, <1>2, <1>3, <1>4, <1>5, <1>6, <1>7, <1>8, <1>9 DEF Ledger!LedgerNext, Ledger!ledgerVars

\* AccessRules implements RuleLedger if the agent's -D commands work: a rule
\* is recorded as lifted only once the gateway holds nothing for it, and
\* nothing is placed for it after that.
THEOREM ImplementsLedger ==
  ASSUME "deletefails" \notin FaultKind
  PROVE  Spec => KeepsLedger
<1>1. Init => Ledger!LedgerInit
  BY DEF Init, AgentInit, Ledger!LedgerInit, StageOf, Chain
<1>2. TypeOK /\ Shape /\ Released /\ [Next]_vars => [Ledger!LedgerNext]_(Ledger!ledgerVars)
  BY LedgerStep
<1> QED
  BY <1>1, <1>2, BaseInvariant, ReleasedInvariant, PTL DEF Spec, KeepsLedger, Ledger!LedgerSpec
=============================================================================
