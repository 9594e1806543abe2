--------------------------- MODULE AccessRulesPage ---------------------------
(***************************************************************************)
(* The Access Rules page (frontend/src/pages/AccessRules.tsx).  The server *)
(* behind it is RuleLedger, which AccessRules implements.  Handlers of the *)
(* page are atomic up to an await; loads overlap, and other operators and  *)
(* the worker change rules at any time.  Of what a load fetches only the   *)
(* rules matter here, the settings form is left out.                       *)
(***************************************************************************)
EXTENDS RuleLedger, Naturals

CONSTANTS
    Load,           \* bound: loads of the page under way at one time
    Call,           \* bound: blocks and unblocks of the page under way at one time
    MaxActs,        \* bound: what the operator does
    MaxFaults       \* bound: requests that fail

ASSUME PageAssumption ==
    /\ MaxActs \in Nat /\ MaxFaults \in Nat
    /\ "none" \notin Rule \cup Call \cup Load

VARIABLES
    rules,          \* rules, as the stage each was last seen in
    loading,        \* loading, error, info, removingId, submittingBlock
    error,
    info,
    removingId,
    submitting,
    loads,          \* the requests of each loadAll under way
    calls,          \* each handleBlock or handleUnblock under way
    acts,           \* user actions and failed requests so far
    faults

banner == <<error, info>>
buttons == <<removingId, submitting>>
counters == <<acts, faults>>
vars == <<ledgerVars, rules, loading, banner, buttons, loads, calls, counters>>

Stages == [Rule -> Stage]

\* A loadAll: the rules it has read, whether it shows the spinner, who awaits it.
LoadState == [phase : {"none", "sent", "answer"}, rules : Stages, spinner : BOOLEAN,
              caller : Call \cup {"none"}]
Begun(spinner, caller) ==
    [phase |-> "sent", rules |-> [r \in Rule |-> "unused"], spinner |-> spinner, caller |-> caller]
NoLoad == [Begun(FALSE, "none") EXCEPT !.phase = "none"]

\* "sent": not yet looked at; "accepted": the gateway is being called.
CallState == [op : {"none", "block", "unblock"}, rule : Rule \cup {"none"},
              phase : {"none", "sent", "accepted", "ok", "error", "reload"}]
NoCall == [op |-> "none", rule |-> "none", phase |-> "none"]

\* The page is mounted and its first load has begun; rules may be there.
Init ==
    /\ \E old \in SUBSET Rule : stage = [r \in Rule |-> IF r \in old THEN "live" ELSE "unused"]
    /\ held = {r \in Rule : stage[r] = "live"}
    /\ rules = [r \in Rule |-> "unused"]
    /\ loading = TRUE /\ error = FALSE /\ info = <<>>
    /\ removingId = "none" /\ submitting = FALSE
    /\ \E l \in Load : loads = [k \in Load |-> IF k = l THEN Begun(TRUE, "none") ELSE NoLoad]
    /\ calls = [c \in Call |-> NoCall]
    /\ acts = 0 /\ faults = 0

-----------------------------------------------------------------------------
(* The server.                                                             *)

\* The worker, other operators and the gateway: any step of the ledger but
\* the outcome of a block this page waits for.
Awaited == {calls[c].rule : c \in {d \in Call : calls[d].op = "block"}}
LedgerStep ==
    /\ \/ \E r \in Rule : Open(r) \/ Place(r) \/ Release(r) \/ Lift(r)
       \/ \E r \in Rule \ Awaited : Confirm(r) \/ Fail(r)
       \/ Purge
    /\ UNCHANGED <<rules, loading, banner, buttons, loads, calls, counters>>

Advance(c, phase) == calls' = [calls EXCEPT ![c].phase = phase]
Serving == UNCHANGED <<rules, loading, banner, buttons, loads, counters>>

\* manual_block opens a rule; 400 and 409 refuse.
ServeBlock(c) ==
    /\ calls[c].op = "block" /\ calls[c].phase = "sent"
    /\ \/ \E r \in Rule : Open(r) /\ calls' = [calls EXCEPT ![c].rule = r, ![c].phase = "accepted"]
       \/ Advance(c, "error") /\ UNCHANGED ledgerVars
    /\ Serving

BlockServed(c) ==
    /\ calls[c].op = "block" /\ calls[c].phase = "accepted"
    /\ \/ Confirm(calls[c].rule) /\ Advance(c, "ok")
       \/ Fail(calls[c].rule) /\ Advance(c, "error")
    /\ Serving

\* manual_unblock: 409 unless ACTIVE.
ServeUnblock(c) ==
    /\ calls[c].op = "unblock" /\ calls[c].phase = "sent"
    /\ Advance(c, IF stage[calls[c].rule] = "live" THEN "accepted" ELSE "error")
    /\ UNCHANGED ledgerVars
    /\ Serving

\* 200 also when another actor has closed the rule meanwhile; 502.
UnblockServed(c) ==
    /\ calls[c].op = "unblock" /\ calls[c].phase = "accepted"
    /\ \/ Lift(calls[c].rule) /\ Advance(c, "ok")
       \/ stage[calls[c].rule] = "lifted" /\ Advance(c, "ok") /\ UNCHANGED ledgerVars
       \/ Advance(c, "error") /\ UNCHANGED ledgerVars
    /\ Serving

ReadRules(l) ==
    /\ loads[l].phase = "sent"
    /\ loads' = [loads EXCEPT ![l].phase = "answer", ![l].rules = stage]
    /\ UNCHANGED <<ledgerVars, rules, loading, banner, buttons, calls, counters>>

-----------------------------------------------------------------------------
(* loadAll.                                                                *)

BeginLoad(l, spinner, caller) ==
    /\ loads[l].phase = "none"
    /\ loads' = [loads EXCEPT ![l] = Begun(spinner, caller)]
    /\ loading' = (loading \/ spinner)


\* The interval: a load may begin while others are under way.
Poll(l) ==
    /\ BeginLoad(l, FALSE, "none")
    /\ UNCHANGED <<ledgerVars, rules, banner, buttons, calls, counters>>

\* finally, of loadAll and of the handler that awaits it.
Returned(l) ==
    LET c == loads[l].caller
    IN  /\ loads' = [loads EXCEPT ![l] = NoLoad]
        /\ loading' = (loading /\ ~loads[l].spinner)
        /\ calls' = IF c = "none" THEN calls ELSE [calls EXCEPT ![c] = NoCall]
        /\ submitting' = (submitting /\ (c = "none" \/ calls[c].op # "block"))
        /\ removingId' = IF c = "none" \/ calls[c].op # "unblock" THEN removingId ELSE "none"

\* Mutant: the response is stored, and not its rules.
LoadDone_Whole(l) ==
    /\ loads[l].phase = "answer"
    /\ rules' = loads[l]
    /\ error' = FALSE
    /\ Returned(l)
    /\ UNCHANGED <<ledgerVars, info, counters>>

LoadDone(l) ==
    /\ loads[l].phase = "answer"
    /\ rules' = loads[l].rules
    /\ error' = FALSE
    /\ Returned(l)
    /\ UNCHANGED <<ledgerVars, info, counters>>

Fault ==
    /\ faults < MaxFaults
    /\ faults' = faults + 1

LoadFails(l) ==
    /\ Fault
    /\ loads[l].phase # "none"
    /\ error' = TRUE
    /\ Returned(l)
    /\ UNCHANGED <<ledgerVars, rules, info, acts>>

-----------------------------------------------------------------------------
(* The operator.                                                           *)

Act ==
    /\ acts < MaxActs
    /\ acts' = acts + 1
    /\ UNCHANGED faults

Clear == error' = FALSE /\ info' = <<>>

Refresh(l) ==
    /\ Act
    /\ ~loading
    /\ BeginLoad(l, TRUE, "none")
    /\ UNCHANGED <<ledgerVars, rules, banner, buttons, calls>>

HandleBlock(c) ==
    /\ Act
    /\ calls[c] = NoCall
    /\ ~submitting
    /\ Clear
    /\ submitting' = TRUE
    /\ calls' = [calls EXCEPT ![c] = [op |-> "block", rule |-> "none", phase |-> "sent"]]
    /\ UNCHANGED <<ledgerVars, rules, loading, removingId, loads>>

\* Mutant: the message is shown with the request.
HandleUnblock_Optimistic(c, r) ==
    /\ Act
    /\ calls[c] = NoCall
    /\ rules[r] = "live" /\ removingId # r
    /\ error' = FALSE /\ info' = <<"unblock", r>>
    /\ removingId' = r
    /\ calls' = [calls EXCEPT ![c] = [op |-> "unblock", rule |-> r, phase |-> "sent"]]
    /\ UNCHANGED <<ledgerVars, rules, loading, submitting, loads>>

\* The button of a rule shown as ACTIVE, disabled while removingId is its id.
HandleUnblock(c, r) ==
    /\ Act
    /\ calls[c] = NoCall
    /\ rules[r] = "live" /\ removingId # r
    /\ Clear
    /\ removingId' = r
    /\ calls' = [calls EXCEPT ![c] = [op |-> "unblock", rule |-> r, phase |-> "sent"]]
    /\ UNCHANGED <<ledgerVars, rules, loading, submitting, loads>>

\* Mutant: a load that is under way is joined.
CallDone_Joins(c, l) ==
    /\ calls[c].phase = "ok"
    /\ info' = <<calls[c].op, calls[c].rule>>
    /\ Advance(c, "reload")
    /\ IF loads[l].phase # "none" /\ loads[l].caller = "none"
       THEN loads' = [loads EXCEPT ![l].caller = c] /\ UNCHANGED loading
       ELSE BeginLoad(l, FALSE, c)
    /\ UNCHANGED <<ledgerVars, rules, error, buttons, counters>>

\* After the await: the message, then loadAll(false).
CallDone(c, l) ==
    /\ calls[c].phase = "ok"
    /\ info' = <<calls[c].op, calls[c].rule>>
    /\ Advance(c, "reload")
    /\ BeginLoad(l, FALSE, c)
    /\ UNCHANGED <<ledgerVars, rules, error, buttons, counters>>

\* catch and finally.
Rejected(c) ==
    /\ error' = TRUE
    /\ calls' = [calls EXCEPT ![c] = NoCall]
    /\ IF calls[c].op = "block"
       THEN submitting' = FALSE /\ UNCHANGED removingId
       ELSE removingId' = "none" /\ UNCHANGED submitting
    /\ UNCHANGED <<ledgerVars, rules, loading, info, loads, acts>>

CallRefused(c) ==
    /\ calls[c].phase = "error"
    /\ Rejected(c)
    /\ UNCHANGED faults

\* The request is lost or times out; what the server began goes on without it.
CallFails(c) ==
    /\ Fault
    /\ calls[c].phase \in {"sent", "accepted", "ok"}
    /\ Rejected(c)

-----------------------------------------------------------------------------

Requests ==
    \/ \E c \in Call : ServeBlock(c) \/ BlockServed(c) \/ ServeUnblock(c) \/ UnblockServed(c)
    \/ \E l \in Load : ReadRules(l)

Answers ==
    \/ \E l \in Load : LoadDone(l)
    \/ \E c \in Call : CallRefused(c) \/ \E l \in Load : CallDone(c, l)

Failures == (\E l \in Load : LoadFails(l)) \/ (\E c \in Call : CallFails(c))

Operator ==
    \/ \E l \in Load : Refresh(l)
    \/ \E c \in Call : HandleBlock(c) \/ \E r \in Rule : HandleUnblock(c, r)

Next == LedgerStep \/ Requests \/ Answers \/ Failures \/ Operator \/ \E l \in Load : Poll(l)

Spec == Init /\ [][Next]_vars

\* Requests are served and answered, and the interval ticks.
FairSpec ==
    /\ Spec
    /\ \A l \in Load : WF_vars(ReadRules(l)) /\ WF_vars(LoadDone(l)) /\ WF_vars(Poll(l))

-----------------------------------------------------------------------------
(* Properties.                                                             *)

TypeOK ==
    /\ LedgerTypeOK
    /\ rules \in Stages
    /\ {loading, error, submitting} \subseteq BOOLEAN
    /\ removingId \in Rule \cup {"none"}
    /\ loads \in [Load -> LoadState] /\ calls \in [Call -> CallState]
    /\ acts \in 0..MaxActs /\ faults \in 0..MaxFaults

\* What the page tells the operator is true, now and as long as it says so:
\* an address reported as unblocked has its rule closed, one reported as
\* blocked has a rule that was confirmed.
BannerTrue ==
    /\ info # <<>> /\ info[1] = "unblock" => stage[info[2]] = "lifted"
    /\ info # <<>> /\ info[1] = "block" => stage[info[2]] \in {"live", "lifted"}

\* When an unblock returns with a load, the list no longer shows its rule as
\* ACTIVE, whatever polls are under way (one of them may bring it back).
UnblockSeen ==
    [][\A l \in Load :
          (LoadDone(l) /\ loads[l].caller # "none" /\ calls[loads[l].caller].op = "unblock")
              => rules'[calls[loads[l].caller].rule] = "lifted"]_vars

=============================================================================
