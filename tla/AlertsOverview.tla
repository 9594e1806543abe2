---------------------------- MODULE AlertsOverview ----------------------------
(***************************************************************************)
(* The alerts of the dashboard (components/AlertsOverview.tsx): two        *)
(* effects, one that fetches the trusted addresses and one that polls the  *)
(* alerts every five seconds and begins anew when they arrive.  A poll may *)
(* be answered after the next one.  A poll asks for the 24 hours before    *)
(* it; of what it fetches the latest alert and the sample for the top      *)
(* attacker are modelled; summary and signatures are shown as they come,   *)
(* like the latest.                                                        *)
(***************************************************************************)
EXTENDS AlertDetailModal, TopAttacker, NewestFirst

CONSTANTS
    IP,             \* the addresses of attackers
    Trusted,        \* those of GET /firewall/trusted-ips
    Source,         \* the src_ip of each alert
    Day,            \* 24 hours
    MaxTime,        \* bound: the clock
    Poll            \* bound: polls under way at one time

ASSUME OverviewAssumption ==
    /\ Trusted \subseteq IP /\ NoIP \notin IP
    /\ Source \in [1..MaxAlerts -> IP \cup {NoIP}]
    /\ Stamp \in [1..MaxAlerts -> Nat]
    /\ Day \in Nat /\ MaxTime \in Nat

VARIABLES
    now,            \* the time
    stored,         \* the last alert that the ingest inserted
    awaiting,       \* fetchTrustedIps has not returned
    trustedSet,
    polls,          \* the requests of each load under way
    latest,         \* latest and topAttacker
    topAttacker

overview == <<now, stored, awaiting, trustedSet, polls, latest, topAttacker>>
vars == <<overview, modal, faults>>

\* A load: the alerts stored when it began, and its time; the trusted addresses
\* of its effect; cancelled.
PollState == [phase : {"none", "sent"}, from : 0..MaxAlerts, at : 0..MaxTime,
              trusted : SUBSET IP, cancelled : BOOLEAN]
NoPoll == [phase |-> "none", from |-> 0, at |-> 0, trusted |-> {}, cancelled |-> FALSE]
Sent(trusted) == [phase |-> "sent", from |-> stored, at |-> now, trusted |-> trusted, cancelled |-> FALSE]

\* Of the first n alerts those of the 24 hours before a time.
Last24h(n, t) == {a \in 1..n : Stamp[a] <= t /\ t <= Stamp[a] + Day}

\* fetchAlerts(filters, 0, 1), of which the first row, or null, is kept.
LatestOf(W) == IF W = {} THEN {0} ELSE {page[1] : page \in Pages(W, 0, 1)}

\* fetchAlerts(filters, 0, 500), where there are fewer, and the address that
\* comes most often in it.
Samples(W) == {[i \in DOMAIN page |-> Source[page[i]]] : page \in Pages(W, 0, Cardinality(W))}
AttackersOf(W, trusted) == {TopAttackerOf(sample, trusted) : sample \in Samples(W)}

Init ==
    /\ now \in 0..MaxTime
    /\ stored \in 0..MaxAlerts /\ \A a \in 1..stored : Stamp[a] <= now
    /\ awaiting = TRUE /\ trustedSet = {}
    /\ \E k \in Poll : polls = [j \in Poll |-> IF j = k THEN Sent({}) ELSE NoPoll]
    /\ latest = 0 /\ topAttacker = NoIP
    /\ ModalInit /\ faults = 0

-----------------------------------------------------------------------------
(* The server.                                                             *)

Passes ==
    /\ now < MaxTime
    /\ now' = now + 1
    /\ UNCHANGED <<stored, awaiting, trustedSet, polls, latest, topAttacker, modal, faults>>

\* Mutant: a line of the log is read again.
Ingested_Again ==
    /\ stored' = stored + 1
    /\ UNCHANGED <<now, awaiting, trustedSet, polls, latest, topAttacker, modal, faults>>

\* Some time after it happened.
Ingested ==
    /\ stored < MaxAlerts
    /\ Stamp[stored + 1] <= now
    /\ stored' = stored + 1
    /\ UNCHANGED <<now, awaiting, trustedSet, polls, latest, topAttacker, modal, faults>>

-----------------------------------------------------------------------------
(* The trusted addresses.                                                  *)

\* The effect of the polls is cleaned up and run again: a load begins at once.
TrustedArrives(k) ==
    /\ awaiting
    /\ awaiting' = FALSE /\ trustedSet' = Trusted
    /\ polls[k] = NoPoll
    /\ polls' = [j \in Poll |->
                    IF j = k THEN Sent(Trusted)
                    ELSE IF polls[j] = NoPoll THEN NoPoll ELSE [polls[j] EXCEPT !.cancelled = TRUE]]
    /\ UNCHANGED <<now, stored, latest, topAttacker, modal, faults>>

Fault ==
    /\ faults < MaxFaults
    /\ faults' = faults + 1

\* Not fatal, and not asked for again.
TrustedFails ==
    /\ Fault
    /\ awaiting
    /\ awaiting' = FALSE
    /\ UNCHANGED <<now, stored, trustedSet, polls, latest, topAttacker, modal>>

-----------------------------------------------------------------------------
(* The polls.                                                              *)

\* The interval.
Tick(k) ==
    /\ polls[k] = NoPoll
    /\ polls' = [polls EXCEPT ![k] = Sent(trustedSet)]
    /\ UNCHANGED <<now, stored, awaiting, trustedSet, latest, topAttacker, modal, faults>>

\* What the requests of a load may answer, each of which reads by itself between
\* its begin and now.
LatestAnswered(k) == UNION {LatestOf(Last24h(n, polls[k].at)) : n \in polls[k].from..stored}
AttackersFound(k) ==
    UNION {AttackersOf(Last24h(n, polls[k].at), polls[k].trusted) : n \in polls[k].from..stored}

\* Mutant: without the flag.
PollDone_Late(k) ==
    /\ polls[k].phase = "sent"
    /\ polls' = [polls EXCEPT ![k] = NoPoll]
    /\ latest' \in LatestAnswered(k)
    /\ topAttacker' \in AttackersFound(k)
    /\ UNCHANGED <<now, stored, awaiting, trustedSet, modal, faults>>

\* Mutant: no attacker is not stored.
PollDone_Found(k) ==
    /\ polls[k].phase = "sent"
    /\ polls' = [polls EXCEPT ![k] = NoPoll]
    /\ IF polls[k].cancelled
       THEN UNCHANGED <<latest, topAttacker>>
       ELSE /\ latest' \in LatestAnswered(k)
            /\ \E best \in AttackersFound(k) :
                  topAttacker' = IF best = NoIP THEN topAttacker ELSE best
    /\ UNCHANGED <<now, stored, awaiting, trustedSet, modal, faults>>

\* Promise.all: what the four requests answered is stored at once.
PollDone(k) ==
    /\ polls[k].phase = "sent"
    /\ polls' = [polls EXCEPT ![k] = NoPoll]
    /\ IF polls[k].cancelled
       THEN UNCHANGED <<latest, topAttacker>>
       ELSE latest' \in LatestAnswered(k) /\ topAttacker' \in AttackersFound(k)
    /\ UNCHANGED <<now, stored, awaiting, trustedSet, modal, faults>>

\* Silent.
PollFails(k) ==
    /\ Fault
    /\ polls[k].phase = "sent"
    /\ polls' = [polls EXCEPT ![k] = NoPoll]
    /\ UNCHANGED <<now, stored, awaiting, trustedSet, latest, topAttacker, modal>>

-----------------------------------------------------------------------------
(* The user.                                                               *)

Open == latest # 0 /\ OpenAlert(latest) /\ UNCHANGED <<overview, faults>>
Close == CloseAlert /\ UNCHANGED <<overview, faults>>
Fetched(k) == FetchDone(k) /\ UNCHANGED <<overview, faults>>
Unfetched(k) == FetchFails(k) /\ UNCHANGED overview

-----------------------------------------------------------------------------

TrustedList == TrustedFails \/ \E k \in Poll : TrustedArrives(k)

Polls == \E k \in Poll : Tick(k) \/ PollDone(k) \/ PollFails(k)

Modal == Open \/ Close \/ \E k \in Fetch : Fetched(k) \/ Unfetched(k)

Next == Passes \/ Ingested \/ TrustedList \/ Polls \/ Modal

Spec == Init /\ [][Next]_vars

\* The interval ticks, and every load is answered or fails.
FairSpec == Spec /\ WF_vars(\E k \in Poll : Tick(k)) /\ \A k \in Poll : WF_vars(PollDone(k))

-----------------------------------------------------------------------------
(* Properties.                                                             *)

TypeOK ==
    /\ ModalTypeOK
    /\ now \in 0..MaxTime
    /\ stored \in 0..MaxAlerts /\ \A a \in 1..stored : Stamp[a] <= now
    /\ awaiting \in BOOLEAN /\ trustedSet \in SUBSET IP
    /\ polls \in [Poll -> PollState]
    /\ latest \in Alert \cup {0} /\ topAttacker \in IP \cup {NoIP}

\* Once the list of trusted addresses is known, no load makes one of them the
\* top external attacker, not even one that was sent before the list came.
TopAttackerExternal ==
    [][topAttacker' \notin trustedSet \/ topAttacker' = topAttacker]_vars

\* The alerts of the last 24 hours that are stored, and of them those that come
\* from an address.
Recent == Last24h(stored, now)
HitsOf(ip) == Cardinality({a \in Recent : Source[a] = ip /\ ip # NoIP})

\* As soon as no alert comes into the last 24 hours or leaves them, the overview
\* comes to show one of their latest instant, or none; and as attacker an
\* address that is not trusted, has hits among them and that no other such
\* address exceeds, or none if there is none: whichever polls failed or overtook
\* each other before.
CatchesUp ==
    (<>[][UNCHANGED <<Recent, trustedSet>>]_vars) =>
        <>[](/\ IF Recent = {} THEN latest = 0
                               ELSE latest \in Recent /\ \A a \in Recent : Stamp[a] <= Stamp[latest]
             /\ topAttacker \notin trustedSet
             /\ topAttacker = NoIP \/ HitsOf(topAttacker) > 0
             /\ \A ip \in IP \ trustedSet : HitsOf(ip) <= HitsOf(topAttacker))
=============================================================================
