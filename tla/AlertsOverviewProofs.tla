------------------------ MODULE AlertsOverviewProofs ------------------------
(***************************************************************************)
(* Theorems about AlertsOverview and the window it opens, for any number   *)
(* of alerts, of polls under way, of openings and of failed requests.      *)
(***************************************************************************)
EXTENDS AlertsOverview, WellFoundedInduction, FiniteSetTheorems, TLAPS

\* A load that was not cancelled has the trusted addresses of the page.
Fresh == \A j \in Poll : polls[j].phase = "sent" /\ ~polls[j].cancelled => polls[j].trusted = trustedSet

\* The fetch that will be taken up is one, and is for the alert in the title.
Live(k) == fetches[k] # NoFetch /\ ~fetches[k].cancelled

Pending ==
    /\ \A k \in Fetch : k > opens => fetches[k] = NoFetch
    /\ \A k \in Fetch : Live(k) => fetches[k].alert = alertId /\ alertId # 0 /\ loading
    /\ \A j, k \in Fetch : Live(j) /\ Live(k) => j = k

WindowInv == ModalTypeOK /\ Pending /\ ModalTrue

IInv == TypeOK /\ Fresh /\ Pending /\ ModalTrue

-----------------------------------------------------------------------------
(* The top attacker.                                                       *)

\* A set of natural numbers that is not empty has a least element.
LEMMA LeastNatural ==
    ASSUME NEW S \in SUBSET Nat, S # {}
    PROVE  \E n \in S : \A m \in S : n <= m
<1>1. IsWellFoundedOn(OpToRel(<, Nat), Nat)
  BY NatLessThanWellFounded
<1>2. PICK n \in S : \A m \in S : <<m, n>> \notin OpToRel(<, Nat)
  BY <1>1, WFMin
<1>3. ASSUME NEW m \in S PROVE n <= m
  <2>1. m \in Nat /\ n \in Nat
    OBVIOUS
  <2>2. ~(m < n)
    BY <1>2, <2>1 DEF OpToRel
  <2> QED BY <2>1, <2>2
<1> QED
  BY <1>3

\* Whatever the sample, the address found is one of it that is not trusted.
LEMMA AttackerUntrusted ==
    ASSUME NEW sample, DOMAIN sample \subseteq Nat,
           \A i \in DOMAIN sample : sample[i] \in IP \cup {NoIP},
           NEW trusted \in SUBSET IP
    PROVE  TopAttackerOf(sample, trusted) \in (IP \ trusted) \cup {NoIP}
<1> DEFINE best == Best(sample, Counted(sample, trusted))
           first == CHOOSE i \in best : \A j \in best : i <= j
<1>1. best \subseteq Counted(sample, trusted)
  BY DEF Best
<1>2. best \subseteq Nat
  BY <1>1 DEF Counted
<1>3. CASE best = {}
  BY <1>3 DEF TopAttackerOf
<1>4. CASE best # {}
  <2>1. \E i \in best : \A j \in best : i <= j
    <3> HIDE DEF best
    <3> QED BY <1>2, <1>4, LeastNatural
  <2>2. first \in best
    <3> HIDE DEF best
    <3> QED BY <2>1
  <2>3. sample[first] \in IP \ trusted
    BY <1>1, <2>2 DEF Counted
  <2>4. TopAttackerOf(sample, trusted) = sample[first]
    BY <1>4 DEF TopAttackerOf
  <2> QED BY <2>3, <2>4
<1> QED
  BY <1>3, <1>4

\* A query over some of the alerts answers rows of them; asked for one, of one.
LEMMA PageRows ==
    ASSUME NEW n \in 0..MaxAlerts, NEW t, NEW size \in Nat,
           NEW page \in Pages(Last24h(n, t), 0, size)
    PROVE  /\ DOMAIN page \subseteq Nat
           /\ \A i \in DOMAIN page : page[i] \in Last24h(n, t)
           /\ size = 1 /\ Last24h(n, t) # {} => 1 \in DOMAIN page
<1> DEFINE W == Last24h(n, t)
           rows == Remaining(W, 0, size)
<1>1. page \in [1..rows -> W]
  BY DEF Pages, Injection
<1>2. IsFiniteSet(W) /\ Cardinality(W) \in Nat /\ (W # {} => Cardinality(W) # 0)
  <2>1. n \in Nat /\ 1 \in Nat
    BY ModalAssumption
  <2>2. IsFiniteSet(1..n)
    BY <2>1, FS_Interval
  <2>3. W \subseteq 1..n
    BY DEF Last24h
  <2>4. IsFiniteSet(W)
    BY <2>2, <2>3, FS_Subset
  <2> QED BY <2>4, FS_CardinalityType, FS_EmptySet
<1>3. DOMAIN page \subseteq Nat
  BY <1>1
<1>4. size = 1 /\ W # {} => rows = 1
  BY <1>2 DEF Remaining, Lesser
<1> QED
  BY <1>1, <1>3, <1>4

LEMMA AlertsOfDay ==
    ASSUME NEW n \in 0..MaxAlerts, NEW t
    PROVE  Last24h(n, t) \subseteq Alert
BY ModalAssumption DEF Last24h, Alert

\* What a load may answer are alerts there are, or none.
LEMMA LatestOfAlerts ==
    ASSUME NEW n \in 0..MaxAlerts, NEW t
    PROVE  LatestOf(Last24h(n, t)) \subseteq Alert \cup {0}
<1>1. CASE Last24h(n, t) = {}
  BY <1>1 DEF LatestOf
<1>2. CASE Last24h(n, t) # {}
  <2>1. ASSUME NEW page \in Pages(Last24h(n, t), 0, 1) PROVE page[1] \in Alert
    <3>1. page[1] \in Last24h(n, t)
      BY <1>2, <2>1, PageRows
    <3> QED BY <3>1, AlertsOfDay
  <2> QED BY <1>2, <2>1 DEF LatestOf
<1> QED
  BY <1>1, <1>2

LEMMA AttackerOfAlerts ==
    ASSUME NEW n \in 0..MaxAlerts, NEW t, NEW trusted \in SUBSET IP,
           NEW sample \in Samples(Last24h(n, t))
    PROVE  TopAttackerOf(sample, trusted) \in (IP \ trusted) \cup {NoIP}
<1> DEFINE W == Last24h(n, t)
<1>1. Cardinality(W) \in Nat
  <2>1. IsFiniteSet(1..n)
    BY ModalAssumption, FS_Interval
  <2>2. W \subseteq 1..n
    BY DEF Last24h
  <2> QED BY <2>1, <2>2, FS_Subset, FS_CardinalityType
<1>2. PICK page \in Pages(W, 0, Cardinality(W)) : sample = [i \in DOMAIN page |-> Source[page[i]]]
  BY DEF Samples
<1>3. DOMAIN page \subseteq Nat /\ \A i \in DOMAIN page : page[i] \in W
  BY <1>1, <1>2, PageRows
<1>4. \A i \in DOMAIN page : page[i] \in 1..MaxAlerts
  BY <1>3, AlertsOfDay DEF Alert
<1>5. DOMAIN sample = DOMAIN page /\ \A i \in DOMAIN sample : sample[i] = Source[page[i]]
  BY <1>2
<1>6. \A i \in DOMAIN sample : sample[i] \in IP \cup {NoIP}
  BY <1>4, <1>5, OverviewAssumption
<1> QED
  BY <1>3, <1>5, <1>6, AttackerUntrusted

LEMMA AnswersAreAlerts ==
    ASSUME TypeOK, NEW k \in Poll
    PROVE  /\ LatestAnswered(k) \subseteq Alert \cup {0}
           /\ AttackersFound(k) \subseteq (IP \ polls[k].trusted) \cup {NoIP}
<1>1. polls[k] \in PollState
  BY DEF TypeOK
<1>2. polls[k].from \in 0..MaxAlerts /\ polls[k].at \in 0..MaxTime /\ polls[k].trusted \in SUBSET IP
      /\ stored \in 0..MaxAlerts
  BY <1>1 DEF PollState, TypeOK
<1>3. ASSUME NEW n \in polls[k].from..stored
      PROVE  /\ LatestOf(Last24h(n, polls[k].at)) \subseteq Alert \cup {0}
             /\ AttackersOf(Last24h(n, polls[k].at), polls[k].trusted) \subseteq (IP \ polls[k].trusted) \cup {NoIP}
  <2>1. n \in 0..MaxAlerts
    BY <1>2, ModalAssumption
  <2> QED BY <1>2, <2>1, LatestOfAlerts, AttackerOfAlerts DEF AttackersOf
<1>4. LatestAnswered(k) \subseteq Alert \cup {0}
  BY <1>3 DEF LatestAnswered
<1>5. AttackersFound(k) \subseteq (IP \ polls[k].trusted) \cup {NoIP}
  BY <1>3 DEF AttackersFound
<1> QED
  BY <1>4, <1>5

\* A load that is taken up finds no address the page trusts.
LEMMA PollFinds ==
    ASSUME TypeOK, Fresh, NEW k \in Poll, PollDone(k)
    PROVE  \/ topAttacker' \in (IP \ trustedSet) \cup {NoIP} /\ latest' \in Alert \cup {0}
           \/ UNCHANGED <<latest, topAttacker>>
<1>1. CASE polls[k].cancelled
  BY <1>1 DEF PollDone
<1>2. CASE ~polls[k].cancelled
  <2>1. polls[k].trusted = trustedSet
    BY <1>2 DEF PollDone, Fresh
  <2>2. latest' \in LatestAnswered(k) /\ topAttacker' \in AttackersFound(k)
    BY <1>2 DEF PollDone
  <2> QED BY <2>1, <2>2, AnswersAreAlerts
<1> QED
  BY <1>1, <1>2

-----------------------------------------------------------------------------
(* The polls and the trusted addresses.                                    *)

OverviewInv ==
    /\ now \in 0..MaxTime
    /\ stored \in 0..MaxAlerts /\ \A a \in 1..stored : Stamp[a] <= now
    /\ awaiting \in BOOLEAN /\ trustedSet \in SUBSET IP
    /\ polls \in [Poll -> PollState]
    /\ latest \in Alert \cup {0} /\ topAttacker \in IP \cup {NoIP}
    /\ Fresh

LEMMA Parts ==
    /\ IInv <=> OverviewInv /\ WindowInv
    /\ OverviewInv' /\ WindowInv' => IInv'
BY DEF IInv, OverviewInv, WindowInv, TypeOK

LEMMA SentState ==
    ASSUME OverviewInv, NEW trusted \in SUBSET IP
    PROVE  /\ Sent(trusted) \in PollState
           /\ Sent(trusted).trusted = trusted
BY ModalAssumption DEF OverviewInv, Sent, PollState

LEMMA NoPollState == NoPoll \in PollState /\ NoPoll.phase # "sent"
BY ModalAssumption, OverviewAssumption DEF NoPoll, PollState

LEMMA InitOverview == Init => OverviewInv
<1> SUFFICES ASSUME Init PROVE OverviewInv
  OBVIOUS
<1>1. now \in 0..MaxTime /\ stored \in 0..MaxAlerts /\ trustedSet = {}
  BY DEF Init
<1>2. Sent({}) \in PollState /\ Sent({}).trusted = {}
  BY <1>1, ModalAssumption DEF Sent, PollState
<1>3. polls \in [Poll -> PollState] /\ Fresh
  BY <1>1, <1>2, NoPollState DEF Init, Fresh
<1> QED
  BY <1>1, <1>3 DEF Init, OverviewInv

LEMMA TrustedListInv ==
    ASSUME OverviewInv, TrustedList
    PROVE  OverviewInv'
<1>1. CASE TrustedFails
  BY <1>1 DEF OverviewInv, Fresh, TrustedFails
<1>2. ASSUME NEW k \in Poll, TrustedArrives(k) PROVE OverviewInv'
  <2>1. Trusted \in SUBSET IP
    BY OverviewAssumption
  <2>2. Sent(Trusted) \in PollState /\ Sent(Trusted).trusted = Trusted
    BY <2>1, SentState
  <2>3. trustedSet' = Trusted
    BY <1>2 DEF TrustedArrives
  <2>4. ASSUME NEW j \in Poll
        PROVE  /\ polls'[j] \in PollState
               /\ polls'[j].phase = "sent" /\ ~polls'[j].cancelled => polls'[j].trusted = Trusted
    <3>1. polls[j] \in PollState
      BY DEF OverviewInv
    <3>2. CASE j = k
      BY <1>2, <2>2, <3>2 DEF TrustedArrives
    <3>3. CASE j # k /\ polls[j] = NoPoll
      BY <1>2, <3>3, NoPollState DEF TrustedArrives
    <3>4. CASE j # k /\ polls[j] # NoPoll
      <4>1. polls'[j] = [polls[j] EXCEPT !.cancelled = TRUE]
        BY <1>2, <3>4 DEF TrustedArrives
      <4> QED BY <3>1, <4>1 DEF PollState
    <3> QED BY <3>2, <3>3, <3>4
  <2>5. DOMAIN polls' = Poll /\ polls' = [j \in Poll |-> polls'[j]]
    BY <1>2 DEF TrustedArrives
  <2>6. polls' \in [Poll -> PollState]
    BY <2>4, <2>5
  <2>7. Fresh'
    BY <2>3, <2>4 DEF Fresh
  <2> QED BY <1>2, <2>1, <2>3, <2>6, <2>7 DEF OverviewInv, TrustedArrives
<1> QED
  BY <1>1, <1>2 DEF TrustedList

LEMMA PollsInv ==
    ASSUME IInv, Polls
    PROVE  OverviewInv'
<1> USE Parts DEF OverviewInv
<1>1. ASSUME NEW k \in Poll, Tick(k) PROVE OverviewInv'
  <2>1. Sent(trustedSet) \in PollState /\ Sent(trustedSet).trusted = trustedSet
    BY SentState
  <2>2. polls' \in [Poll -> PollState] /\ Fresh'
    BY <1>1, <2>1 DEF Tick, Fresh
  <2> QED BY <1>1, <2>2 DEF Tick
<1>2. ASSUME NEW k \in Poll, polls' = [polls EXCEPT ![k] = NoPoll], trustedSet' = trustedSet
      PROVE  polls' \in [Poll -> PollState] /\ Fresh'
  BY <1>2, NoPollState DEF Fresh
<1>3. ASSUME NEW k \in Poll, PollDone(k) PROVE OverviewInv'
  <2>1. latest' \in Alert \cup {0} /\ topAttacker' \in IP \cup {NoIP}
    BY <1>3, PollFinds DEF IInv
  <2> QED BY <1>2, <1>3, <2>1 DEF PollDone
<1>4. ASSUME NEW k \in Poll, PollFails(k) PROVE OverviewInv'
  BY <1>2, <1>4 DEF PollFails
<1> QED
  BY <1>1, <1>3, <1>4 DEF Polls

-----------------------------------------------------------------------------
(* The window.                                                             *)

LEMMA InitWindow == Init => WindowInv
<1> SUFFICES ASSUME Init PROVE WindowInv
  OBVIOUS
<1>1. ModalInit /\ faults = 0
  BY DEF Init
<1>2. NoFetch \in FetchState
  BY DEF NoFetch, FetchState
<1>3. fetches \in [Fetch -> FetchState] /\ \A k \in Fetch : fetches[k] = NoFetch
  BY <1>1, <1>2 DEF ModalInit
<1>4. ModalTypeOK
  <2>1. 0 \in 0..MaxOpens /\ 0 \in 0..MaxFaults
    BY ModalAssumption
  <2> QED BY <1>1, <1>3, <2>1 DEF ModalInit, ModalTypeOK
<1>5. Pending
  BY <1>3 DEF Pending, Live
<1>6. ModalTrue
  BY <1>1 DEF ModalInit, ModalTrue, ShowsAlert, AnswerDue, Shown
<1> QED
  BY <1>4, <1>5, <1>6 DEF WindowInv

\* The cleanup leaves no fetch that will be taken up.
LEMMA CleanedUp ==
    ASSUME ModalTypeOK
    PROVE  /\ Cancelled \in [Fetch -> FetchState]
           /\ \A k \in Fetch : Cancelled[k] # NoFetch => Cancelled[k].cancelled
           /\ \A k \in Fetch : fetches[k] = NoFetch => Cancelled[k] = NoFetch
<1>1. ASSUME NEW k \in Fetch
      PROVE  /\ Cancelled[k] \in FetchState
             /\ Cancelled[k] # NoFetch => Cancelled[k].cancelled
             /\ fetches[k] = NoFetch => Cancelled[k] = NoFetch
  <2>1. fetches[k] \in FetchState
    BY DEF ModalTypeOK
  <2>2. CASE fetches[k] = NoFetch
    BY <2>1, <2>2 DEF Cancelled
  <2>3. CASE fetches[k] # NoFetch
    <3>1. Cancelled[k] = [fetches[k] EXCEPT !.cancelled = TRUE]
      BY <2>3 DEF Cancelled
    <3> QED BY <2>1, <2>3, <3>1 DEF FetchState
  <2> QED BY <2>2, <2>3
<1> QED
  BY <1>1 DEF Cancelled

LEMMA OpenInv ==
    ASSUME WindowInv, NEW a \in Alert, OpenAlert(a), faults' = faults
    PROVE  WindowInv'
<1> DEFINE new == [alert |-> a, cancelled |-> FALSE]
<1>1. ModalTypeOK /\ Pending
  BY DEF WindowInv
<1>2. opens' \in Fetch /\ opens' = opens + 1 /\ opens' \in 0..MaxOpens /\ opens \in Nat
  BY <1>1, ModalAssumption DEF ModalTypeOK, OpenAlert, Fetch
<1>3. a # 0 /\ a \in Nat
  BY ModalAssumption DEF Alert
<1>4. new \in FetchState /\ new # NoFetch /\ ~new.cancelled
  BY <1>3 DEF FetchState, NoFetch
<1>5. fetches' = [Cancelled EXCEPT ![opens + 1] = new]
  BY DEF OpenAlert
<1>6. \A k \in Fetch : fetches'[k] = IF k = opens' THEN new ELSE Cancelled[k]
  BY <1>1, <1>2, <1>5, CleanedUp
<1>7. fetches' \in [Fetch -> FetchState]
  BY <1>1, <1>2, <1>4, <1>5, CleanedUp
<1>8. ModalTypeOK'
  BY <1>1, <1>2, <1>7 DEF ModalTypeOK, OpenAlert
<1>9. \A k \in Fetch : Live(k)' <=> k = opens'
  BY <1>1, <1>4, <1>6, CleanedUp DEF Live
<1>10. Pending'
  <2>1. ASSUME NEW k \in Fetch, k > opens' PROVE fetches'[k] = NoFetch
    <3>1. k > opens /\ k # opens'
      BY <1>2, <2>1 DEF Fetch
    <3> QED BY <1>1, <1>6, <3>1, CleanedUp DEF Pending
  <2>2. \A k \in Fetch : Live(k)' => fetches'[k].alert = alertId' /\ alertId' # 0 /\ loading'
    BY <1>2, <1>3, <1>6, <1>9 DEF OpenAlert
  <2> QED BY <1>9, <2>1, <2>2 DEF Pending
<1>11. ModalTrue'
  <2>1. AnswerDue'
    BY <1>2, <1>6 DEF AnswerDue, OpenAlert
  <2>2. ShowsAlert'
    BY <1>3 DEF ShowsAlert, Shown, OpenAlert
  <2> QED BY <2>1, <2>2 DEF ModalTrue
<1> QED
  BY <1>8, <1>10, <1>11 DEF WindowInv

LEMMA CloseInv ==
    ASSUME WindowInv, CloseAlert, faults' = faults
    PROVE  WindowInv'
<1>1. ModalTypeOK /\ Pending
  BY DEF WindowInv
<1>2. ModalTypeOK'
  BY <1>1, CleanedUp DEF ModalTypeOK, CloseAlert
<1>3. \A k \in Fetch : ~Live(k)'
  BY <1>1, CleanedUp DEF Live, CloseAlert
<1>4. Pending'
  BY <1>1, <1>3, CleanedUp DEF Pending, CloseAlert
<1>5. ModalTrue'
  BY DEF ModalTrue, ShowsAlert, AnswerDue, Shown, CloseAlert
<1> QED
  BY <1>2, <1>4, <1>5 DEF WindowInv

\* The fetch of an opening is answered or fails.
LEMMA ArrivedInv ==
    ASSUME WindowInv, NEW k \in Fetch, Arrived(k),
           (FetchDone(k) /\ faults' = faults) \/ FetchFails(k)
    PROVE  WindowInv'
<1>1. ModalTypeOK /\ Pending /\ ModalTrue
  BY DEF WindowInv
<1>2. NoFetch \in FetchState
  BY DEF NoFetch, FetchState
<1>3. fetches' \in [Fetch -> FetchState] /\ \A j \in Fetch : fetches'[j] = IF j = k THEN NoFetch ELSE fetches[j]
  BY <1>1, <1>2 DEF ModalTypeOK, Arrived
<1>4. fetches[k] \in FetchState /\ faults' \in 0..MaxFaults
  BY <1>1, ModalAssumption DEF ModalTypeOK, FetchFails
<1>5. UNCHANGED <<alertId, opens>> /\ fetches[k] # NoFetch
  BY DEF Arrived
<1>6. \A j \in Fetch : Live(j)' <=> Live(j) /\ j # k
  BY <1>3 DEF Live
<1>7. \A j \in Fetch : j > opens' => fetches'[j] = NoFetch
  BY <1>1, <1>3, <1>5 DEF Pending
<1>8. CASE fetches[k].cancelled
  <2>1. UNCHANGED <<detail, loading, error>>
    BY <1>8 DEF FetchDone, FetchFails
  <2>2. ModalTypeOK'
    BY <1>1, <1>3, <1>4, <1>5, <2>1 DEF ModalTypeOK
  <2>3. Pending'
    BY <1>1, <1>3, <1>5, <1>6, <1>7, <2>1 DEF Pending
  <2>4. AnswerDue'
    <3> SUFFICES ASSUME alertId # 0, loading
                 PROVE  \E j \in Fetch : fetches'[j] = [alert |-> alertId, cancelled |-> FALSE]
      BY <1>5, <2>1 DEF AnswerDue
    <3>1. PICK j \in Fetch : fetches[j] = [alert |-> alertId, cancelled |-> FALSE]
      BY <1>1 DEF ModalTrue, AnswerDue
    <3>2. j # k
      BY <1>8, <3>1
    <3> QED BY <1>3, <3>1, <3>2
  <2>5. ShowsAlert'
    BY <1>1, <1>5, <2>1 DEF ModalTrue, ShowsAlert, Shown
  <2> QED BY <2>2, <2>3, <2>4, <2>5 DEF WindowInv, ModalTrue
<1>9. CASE ~fetches[k].cancelled
  <2>1. Live(k) /\ fetches[k].alert = alertId /\ alertId # 0
    BY <1>1, <1>5, <1>9 DEF Live, Pending
  <2>2. \A j \in Fetch : ~Live(j)'
    BY <1>1, <1>6, <2>1 DEF Pending
  <2>3. loading' = FALSE /\ error' \in BOOLEAN /\ (detail' = detail \/ detail' = alertId)
        /\ (detail' = alertId \/ error')
    BY <1>1, <1>9, <2>1 DEF FetchDone, FetchFails, ModalTypeOK
  <2>4. ModalTypeOK'
    BY <1>1, <1>3, <1>4, <1>5, <2>3 DEF ModalTypeOK
  <2>5. Pending'
    BY <1>7, <2>2 DEF Pending
  <2>6. ModalTrue'
    BY <1>5, <2>1, <2>3 DEF ModalTrue, ShowsAlert, AnswerDue, Shown
  <2> QED BY <2>4, <2>5, <2>6 DEF WindowInv
<1> QED
  BY <1>8, <1>9

LEMMA ModalInv ==
    ASSUME IInv, Modal
    PROVE  WindowInv'
<1>1. WindowInv /\ OverviewInv
  BY Parts
<1>2. CASE Open
  <2>1. latest \in Alert
    BY <1>1, <1>2 DEF OverviewInv, Open
  <2> QED BY <1>1, <1>2, <2>1, OpenInv DEF Open
<1>3. CASE Close
  BY <1>1, <1>3, CloseInv DEF Close
<1>4. ASSUME NEW k \in Fetch, Fetched(k) PROVE WindowInv'
  BY <1>1, <1>4, ArrivedInv DEF Fetched, FetchDone
<1>5. ASSUME NEW k \in Fetch, Unfetched(k) PROVE WindowInv'
  BY <1>1, <1>5, ArrivedInv DEF Unfetched, FetchFails
<1> QED
  BY <1>2, <1>3, <1>4, <1>5 DEF Modal

\* A failed request of the overview leaves the window alone.
LEMMA WindowKept ==
    ASSUME WindowInv, UNCHANGED modal, faults' = faults \/ Fault
    PROVE  WindowInv'
<1>1. faults' \in 0..MaxFaults
  BY ModalAssumption DEF WindowInv, ModalTypeOK, Fault
<1> QED
  BY <1>1 DEF WindowInv, ModalTypeOK, Pending, Live, ModalTrue, ShowsAlert, AnswerDue, Shown, modal

-----------------------------------------------------------------------------
(* The invariant.                                                          *)

LEMMA InitInv == Init => IInv
BY InitOverview, InitWindow, Parts

LEMMA NextInv ==
    ASSUME IInv, [Next]_vars
    PROVE  IInv'
<1>1. OverviewInv /\ WindowInv
  BY Parts
<1>2. CASE Passes
  <2>1. \A a \in 1..stored : Stamp[a] <= now'
    <3>1. \A a \in 1..stored : Stamp[a] \in Nat /\ Stamp[a] <= now
      BY <1>1, ModalAssumption, OverviewAssumption DEF OverviewInv
    <3>2. now \in Nat /\ now' = now + 1
      BY <1>1, <1>2, OverviewAssumption DEF OverviewInv, Passes
    <3> QED BY <3>1, <3>2
  <2>2. OverviewInv'
    BY <1>1, <1>2, <2>1, OverviewAssumption DEF Passes, OverviewInv, Fresh
  <2> QED BY <1>1, <1>2, <2>2, WindowKept, Parts DEF Passes
<1>3. CASE Ingested
  <2>1. OverviewInv'
    BY <1>1, <1>3, ModalAssumption DEF Ingested, OverviewInv, Fresh
  <2> QED BY <1>1, <1>3, <2>1, WindowKept, Parts DEF Ingested
<1>4. CASE TrustedList
  <2>1. UNCHANGED modal /\ (faults' = faults \/ Fault)
    BY <1>4 DEF TrustedList, TrustedFails, TrustedArrives
  <2> QED BY <1>1, <1>4, <2>1, TrustedListInv, WindowKept, Parts
<1>5. CASE Polls
  <2>1. UNCHANGED modal /\ (faults' = faults \/ Fault)
    BY <1>5 DEF Polls, Tick, PollDone, PollFails
  <2> QED BY <1>1, <1>5, <2>1, PollsInv, WindowKept, Parts
<1>6. CASE Modal
  <2>1. UNCHANGED overview
    BY <1>6 DEF Modal, Open, Close, Fetched, Unfetched
  <2>2. OverviewInv'
    BY <1>1, <2>1 DEF overview, OverviewInv, Fresh
  <2> QED BY <1>6, <2>2, ModalInv, Parts
<1>7. CASE UNCHANGED vars
  <2>1. OverviewInv'
    BY <1>1, <1>7 DEF vars, overview, OverviewInv, Fresh
  <2> QED BY <1>1, <1>7, <2>1, WindowKept, Parts DEF vars
<1> QED
  BY <1>2, <1>3, <1>4, <1>5, <1>6, <1>7 DEF Next

LEMMA Invariant == Spec => []IInv
<1>1. Init => IInv
  BY InitInv
<1>2. IInv /\ [Next]_vars => IInv'
  BY NextInv
<1> QED
  BY <1>1, <1>2, PTL DEF Spec

\* The types of the overview and of the window, however polls overlap.
THEOREM TypeCorrect == Spec => []TypeOK
<1>1. IInv => TypeOK
  BY DEF IInv
<1> QED
  BY <1>1, Invariant, PTL

\* A window without an error shows the alert in its title, or nothing while it
\* loads; and it is never left loading without a fetch that will end it.
THEOREM WindowIsTrue == Spec => []ModalTrue
<1>1. IInv => ModalTrue
  BY DEF IInv
<1> QED
  BY <1>1, Invariant, PTL

\* No load brings a trusted address as the top external attacker, once the list
\* is known.
THEOREM AttackerIsExternal == Spec => TopAttackerExternal
<1>1. IInv /\ [Next]_vars => [topAttacker' \notin trustedSet \/ topAttacker' = topAttacker]_vars
  <2> SUFFICES ASSUME IInv, Next
               PROVE  topAttacker' \notin trustedSet \/ topAttacker' = topAttacker
    BY DEF vars, overview
  <2>1. NoIP \notin trustedSet
    BY OverviewAssumption DEF IInv, TypeOK
  <2>2. ASSUME NEW k \in Poll, PollDone(k)
        PROVE  topAttacker' \notin trustedSet \/ topAttacker' = topAttacker
    BY <2>1, <2>2, PollFinds DEF IInv
  <2> QED
    BY <2>2 DEF Next, Passes, Ingested, TrustedList, TrustedArrives, TrustedFails, Polls, Tick,
                PollFails, Modal, Open, Close, Fetched, Unfetched, overview
<1> QED
  BY <1>1, Invariant, PTL DEF Spec, TopAttackerExternal
=============================================================================
