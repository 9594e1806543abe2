--------------------------- MODULE AlertDetailModal ---------------------------
(***************************************************************************)
(* The window with one alert (components/AlertDetailModal.tsx), which the  *)
(* overview of the dashboard and the page of alerts open.  Its effect runs *)
(* with every change of alertId; the cleanup marks the fetch of the one    *)
(* before as cancelled.  An alert is the number of its row, 0 is null, and *)
(* its detail is told by the number alone.                                 *)
(***************************************************************************)
EXTENDS Naturals

CONSTANTS
    MaxAlerts,      \* bound: alerts, numbered as they happen
    MaxOpens,       \* bound: times an alert is opened
    MaxFaults       \* bound: requests that fail

ASSUME ModalAssumption == {MaxAlerts, MaxOpens, MaxFaults} \subseteq Nat

VARIABLES
    alertId,        \* the property of the component, selectedAlertId of its parent
    detail,         \* detail, loading, error
    loading,
    error,
    fetches,        \* the fetch each opening began
    opens,          \* openings and failed requests so far
    faults

modal == <<alertId, detail, loading, error, fetches, opens>>

Alert == 1..MaxAlerts
Fetch == 1..MaxOpens

FetchState == [alert : Alert \cup {0}, cancelled : BOOLEAN]
NoFetch == [alert |-> 0, cancelled |-> FALSE]

ModalInit ==
    /\ alertId = 0 /\ detail = 0
    /\ loading = FALSE /\ error = FALSE
    /\ fetches = [k \in Fetch |-> NoFetch]
    /\ opens = 0

\* The cleanup of the effect before.
Cancelled == [k \in Fetch |-> IF fetches[k] = NoFetch THEN NoFetch ELSE [fetches[k] EXCEPT !.cancelled = TRUE]]

\* A click on an alert.  The button keeps the focus, so that Enter may open
\* another alert while the window is open.
OpenAlert(a) ==
    /\ a # alertId /\ opens < MaxOpens
    /\ opens' = opens + 1
    /\ alertId' = a
    /\ loading' = TRUE /\ error' = FALSE
    /\ fetches' = [Cancelled EXCEPT ![opens + 1] = [alert |-> a, cancelled |-> FALSE]]
    /\ UNCHANGED detail

\* Escape, the button, or a click beside the window.  loading is left as it is.
CloseAlert ==
    /\ alertId # 0
    /\ alertId' = 0 /\ detail' = 0 /\ error' = FALSE
    /\ fetches' = Cancelled
    /\ UNCHANGED <<loading, opens>>

Arrived(k) ==
    /\ fetches[k] # NoFetch
    /\ fetches' = [fetches EXCEPT ![k] = NoFetch]
    /\ UNCHANGED <<alertId, opens>>

\* Mutant: without the flag.
FetchDone_Late(k) ==
    /\ Arrived(k)
    /\ detail' = fetches[k].alert /\ loading' = FALSE
    /\ UNCHANGED error

\* then and finally.
FetchDone(k) ==
    /\ Arrived(k)
    /\ IF fetches[k].cancelled THEN UNCHANGED <<detail, loading>>
                               ELSE detail' = fetches[k].alert /\ loading' = FALSE
    /\ UNCHANGED error

\* catch and finally: the detail of the alert before, if any, is shown again.
FetchFails(k) ==
    /\ Arrived(k)
    /\ faults < MaxFaults /\ faults' = faults + 1
    /\ IF fetches[k].cancelled THEN UNCHANGED <<error, loading>> ELSE error' = TRUE /\ loading' = FALSE
    /\ UNCHANGED detail

\* What the window shows; the error, if any, is shown above it.
Shown == IF alertId = 0 \/ loading THEN 0 ELSE detail

-----------------------------------------------------------------------------

ModalTypeOK ==
    /\ {alertId, detail} \subseteq Alert \cup {0}
    /\ {loading, error} \subseteq BOOLEAN
    /\ fetches \in [Fetch -> FetchState]
    /\ opens \in 0..MaxOpens /\ faults \in 0..MaxFaults

\* The window shows the alert in its title: nothing else without an error, and
\* nothing missing once it no longer says "Loading".
ShowsAlert ==
    /\ Shown = alertId \/ error \/ (loading /\ Shown = 0)
    /\ alertId = 0 => detail = 0 /\ ~error

\* "Loading alert" is never left standing: the answer it waits for is due, and
\* is for the alert in the title.
AnswerDue ==
    alertId # 0 /\ loading
        => \E k \in Fetch : fetches[k] = [alert |-> alertId, cancelled |-> FALSE]

\* So it is whatever was opened and closed before, in whatever order the answers
\* come and whichever of them fail.
ModalTrue == ShowsAlert /\ AnswerDue
=============================================================================
