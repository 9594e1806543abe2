----------------------------- MODULE RuleLedger -----------------------------
(***************************************************************************)
(* What Access Rules promises about one rule, with the actors, the calls   *)
(* and the order of the commits left out: a rule is opened before anything *)
(* is held for it on the gateway, the gateway may come to hold something   *)
(* for it only while it is open or after it failed, and it is lifted only  *)
(* once nothing is held for it.                                            *)
(***************************************************************************)
CONSTANT Rule

VARIABLES
    stage,      \* where each rule is in its life
    held        \* the rules the gateway may still hold a DROP for

ledgerVars == <<stage, held>>

Stage == {"unused", "open", "live", "dead", "lifted"}

LedgerTypeOK == stage \in [Rule -> Stage] /\ held \subseteq Rule

LedgerInit == stage = [r \in Rule |-> "unused"] /\ held = {}

Move(r, from, to) ==
    /\ stage[r] = from
    /\ stage' = [stage EXCEPT ![r] = to]
    /\ UNCHANGED held

Open(r) == Move(r, "unused", "open")
Confirm(r) == Move(r, "open", "live")
Fail(r) == Move(r, "open", "dead")
Lift(r) == r \notin held /\ Move(r, "live", "lifted")

\* A gateway that answers late may still place the DROP of a failed rule.
Place(r) ==
    /\ stage[r] \in {"open", "dead"}
    /\ held' = held \cup {r}
    /\ UNCHANGED stage

\* Released for an unblock: of a live rule, or a second time.
Release(r) ==
    /\ stage[r] \in {"live", "lifted"}
    /\ held' = held \ {r}
    /\ UNCHANGED stage

\* The gateway forgets everything it held.
Purge == held' = {} /\ UNCHANGED stage

LedgerNext ==
    \/ \E r \in Rule : Open(r) \/ Place(r) \/ Confirm(r) \/ Fail(r) \/ Release(r) \/ Lift(r)
    \/ Purge

LedgerSpec == LedgerInit /\ [][LedgerNext]_ledgerVars
=============================================================================
