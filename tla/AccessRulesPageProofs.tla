------------------------ MODULE AccessRulesPageProofs ------------------------
(***************************************************************************)
(* What the Access Rules page tells is true, for any rules, loads and      *)
(* calls that overlap, and whatever other actors do and requests fail.     *)
(***************************************************************************)
EXTENDS AccessRulesPage, TLAPS

USE PageAssumption

\* What a message says of the rule it names.
Told(op, r) ==
    /\ op = "unblock" => stage[r] = "lifted"
    /\ op = "block" => stage[r] \in {"live", "lifted"}

Message == {"block", "unblock"} \X Rule
Banner == info = <<>> \/ (info \in Message /\ Told(info[1], info[2]))

\* A call knows its rule, and once it is served, what it reports has happened.
Promised ==
    \A c \in Call :
        /\ calls[c].phase # "none" => calls[c].op \in {"block", "unblock"}
        /\ calls[c].op = "unblock" => calls[c].rule \in Rule
        /\ calls[c].phase \in {"accepted", "ok", "reload"} => calls[c].rule \in Rule
        /\ calls[c].phase \in {"ok", "reload"} => Told(calls[c].op, calls[c].rule)

\* A load that a call awaits is the only one, and has not returned.
AwaitedLoads ==
    /\ \A l \in Load : loads[l].caller # "none" => calls[loads[l].caller].phase = "reload"
    /\ \A k, l \in Load : loads[k].caller # "none" /\ loads[k].caller = loads[l].caller => k = l

\* What such a load has read, it read after the unblock.
ReadAfter ==
    \A l \in Load :
        LET c == loads[l].caller
        IN  loads[l].phase = "answer" /\ c # "none" /\ calls[c].op = "unblock"
                => loads[l].rules[calls[c].rule] = "lifted"

IInv == TypeOK /\ Banner /\ Promised /\ AwaitedLoads /\ ReadAfter

-----------------------------------------------------------------------------
(* The rules.                                                              *)

\* What has been told of a rule stays true: nothing leaves "lifted", and only
\* Lift leaves "live".
StaysTold ==
    \A r \in Rule :
        /\ stage[r] = "lifted" => stage'[r] = "lifted"
        /\ stage[r] \in {"live", "lifted"} => stage'[r] \in {"live", "lifted"}

LEMMA MoveTypes ==
    ASSUME LedgerTypeOK, NEW r \in Rule, NEW from \in {"unused", "open", "live"},
           NEW to \in Stage, from = "live" => to = "lifted", Move(r, from, to)
    PROVE  LedgerTypeOK' /\ StaysTold /\ stage'[r] = to /\ stage[r] = from
BY DEF Move, LedgerTypeOK, StaysTold, Stage

LEMMA LedgerKeeps ==
    ASSUME LedgerTypeOK, LedgerNext \/ UNCHANGED ledgerVars
    PROVE  LedgerTypeOK' /\ StaysTold
<1>1. ASSUME NEW r \in Rule, Open(r) \/ Confirm(r) \/ Fail(r) \/ Lift(r)
      PROVE  LedgerTypeOK' /\ StaysTold
  BY <1>1, MoveTypes DEF Open, Confirm, Fail, Lift, Stage
<1>2. ASSUME NEW r \in Rule, Place(r) \/ Release(r)
      PROVE  LedgerTypeOK' /\ StaysTold
  BY <1>2 DEF Place, Release, LedgerTypeOK, StaysTold
<1>3. CASE Purge \/ UNCHANGED ledgerVars
  BY <1>3 DEF Purge, ledgerVars, LedgerTypeOK, StaysTold
<1> QED BY <1>1, <1>2, <1>3 DEF LedgerNext

-----------------------------------------------------------------------------
(* The calls and the loads.                                                *)

\* A message stays true while rules move on.
LEMMA BannerStays ==
    ASSUME IInv, StaysTold, info' \in {info, <<>>}
    PROVE  Banner'
<1>1. CASE info = <<>> \/ info' = <<>>
  BY <1>1 DEF Banner
<1>2. CASE info' = info /\ info \in Message /\ Told(info[1], info[2])
  <2>1. info[2] \in Rule
    BY <1>2 DEF Message
  <2>2. Told(info[1], info[2])'
    BY <1>2, <2>1 DEF Told, StaysTold
  <2> QED BY <1>2, <2>2 DEF Banner
<1> QED BY <1>1, <1>2 DEF IInv, Banner

\* What may be said of a call once the rules have moved on.
StillTold(op, r) ==
    /\ op = "unblock" => stage'[r] = "lifted"
    /\ op = "block" => stage'[r] \in {"live", "lifted"}
Sound(x) ==
    /\ x.phase # "none" => x.op \in {"block", "unblock"}
    /\ x.op = "unblock" => x.rule \in Rule
    /\ x.phase \in {"accepted", "ok", "reload"} => x.rule \in Rule
    /\ x.phase \in {"ok", "reload"} => StillTold(x.op, x.rule)

LEMMA CallsStaySound ==
    ASSUME IInv, StaysTold, NEW c \in Call
    PROVE  Sound(calls[c])
<1>1. calls[c].phase \in {"ok", "reload"} => calls[c].rule \in Rule /\ Told(calls[c].op, calls[c].rule)
  BY DEF IInv, Promised
<1>2. calls[c].phase \in {"ok", "reload"} => StillTold(calls[c].op, calls[c].rule)
  BY <1>1 DEF Told, StillTold, StaysTold
<1> QED BY <1>2 DEF IInv, Promised, Sound

LEMMA PromisesStay ==
    ASSUME IInv, StaysTold, \A d \in Call : calls'[d] = calls[d] \/ Sound(calls'[d])
    PROVE  Promised'
<1>1. \A d \in Call : Sound(calls'[d])
  BY CallsStaySound
<1> QED BY <1>1 DEF Promised, Sound, Told, StillTold

\* The page or the server goes on with a call that awaits no load.
LEMMA CallAdvances ==
    ASSUME IInv, StaysTold, NEW c \in Call, NEW x \in CallState,
           calls' = [calls EXCEPT ![c] = x], calls[c].phase # "reload",
           Sound(x), info' \in {info, <<>>}, UNCHANGED loads
    PROVE  /\ calls' \in [Call -> CallState]
           /\ Banner' /\ Promised' /\ AwaitedLoads' /\ ReadAfter'
<1>1. calls \in [Call -> CallState]
  BY DEF IInv, TypeOK
<1>2. calls'[c] = x /\ \A d \in Call \ {c} : calls'[d] = calls[d]
  BY <1>1
<1>3. Promised'
  BY <1>2, PromisesStay
<1>4. \A l \in Load : loads[l].caller # c
  BY DEF IInv, AwaitedLoads
<1>5. \A l \in Load : loads[l].caller \in Call \cup {"none"}
  BY DEF IInv, TypeOK, LoadState
<1>6. \A l \in Load : loads[l].caller # "none" => calls'[loads[l].caller] = calls[loads[l].caller]
  BY <1>2, <1>4, <1>5
<1>7. AwaitedLoads'
  BY <1>6 DEF IInv, AwaitedLoads
<1>8. ReadAfter'
  BY <1>6 DEF IInv, ReadAfter
<1> QED BY <1>1, <1>3, <1>7, <1>8, BannerStays

\* A load that nobody awaits begins.
LEMMA LoadBegins ==
    ASSUME IInv, NEW l \in Load, NEW spinner \in BOOLEAN, BeginLoad(l, spinner, "none"),
           UNCHANGED <<stage, info, calls>>
    PROVE  /\ loads' \in [Load -> LoadState] /\ loading' \in BOOLEAN
           /\ Banner' /\ Promised' /\ AwaitedLoads' /\ ReadAfter'
<1>1. loads \in [Load -> LoadState] /\ loading \in BOOLEAN
  BY DEF IInv, TypeOK
<1>2. /\ Begun(spinner, "none") \in LoadState
      /\ Begun(spinner, "none").caller = "none" /\ Begun(spinner, "none").phase = "sent"
  BY DEF Begun, LoadState, Stages, Stage
<1>3. /\ loads' \in [Load -> LoadState]
      /\ loads'[l].caller = "none" /\ \A k \in Load \ {l} : loads'[k] = loads[k]
  BY <1>1, <1>2 DEF BeginLoad
<1>4. loading' \in BOOLEAN
  BY <1>1 DEF BeginLoad
<1>5. StaysTold
  BY DEF StaysTold
<1>6. Promised' /\ Banner'
  BY <1>5, PromisesStay, BannerStays
<1>7. AwaitedLoads'
  BY <1>3 DEF IInv, AwaitedLoads
<1>8. ReadAfter'
  BY <1>3 DEF IInv, ReadAfter
<1> QED BY <1>3, <1>4, <1>6, <1>7, <1>8

\* finally: the load, and the call that awaited it, are over.
LEMMA LoadReturns ==
    ASSUME IInv, NEW l \in Load, Returned(l), UNCHANGED <<stage, info>>
    PROVE  /\ loads' \in [Load -> LoadState] /\ calls' \in [Call -> CallState]
           /\ loading' \in BOOLEAN /\ submitting' \in BOOLEAN /\ removingId' \in Rule \cup {"none"}
           /\ Banner' /\ Promised' /\ AwaitedLoads' /\ ReadAfter'
<1> DEFINE c == loads[l].caller
<1>1. /\ loads \in [Load -> LoadState] /\ calls \in [Call -> CallState]
      /\ loading \in BOOLEAN /\ submitting \in BOOLEAN /\ removingId \in Rule \cup {"none"}
      /\ c \in Call \cup {"none"}
  BY DEF IInv, TypeOK, LoadState
<1>2. NoLoad \in LoadState /\ NoLoad.caller = "none" /\ NoLoad.phase = "none"
  BY DEF NoLoad, Begun, LoadState, Stages, Stage
<1>3. NoCall \in CallState /\ Sound(NoCall)
  BY DEF NoCall, CallState, Sound
<1>4. /\ loads' \in [Load -> LoadState] /\ loads'[l] = NoLoad
      /\ \A k \in Load \ {l} : loads'[k] = loads[k]
  BY <1>1, <1>2 DEF Returned
<1>5. /\ calls' \in [Call -> CallState]
      /\ \A d \in Call : calls'[d] = IF d = c THEN NoCall ELSE calls[d]
  BY <1>1, <1>3 DEF Returned
<1>6. loading' \in BOOLEAN /\ submitting' \in BOOLEAN
  BY <1>1 DEF Returned
<1>7. removingId' \in Rule \cup {"none"}
  BY <1>1 DEF Returned
<1>8. StaysTold
  BY DEF StaysTold
<1>9. Promised' /\ Banner'
  BY <1>3, <1>5, <1>8, PromisesStay, BannerStays
<1>10. \A k \in Load : loads'[k].caller # "none" =>
           /\ k # l /\ loads'[k] = loads[k]
           /\ loads[k].caller \in Call /\ calls'[loads[k].caller] = calls[loads[k].caller]
  <2> SUFFICES ASSUME NEW k \in Load, loads'[k].caller # "none"
               PROVE  /\ k # l /\ loads'[k] = loads[k]
                      /\ loads[k].caller \in Call /\ calls'[loads[k].caller] = calls[loads[k].caller]
    OBVIOUS
  <2>1. k # l /\ loads'[k] = loads[k]
    BY <1>2, <1>4
  <2>2. loads[k].caller # c
    BY <2>1 DEF IInv, AwaitedLoads
  <2>3. loads[k].caller \in Call
    BY <1>1, <2>1 DEF LoadState
  <2> QED BY <1>5, <2>1, <2>2, <2>3
<1>11. AwaitedLoads'
  BY <1>10 DEF IInv, AwaitedLoads
<1>12. ReadAfter'
  BY <1>10 DEF IInv, ReadAfter
<1> QED BY <1>4, <1>5, <1>6, <1>7, <1>9, <1>11, <1>12

\* The message, and the load that the call awaits.
LEMMA CallReports ==
    ASSUME IInv, NEW c \in Call, NEW l \in Load, CallDone(c, l)
    PROVE  /\ loads' \in [Load -> LoadState] /\ calls' \in [Call -> CallState] /\ loading' \in BOOLEAN
           /\ Banner' /\ Promised' /\ AwaitedLoads' /\ ReadAfter'
<1>1. /\ loads \in [Load -> LoadState] /\ calls \in [Call -> CallState] /\ loading \in BOOLEAN
  BY DEF IInv, TypeOK
<1>2. /\ calls[c].phase = "ok" /\ info' = <<calls[c].op, calls[c].rule>>
      /\ calls' = [calls EXCEPT ![c].phase = "reload"] /\ UNCHANGED stage
      /\ loads' = [loads EXCEPT ![l] = Begun(FALSE, c)] /\ loading' = (loading \/ FALSE)
  BY DEF CallDone, Advance, BeginLoad, ledgerVars
<1>3. /\ calls[c].op \in {"block", "unblock"} /\ calls[c].rule \in Rule
      /\ Told(calls[c].op, calls[c].rule)
  BY <1>2 DEF IInv, Promised
<1>4. /\ calls' \in [Call -> CallState]
      /\ calls'[c].op = calls[c].op /\ calls'[c].rule = calls[c].rule /\ calls'[c].phase = "reload"
      /\ \A d \in Call \ {c} : calls'[d] = calls[d]
  BY <1>1, <1>2 DEF CallState
<1>5. /\ Begun(FALSE, c) \in LoadState
      /\ Begun(FALSE, c).caller = c /\ Begun(FALSE, c).phase = "sent"
  BY DEF Begun, LoadState, Stages, Stage
<1>6. /\ loads' \in [Load -> LoadState] /\ loads'[l].caller = c /\ loads'[l].phase = "sent"
      /\ \A k \in Load \ {l} : loads'[k] = loads[k]
  BY <1>1, <1>2, <1>5
<1>7. loading' \in BOOLEAN
  BY <1>1, <1>2
<1>8. Banner'
  BY <1>2, <1>3 DEF Banner, Message, Told
<1>9. Promised'
  <2>1. StaysTold
    BY <1>2 DEF StaysTold
  <2>2. Sound(calls'[c])
    BY <1>2, <1>3, <1>4 DEF Sound, StillTold, Told
  <2> QED BY <1>4, <2>1, <2>2, PromisesStay
<1>10. \A k \in Load : loads[k].caller # "none" =>
           loads[k].caller \in Call /\ loads[k].caller # c
  BY <1>1, <1>2 DEF IInv, AwaitedLoads, LoadState
<1>11. AwaitedLoads'
  BY <1>4, <1>6, <1>10 DEF IInv, AwaitedLoads
<1>12. ReadAfter'
  BY <1>4, <1>6, <1>10 DEF IInv, ReadAfter
<1> QED BY <1>4, <1>6, <1>7, <1>8, <1>9, <1>11, <1>12

\* The rules as a load reads them: those of the calls that await it are lifted.
LEMMA RulesAreRead ==
    ASSUME IInv, NEW l \in Load, ReadRules(l)
    PROVE  loads' \in [Load -> LoadState] /\ AwaitedLoads' /\ ReadAfter'
<1>1. /\ loads \in [Load -> LoadState] /\ stage \in Stages
  BY DEF IInv, TypeOK, LedgerTypeOK, Stages
<1>2. /\ loads' = [loads EXCEPT ![l].phase = "answer", ![l].rules = stage] /\ UNCHANGED calls
  BY DEF ReadRules
<1>3. /\ loads' \in [Load -> LoadState]
      /\ loads'[l].caller = loads[l].caller /\ loads'[l].rules = stage
      /\ \A k \in Load \ {l} : loads'[k] = loads[k]
  BY <1>1, <1>2 DEF LoadState
<1>4. AwaitedLoads'
  BY <1>2, <1>3 DEF IInv, AwaitedLoads
<1>5. ASSUME NEW c \in Call, loads[l].caller = c, c # "none", calls[c].op = "unblock"
      PROVE  stage[calls[c].rule] = "lifted"
  BY <1>5 DEF IInv, AwaitedLoads, Promised, Told
<1>6. ReadAfter'
  <2> SUFFICES ASSUME NEW k \in Load, loads'[k].phase = "answer", loads'[k].caller # "none",
                      calls[loads'[k].caller].op = "unblock"
               PROVE  loads'[k].rules[calls[loads'[k].caller].rule] = "lifted"
    BY <1>2 DEF ReadAfter
  <2>1. CASE k = l
    <3>1. loads[l].caller \in Call
      BY <1>1, <1>3, <2>1 DEF LoadState
    <3> QED BY <1>3, <1>5, <2>1, <3>1
  <2>2. CASE k # l
    BY <1>3, <2>2 DEF IInv, ReadAfter
  <2> QED BY <2>1, <2>2
<1> QED BY <1>3, <1>4, <1>6

-----------------------------------------------------------------------------
(* The actions.                                                            *)

LEMMA IInvInit == Init => IInv
<1> SUFFICES ASSUME Init PROVE IInv
  OBVIOUS
<1>1. LedgerTypeOK
  BY DEF Init, LedgerTypeOK, Stage
<1>2. NoLoad \in LoadState /\ Begun(TRUE, "none") \in LoadState /\ NoCall \in CallState
  BY DEF NoLoad, Begun, NoCall, LoadState, CallState, Stages, Stage
<1>3. NoLoad.caller = "none" /\ Begun(TRUE, "none").caller = "none" /\ NoCall.phase = "none"
      /\ NoCall.op = "none"
  BY DEF NoLoad, Begun, NoCall
<1>4. loads \in [Load -> LoadState] /\ \A l \in Load : loads[l].caller = "none"
  BY <1>2, <1>3 DEF Init
<1>5. calls \in [Call -> CallState] /\ \A c \in Call : calls[c] = NoCall
  BY <1>2 DEF Init
<1>6. rules \in Stages /\ removingId \in Rule \cup {"none"} /\ acts \in 0..MaxActs /\ faults \in 0..MaxFaults
  <2>1. rules = [r \in Rule |-> "unused"] /\ removingId = "none" /\ acts = 0 /\ faults = 0
    BY DEF Init
  <2> QED BY <2>1 DEF Stages, Stage
<1>7. {loading, error, submitting} \subseteq BOOLEAN
  BY DEF Init
<1>8. TypeOK
  BY <1>1, <1>4, <1>5, <1>6, <1>7 DEF TypeOK
<1>9. Banner /\ Promised
  BY <1>3, <1>5 DEF Init, Banner, Promised
<1>10. AwaitedLoads /\ ReadAfter
  BY <1>4 DEF AwaitedLoads, ReadAfter
<1> QED BY <1>8, <1>9, <1>10 DEF IInv

\* What the page keeps by itself, besides calls, loads and messages.
Widgets ==
    /\ rules \in Stages
    /\ {loading, error, submitting} \subseteq BOOLEAN
    /\ removingId \in Rule \cup {"none"}
    /\ acts \in 0..MaxActs /\ faults \in 0..MaxFaults

LEMMA WidgetsKept ==
    ASSUME IInv, UNCHANGED <<rules, loading, error, submitting, removingId, acts, faults>>
    PROVE  Widgets'
BY DEF IInv, TypeOK, Widgets

LEMMA TypesTogether ==
    ASSUME LedgerTypeOK', Widgets', loads' \in [Load -> LoadState], calls' \in [Call -> CallState]
    PROVE  TypeOK'
BY DEF TypeOK, Widgets

LEMMA LedgerStays ==
    ASSUME IInv, UNCHANGED ledgerVars
    PROVE  LedgerTypeOK' /\ StaysTold
BY LedgerKeeps DEF IInv, TypeOK

\* The server.
LEMMA ServerKeeps ==
    ASSUME IInv, LedgerStep \/ Requests
    PROVE  IInv'
<1> USE DEF Serving, banner, buttons, counters
<1>0. LedgerTypeOK /\ calls \in [Call -> CallState] /\ loads \in [Load -> LoadState]
  BY DEF IInv, TypeOK
<1>1. CASE LedgerStep
  <2>1. LedgerNext /\ UNCHANGED <<rules, loading, error, info, removingId, submitting, loads, calls, acts, faults>>
    BY <1>1 DEF LedgerStep, LedgerNext
  <2>2. LedgerTypeOK' /\ StaysTold
    BY <1>0, <2>1, LedgerKeeps
  <2>3. TypeOK'
    BY <1>0, <2>1, <2>2, WidgetsKept, TypesTogether
  <2>4. Banner' /\ Promised'
    BY <2>1, <2>2, BannerStays, PromisesStay
  <2>5. AwaitedLoads' /\ ReadAfter'
    BY <2>1 DEF IInv, AwaitedLoads, ReadAfter
  <2> QED BY <2>3, <2>4, <2>5 DEF IInv
<1>2. ASSUME NEW c \in Call, NEW x \in CallState, LedgerTypeOK', StaysTold,
             calls' = [calls EXCEPT ![c] = x], calls[c].phase # "reload", Sound(x), Serving, UNCHANGED info
      PROVE  IInv'
  <2>1. TypeOK'
    BY <1>0, <1>2, WidgetsKept, TypesTogether
  <2> QED BY <1>2, <2>1, CallAdvances DEF IInv
<1>3. ASSUME NEW c \in Call, ServeBlock(c) PROVE IInv'
  <2>1. CASE Advance(c, "error") /\ UNCHANGED ledgerVars
    <3> DEFINE x == [calls[c] EXCEPT !.phase = "error"]
    <3>1. x \in CallState /\ Sound(x) /\ calls[c].phase # "reload" /\ calls' = [calls EXCEPT ![c] = x]
      BY <1>0, <1>3, <2>1 DEF ServeBlock, CallState, Sound, Advance
    <3>2. LedgerTypeOK' /\ StaysTold
      BY <2>1, LedgerStays
    <3> HIDE DEF x
    <3> QED BY <1>2, <1>3, <3>1, <3>2 DEF ServeBlock
  <2>2. ASSUME NEW r \in Rule, Open(r), calls' = [calls EXCEPT ![c].rule = r, ![c].phase = "accepted"]
        PROVE  IInv'
    <3> DEFINE x == [calls[c] EXCEPT !.rule = r, !.phase = "accepted"]
    <3>1. x \in CallState /\ Sound(x) /\ calls[c].phase # "reload" /\ calls' = [calls EXCEPT ![c] = x]
      BY <1>0, <1>3, <2>2 DEF ServeBlock, CallState, Sound
    <3>2. LedgerTypeOK' /\ StaysTold
      BY <1>0, <2>2, LedgerKeeps DEF LedgerNext
    <3> HIDE DEF x
    <3> QED BY <1>2, <1>3, <3>1, <3>2 DEF ServeBlock
  <2> QED BY <1>3, <2>1, <2>2 DEF ServeBlock
<1>4. ASSUME NEW c \in Call, BlockServed(c) PROVE IInv'
  <2>0. calls[c].op = "block" /\ calls[c].phase = "accepted" /\ calls[c].rule \in Rule
    BY <1>4 DEF BlockServed, IInv, Promised
  <2>1. CASE Confirm(calls[c].rule) /\ Advance(c, "ok")
    <3> DEFINE x == [calls[c] EXCEPT !.phase = "ok"]
    <3>1. LedgerTypeOK' /\ StaysTold /\ stage'[calls[c].rule] = "live"
      BY <1>0, <2>0, <2>1, MoveTypes DEF Confirm, Stage
    <3>2. x \in CallState /\ Sound(x) /\ calls' = [calls EXCEPT ![c] = x]
      BY <1>0, <2>0, <2>1, <3>1 DEF CallState, Sound, StillTold, Advance
    <3> HIDE DEF x
    <3> QED BY <1>2, <1>4, <2>0, <3>1, <3>2 DEF BlockServed
  <2>2. CASE Fail(calls[c].rule) /\ Advance(c, "error")
    <3> DEFINE x == [calls[c] EXCEPT !.phase = "error"]
    <3>1. LedgerTypeOK' /\ StaysTold
      BY <1>0, <2>0, <2>2, LedgerKeeps DEF LedgerNext
    <3>2. x \in CallState /\ Sound(x) /\ calls' = [calls EXCEPT ![c] = x]
      BY <1>0, <2>0, <2>2 DEF CallState, Sound, Advance
    <3> HIDE DEF x
    <3> QED BY <1>2, <1>4, <2>0, <3>1, <3>2 DEF BlockServed
  <2> QED BY <1>4, <2>1, <2>2 DEF BlockServed
<1>5. ASSUME NEW c \in Call, ServeUnblock(c) PROVE IInv'
  <2> DEFINE x == [calls[c] EXCEPT !.phase = IF stage[calls[c].rule] = "live" THEN "accepted" ELSE "error"]
  <2>0. calls[c].op = "unblock" /\ calls[c].phase = "sent" /\ calls[c].rule \in Rule
    BY <1>5 DEF ServeUnblock, IInv, Promised
  <2>1. LedgerTypeOK' /\ StaysTold
    BY <1>5, LedgerStays DEF ServeUnblock
  <2>2. x \in CallState /\ Sound(x) /\ calls' = [calls EXCEPT ![c] = x]
    BY <1>0, <1>5, <2>0 DEF ServeUnblock, CallState, Sound, Advance
  <2> HIDE DEF x
  <2> QED BY <1>2, <1>5, <2>0, <2>1, <2>2 DEF ServeUnblock
<1>6. ASSUME NEW c \in Call, UnblockServed(c) PROVE IInv'
  <2>0. calls[c].op = "unblock" /\ calls[c].phase = "accepted" /\ calls[c].rule \in Rule
    BY <1>6 DEF UnblockServed, IInv, Promised
  <2>1. CASE Advance(c, "ok") /\ (Lift(calls[c].rule) \/ (stage[calls[c].rule] = "lifted" /\ UNCHANGED ledgerVars))
    <3> DEFINE x == [calls[c] EXCEPT !.phase = "ok"]
    <3>1. LedgerTypeOK' /\ StaysTold /\ stage'[calls[c].rule] = "lifted"
      <4>1. CASE Lift(calls[c].rule)
        BY <1>0, <2>0, <4>1, MoveTypes DEF Lift, Stage
      <4>2. CASE stage[calls[c].rule] = "lifted" /\ UNCHANGED ledgerVars
        BY <2>0, <4>2, LedgerStays DEF ledgerVars
      <4> QED BY <2>1, <4>1, <4>2
    <3>2. x \in CallState /\ Sound(x) /\ calls' = [calls EXCEPT ![c] = x]
      BY <1>0, <2>0, <2>1, <3>1 DEF CallState, Sound, StillTold, Advance
    <3> HIDE DEF x
    <3> QED BY <1>2, <1>6, <2>0, <3>1, <3>2 DEF UnblockServed
  <2>2. CASE Advance(c, "error") /\ UNCHANGED ledgerVars
    <3> DEFINE x == [calls[c] EXCEPT !.phase = "error"]
    <3>1. LedgerTypeOK' /\ StaysTold
      BY <2>2, LedgerStays
    <3>2. x \in CallState /\ Sound(x) /\ calls' = [calls EXCEPT ![c] = x]
      BY <1>0, <2>0, <2>2 DEF CallState, Sound, Advance
    <3> HIDE DEF x
    <3> QED BY <1>2, <1>6, <2>0, <3>1, <3>2 DEF UnblockServed
  <2> QED BY <1>6, <2>1, <2>2 DEF UnblockServed
<1>7. ASSUME NEW l \in Load, ReadRules(l) PROVE IInv'
  <2>1. LedgerTypeOK' /\ StaysTold
    BY <1>7, LedgerStays DEF ReadRules
  <2>2. TypeOK'
    BY <1>0, <1>7, <2>1, RulesAreRead, WidgetsKept, TypesTogether DEF ReadRules
  <2>3. Banner' /\ Promised'
    BY <1>7, <2>1, BannerStays, PromisesStay DEF ReadRules
  <2> QED BY <1>7, <2>2, <2>3, RulesAreRead DEF IInv
<1> QED BY <1>1, <1>3, <1>4, <1>5, <1>6, <1>7 DEF Requests

\* Loads, and what the page does of itself.
LEMMA LoadsKeep ==
    ASSUME IInv, NEW l \in Load, Poll(l) \/ Refresh(l) \/ LoadDone(l) \/ LoadFails(l)
    PROVE  IInv'
<1> USE DEF banner, buttons, counters
<1>0. /\ calls \in [Call -> CallState] /\ loads \in [Load -> LoadState] /\ Widgets
      /\ LedgerTypeOK' /\ UNCHANGED <<stage, held>>
  <2>1. UNCHANGED ledgerVars
    BY DEF Poll, Refresh, LoadDone, LoadFails
  <2> QED BY <2>1, LedgerStays DEF IInv, TypeOK, Widgets, ledgerVars
<1>1. CASE Poll(l) \/ Refresh(l)
  <2>1. PICK spinner \in BOOLEAN : BeginLoad(l, spinner, "none")
    BY <1>1 DEF Poll, Refresh
  <2>2. /\ loads' \in [Load -> LoadState] /\ loading' \in BOOLEAN
        /\ Banner' /\ Promised' /\ AwaitedLoads' /\ ReadAfter'
    BY <1>0, <1>1, <2>1, LoadBegins DEF Poll, Refresh
  <2>3. UNCHANGED <<rules, error, submitting, removingId, faults>> /\ acts' \in 0..MaxActs
    <3>1. CASE Poll(l)
      BY <1>0, <3>1 DEF Poll, Widgets
    <3>2. CASE Refresh(l)
      <4>1. UNCHANGED <<rules, error, submitting, removingId, faults>> /\ acts < MaxActs /\ acts' = acts + 1
        BY <3>2 DEF Refresh, Act
      <4> QED BY <1>0, <4>1 DEF Widgets
    <3> QED BY <1>1, <3>1, <3>2
  <2>4. Widgets'
    BY <1>0, <2>2, <2>3 DEF Widgets
  <2> QED BY <1>0, <1>1, <2>2, <2>4, TypesTogether DEF Poll, Refresh, IInv
<1>2. CASE LoadDone(l) \/ LoadFails(l)
  <2>1. Returned(l) /\ UNCHANGED info
    BY <1>2 DEF LoadDone, LoadFails
  <2>2. /\ loads' \in [Load -> LoadState] /\ calls' \in [Call -> CallState]
        /\ loading' \in BOOLEAN /\ submitting' \in BOOLEAN /\ removingId' \in Rule \cup {"none"}
        /\ Banner' /\ Promised' /\ AwaitedLoads' /\ ReadAfter'
    BY <1>0, <2>1, LoadReturns
  <2>3. rules' \in Stages
    BY <1>0, <1>2 DEF LoadDone, LoadFails, LoadState, Widgets
  <2>4. error' \in BOOLEAN /\ acts' \in 0..MaxActs /\ faults' \in 0..MaxFaults
    <3>1. CASE LoadDone(l)
      <4>1. error' = FALSE /\ UNCHANGED <<acts, faults>>
        BY <3>1 DEF LoadDone
      <4> QED BY <1>0, <4>1 DEF Widgets
    <3>2. CASE LoadFails(l)
      <4>1. error' = TRUE /\ UNCHANGED acts /\ faults < MaxFaults /\ faults' = faults + 1
        BY <3>2 DEF LoadFails, Fault
      <4> QED BY <1>0, <4>1 DEF Widgets
    <3> QED BY <1>2, <3>1, <3>2
  <2>5. Widgets'
    BY <2>2, <2>3, <2>4 DEF Widgets
  <2> QED BY <1>0, <2>2, <2>5, TypesTogether DEF IInv
<1> QED BY <1>1, <1>2

\* The operator's calls and their ends.
LEMMA CallsKeep ==
    ASSUME IInv, NEW c \in Call,
           \/ HandleBlock(c) \/ CallRefused(c) \/ CallFails(c)
           \/ \E r \in Rule : HandleUnblock(c, r)
           \/ \E l \in Load : CallDone(c, l)
    PROVE  IInv'
<1> USE DEF banner, buttons, counters
<1>0. /\ calls \in [Call -> CallState] /\ loads \in [Load -> LoadState] /\ Widgets
      /\ LedgerTypeOK' /\ StaysTold
  <2>1. UNCHANGED ledgerVars
    BY DEF HandleBlock, CallRefused, CallFails, HandleUnblock, CallDone, Rejected
  <2> QED BY <2>1, LedgerStays DEF IInv, TypeOK, Widgets
<1>1. ASSUME NEW x \in CallState, calls' = [calls EXCEPT ![c] = x], calls[c].phase # "reload",
             Sound(x), info' \in {info, <<>>}, UNCHANGED loads, Widgets'
      PROVE  IInv'
  BY <1>0, <1>1, CallAdvances, TypesTogether DEF IInv
<1>2. CASE HandleBlock(c)
  <2> DEFINE x == [op |-> "block", rule |-> "none", phase |-> "sent"]
  <2>1. x \in CallState /\ Sound(x) /\ calls[c].phase # "reload" /\ calls' = [calls EXCEPT ![c] = x]
    BY <1>2 DEF HandleBlock, NoCall, CallState, Sound
  <2>2. info' = <<>> /\ error' = FALSE /\ submitting' = TRUE /\ acts' \in 0..MaxActs
        /\ UNCHANGED <<rules, loading, removingId, loads, faults>>
    BY <1>0, <1>2 DEF HandleBlock, Clear, Act, Widgets
  <2>3. Widgets'
    BY <1>0, <2>2 DEF Widgets
  <2> HIDE DEF x
  <2> QED BY <1>1, <2>1, <2>2, <2>3
<1>3. ASSUME NEW r \in Rule, HandleUnblock(c, r) PROVE IInv'
  <2> DEFINE x == [op |-> "unblock", rule |-> r, phase |-> "sent"]
  <2>1. x \in CallState /\ Sound(x) /\ calls[c].phase # "reload" /\ calls' = [calls EXCEPT ![c] = x]
    BY <1>3 DEF HandleUnblock, NoCall, CallState, Sound
  <2>2. info' = <<>> /\ error' = FALSE /\ removingId' = r /\ acts' \in 0..MaxActs
        /\ UNCHANGED <<rules, loading, submitting, loads, faults>>
    BY <1>0, <1>3 DEF HandleUnblock, Clear, Act, Widgets
  <2>3. Widgets'
    BY <1>0, <2>2 DEF Widgets
  <2> HIDE DEF x
  <2> QED BY <1>1, <2>1, <2>2, <2>3
<1>4. CASE CallRefused(c) \/ CallFails(c)
  <2>1. NoCall \in CallState /\ Sound(NoCall)
    BY DEF NoCall, CallState, Sound
  <2>2. Rejected(c) /\ calls[c].phase # "reload" /\ faults' \in 0..MaxFaults
    BY <1>0, <1>4 DEF CallRefused, CallFails, Fault, Widgets
  <2>3. /\ calls' = [calls EXCEPT ![c] = NoCall] /\ error' = TRUE
        /\ submitting' \in {submitting, FALSE} /\ removingId' \in {removingId, "none"}
        /\ UNCHANGED <<rules, loading, info, loads, acts>>
    BY <2>2 DEF Rejected
  <2>4. Widgets'
    BY <1>0, <2>2, <2>3 DEF Widgets
  <2> QED BY <1>1, <2>1, <2>2, <2>3, <2>4
<1>5. ASSUME NEW l \in Load, CallDone(c, l) PROVE IInv'
  <2>1. Widgets'
    BY <1>0, <1>5, CallReports DEF CallDone, Widgets
  <2> QED BY <1>0, <1>5, <2>1, CallReports, TypesTogether DEF IInv
<1> QED BY <1>2, <1>3, <1>4, <1>5

LEMMA IInvStep == IInv /\ [Next]_vars => IInv'
<1> SUFFICES ASSUME IInv, [Next]_vars PROVE IInv'
  OBVIOUS
<1>1. CASE UNCHANGED vars
  <2>1. UNCHANGED <<rules, loading, error, info, removingId, submitting, loads, calls, acts, faults>>
    BY <1>1 DEF vars, banner, buttons, counters
  <2>2. LedgerTypeOK' /\ StaysTold
    BY <1>1, LedgerStays DEF vars
  <2>3. TypeOK'
    BY <2>1, <2>2, WidgetsKept, TypesTogether DEF IInv, TypeOK
  <2> QED BY <2>1, <2>2, <2>3, BannerStays, PromisesStay DEF IInv, AwaitedLoads, ReadAfter
<1> QED BY <1>1, ServerKeeps, LoadsKeep, CallsKeep DEF Next, Answers, Failures, Operator

LEMMA IInvHolds == Spec => []IInv
BY IInvInit, IInvStep, PTL DEF Spec

-----------------------------------------------------------------------------

\* The types of the rules, the page, its loads and its calls.
THEOREM TypeCorrect == Spec => []TypeOK
<1>1. IInv => TypeOK
  BY DEF IInv
<1> QED BY <1>1, IInvHolds, PTL

\* What the page tells of a block or an unblock is true as long as it stands there.
THEOREM BannerIsTrue == Spec => []BannerTrue
<1>1. IInv => BannerTrue
  BY DEF IInv, Banner, BannerTrue, Told
<1> QED BY <1>1, IInvHolds, PTL

\* The list that an unblock returns with does not show its rule as ACTIVE.
THEOREM UnblockIsSeen == Spec => UnblockSeen
<1>1. IInv /\ [Next]_vars =>
        [\A l \in Load :
          (LoadDone(l) /\ loads[l].caller # "none" /\ calls[loads[l].caller].op = "unblock")
              => rules'[calls[loads[l].caller].rule] = "lifted"]_vars
  BY DEF IInv, ReadAfter, LoadDone
<1> QED BY <1>1, IInvHolds, PTL DEF Spec, UnblockSeen
=============================================================================
