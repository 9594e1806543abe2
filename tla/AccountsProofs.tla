--------------------------- MODULE AccountsProofs ---------------------------
(***************************************************************************)
(* Theorems about Accounts, for any number of tabs, accounts, acts of the  *)
(* users and failed requests.                                              *)
(***************************************************************************)
EXTENDS Accounts, FiniteSetTheorems, TLAPS

Registering ==
    [tab : Tab \cup {None}, mounted : BOOLEAN, form : Form,
     at : Running \cup Refusals \cup {"created"}]

LoggingIn ==
    [tab : Tab \cup {None}, mounted : BOOLEAN, name : Name,
     at : {"received", "welcome", "refused"}, token : Nat]

Pages == AuthPages \cup AppPages \cup {"away"}

\* The types, and what a fetchMe() may carry.
Shape ==
    /\ users \subseteq Form
    /\ registers \subseteq Registering
    /\ logins \subseteq LoggingIn
    /\ owner \in Seq(Name)
    /\ storage \in Nat \cup {None}
    /\ page \in [Tab -> Pages]
    /\ token \in [Tab -> Nat \cup {None}]
    /\ user \in [Tab -> Name \cup {None}]
    /\ loading \in [Tab -> BOOLEAN]
    /\ effect \in [Tab -> BOOLEAN]
    /\ mes \in [Tab -> SUBSET (DOMAIN owner \cup {Bad})]

\* Who waits for an answer has not left its page, and an answer is for somebody.
Attended ==
    /\ \A r \in registers : IF r.tab = None THEN r.at \in Running ELSE page[r.tab] # "away"
    /\ \A r \in logins : IF r.tab = None THEN r.at = "received" ELSE page[r.tab] # "away"

\* A tab with a token has a user, or is going to ask for one.
Asked == \A t \in Tab : token[t] # None /\ ~effect[t] /\ mes[t] = {} => user[t] # None

\* Whatever holds a token holds one that was issued.
Issued ==
    /\ expired \subseteq DOMAIN owner
    /\ storage \in DOMAIN owner \cup {None}
    /\ token \in [Tab -> DOMAIN owner \cup {None}]
    /\ calls \in [Tab -> SUBSET (DOMAIN owner \cup {Bad})]
    /\ \A r \in logins : r.token \in DOMAIN owner \cup (IF r.at = "welcome" THEN {} ELSE {Bad})

Received(requests) == {r \in requests : r.at = "received"}

\* Each token, the one of an earlier session aside, and each login that may
\* still get one goes back to an act of its own.
Counted ==
    /\ IsFiniteSet(Received(logins))
    /\ Len(owner) + Cardinality(Received(logins)) <= acts + 1
    /\ acts \in 0..MaxActs /\ faults \in 0..MaxFaults

IInv ==
    /\ Shape /\ AccountsUnique /\ RegistrationHonest /\ Attended /\ LoadingHonest /\ Asked
    /\ Issued /\ Counted

-----------------------------------------------------------------------------
(* The sets of requests.                                                   *)

\* Leaving a tab keeps the stage and the form of a registration, and the tab of
\* those that go on is another.
LEMMA OrphanedRegisters ==
    ASSUME NEW S \in SUBSET Registering, NEW t \in Tab, NEW q \in Orphaned(S, t, Running)
    PROVE  /\ q \in Registering
           /\ q.tab # t
           /\ q \in S \/ (q.tab = None /\ q.at \in Running)
           /\ \E r \in S : q.at = r.at /\ q.form = r.form
<1>1. CASE q \in S /\ q.tab # t
  BY <1>1 DEF Registering
<1>2. ASSUME NEW r \in S, q = [r EXCEPT !.tab = None, !.mounted = FALSE]
      PROVE  q \in Registering /\ q.tab = None /\ q.at = r.at /\ q.form = r.form
  <2>1. r \in Registering
    OBVIOUS
  <2> QED BY <2>1, <1>2 DEF Registering
<1>3. None # t
  BY AccountsAssumption
<1>4. \/ q \in S /\ q.tab # t
      \/ \E r \in S : r.at \in Running /\ q = [r EXCEPT !.tab = None, !.mounted = FALSE]
  BY DEF Orphaned
<1> QED BY <1>1, <1>2, <1>3, <1>4

LEMMA OrphanedLogins ==
    ASSUME NEW S \in SUBSET LoggingIn, NEW t \in Tab, NEW q \in Orphaned(S, t, {"received"})
    PROVE  /\ q \in LoggingIn
           /\ q.tab # t
           /\ q \in S \/ (q.tab = None /\ q.at = "received")
           /\ \E r \in S : q.at = r.at /\ q.token = r.token
<1>1. CASE q \in S /\ q.tab # t
  BY <1>1 DEF LoggingIn
<1>2. ASSUME NEW r \in S, q = [r EXCEPT !.tab = None, !.mounted = FALSE]
      PROVE  q \in LoggingIn /\ q.tab = None /\ q.at = r.at /\ q.token = r.token
  <2>1. r \in LoggingIn
    OBVIOUS
  <2> QED BY <2>1, <1>2 DEF LoggingIn
<1>3. None # t
  BY AccountsAssumption
<1>4. \/ q \in S /\ q.tab # t
      \/ \E r \in S : r.at = "received" /\ q = [r EXCEPT !.tab = None, !.mounted = FALSE]
  BY DEF Orphaned
<1> QED BY <1>1, <1>2, <1>3, <1>4

\* Unmounting a form changes neither the tab, the stage nor the form.
LEMMA UnmountedRegisters ==
    ASSUME NEW S \in SUBSET Registering, NEW t, NEW q \in Unmounted(S, t)
    PROVE  q \in Registering /\ \E r \in S : q.at = r.at /\ q.form = r.form /\ q.tab = r.tab
<1>1. PICK r \in S : q = IF r.tab = t THEN [r EXCEPT !.mounted = FALSE] ELSE r
  BY DEF Unmounted
<1>2. r \in Registering
  OBVIOUS
<1> QED BY <1>1, <1>2 DEF Registering

LEMMA UnmountedLogins ==
    ASSUME NEW S \in SUBSET LoggingIn, NEW t, NEW q \in Unmounted(S, t)
    PROVE  q \in LoggingIn /\ \E r \in S : q.at = r.at /\ q.tab = r.tab /\ q.token = r.token
<1>1. PICK r \in S : q = IF r.tab = t THEN [r EXCEPT !.mounted = FALSE] ELSE r
  BY DEF Unmounted
<1>2. r \in LoggingIn
  OBVIOUS
<1> QED BY <1>1, <1>2 DEF LoggingIn

-----------------------------------------------------------------------------
(* Accounts.                                                               *)

\* A new document of any tab.
LEMMA DocumentKeepsForms ==
    ASSUME Shape, NEW t \in Tab, NEW p, NEW tok, Document(t, p, tok)
    PROVE  \A q \in registers' : \E r \in registers : q.at = r.at /\ q.form = r.form
BY OrphanedRegisters DEF Shape, Document

\* The steps that neither check nor commit: whatever is answered after them was
\* answered before.
OldAnswers ==
    /\ UNCHANGED users
    /\ \A q \in registers' : q.at \in Running \/ \E r \in registers : q.at = r.at /\ q.form = r.form

LEMMA SessionOldAnswers ==
    ASSUME Shape, NEW t \in Tab, Session(t)
    PROVE  OldAnswers
<1>1. CASE EffectWithout(t) \/ EffectFetchMe(t) \/ Poll(t)
  BY <1>1 DEF EffectWithout, EffectFetchMe, Poll, Call, server, OldAnswers
<1>2. ASSUME NEW s \in mes[t], MeDone(t, s) PROVE OldAnswers
  BY <1>2 DEF MeDone, server, OldAnswers
<1>3. ASSUME NEW s \in mes[t], MeRefused(t, s) PROVE OldAnswers
  BY <1>3, DocumentKeepsForms DEF MeRefused, GiveUpSession, Redirect, server, OldAnswers
<1>4. ASSUME NEW s \in calls[t], CallRefused(t, s) PROVE OldAnswers
  BY <1>4, DocumentKeepsForms DEF CallRefused, Redirect, server, OldAnswers
<1>5. ASSUME NEW s \in calls[t], CallDone(t, s) PROVE OldAnswers
  BY <1>5 DEF CallDone, server, OldAnswers
<1>6. CASE OpenLogin(t)
  BY <1>6, DocumentKeepsForms DEF OpenLogin, OldAnswers
<1> QED BY <1>1, <1>2, <1>3, <1>4, <1>5, <1>6 DEF Session, Goes

LEMMA OperatorOldAnswers ==
    ASSUME Shape, NEW t \in Tab, Operator(t)
    PROVE  OldAnswers
<1>1. CASE Link(t)
  BY <1>1, UnmountedRegisters DEF Link, OldAnswers, Shape
<1>2. CASE LoadFlows(t) \/ Logout(t)
  BY <1>2 DEF LoadFlows, Logout, Call, server, OldAnswers
<1>3. ASSUME NEW p, Visit(t, p) PROVE OldAnswers
  BY <1>3, DocumentKeepsForms DEF Visit, OldAnswers
<1>4. ASSUME NEW n \in Name, SubmitLogin(t, n) PROVE OldAnswers
  BY <1>4 DEF SubmitLogin, OldAnswers
<1>5. ASSUME NEW f \in Form, SubmitRegister(t, f) PROVE OldAnswers
  <2> DEFINE new == [tab |-> t, mounted |-> TRUE, form |-> f, at |-> "received"]
  <2>1. new.at \in Running
    BY DEF Running
  <2>2. UNCHANGED users /\ registers' = registers \cup {new}
    BY <1>5 DEF SubmitRegister
  <2> HIDE DEF new
  <2> QED BY <2>1, <2>2 DEF OldAnswers
<1> QED BY <1>1, <1>2, <1>3, <1>4, <1>5 DEF Operator

LEMMA LoginOldAnswers ==
    ASSUME Shape, Attended, NEW r \in logins,
           ServeLogin(r) \/ RefuseLogin(r) \/ LoginDone(r) \/ LoginRefused(r) \/ LoginTimeout(r)
    PROVE  OldAnswers
<1>1. CASE ServeLogin(r) \/ RefuseLogin(r) \/ LoginTimeout(r)
  BY <1>1 DEF ServeLogin, RefuseLogin, LoginTimeout, OldAnswers
<1>2. CASE LoginDone(r)
  BY <1>2, UnmountedRegisters DEF LoginDone, OldAnswers, Shape
<1>3. CASE LoginRefused(r) /\ page[r.tab] \in AuthPages
  BY <1>3 DEF LoginRefused, OldAnswers
<1>4. CASE LoginRefused(r) /\ page[r.tab] \notin AuthPages
  <2>1. CASE r.tab \in Tab
    BY <1>4, <2>1, DocumentKeepsForms DEF LoginRefused, Redirect, OldAnswers
  <2>2. r.at = "refused"
    BY <1>4 DEF LoginRefused
  <2>3. r.tab \in Tab
    BY <2>2 DEF Attended, Shape, LoggingIn
  <2> QED BY <2>1, <2>3
<1> QED BY <1>1, <1>2, <1>3, <1>4

LEMMA RegistrationAnswers ==
    ASSUME Shape, AccountsUnique, RegistrationHonest, NEW r \in registers,
           CheckName(r) \/ CheckEmail(r) \/ Commit(r) \/ RegisterDone(r) \/ RegisterTimeout(r)
    PROVE  AccountsUnique' /\ RegistrationHonest'
<1>0. r \in Registering
  BY DEF Shape
<1>1. ASSUME NEW at, Stage(r, at), NEW q \in registers'
      PROVE  q \in registers \/ (q.form = r.form /\ q.at = at)
  BY <1>0, <1>1 DEF Stage, Registering
<1>2. CASE CheckName(r)
  <2>1. UNCHANGED users
    BY <1>2 DEF CheckName
  <2>2. \A q \in registers' : \/ q \in registers
                              \/ q.form = r.form /\ q.at = "name free"
                              \/ q.form = r.form /\ q.at = "name taken" /\ NameUsed(r.form)
    BY <1>2, <1>1 DEF CheckName
  <2> QED BY <2>1, <2>2 DEF AccountsUnique, Unique, RegistrationHonest, NameUsed, EmailUsed, Running, Refusals
<1>3. CASE CheckEmail(r)
  <2>1. UNCHANGED users
    BY <1>3 DEF CheckEmail
  <2>2. \A q \in registers' : \/ q \in registers
                              \/ q.form = r.form /\ q.at = "hashed"
                              \/ q.form = r.form /\ q.at = "email taken" /\ EmailUsed(r.form)
    BY <1>3, <1>1 DEF CheckEmail
  <2> QED BY <2>1, <2>2 DEF AccountsUnique, Unique, RegistrationHonest, NameUsed, EmailUsed, Running, Refusals
<1>4. CASE Commit(r) /\ (NameUsed(r.form) \/ EmailUsed(r.form))
  <2>1. UNCHANGED users
    BY <1>4 DEF Commit
  <2>2. \A q \in registers' : q \in registers \/ (q.form = r.form /\ q.at = "conflict")
    BY <1>4, <1>1 DEF Commit
  <2> QED BY <1>4, <2>1, <2>2 DEF AccountsUnique, Unique, RegistrationHonest, NameUsed, EmailUsed, Running, Refusals
<1>5. CASE Commit(r) /\ ~NameUsed(r.form) /\ ~EmailUsed(r.form)
  <2>1. users' = users \cup {r.form}
    BY <1>5 DEF Commit
  <2>2. \A q \in registers' : q \in registers \/ (q.form = r.form /\ q.at = "created")
    BY <1>5, <1>1 DEF Commit
  <2>3. AccountsUnique'
    BY <1>5, <2>1 DEF AccountsUnique, Unique, NameUsed, EmailUsed
  <2>4. RegistrationHonest'
    BY <2>1, <2>2 DEF RegistrationHonest, NameUsed, EmailUsed, Refusals
  <2> QED BY <2>3, <2>4
<1>6. CASE RegisterDone(r)
  <2>1. UNCHANGED users
    BY <1>6 DEF RegisterDone
  <2>2. registers \ {r} \in SUBSET Registering
    BY DEF Shape
  <2>3. \A q \in registers' : \E p \in registers : q.at = p.at /\ q.form = p.form
    BY <1>6, <2>2, UnmountedRegisters DEF RegisterDone
  <2> QED BY <2>1, <2>3 DEF AccountsUnique, Unique, RegistrationHonest, NameUsed, EmailUsed
<1>7. CASE RegisterTimeout(r)
  <2>1. UNCHANGED users
    BY <1>7 DEF RegisterTimeout
  <2>2. \A q \in registers' : \E p \in registers : q.at = p.at /\ q.form = p.form
    BY <1>0, <1>7 DEF RegisterTimeout, Registering
  <2> QED BY <2>1, <2>2 DEF AccountsUnique, Unique, RegistrationHonest, NameUsed, EmailUsed
<1> QED BY <1>2, <1>3, <1>4, <1>5, <1>6, <1>7

LEMMA AccountsStep ==
    ASSUME Shape, Attended, AccountsUnique, RegistrationHonest, [Next]_vars
    PROVE  AccountsUnique' /\ RegistrationHonest'
<1>1. CASE OldAnswers
  <2>1. ASSUME NEW q \in registers'
        PROVE  /\ q.at = "created" => q.form \in users
               /\ q.at \in Refusals => NameUsed(q.form) \/ EmailUsed(q.form)
    <3>1. CASE q.at \in Running
      BY <3>1 DEF Running, Refusals
    <3>2. CASE \E r \in registers : q.at = r.at /\ q.form = r.form
      BY <3>2 DEF RegistrationHonest
    <3> QED BY <1>1, <3>1, <3>2 DEF OldAnswers
  <2>2. UNCHANGED users
    BY <1>1 DEF OldAnswers
  <2> QED BY <2>1, <2>2 DEF AccountsUnique, Unique, RegistrationHonest, NameUsed, EmailUsed
<1>2. CASE UNCHANGED vars
  BY <1>2 DEF vars, server, AccountsUnique, Unique, RegistrationHonest, NameUsed, EmailUsed
<1>3. ASSUME NEW t \in Tab, Session(t) \/ Operator(t) PROVE OldAnswers
  BY <1>3, SessionOldAnswers, OperatorOldAnswers
<1>4. CASE Login
  BY <1>1, <1>4, LoginOldAnswers DEF Login
<1>5. CASE Registration
  BY <1>5, RegistrationAnswers DEF Registration
<1>6. CASE Faults
  <2>1. ASSUME NEW t \in Tab, NEW s \in mes[t], MeFails(t, s) PROVE OldAnswers
    BY <2>1 DEF MeFails, GiveUpSession, server, OldAnswers
  <2> QED BY <1>1, <1>6, <2>1, LoginOldAnswers, RegistrationAnswers DEF Faults
<1>7. ASSUME NEW k \in DOMAIN owner, Expire(k) PROVE OldAnswers
  BY <1>7 DEF Expire, OldAnswers
<1> QED BY <1>1, <1>2, <1>3, <1>4, <1>5, <1>6, <1>7 DEF Next

-----------------------------------------------------------------------------
(* Sessions.                                                               *)

\* What a step may do to the tab t without breaking its session.
Sound(t) ==
    /\ loading[t]' => page[t]' = "away" \/ effect[t]' \/ mes[t]' # {}
    /\ token[t]' # None /\ ~effect[t]' /\ mes[t]' = {} => user[t]' # None

Untouched(t) ==
    /\ page'[t] = page[t] /\ token'[t] = token[t] /\ user'[t] = user[t]
    /\ loading'[t] = loading[t] /\ effect'[t] = effect[t] /\ mes'[t] = mes[t]

LEMMA UntouchedSound ==
    ASSUME LoadingHonest, Asked, NEW t \in Tab, Untouched(t)
    PROVE  Sound(t)
BY DEF LoadingHonest, Asked, Untouched, Sound

LEMMA DocumentSound ==
    ASSUME Shape, LoadingHonest, Asked, NEW t \in Tab, NEW p \in Pages, NEW tok,
           p = "away" => tok = None, Document(t, p, tok), NEW u \in Tab
    PROVE  Sound(u)
<1>1. CASE u = t
  BY <1>1 DEF Document, Shape, Sound
<1>2. CASE u # t
  BY <1>2, UntouchedSound DEF Document, Shape, Untouched
<1> QED BY <1>1, <1>2

\* Rendering a tab whose document is there ends no loading and starts none.
LEMMA RenderSound ==
    ASSUME Shape, LoadingHonest, Asked, NEW t \in Tab, NEW p, NEW tok, NEW load \in BOOLEAN,
           page[t] # "away", Render(t, p, tok, load), load => loading[t],
           mes' = mes, user'[t] = user[t] \/ tok = None,
           \A u \in Tab \ {t} : user'[u] = user[u], NEW u \in Tab
    PROVE  Sound(u)
<1>1. CASE u = t
  BY <1>1 DEF Render, Shape, LoadingHonest, Asked, Sound
<1>2. CASE u # t
  BY <1>2, UntouchedSound DEF Render, Shape, Untouched
<1> QED BY <1>1, <1>2

\* Neither outcome of fetchMe() leaves a tab loading, or signed in without a user.
LEMMA AnswerSound ==
    ASSUME Shape, LoadingHonest, Asked, NEW t \in Tab, NEW s \in mes[t],
           MeDone(t, s) \/ GiveUpSession(t, s), NEW u \in Tab
    PROVE  Sound(u)
<1>1. CASE u = t /\ MeDone(t, s)
  <2>1. owner[s] \in Name /\ owner[s] # None
    BY <1>1, AccountsAssumption DEF MeDone, Shape
  <2> QED BY <1>1, <2>1 DEF MeDone, Render, Shape, Sound
<1>2. CASE u = t /\ GiveUpSession(t, s)
  BY <1>2 DEF GiveUpSession, Render, Shape, Sound
<1>3. CASE u # t
  BY <1>3, UntouchedSound DEF MeDone, GiveUpSession, Render, Shape, Untouched
<1> QED BY <1>1, <1>2, <1>3

LEMMA SessionSound ==
    ASSUME Shape, LoadingHonest, Asked, NEW t \in Tab, Session(t), NEW u \in Tab
    PROVE  Sound(u)
<1>1. CASE EffectWithout(t)
  <2>1. CASE u = t
    BY <1>1, <2>1 DEF EffectWithout, Shape, Sound
  <2>2. CASE u # t
    BY <1>1, <2>2, UntouchedSound DEF EffectWithout, Shape, Untouched
  <2> QED BY <2>1, <2>2
<1>2. CASE EffectFetchMe(t)
  <2>1. CASE u = t
    BY <1>2, <2>1 DEF EffectFetchMe, Shape, Sound
  <2>2. CASE u # t
    BY <1>2, <2>2, UntouchedSound DEF EffectFetchMe, Shape, Untouched
  <2> QED BY <2>1, <2>2
<1>3. CASE Poll(t)
  BY <1>3, UntouchedSound DEF Poll, Call, context, Untouched
<1>4. ASSUME NEW s \in mes[t], MeDone(t, s) PROVE Sound(u)
  BY <1>4, AnswerSound
<1>5. ASSUME NEW s \in mes[t], MeRefused(t, s) PROVE Sound(u)
  BY <1>5, AnswerSound, DocumentSound DEF MeRefused, Redirect, Pages
<1>6. ASSUME NEW s \in calls[t], CallRefused(t, s) PROVE Sound(u)
  <2>1. CASE page[t] \in AuthPages
    BY <1>6, <2>1, UntouchedSound DEF CallRefused, context, Untouched
  <2>2. CASE page[t] \notin AuthPages
    BY <1>6, <2>2, DocumentSound DEF CallRefused, Redirect, Pages
  <2> QED BY <2>1, <2>2
<1>7. ASSUME NEW s \in calls[t], CallDone(t, s) PROVE Sound(u)
  BY <1>7, UntouchedSound DEF CallDone, context, Untouched
<1>8. CASE OpenLogin(t)
  BY <1>8, DocumentSound DEF OpenLogin, Pages, AuthPages
<1> QED BY <1>1, <1>2, <1>3, <1>4, <1>5, <1>6, <1>7, <1>8 DEF Session, Goes

LEMMA OperatorSound ==
    ASSUME Shape, LoadingHonest, Asked, NEW t \in Tab, Operator(t), NEW u \in Tab
    PROVE  Sound(u)
<1>1. CASE Link(t)
  <2>1. CASE u = t
    BY <1>1, <2>1 DEF Link, context, LoadingHonest, Asked, Sound
  <2>2. CASE u # t
    BY <1>1, <2>2, UntouchedSound DEF Link, context, Shape, Untouched
  <2> QED BY <2>1, <2>2
<1>2. CASE LoadFlows(t)
  BY <1>2, UntouchedSound DEF LoadFlows, Call, context, Untouched
<1>3. CASE Logout(t)
  <2>1. page[t] # "away" /\ loading[t] \in BOOLEAN
    BY <1>3 DEF Logout, AppPages, Shape
  <2>2. \A v \in Tab \ {t} : user'[v] = user[v]
    BY <1>3 DEF Logout, Shape
  <2> QED BY <1>3, <2>1, <2>2, RenderSound DEF Logout
<1>4. ASSUME NEW p \in {"login", "live"}, Visit(t, p) PROVE Sound(u)
  BY <1>4, DocumentSound DEF Visit, Pages, AuthPages, AppPages
<1>5. ASSUME NEW n \in Name, SubmitLogin(t, n) PROVE Sound(u)
  BY <1>5, UntouchedSound DEF SubmitLogin, browser, context, Untouched
<1>6. ASSUME NEW f \in Form, SubmitRegister(t, f) PROVE Sound(u)
  BY <1>6, UntouchedSound DEF SubmitRegister, browser, context, Untouched
<1> QED BY <1>1, <1>2, <1>3, <1>4, <1>5, <1>6 DEF Operator

LEMMA RequestSound ==
    ASSUME Shape, Attended, LoadingHonest, Asked, Login \/ Registration \/ Faults, NEW u \in Tab
    PROVE  Sound(u)
<1>1. ASSUME UNCHANGED browser PROVE Sound(u)
  BY <1>1, UntouchedSound DEF browser, context, Untouched
<1>2. ASSUME NEW r \in logins, r.at # "received"
      PROVE  r.tab \in Tab /\ page[r.tab] # "away" /\ loading[r.tab] \in BOOLEAN
  BY <1>2 DEF Attended, Shape, LoggingIn
<1>3. ASSUME NEW r \in logins, ServeLogin(r) \/ RefuseLogin(r) \/ LoginTimeout(r) PROVE Sound(u)
  BY <1>1, <1>3 DEF ServeLogin, RefuseLogin, LoginTimeout
<1>4. ASSUME NEW r \in logins, LoginDone(r) PROVE Sound(u)
  <2>1. r.tab \in Tab /\ page[r.tab] # "away" /\ loading[r.tab] \in BOOLEAN
    BY <1>2, <1>4 DEF LoginDone
  <2> QED BY <1>4, <2>1, RenderSound DEF LoginDone
<1>5. ASSUME NEW r \in logins, LoginRefused(r) PROVE Sound(u)
  <2>1. r.tab \in Tab
    BY <1>2, <1>5 DEF LoginRefused
  <2>2. CASE page[r.tab] \in AuthPages
    BY <1>5, <2>2, UntouchedSound DEF LoginRefused, context, Untouched
  <2>3. CASE page[r.tab] \notin AuthPages
    BY <1>5, <2>1, <2>3, DocumentSound DEF LoginRefused, Redirect, Pages
  <2> QED BY <2>2, <2>3
<1>6. ASSUME NEW r \in registers, CheckName(r) \/ CheckEmail(r) \/ Commit(r) \/ RegisterTimeout(r)
      PROVE  Sound(u)
  BY <1>1, <1>6 DEF CheckName, CheckEmail, Commit, RegisterTimeout
<1>7. ASSUME NEW r \in registers, RegisterDone(r) PROVE Sound(u)
  <2>1. r.tab \in Tab /\ page[r.tab] # "away" /\ loading[r.tab] \in BOOLEAN
    BY <1>7 DEF RegisterDone, Attended, Shape, Registering
  <2>2. CASE r.at = "created"
    BY <1>7, <2>1, <2>2, RenderSound DEF RegisterDone
  <2>3. CASE r.at # "created"
    BY <1>7, <2>3, UntouchedSound DEF RegisterDone, Untouched
  <2> QED BY <2>2, <2>3
<1>8. ASSUME NEW t \in Tab, NEW s \in mes[t], MeFails(t, s) PROVE Sound(u)
  BY <1>8, AnswerSound DEF MeFails
<1> QED BY <1>3, <1>4, <1>5, <1>6, <1>7, <1>8 DEF Login, Registration, Faults

LEMMA SessionsStep ==
    ASSUME Shape, Attended, LoadingHonest, Asked, [Next]_vars
    PROVE  LoadingHonest' /\ Asked'
<1>1. ASSUME NEW u \in Tab PROVE Sound(u)
  <2>1. CASE UNCHANGED vars
    BY <2>1, UntouchedSound DEF vars, browser, context, Untouched
  <2>2. ASSUME NEW k \in DOMAIN owner, Expire(k) PROVE Sound(u)
    BY <2>2, UntouchedSound DEF Expire, browser, context, Untouched
  <2> QED BY <2>1, <2>2, SessionSound, OperatorSound, RequestSound DEF Next
<1> QED BY <1>1 DEF Sound, LoadingHonest, Asked

-----------------------------------------------------------------------------
(* Shape and Attended.                                                     *)

\* What Attended asks of one request, and of the pages between two states.
Waits(q, working) ==
    \/ q.tab = None /\ q.at \in working
    \/ q.tab \in Tab /\ page[q.tab] # "away"

PagesStay == \A u \in Tab : page[u] # "away" => page'[u] # "away"

LEMMA AttendedWaits ==
    ASSUME Shape, Attended
    PROVE  /\ \A r \in registers : Waits(r, Running)
           /\ \A r \in logins : Waits(r, {"received"})
BY DEF Shape, Attended, Waits, Registering, LoggingIn

LEMMA WaitsAttended ==
    ASSUME PagesStay,
           \A q \in registers' : Waits(q, Running),
           \A q \in logins' : Waits(q, {"received"})
    PROVE  Attended'
<1>1. None \notin Tab
  BY AccountsAssumption
<1> QED BY <1>1 DEF PagesStay, Waits, Attended

LEMMA UnmountedWaits ==
    ASSUME Shape, Attended, NEW t
    PROVE  /\ \A S \in SUBSET registers : \A q \in Unmounted(S, t) : q \in Registering /\ Waits(q, Running)
           /\ \A S \in SUBSET logins : \A q \in Unmounted(S, t) : q \in LoggingIn /\ Waits(q, {"received"})
<1>1. ASSUME NEW S \in SUBSET registers, NEW q \in Unmounted(S, t)
      PROVE  q \in Registering /\ Waits(q, Running)
  BY UnmountedRegisters, AttendedWaits DEF Shape, Waits
<1>2. ASSUME NEW S \in SUBSET logins, NEW q \in Unmounted(S, t)
      PROVE  q \in LoggingIn /\ Waits(q, {"received"})
  BY UnmountedLogins, AttendedWaits DEF Shape, Waits
<1> QED BY <1>1, <1>2

LEMMA DocumentShape ==
    ASSUME Shape, Attended, NEW t \in Tab, NEW p \in Pages, NEW tok \in Nat \cup {None},
           Document(t, p, tok), UNCHANGED <<users, owner>>, storage' \in Nat \cup {None}
    PROVE  Shape' /\ Attended'
<1>1. \A q \in registers' : q \in Registering /\ q.tab # t /\ Waits(q, Running)
  BY OrphanedRegisters, AttendedWaits DEF Document, Shape, Waits
<1>2. \A q \in logins' : q \in LoggingIn /\ q.tab # t /\ Waits(q, {"received"})
  BY OrphanedLogins, AttendedWaits DEF Document, Shape, Waits
<1>3. Shape'
  BY <1>1, <1>2 DEF Document, Shape
<1>4. \A u \in Tab \ {t} : page'[u] = page[u]
  BY DEF Document, Shape
<1>5. None \notin Tab
  BY AccountsAssumption
<1> QED BY <1>1, <1>2, <1>3, <1>4, <1>5 DEF Attended, Waits

LEMMA RenderShape ==
    ASSUME Shape, NEW t \in Tab, NEW p \in Pages \ {"away"}, NEW tok \in Nat \cup {None},
           NEW load \in BOOLEAN, Render(t, p, tok, load)
    PROVE  /\ page' \in [Tab -> Pages] /\ PagesStay
           /\ token' \in [Tab -> Nat \cup {None}]
           /\ loading' \in [Tab -> BOOLEAN] /\ effect' \in [Tab -> BOOLEAN]
<1>1. "login" \in Pages \ {"away"}
  BY DEF Pages, AuthPages
<1> QED BY <1>1 DEF Render, Shape, PagesStay

\* Steps that leave the requests alone.
LEMMA SamePagesShape ==
    ASSUME Shape, Attended, UNCHANGED <<registers, logins>>, PagesStay
    PROVE  Attended'
BY AttendedWaits, WaitsAttended

LEMMA AnswerShape ==
    ASSUME Shape, Attended, NEW t \in Tab, NEW s \in mes[t], MeDone(t, s) \/ GiveUpSession(t, s)
    PROVE  Shape' /\ Attended'
<1>2. page' \in [Tab -> Pages] /\ PagesStay
  BY DEF MeDone, GiveUpSession, Render, Shape, PagesStay, Pages, AuthPages
<1>3. Attended'
  BY <1>2, SamePagesShape DEF MeDone, GiveUpSession, server
<1>4. CASE MeDone(t, s)
  <2>1. owner[s] \in Name
    BY <1>4 DEF MeDone, Shape
  <2> QED BY <1>2, <1>3, <1>4, <2>1 DEF MeDone, Render, server, Shape
<1>5. CASE GiveUpSession(t, s)
  BY <1>2, <1>3, <1>5 DEF GiveUpSession, Render, server, Shape
<1> QED BY <1>4, <1>5

LEMMA SessionShape ==
    ASSUME Shape, Attended, NEW t \in Tab, Session(t)
    PROVE  Shape' /\ Attended'
<1>1. CASE EffectWithout(t)
  <2>1. page' \in [Tab -> Pages] /\ PagesStay
    BY <1>1 DEF EffectWithout, Shape, PagesStay, Pages, AuthPages
  <2>2. Attended'
    BY <1>1, <2>1, SamePagesShape DEF EffectWithout, server
  <2> QED BY <1>1, <2>1, <2>2 DEF EffectWithout, server, Shape
<1>2. CASE EffectFetchMe(t)
  <2>1. Attended'
    BY <1>2, SamePagesShape DEF EffectFetchMe, server, PagesStay
  <2>2. Sent \in DOMAIN owner \cup {Bad}
    BY DEF Sent
  <2> QED BY <1>2, <2>1, <2>2 DEF EffectFetchMe, server, Shape
<1>3. CASE Poll(t) \/ \E s \in calls[t] : CallDone(t, s)
  <2>1. Attended'
    BY <1>3, SamePagesShape DEF Poll, Call, CallDone, server, PagesStay
  <2> QED BY <1>3, <2>1 DEF Poll, Call, CallDone, server, context, Shape
<1>4. ASSUME NEW s \in mes[t], MeDone(t, s) PROVE Shape' /\ Attended'
  BY <1>4, AnswerShape
<1>5. ASSUME NEW s \in mes[t], MeRefused(t, s) PROVE Shape' /\ Attended'
  BY <1>5, AnswerShape, DocumentShape DEF MeRefused, Redirect, Pages
<1>6. ASSUME NEW s \in calls[t], CallRefused(t, s) PROVE Shape' /\ Attended'
  <2>1. CASE page[t] \in AuthPages
    <3>1. Attended'
      BY <1>6, <2>1, SamePagesShape DEF CallRefused, server, PagesStay
    <3> QED BY <1>6, <2>1, <3>1 DEF CallRefused, server, context, Shape
  <2>2. CASE page[t] \notin AuthPages
    BY <1>6, <2>2, DocumentShape DEF CallRefused, Redirect, Pages
  <2> QED BY <2>1, <2>2
<1>7. CASE OpenLogin(t)
  BY <1>7, DocumentShape DEF OpenLogin, Shape, Pages, AuthPages
<1> QED BY <1>1, <1>2, <1>3, <1>4, <1>5, <1>6, <1>7 DEF Session, Goes

LEMMA OperatorShape ==
    ASSUME Shape, Attended, NEW t \in Tab, Operator(t)
    PROVE  Shape' /\ Attended'
<1>1. CASE Link(t)
  <2>1. page' \in [Tab -> Pages] /\ PagesStay
    BY <1>1 DEF Link, Shape, PagesStay, Pages, AuthPages, AppPages
  <2>2. \A q \in registers' : q \in Registering /\ Waits(q, Running)
    BY <1>1, UnmountedWaits DEF Link
  <2>3. \A q \in logins' : q \in LoggingIn /\ Waits(q, {"received"})
    BY <1>1, UnmountedWaits DEF Link
  <2>4. Attended'
    BY <2>1, <2>2, <2>3, WaitsAttended
  <2> QED BY <1>1, <2>1, <2>2, <2>3, <2>4 DEF Link, context, Shape
<1>2. CASE LoadFlows(t)
  <2>1. Attended'
    BY <1>2, SamePagesShape DEF LoadFlows, Call, server, PagesStay
  <2> QED BY <1>2, <2>1 DEF LoadFlows, Call, server, context, Shape
<1>3. CASE Logout(t)
  <2>1. page[t] \in Pages \ {"away"} /\ loading[t] \in BOOLEAN
    BY <1>3 DEF Logout, AppPages, Pages, Shape
  <2>2. /\ page' \in [Tab -> Pages] /\ PagesStay
        /\ token' \in [Tab -> Nat \cup {None}]
        /\ loading' \in [Tab -> BOOLEAN] /\ effect' \in [Tab -> BOOLEAN]
    BY <1>3, <2>1, RenderShape DEF Logout
  <2>3. Attended'
    BY <1>3, <2>2, SamePagesShape DEF Logout, server
  <2> QED BY <1>3, <2>2, <2>3 DEF Logout, server, Shape
<1>4. ASSUME NEW p \in {"login", "live"}, Visit(t, p) PROVE Shape' /\ Attended'
  BY <1>4, DocumentShape DEF Visit, Shape, Pages, AuthPages, AppPages
<1>5. ASSUME NEW n \in Name, SubmitLogin(t, n) PROVE Shape' /\ Attended'
  <2> DEFINE new == [tab |-> t, mounted |-> TRUE, name |-> n, at |-> "received", token |-> Bad]
  <2>1. new \in LoggingIn /\ new.tab = t
    BY DEF LoggingIn, Bad
  <2>2. page[t] # "away" /\ logins' = logins \cup {new}
    BY <1>5 DEF SubmitLogin
  <2> HIDE DEF new
  <2>3. PagesStay /\ UNCHANGED registers
    BY <1>5 DEF SubmitLogin, browser, PagesStay
  <2>4. Attended'
    BY <2>1, <2>2, <2>3, AttendedWaits, WaitsAttended DEF Waits
  <2> QED BY <1>5, <2>1, <2>2, <2>4 DEF SubmitLogin, browser, context, Shape
<1>6. ASSUME NEW f \in Form, SubmitRegister(t, f) PROVE Shape' /\ Attended'
  <2> DEFINE new == [tab |-> t, mounted |-> TRUE, form |-> f, at |-> "received"]
  <2>1. new \in Registering /\ new.tab = t
    BY DEF Registering, Running
  <2>2. page[t] # "away" /\ registers' = registers \cup {new}
    BY <1>6 DEF SubmitRegister
  <2> HIDE DEF new
  <2>3. PagesStay /\ UNCHANGED logins
    BY <1>6 DEF SubmitRegister, browser, PagesStay
  <2>4. Attended'
    BY <2>1, <2>2, <2>3, AttendedWaits, WaitsAttended DEF Waits
  <2> QED BY <1>6, <2>1, <2>2, <2>4 DEF SubmitRegister, browser, context, Shape
<1> QED BY <1>1, <1>2, <1>3, <1>4, <1>5, <1>6 DEF Operator

\* Steps at the server change no tab.
LEMMA ServerShape ==
    ASSUME Shape, Attended, UNCHANGED <<storage, page, token, user, loading, effect, mes>>,
           users' \subseteq Form, owner' \in Seq(Name), DOMAIN owner \subseteq DOMAIN owner',
           \A q \in registers' : q \in Registering /\ Waits(q, Running),
           \A q \in logins' : q \in LoggingIn /\ Waits(q, {"received"})
    PROVE  Shape' /\ Attended'
<1>1. PagesStay
  BY DEF PagesStay
<1>2. Attended'
  BY <1>1, WaitsAttended
<1> QED BY <1>2 DEF Shape

LEMMA LoginShape ==
    ASSUME Shape, Attended, NEW r \in logins,
           ServeLogin(r) \/ RefuseLogin(r) \/ LoginDone(r) \/ LoginRefused(r) \/ LoginTimeout(r)
    PROVE  Shape' /\ Attended'
<1>0. r \in LoggingIn /\ Waits(r, {"received"}) /\ None \notin Tab
  BY AttendedWaits, AccountsAssumption DEF Shape
<1>a. /\ \A q \in registers : q \in Registering /\ Waits(q, Running)
      /\ \A q \in logins : q \in LoggingIn /\ Waits(q, {"received"})
  BY AttendedWaits DEF Shape
<1>1. CASE ServeLogin(r)
  <2>1. Len(owner) \in Nat /\ owner' \in Seq(Name) /\ DOMAIN owner \subseteq DOMAIN owner'
    BY <1>0, <1>1 DEF ServeLogin, Shape, LoggingIn
  <2>2. [r EXCEPT !.at = "welcome", !.token = Len(owner) + 1] \in LoggingIn
    <3> DEFINE k == Len(owner) + 1
    <3>1. k \in Nat
      BY <2>1
    <3> HIDE DEF k
    <3>2. [r EXCEPT !.at = "welcome", !.token = k] \in LoggingIn
      BY <1>0, <3>1 DEF LoggingIn
    <3> QED BY <3>2 DEF k
  <2>3. r.tab # None => Waits([r EXCEPT !.at = "welcome", !.token = Len(owner) + 1], {"received"})
    BY <1>0 DEF Waits, LoggingIn
  <2>4. \A q \in logins' : q \in LoggingIn /\ Waits(q, {"received"})
    BY <1>1, <1>a, <2>2, <2>3 DEF ServeLogin, AnswerLogin
  <2> QED BY <1>1, <1>a, <2>1, <2>4, ServerShape DEF ServeLogin, browser, context, Shape
<1>2. CASE RefuseLogin(r)
  <2>1. [r EXCEPT !.at = "refused"] \in LoggingIn
    BY <1>0 DEF LoggingIn
  <2>2. r.tab # None => Waits([r EXCEPT !.at = "refused"], {"received"})
    BY <1>0 DEF Waits, LoggingIn
  <2>3. \A q \in logins' : q \in LoggingIn /\ Waits(q, {"received"})
    BY <1>2, <1>a, <2>1, <2>2 DEF RefuseLogin, AnswerLogin
  <2> QED BY <1>2, <1>a, <2>3, ServerShape DEF RefuseLogin, browser, context, Shape
<1>3. CASE LoginTimeout(r)
  <2>1. r.at = "received" =>
          /\ [r EXCEPT !.tab = None, !.mounted = FALSE] \in LoggingIn
          /\ Waits([r EXCEPT !.tab = None, !.mounted = FALSE], {"received"})
    BY <1>0 DEF LoggingIn, Waits
  <2>2. \A q \in logins' : q \in LoggingIn /\ Waits(q, {"received"})
    BY <1>3, <1>a, <2>1 DEF LoginTimeout
  <2> QED BY <1>3, <1>a, <2>2, ServerShape DEF LoginTimeout, browser, context, Shape
<1>4. CASE LoginDone(r)
  <2>1. r.tab \in Tab /\ r.token \in Nat /\ loading[r.tab] \in BOOLEAN
    BY <1>0, <1>4 DEF LoginDone, Waits, LoggingIn, Shape
  <2>2. /\ page' \in [Tab -> Pages] /\ PagesStay
        /\ token' \in [Tab -> Nat \cup {None}]
        /\ loading' \in [Tab -> BOOLEAN] /\ effect' \in [Tab -> BOOLEAN]
    <3>1. "live" \in Pages \ {"away"}
      BY DEF Pages, AppPages
    <3> QED BY <1>4, <2>1, <3>1, RenderShape DEF LoginDone
  <2>3. \A q \in registers' : q \in Registering /\ Waits(q, Running)
    BY <1>4, UnmountedWaits DEF LoginDone
  <2>4. \A q \in logins' : q \in LoggingIn /\ Waits(q, {"received"})
    BY <1>4, UnmountedWaits DEF LoginDone
  <2>5. Attended'
    BY <2>2, <2>3, <2>4, WaitsAttended
  <2> QED BY <1>4, <2>1, <2>2, <2>3, <2>4, <2>5 DEF LoginDone, Shape
<1>5. CASE LoginRefused(r)
  <2>1. r.tab \in Tab
    BY <1>0, <1>5 DEF LoginRefused, Waits
  <2>2. CASE page[r.tab] \in AuthPages
    <3>1. Attended'
      BY <1>5, <1>a, <2>2, WaitsAttended DEF LoginRefused, PagesStay
    <3> QED BY <1>5, <2>2, <3>1 DEF LoginRefused, context, Shape
  <2>3. CASE page[r.tab] \notin AuthPages
    BY <1>5, <2>1, <2>3, DocumentShape DEF LoginRefused, Redirect, Pages
  <2> QED BY <2>2, <2>3
<1> QED BY <1>1, <1>2, <1>3, <1>4, <1>5

LEMMA RegistrationShape ==
    ASSUME Shape, Attended, NEW r \in registers,
           CheckName(r) \/ CheckEmail(r) \/ Commit(r) \/ RegisterDone(r) \/ RegisterTimeout(r)
    PROVE  Shape' /\ Attended'
<1>0. r \in Registering /\ Waits(r, Running) /\ None \notin Tab
  BY AttendedWaits, AccountsAssumption DEF Shape
<1>a. /\ \A q \in registers : q \in Registering /\ Waits(q, Running)
      /\ \A q \in logins : q \in LoggingIn /\ Waits(q, {"received"})
  BY AttendedWaits DEF Shape
<1>1. ASSUME NEW at \in Running \cup Refusals \cup {"created"}, Stage(r, at)
      PROVE  \A q \in registers' : q \in Registering /\ Waits(q, Running)
  <2>1. [r EXCEPT !.at = at] \in Registering
    BY <1>0 DEF Registering
  <2>2. r.tab # None \/ at \in Running => Waits([r EXCEPT !.at = at], Running)
    BY <1>0 DEF Waits, Registering
  <2> QED BY <1>1, <1>a, <2>1, <2>2 DEF Stage
<1>2. CASE CheckName(r) \/ CheckEmail(r) \/ Commit(r)
  <2>1. \A q \in registers' : q \in Registering /\ Waits(q, Running)
    BY <1>1, <1>2 DEF CheckName, CheckEmail, Commit, Running, Refusals
  <2>2. users' \subseteq Form
    BY <1>0, <1>2 DEF CheckName, CheckEmail, Commit, Shape, Registering
  <2> QED BY <1>2, <1>a, <2>1, <2>2, ServerShape
         DEF CheckName, CheckEmail, Commit, browser, context, Shape
<1>3. CASE RegisterTimeout(r)
  <2>1. r.at \in Running =>
          /\ [r EXCEPT !.tab = None, !.mounted = FALSE] \in Registering
          /\ Waits([r EXCEPT !.tab = None, !.mounted = FALSE], Running)
    BY <1>0 DEF Registering, Waits
  <2>2. \A q \in registers' : q \in Registering /\ Waits(q, Running)
    BY <1>3, <1>a, <2>1 DEF RegisterTimeout
  <2> QED BY <1>3, <1>a, <2>2, ServerShape DEF RegisterTimeout, browser, context, Shape
<1>4. CASE RegisterDone(r)
  <2>1. r.tab \in Tab /\ loading[r.tab] \in BOOLEAN /\ token[r.tab] \in Nat \cup {None}
    BY <1>0, <1>4 DEF RegisterDone, Registering, Shape
  <2>2. CASE r.at = "created"
    <3>1. /\ page' \in [Tab -> Pages] /\ PagesStay
          /\ token' \in [Tab -> Nat \cup {None}]
          /\ loading' \in [Tab -> BOOLEAN] /\ effect' \in [Tab -> BOOLEAN]
      <4>1. "login" \in Pages \ {"away"}
        BY DEF Pages, AuthPages
      <4> QED BY <1>4, <2>1, <2>2, <4>1, RenderShape DEF RegisterDone
    <3>2. \A q \in registers' : q \in Registering /\ Waits(q, Running)
      BY <1>4, <2>2, UnmountedWaits DEF RegisterDone
    <3>3. Attended'
      BY <1>4, <1>a, <3>1, <3>2, WaitsAttended DEF RegisterDone
    <3> QED BY <1>4, <3>1, <3>2, <3>3 DEF RegisterDone, Shape
  <2>3. CASE r.at # "created"
    <3>1. Attended'
      BY <1>4, <1>a, <2>3, WaitsAttended DEF RegisterDone, PagesStay
    <3> QED BY <1>4, <2>3, <3>1 DEF RegisterDone, Shape
  <2> QED BY <2>2, <2>3
<1> QED BY <1>2, <1>3, <1>4

LEMMA ShapeStep ==
    ASSUME Shape, Attended, [Next]_vars
    PROVE  Shape' /\ Attended'
<1>1. CASE UNCHANGED vars
  BY <1>1 DEF vars, server, browser, context, Shape, Attended
<1>2. ASSUME NEW k \in DOMAIN owner, Expire(k) PROVE Shape' /\ Attended'
  BY <1>2 DEF Expire, browser, context, Shape, Attended
<1>3. ASSUME NEW t \in Tab, NEW s \in mes[t], MeFails(t, s) PROVE Shape' /\ Attended'
  BY <1>3, AnswerShape DEF MeFails
<1> QED BY <1>1, <1>2, <1>3, SessionShape, OperatorShape, LoginShape, RegistrationShape
       DEF Next, Login, Registration, Faults

-----------------------------------------------------------------------------
(* Tokens.                                                                 *)

\* A set that a function maps another onto, or part of it, has no more elements.
LEMMA ImageNotMore ==
    ASSUME NEW S, IsFiniteSet(S), NEW f, f = [r \in S |-> f[r]],
           NEW T, \A q \in T : \E r \in S : q = f[r]
    PROVE  IsFiniteSet(T) /\ Cardinality(T) <= Cardinality(S)
<1> DEFINE I == {f[r] : r \in S}
<1>1. f \in Surjection(S, I)
  BY DEF Surjection
<1> HIDE DEF I
<1>2. IsFiniteSet(I) /\ Cardinality(I) <= Cardinality(S)
  BY <1>1, FS_Surjection
<1>3. T \in SUBSET I
  BY DEF I
<1>4. IsFiniteSet(T) /\ Cardinality(T) <= Cardinality(I)
  BY <1>2, <1>3, FS_Subset
<1>5. Cardinality(S) \in Nat /\ Cardinality(I) \in Nat /\ Cardinality(T) \in Nat
  BY <1>2, <1>4, FS_CardinalityType
<1> QED BY <1>2, <1>4, <1>5

\* A step that leaves no more logins waiting at the server.
NotMore(requests) ==
    /\ IsFiniteSet(Received(requests))
    /\ Cardinality(Received(requests)) <= Cardinality(Received(logins))

LEMMA FewerNotMore ==
    ASSUME Counted, NEW S, Received(S) \subseteq Received(logins)
    PROVE  NotMore(S)
BY FS_Subset DEF Counted, NotMore

\* A tab that goes leaves its logins with the server; two of them may become one.
LEMMA OrphanedNotMore ==
    ASSUME Shape, Counted, NEW t \in Tab
    PROVE  NotMore(Orphaned(logins, t, {"received"}))
<1> DEFINE f == [r \in Received(logins) |->
                   IF r.tab = t THEN [r EXCEPT !.tab = None, !.mounted = FALSE] ELSE r]
<1>1. ASSUME NEW q \in Received(Orphaned(logins, t, {"received"}))
      PROVE  \E r \in Received(logins) : q = f[r]
  <2>1. CASE q \in logins /\ q.tab # t
    BY <2>1 DEF Received
  <2>2. CASE \E r \in logins : r.tab = t /\ r.at = "received"
                               /\ q = [r EXCEPT !.tab = None, !.mounted = FALSE]
    BY <2>2 DEF Received
  <2> QED BY <2>1, <2>2 DEF Orphaned, Received
<1>2. f = [r \in Received(logins) |-> f[r]] /\ IsFiniteSet(Received(logins))
  BY DEF Counted
<1> HIDE DEF f
<1> QED BY <1>1, <1>2, ImageNotMore DEF NotMore

LEMMA UnmountedNotMore ==
    ASSUME Shape, Counted, NEW S \in SUBSET logins, NEW t
    PROVE  NotMore(Unmounted(S, t))
<1> DEFINE f == [r \in Received(logins) |-> IF r.tab = t THEN [r EXCEPT !.mounted = FALSE] ELSE r]
<1>1. ASSUME NEW q \in Received(Unmounted(S, t))
      PROVE  \E r \in Received(logins) : q = f[r]
  <2>1. PICK r \in S : q = IF r.tab = t THEN [r EXCEPT !.mounted = FALSE] ELSE r
    BY DEF Received, Unmounted
  <2>2. q.at = r.at
    <3>1. r \in LoggingIn
      BY DEF Shape
    <3> QED BY <2>1, <3>1 DEF LoggingIn
  <2> QED BY <2>1, <2>2 DEF Received
<1>2. f = [r \in Received(logins) |-> f[r]] /\ IsFiniteSet(Received(logins))
  BY DEF Counted
<1> HIDE DEF f
<1> QED BY <1>1, <1>2, ImageNotMore DEF NotMore

-----------------------------------------------------------------------------

\* The steps that issue no token and begin no login.
NoneIssued ==
    /\ UNCHANGED owner
    /\ Issued'
    /\ NotMore(logins')

LEMMA DocumentIssued ==
    ASSUME Shape, Issued, Counted, NEW t \in Tab, NEW p, NEW tok \in DOMAIN owner \cup {None},
           Document(t, p, tok), UNCHANGED <<owner, expired>>, storage' \in DOMAIN owner \cup {None}
    PROVE  NoneIssued
<1>1. ASSUME NEW q \in logins'
      PROVE  q.token \in DOMAIN owner \cup (IF q.at = "welcome" THEN {} ELSE {Bad})
  <2>1. PICK r \in logins : q.at = r.at /\ q.token = r.token
    BY OrphanedLogins DEF Document, Shape
  <2> QED BY <2>1 DEF Issued
<1>2. token' \in [Tab -> DOMAIN owner \cup {None}]
  BY DEF Document, Issued
<1>3. calls' \in [Tab -> SUBSET (DOMAIN owner \cup {Bad})]
  BY DEF Document, Issued
<1>4. NotMore(logins')
  BY OrphanedNotMore DEF Document
<1>5. expired' \subseteq DOMAIN owner
  BY DEF Issued
<1> QED BY <1>1, <1>2, <1>3, <1>4, <1>5 DEF NoneIssued, Issued

\* The steps that leave the requests alone.
LEMMA TabIssued ==
    ASSUME Shape, Issued, Counted, UNCHANGED <<owner, expired, logins>>,
           storage' \in DOMAIN owner \cup {None},
           token' \in [Tab -> DOMAIN owner \cup {None}],
           calls' \in [Tab -> SUBSET (DOMAIN owner \cup {Bad})]
    PROVE  NoneIssued
<1>1. NotMore(logins')
  BY FewerNotMore
<1> QED BY <1>1 DEF NoneIssued, Issued

LEMMA SentIssued ==
    Sent \in DOMAIN owner \cup {Bad}
BY DEF Sent

LEMMA SessionIssued ==
    ASSUME Shape, Issued, Counted, NEW t \in Tab, Session(t)
    PROVE  NoneIssued
<1>1. CASE EffectWithout(t) \/ EffectFetchMe(t)
  BY <1>1, TabIssued DEF EffectWithout, EffectFetchMe, server, Issued
<1>2. CASE Poll(t)
  BY <1>2, TabIssued, SentIssued DEF Poll, Call, server, context, Issued
<1>3. ASSUME NEW s \in mes[t], MeDone(t, s) PROVE NoneIssued
  BY <1>3, TabIssued DEF MeDone, Render, server, Issued
<1>4. ASSUME NEW s \in mes[t], MeRefused(t, s) PROVE NoneIssued
  <2>1. CASE GiveUpSession(t, s)
    BY <2>1, TabIssued DEF GiveUpSession, Render, server, Issued
  <2>2. CASE Redirect(t)
    BY <2>2, DocumentIssued DEF Redirect
  <2> QED BY <1>4, <2>1, <2>2 DEF MeRefused
<1>5. ASSUME NEW s \in calls[t], CallRefused(t, s) PROVE NoneIssued
  <2>1. CASE page[t] \in AuthPages
    BY <1>5, <2>1, TabIssued DEF CallRefused, server, context, Issued
  <2>2. CASE page[t] \notin AuthPages
    BY <1>5, <2>2, DocumentIssued DEF CallRefused, Redirect
  <2> QED BY <2>1, <2>2
<1>6. ASSUME NEW s \in calls[t], CallDone(t, s) PROVE NoneIssued
  BY <1>6, TabIssued DEF CallDone, server, context, Issued
<1>7. CASE OpenLogin(t)
  BY <1>7, DocumentIssued DEF OpenLogin, Issued
<1> QED BY <1>1, <1>2, <1>3, <1>4, <1>5, <1>6, <1>7 DEF Session, Goes

\* All that a user does but to submit a login.
LEMMA OperatorIssued ==
    ASSUME Shape, Issued, Counted, NEW t \in Tab, Operator(t)
    PROVE  NoneIssued \/ \E n \in Name : SubmitLogin(t, n)
<1>1. CASE Link(t)
  <2>1. ASSUME NEW q \in logins'
        PROVE  q.token \in DOMAIN owner \cup (IF q.at = "welcome" THEN {} ELSE {Bad})
    <3>1. PICK r \in logins : q.at = r.at /\ q.token = r.token
      BY <1>1, UnmountedLogins DEF Link, Shape
    <3> QED BY <3>1 DEF Issued
  <2>2. NotMore(logins')
    BY <1>1, UnmountedNotMore DEF Link
  <2> QED BY <1>1, <2>1, <2>2 DEF Link, context, NoneIssued, Issued
<1>2. CASE LoadFlows(t)
  BY <1>2, TabIssued, SentIssued DEF LoadFlows, Call, server, context, Issued
<1>3. CASE Logout(t)
  BY <1>3, TabIssued DEF Logout, Render, server, Issued
<1>4. ASSUME NEW p, Visit(t, p) PROVE NoneIssued
  BY <1>4, DocumentIssued DEF Visit, Issued
<1>5. ASSUME NEW f \in Form, SubmitRegister(t, f) PROVE NoneIssued
  BY <1>5, TabIssued DEF SubmitRegister, browser, context, Issued
<1> QED BY <1>1, <1>2, <1>3, <1>4, <1>5 DEF Operator

\* The token of a login is the answer's until the page stores it.
LEMMA LoginIssued ==
    ASSUME Shape, Attended, Issued, Counted, NEW r \in logins,
           RefuseLogin(r) \/ LoginDone(r) \/ LoginRefused(r) \/ LoginTimeout(r)
    PROVE  NoneIssued
<1>0. r \in LoggingIn
  BY DEF Shape
<1>a. logins \ {r} \in SUBSET logins /\ logins \in SUBSET LoggingIn
  BY DEF Shape
<1>1. CASE RefuseLogin(r)
  <2> DEFINE answer == [r EXCEPT !.at = "refused"]
  <2>1. r.at = "received" /\ logins' \subseteq (logins \ {r}) \cup {answer}
    BY <1>1 DEF RefuseLogin, AnswerLogin
  <2>2. answer.at = "refused" /\ answer.token = r.token
    BY <1>0 DEF LoggingIn
  <2> HIDE DEF answer
  <2>3. NotMore(logins')
    BY <2>1, <2>2, FewerNotMore DEF Received
  <2>4. UNCHANGED <<owner, expired, storage, token, calls>>
    BY <1>1 DEF RefuseLogin, browser, context
  <2>5. \A q \in logins' : q.token \in DOMAIN owner \cup (IF q.at = "welcome" THEN {} ELSE {Bad})
    BY <2>1, <2>2 DEF Issued
  <2> QED BY <2>3, <2>4, <2>5 DEF NoneIssued, Issued
<1>2. CASE LoginDone(r)
  <2>1. r.token \in DOMAIN owner
    BY <1>2 DEF LoginDone, Issued
  <2>2. NotMore(logins')
    BY <1>2, <1>a, UnmountedNotMore DEF LoginDone
  <2>3. ASSUME NEW q \in logins'
        PROVE  q.token \in DOMAIN owner \cup (IF q.at = "welcome" THEN {} ELSE {Bad})
    <3>1. logins \ {r} \in SUBSET LoggingIn
      BY <1>a
    <3>2. PICK o \in logins : q.at = o.at /\ q.token = o.token
      BY <1>2, <3>1, UnmountedLogins DEF LoginDone
    <3> QED BY <3>2 DEF Issued
  <2>4. token' \in [Tab -> DOMAIN owner \cup {None}]
    BY <1>2, <2>1 DEF LoginDone, Render, Issued
  <2>5. UNCHANGED <<owner, expired, calls>> /\ storage' = r.token
    BY <1>2 DEF LoginDone
  <2> QED BY <2>1, <2>2, <2>3, <2>4, <2>5 DEF NoneIssued, Issued
<1>3. CASE LoginRefused(r)
  <2>1. r.tab \in Tab
    BY <1>0, <1>3, AttendedWaits DEF LoginRefused, Waits
  <2>2. CASE page[r.tab] \in AuthPages
    <3>1. NotMore(logins')
      BY <1>3, <2>2, FewerNotMore DEF LoginRefused, Received
    <3> QED BY <1>3, <2>2, <3>1 DEF LoginRefused, context, NoneIssued, Issued
  <2>3. CASE page[r.tab] \notin AuthPages
    BY <1>3, <2>1, <2>3, DocumentIssued DEF LoginRefused, Redirect
  <2> QED BY <2>2, <2>3
<1>4. CASE LoginTimeout(r)
  <2> DEFINE left == [r EXCEPT !.tab = None, !.mounted = FALSE]
  <2>1. left.at = r.at /\ left.token = r.token
    BY <1>0 DEF LoggingIn
  <2>2. IF r.at = "received" THEN logins' = (logins \ {r}) \cup {left} ELSE logins' = logins \ {r}
    BY <1>4 DEF LoginTimeout
  <2> HIDE DEF left
  <2>3. NotMore(logins')
    <3> DEFINE f == [o \in Received(logins) |-> IF o = r THEN left ELSE o]
    <3>1. \A q \in Received(logins') : \E o \in Received(logins) : q = f[o]
      BY <2>2 DEF Received
    <3>2. f = [o \in Received(logins) |-> f[o]] /\ IsFiniteSet(Received(logins))
      BY DEF Counted
    <3> HIDE DEF f
    <3> QED BY <3>1, <3>2, ImageNotMore DEF NotMore
  <2>4. UNCHANGED <<owner, expired, storage, token, calls>>
    BY <1>4 DEF LoginTimeout, browser, context
  <2>5. \A q \in logins' : q.token \in DOMAIN owner \cup (IF q.at = "welcome" THEN {} ELSE {Bad})
    BY <2>1, <2>2 DEF Issued
  <2> QED BY <2>3, <2>4, <2>5 DEF NoneIssued, Issued
<1> QED BY <1>1, <1>2, <1>3, <1>4

\* What registrations do to the tabs.
LEMMA RegistrationIssued ==
    ASSUME Shape, Attended, Issued, Counted, NEW r \in registers,
           CheckName(r) \/ CheckEmail(r) \/ Commit(r) \/ RegisterDone(r) \/ RegisterTimeout(r)
    PROVE  NoneIssued
<1>1. CASE CheckName(r) \/ CheckEmail(r) \/ Commit(r) \/ RegisterTimeout(r)
  BY <1>1, TabIssued DEF CheckName, CheckEmail, Commit, RegisterTimeout, browser, context, Issued
<1>2. CASE RegisterDone(r)
  <2>1. r.tab \in Tab
    BY <1>2, AttendedWaits DEF RegisterDone, Waits
  <2>2. token' \in [Tab -> DOMAIN owner \cup {None}]
    BY <1>2, <2>1 DEF RegisterDone, Render, Issued
  <2> QED BY <1>2, <2>2, TabIssued DEF RegisterDone, Issued
<1> QED BY <1>1, <1>2

-----------------------------------------------------------------------------

\* An act more, a fault more, or neither.
Clocks ==
    /\ acts' \in {acts, acts + 1} /\ acts' \in 0..MaxActs
    /\ faults' \in 0..MaxFaults

LEMMA ActClocks ==
    ASSUME Counted, Act \/ Fault \/ Run
    PROVE  Clocks
BY AccountsAssumption DEF Counted, Act, Fault, Run, Clocks

LEMMA NoneIssuedCounted ==
    ASSUME Shape, Counted, NoneIssued, Clocks
    PROVE  Issued' /\ Counted'
<1>1. Len(owner) \in Nat /\ Cardinality(Received(logins)) \in Nat
      /\ Cardinality(Received(logins')) \in Nat
  BY FS_CardinalityType DEF Shape, Counted, NoneIssued, NotMore
<1>2. Len(owner') + Cardinality(Received(logins')) <= acts' + 1
  BY <1>1 DEF Counted, NoneIssued, NotMore, Clocks
<1> QED BY <1>2 DEF NoneIssued, NotMore, Clocks, Counted, Received

LEMMA SubmitCounted ==
    ASSUME Shape, Issued, Counted, NEW t \in Tab, NEW n \in Name, SubmitLogin(t, n)
    PROVE  Issued' /\ Counted'
<1> DEFINE new == [tab |-> t, mounted |-> TRUE, name |-> n, at |-> "received", token |-> Bad]
<1>1. new.at = "received" /\ new.token = Bad
  OBVIOUS
<1>2. /\ logins' = logins \cup {new}
      /\ acts' = acts + 1 /\ acts < MaxActs /\ faults' = faults
      /\ UNCHANGED <<owner, expired, storage, token, calls>>
  BY DEF SubmitLogin, Act, browser, context
<1> HIDE DEF new
<1>3. Received(logins') = Received(logins) \cup {new}
  BY <1>1, <1>2 DEF Received
<1>4. /\ IsFiniteSet(Received(logins'))
      /\ Cardinality(Received(logins')) <= Cardinality(Received(logins)) + 1
      /\ Cardinality(Received(logins)) \in Nat /\ Cardinality(Received(logins')) \in Nat
  <2>1. IsFiniteSet(Received(logins))
    BY DEF Counted
  <2>2. Cardinality(Received(logins)) \in Nat
    BY <2>1, FS_CardinalityType
  <2>3. /\ IsFiniteSet(Received(logins) \cup {new})
        /\ Cardinality(Received(logins) \cup {new}) <= Cardinality(Received(logins)) + 1
    BY <2>1, <2>2, FS_AddElement
  <2>4. Cardinality(Received(logins) \cup {new}) \in Nat
    BY <2>3, FS_CardinalityType
  <2> QED BY <1>3, <2>2, <2>3, <2>4
<1>5. Issued'
  BY <1>1, <1>2 DEF Issued
<1>6. Counted'
  <2>1. Len(owner) \in Nat
    BY DEF Shape
  <2>2. Len(owner') + Cardinality(Received(logins')) <= acts' + 1
    BY <1>2, <1>4, <2>1 DEF Counted
  <2>3. acts' \in 0..MaxActs /\ faults' \in 0..MaxFaults
    BY <1>2, AccountsAssumption DEF Counted
  <2> QED BY <1>4, <2>2, <2>3 DEF Counted, Received
<1> QED BY <1>5, <1>6

\* The login that is served waits no more, and its token is a new one.
LEMMA ServeCounted ==
    ASSUME Shape, Issued, Counted, NEW r \in logins, ServeLogin(r)
    PROVE  Issued' /\ Counted'
<1> DEFINE k == Len(owner) + 1
           answer == [r EXCEPT !.at = "welcome", !.token = k]
<1>0. r \in LoggingIn /\ Len(owner) \in Nat /\ owner \in Seq(Name)
  BY DEF Shape
<1>1. /\ r.at = "received" /\ owner' = Append(owner, r.name)
      /\ logins' \subseteq (logins \ {r}) \cup {answer}
      /\ UNCHANGED <<expired, storage, token, calls, acts, faults>>
  BY DEF ServeLogin, AnswerLogin, Run, browser, context
<1>2. Len(owner') = k /\ DOMAIN owner' = DOMAIN owner \cup {k}
  BY <1>0, <1>1 DEF LoggingIn
<1>3. answer.at = "welcome" /\ answer.token = k
  <2> HIDE DEF k
  <2> QED BY <1>0 DEF LoggingIn
<1> HIDE DEF answer
<1>4. Received(logins') \subseteq Received(logins) \ {r}
  BY <1>1, <1>3 DEF Received
<1>5. /\ IsFiniteSet(Received(logins) \ {r})
      /\ Cardinality(Received(logins) \ {r}) = Cardinality(Received(logins)) - 1
  <2>1. r \in Received(logins) /\ IsFiniteSet(Received(logins))
    BY <1>1 DEF Received, Counted
  <2> QED BY <2>1, FS_RemoveElement
<1>6. /\ IsFiniteSet(Received(logins'))
      /\ Cardinality(Received(logins')) <= Cardinality(Received(logins)) - 1
      /\ Cardinality(Received(logins)) \in Nat /\ Cardinality(Received(logins')) \in Nat
  <2>1. /\ IsFiniteSet(Received(logins'))
        /\ Cardinality(Received(logins')) <= Cardinality(Received(logins) \ {r})
    BY <1>4, <1>5, FS_Subset
  <2> QED BY <1>5, <2>1, FS_CardinalityType DEF Counted
<1>7. Issued'
  <2>1. expired' \subseteq DOMAIN owner' /\ storage' \in DOMAIN owner' \cup {None}
    BY <1>1, <1>2 DEF Issued
  <2>2. token' \in [Tab -> DOMAIN owner' \cup {None}]
    BY <1>1, <1>2 DEF Issued
  <2>3. calls' \in [Tab -> SUBSET (DOMAIN owner' \cup {Bad})]
    BY <1>1, <1>2 DEF Issued
  <2>4. \A q \in logins' : q.token \in DOMAIN owner' \cup (IF q.at = "welcome" THEN {} ELSE {Bad})
    BY <1>1, <1>2, <1>3 DEF Issued
  <2> QED BY <2>1, <2>2, <2>3, <2>4 DEF Issued
<1>8. Counted'
  <2>1. Len(owner') + Cardinality(Received(logins')) <= acts' + 1
    BY <1>0, <1>1, <1>2, <1>6 DEF Counted
  <2>2. acts' \in 0..MaxActs /\ faults' \in 0..MaxFaults
    BY <1>1 DEF Counted
  <2> QED BY <1>6, <2>1, <2>2 DEF Counted, Received
<1> QED BY <1>7, <1>8

LEMMA IssuedStep ==
    ASSUME Shape, Attended, Issued, Counted, [Next]_vars
    PROVE  Issued' /\ Counted'
<1>1. CASE UNCHANGED vars
  <2>1. UNCHANGED <<owner, expired, storage, token, calls, logins, acts, faults>>
    BY <1>1 DEF vars, server, browser, context
  <2> QED BY <2>1 DEF Issued, Counted, Received
<1>2. ASSUME NEW k \in DOMAIN owner, Expire(k) PROVE NoneIssued /\ Clocks
  <2>1. UNCHANGED <<owner, logins, storage, token, calls>> /\ expired' = expired \cup {k}
    BY <1>2 DEF Expire, browser, context
  <2>2. NotMore(logins') /\ Issued'
    BY <2>1, FewerNotMore DEF Issued
  <2> QED BY <1>2, <2>1, <2>2, ActClocks DEF NoneIssued, Expire
<1>3. ASSUME NEW t \in Tab, Session(t) PROVE NoneIssued /\ Clocks
  <2>1. Clocks
    BY <1>3, ActClocks DEF Session, Goes, EffectWithout, EffectFetchMe, Poll, MeDone, MeRefused,
                           CallRefused, CallDone, OpenLogin
  <2> QED BY <1>3, <2>1, SessionIssued
<1>4. ASSUME NEW t \in Tab, Operator(t), ~(\E n \in Name : SubmitLogin(t, n))
      PROVE  NoneIssued /\ Clocks
  <2>1. Clocks
    BY <1>4, ActClocks DEF Operator, Link, LoadFlows, Logout, Visit, SubmitRegister
  <2> QED BY <1>4, <2>1, OperatorIssued
<1>5. ASSUME NEW r \in logins, RefuseLogin(r) \/ LoginDone(r) \/ LoginRefused(r) \/ LoginTimeout(r)
      PROVE  NoneIssued /\ Clocks
  <2>1. Clocks
    BY <1>5, ActClocks DEF RefuseLogin, LoginDone, LoginRefused, LoginTimeout
  <2> QED BY <1>5, <2>1, LoginIssued
<1>6. ASSUME NEW r \in registers,
             CheckName(r) \/ CheckEmail(r) \/ Commit(r) \/ RegisterDone(r) \/ RegisterTimeout(r)
      PROVE  NoneIssued /\ Clocks
  <2>1. Clocks
    BY <1>6, ActClocks DEF CheckName, CheckEmail, Commit, RegisterDone, RegisterTimeout
  <2> QED BY <1>6, <2>1, RegistrationIssued
<1>7. ASSUME NEW t \in Tab, NEW s \in mes[t], MeFails(t, s) PROVE NoneIssued /\ Clocks
  <2>1. NoneIssued
    BY <1>7, TabIssued DEF MeFails, GiveUpSession, Render, server, Issued
  <2> QED BY <1>7, <2>1, ActClocks DEF MeFails
<1> QED BY <1>1, <1>2, <1>3, <1>4, <1>5, <1>6, <1>7, SubmitCounted, ServeCounted, NoneIssuedCounted
       DEF Next, Login, Registration, Faults

-----------------------------------------------------------------------------
(* Theorems.                                                               *)

LEMMA InitInv == Init => IInv
<1> SUFFICES ASSUME Init PROVE IInv
  OBVIOUS
<1>1. \A u \in Earlier : <<u.name>> \in Seq(Name)
  BY AccountsAssumption
<1>2. owner \in Seq(Name) /\ storage \in Nat \cup {None}
  <2>1. owner \in Seq(Name)
    <3>1. owner = <<>> \/ \E u \in Earlier : owner = <<u.name>>
      BY DEF Init
    <3>2. <<>> \in Seq(Name)
      OBVIOUS
    <3> QED BY <1>1, <3>1, <3>2
  <2>2. DOMAIN owner \subseteq Nat
    BY <2>1
  <2> QED BY <2>1, <2>2 DEF Init
<1>3. Shape
  BY <1>2, AccountsAssumption DEF Init, Shape, Pages, AuthPages, AppPages
<1>4. AccountsUnique /\ RegistrationHonest /\ Attended /\ LoadingHonest /\ Asked
  BY AccountsAssumption DEF Init, AccountsUnique, Unique, RegistrationHonest, Attended, LoadingHonest, Asked
<1>5. Issued
  <2>1. /\ token \in [Tab -> DOMAIN owner \cup {None}]
        /\ calls \in [Tab -> SUBSET (DOMAIN owner \cup {Bad})]
    BY DEF Init
  <2> QED BY <2>1 DEF Init, Issued
<1>6. Counted
  <2>1. Len(owner) \in Nat /\ Len(owner) <= 1
    <3>1. owner = <<>> \/ \E u \in Earlier : owner = <<u.name>>
      BY DEF Init
    <3>2. CASE owner = <<>>
      BY <3>2
    <3>3. ASSUME NEW u \in Earlier, owner = <<u.name>> PROVE Len(owner) \in Nat /\ Len(owner) <= 1
      BY <3>3
    <3> QED BY <3>1, <3>2, <3>3
  <2>2. Received(logins) = {}
    BY DEF Init, Received
  <2>3. IsFiniteSet(Received(logins)) /\ Cardinality(Received(logins)) = 0
    BY <2>2, FS_EmptySet
  <2>4. acts = 0 /\ faults = 0 /\ 0 \in 0..MaxActs /\ 0 \in 0..MaxFaults
    BY AccountsAssumption DEF Init
  <2>5. Len(owner) + Cardinality(Received(logins)) <= acts + 1
    BY <2>1, <2>3, <2>4
  <2>6. acts \in 0..MaxActs /\ faults \in 0..MaxFaults
    BY <2>4
  <2> QED BY <2>3, <2>5, <2>6 DEF Counted
<1> QED BY <1>3, <1>4, <1>5, <1>6 DEF IInv

LEMMA Invariance == Spec => []IInv
<1>1. IInv /\ [Next]_vars => IInv'
  BY ShapeStep, AccountsStep, SessionsStep, IssuedStep DEF IInv
<1> QED BY InitInv, <1>1, PTL DEF Spec

\* Every token that localStorage, a tab or a request holds was issued, and
\* logins issue no more tokens than they were submitted (auth_service.py).
THEOREM TypeCorrect == Spec => []TypeOK
<1>1. ASSUME IInv PROVE TypeOK
  <2>1. Len(owner) \in Nat /\ owner \in Seq(Name) /\ Len(owner) <= MaxActs + 1
    <3>1. Len(owner) \in Nat /\ owner \in Seq(Name)
      BY <1>1 DEF IInv, Shape
    <3>2. Cardinality(Received(logins)) \in Nat
      BY <1>1, FS_CardinalityType DEF IInv, Counted
    <3> QED BY <1>1, <3>1, <3>2, AccountsAssumption DEF IInv, Counted
  <2>2. DOMAIN owner \subseteq Token
    BY <2>1, AccountsAssumption DEF Token
  <2>3. ASSUME NEW r \in logins
        PROVE  r \in [tab : Tab \cup {None}, mounted : BOOLEAN, name : Name,
                      at : {"received", "welcome", "refused"}, token : Token \cup {Bad}]
    <3>1. r \in LoggingIn /\ r.token \in Token \cup {Bad}
      BY <1>1, <2>2 DEF IInv, Shape, Issued
    <3> QED BY <3>1 DEF LoggingIn
  <2>4. /\ users \subseteq Form
        /\ registers \subseteq [tab : Tab \cup {None}, mounted : BOOLEAN, form : Form,
                                at : Running \cup Refusals \cup {"created"}]
        /\ page \in [Tab -> AuthPages \cup AppPages \cup {"away"}]
        /\ user \in [Tab -> Name \cup {None}]
        /\ loading \in [Tab -> BOOLEAN] /\ effect \in [Tab -> BOOLEAN]
    BY <1>1 DEF IInv, Shape, Registering, Pages
  <2>5. token \in [Tab -> Token \cup {None}]
    BY <1>1, <2>2 DEF IInv, Issued
  <2>6. mes \in [Tab -> SUBSET (Token \cup {Bad})]
    BY <1>1, <2>2 DEF IInv, Shape
  <2>7. calls \in [Tab -> SUBSET (Token \cup {Bad})]
    BY <1>1, <2>2 DEF IInv, Issued
  <2>8. expired \subseteq DOMAIN owner /\ storage \in DOMAIN owner \cup {None}
    BY <1>1 DEF IInv, Issued
  <2>9. acts \in 0..MaxActs /\ faults \in 0..MaxFaults
    BY <1>1 DEF IInv, Counted
  <2> QED BY <2>1, <2>3, <2>4, <2>5, <2>6, <2>7, <2>8, <2>9 DEF TypeOK
<1> QED BY Invariance, <1>1, PTL

\* However registrations interleave, no name and no email is of two accounts
\* (the unique columns of models/user.py).
THEOREM NamesStayUnique == Spec => []AccountsUnique
<1>1. IInv => AccountsUnique
  BY DEF IInv
<1> QED BY Invariance, <1>1, PTL

\* What register() answers is true, and two registrations never refuse each
\* other (api/auth.py).
THEOREM AnswersAreTrue == Spec => []RegistrationHonest
<1>1. IInv => RegistrationHonest
  BY DEF IInv
<1> QED BY Invariance, <1>1, PTL

\* No tab is left loading with nothing to end it, and a tab at rest that is
\* signed in knows its user (AuthContext.tsx, Sidebar.tsx).
THEOREM TabsAreKnown == Spec => []TabsKnown
<1>1. IInv => LoadingHonest
  BY DEF IInv
<1>2. IInv => SignedInKnown
  BY DEF IInv, Asked, SignedInKnown, Shown
<1>3. IInv => TabsKnown
  BY <1>1, <1>2 DEF TabsKnown
<1> QED BY Invariance, <1>3, PTL
=============================================================================
