------------------------------ MODULE Accounts ------------------------------
(***************************************************************************)
(* Registration and login (backend/app/api/auth.py, auth_service.py), and  *)
(* the session of the tabs of one browser (AuthContext.tsx, client.ts,     *)
(* ProtectedRoute.tsx, Login.tsx, Register.tsx).                           *)
(*                                                                         *)
(* The tabs share the token in localStorage; each keeps a token, a user    *)
(* and a loading flag of its own.  Tokens are numbered as they are issued. *)
(* Registrations run in threads of their own, over two unique columns.     *)
(***************************************************************************)
EXTENDS Naturals, Sequences

CONSTANTS
    Tab,
    Name,       \* usernames
    Form,       \* what may be registered: a name and an email
    Earlier,    \* the accounts there are
    None,       \* null
    MaxActs,    \* bound: what the users of all tabs do
    MaxFaults   \* bound: failed or timed out requests

\* The unique columns of the model User.
Unique(U) == \A u, v \in U : u # v => u.name # v.name /\ u.email # v.email

ASSUME AccountsAssumption ==
    /\ \A f \in Form : f = [name |-> f.name, email |-> f.email] /\ f.name \in Name
    /\ Earlier \subseteq Form /\ Unique(Earlier)
    /\ None \notin Nat /\ None \notin Name /\ None \notin Tab
    /\ MaxActs \in Nat /\ MaxFaults \in Nat

VARIABLES
    users,      \* table users
    registers,  \* registrations under way or answered
    logins,     \* logins under way or answered
    owner,      \* the user each token was issued to
    expired,    \* tokens past their "exp"
    storage,    \* localStorage "access_token"
    page,       \* "away": the document of the login page is being loaded
    token, user, loading,   \* state of AuthProvider
    effect,     \* its effect [token] is going to run
    mes,        \* its fetchMe() calls under way, by the token they carry
    calls,      \* the calls of the pages under way, likewise
    acts, faults

server  == <<users, registers, logins, owner, expired>>
context == <<token, user, loading, effect>>
browser == <<storage, page, context, mes, calls>>
vars    == <<server, browser, acts, faults>>

Token     == 1 .. (MaxActs + 1)
AuthPages == {"login", "register"}
AppPages  == {"live", "flows"}   \* "live": the pages that poll

\* Stands for a token that was missing or expired when it was sent.
Bad == 0

\* Mutant: the header is set even if there is no token.
Sent_Unchecked == IF storage \in expired THEN Bad ELSE storage

\* The request interceptor reads localStorage, not the state of the tab.
Sent == IF storage \in DOMAIN owner \ expired THEN storage ELSE Bad

\* Stages of register(), and its answers.
Running  == {"received", "name free", "hashed"}
Refusals == {"name taken", "email taken", "conflict"}

NameUsed(f)  == \E u \in users : u.name = f.name
EmailUsed(f) == \E u \in users : u.email = f.email

TypeOK ==
    /\ users \subseteq Form
    /\ registers \subseteq [tab : Tab \cup {None}, mounted : BOOLEAN, form : Form,
                            at : Running \cup Refusals \cup {"created"}]
    /\ logins \subseteq [tab : Tab \cup {None}, mounted : BOOLEAN, name : Name,
                         at : {"received", "welcome", "refused"}, token : Token \cup {Bad}]
    /\ owner \in Seq(Name) /\ Len(owner) <= MaxActs + 1
    /\ expired \subseteq DOMAIN owner
    /\ storage \in DOMAIN owner \cup {None}
    /\ page \in [Tab -> AuthPages \cup AppPages \cup {"away"}]
    /\ token \in [Tab -> Token \cup {None}]
    /\ user \in [Tab -> Name \cup {None}]
    /\ loading \in [Tab -> BOOLEAN] /\ effect \in [Tab -> BOOLEAN]
    /\ mes \in [Tab -> SUBSET (Token \cup {Bad})]
    /\ calls \in [Tab -> SUBSET (Token \cup {Bad})]
    /\ acts \in 0..MaxActs /\ faults \in 0..MaxFaults

\* All tabs have just opened the page, maybe with a token of an earlier session.
Init ==
    /\ users = Earlier
    /\ owner \in {<<>>} \cup {<<u.name>> : u \in Earlier}
    /\ expired = {}
    /\ storage \in DOMAIN owner \cup {None}
    /\ page \in [Tab -> {"live", "register"}]
    /\ token = [t \in Tab |-> storage] /\ user = [t \in Tab |-> None]
    /\ loading = [t \in Tab |-> TRUE] /\ effect = [t \in Tab |-> TRUE]
    /\ mes = [t \in Tab |-> {}] /\ calls = [t \in Tab |-> {}]
    /\ registers = {} /\ logins = {}
    /\ acts = 0 /\ faults = 0

Act   == acts < MaxActs /\ acts' = acts + 1 /\ UNCHANGED faults
Fault == faults < MaxFaults /\ faults' = faults + 1 /\ UNCHANGED acts
Run   == UNCHANGED <<acts, faults>>

-----------------------------------------------------------------------------
(* The document of a tab.                                                  *)

\* The server works on for a tab that has gone, nobody gets the answer.
Orphaned(requests, t, working) ==
    {r \in requests : r.tab # t} \cup
    {[r EXCEPT !.tab = None, !.mounted = FALSE] : r \in {q \in requests : q.tab = t /\ q.at \in working}}

Unmounted(requests, t) ==
    {IF r.tab = t THEN [r EXCEPT !.mounted = FALSE] ELSE r : r \in requests}

\* A new document: AuthProvider starts from what is in localStorage.
Document(t, p, tok) ==
    /\ page' = [page EXCEPT ![t] = p]
    /\ token' = [token EXCEPT ![t] = tok]
    /\ user' = [user EXCEPT ![t] = None]
    /\ loading' = [loading EXCEPT ![t] = TRUE]
    /\ effect' = [effect EXCEPT ![t] = p # "away"]
    /\ mes' = [mes EXCEPT ![t] = {}] /\ calls' = [calls EXCEPT ![t] = {}]
    /\ registers' = Orphaned(registers, t, Running)
    /\ logins' = Orphaned(logins, t, {"received"})

\* setToken, setLoading, and the render: a token that changed has its effect,
\* and ProtectedRoute sends a page without a token to /login.
Render(t, p, tok, load) ==
    /\ token' = [token EXCEPT ![t] = tok]
    /\ loading' = [loading EXCEPT ![t] = load]
    /\ effect' = [effect EXCEPT ![t] = @ \/ tok # token[t]]
    /\ page' = [page EXCEPT ![t] =
                  IF p \in AppPages /\ ~load /\ tok = None THEN "login" ELSE p]

Visit(t, p) ==
    /\ Act
    /\ Document(t, p, storage)
    /\ UNCHANGED <<users, owner, expired, storage>>

\* The end of  window.location.href = '/login'.
OpenLogin(t) ==
    /\ Run
    /\ page[t] = "away"
    /\ Document(t, "login", storage)
    /\ UNCHANGED <<users, owner, expired, storage>>

\* A link of the sidebar, or between the two forms.
Link(t) ==
    /\ Act
    /\ page[t] # "away"
    /\ page' = [page EXCEPT ![t] = CASE @ = "login" -> "register" [] @ = "register" -> "login"
                                     [] @ = "live" -> "flows"     [] @ = "flows" -> "live"]
    /\ registers' = Unmounted(registers, t) /\ logins' = Unmounted(logins, t)
    /\ UNCHANGED <<users, owner, expired, storage, context, mes, calls>>

-----------------------------------------------------------------------------
(* AuthProvider's effect, and the answers to fetchMe().                    *)

EffectWithout(t) ==
    /\ Run
    /\ effect[t] /\ token[t] = None
    /\ loading' = [loading EXCEPT ![t] = FALSE]
    /\ effect' = [effect EXCEPT ![t] = FALSE]
    /\ page' = [page EXCEPT ![t] = IF @ \in AppPages THEN "login" ELSE @]
    /\ UNCHANGED <<server, storage, token, user, mes, calls>>

EffectFetchMe(t) ==
    /\ Run
    /\ effect[t] /\ token[t] # None
    /\ effect' = [effect EXCEPT ![t] = FALSE]
    /\ mes' = [mes EXCEPT ![t] = @ \cup {Sent}]
    /\ UNCHANGED <<server, storage, page, token, user, loading, calls>>

MeDone(t, s) ==
    /\ Run
    /\ s \in mes[t] /\ s # Bad
    /\ mes' = [mes EXCEPT ![t] = @ \ {s}]
    /\ user' = [user EXCEPT ![t] = owner[s]]
    /\ Render(t, page[t], token[t], FALSE)
    /\ UNCHANGED <<server, storage, calls>>

\* Mutant: the token is removed from localStorage only.
GiveUpSession_StorageOnly(t, s) ==
    /\ storage' = None
    /\ mes' = [mes EXCEPT ![t] = @ \ {s}]
    /\ Render(t, page[t], token[t], FALSE)
    /\ UNCHANGED <<server, user, calls>>

\* The catch: whatever failed, the session is given up.
GiveUpSession(t, s) ==
    /\ storage' = None
    /\ mes' = [mes EXCEPT ![t] = @ \ {s}]
    /\ Render(t, page[t], None, FALSE)
    /\ UNCHANGED <<server, user, calls>>

\* Mutant: the token is removed and the page stays.
Redirect_Stays(t) ==
    /\ storage' = None
    /\ calls' = [calls EXCEPT ![t] = {}]
    /\ UNCHANGED <<server, page, context, mes>>

\* The interceptor: on the login and register pages a 401 does not reload.
Redirect(t) ==
    /\ storage' = None
    /\ Document(t, "away", None)
    /\ UNCHANGED <<users, owner, expired>>

Refusable(s) == s = Bad \/ s \in expired

MeRefused(t, s) ==
    /\ Run
    /\ s \in mes[t] /\ Refusable(s)
    /\ IF page[t] \in AuthPages THEN GiveUpSession(t, s) ELSE Redirect(t)

MeFails(t, s) ==
    /\ Fault
    /\ s \in mes[t]
    /\ GiveUpSession(t, s)

-----------------------------------------------------------------------------
(* The requests of the pages.                                              *)

\* The children of ProtectedRoute are rendered.
Shown(t) == page[t] \in AppPages /\ ~loading[t] /\ token[t] # None

Call(t) ==
    /\ calls' = [calls EXCEPT ![t] = @ \cup {Sent}]
    /\ UNCHANGED <<server, storage, page, context, mes>>

Poll(t) == Run /\ Shown(t) /\ page[t] = "live" /\ Call(t)

LoadFlows(t) == Act /\ Shown(t) /\ page[t] = "flows" /\ Call(t)

\* Answered.  A call that fails without a 401 does to the session what this does.
CallDone(t, s) ==
    /\ Run
    /\ s \in calls[t] /\ s # Bad
    /\ calls' = [calls EXCEPT ![t] = @ \ {s}]
    /\ UNCHANGED <<server, storage, page, context, mes>>

CallRefused(t, s) ==
    /\ Run
    /\ s \in calls[t] /\ Refusable(s)
    /\ IF page[t] \in AuthPages
       THEN /\ storage' = None
            /\ calls' = [calls EXCEPT ![t] = @ \ {s}]
            /\ UNCHANGED <<server, page, context, mes>>
       ELSE Redirect(t)

Logout(t) ==
    /\ Act
    /\ page[t] \in AppPages
    /\ storage' = None
    /\ user' = [user EXCEPT ![t] = None]
    /\ Render(t, page[t], None, loading[t])
    /\ UNCHANGED <<server, mes, calls>>

Expire(k) ==
    /\ Run
    /\ k \in DOMAIN owner \ expired
    /\ expired' = expired \cup {k}
    /\ UNCHANGED <<users, registers, logins, owner, browser>>

-----------------------------------------------------------------------------
(* Login.                                                                  *)

\* The button is disabled while the mounted form waits.
Free(requests, t) == \A r \in requests : ~(r.tab = t /\ r.mounted)

SubmitLogin(t, n) ==
    /\ Act
    /\ page[t] = "login" /\ Free(logins, t)
    /\ logins' = logins \cup
         {[tab |-> t, mounted |-> TRUE, name |-> n, at |-> "received", token |-> Bad]}
    /\ UNCHANGED <<users, registers, owner, expired, browser>>

\* The server's answer to r, for which nobody may wait.
AnswerLogin(r, answer) ==
    logins' = (logins \ {r}) \cup (IF r.tab = None THEN {} ELSE {answer})

ServeLogin(r) ==
    /\ Run
    /\ r.at = "received"
    /\ \E u \in users : u.name = r.name
    /\ owner' = Append(owner, r.name)
    /\ AnswerLogin(r, [r EXCEPT !.at = "welcome", !.token = Len(owner) + 1])
    /\ UNCHANGED <<users, registers, expired, browser>>

\* No such user, or a wrong password.
RefuseLogin(r) ==
    /\ Run
    /\ r.at = "received"
    /\ AnswerLogin(r, [r EXCEPT !.at = "refused"])
    /\ UNCHANGED <<users, registers, owner, expired, browser>>

LoginDone(r) ==
    /\ Run
    /\ r.at = "welcome"
    /\ logins' = Unmounted(logins \ {r}, r.tab)
    /\ registers' = Unmounted(registers, r.tab)
    /\ storage' = r.token
    /\ Render(r.tab, "live", r.token, loading[r.tab])
    /\ UNCHANGED <<users, owner, expired, user, mes, calls>>

\* The 401 of a wrong password passes the interceptor too.
LoginRefused(r) ==
    /\ Run
    /\ r.at = "refused"
    /\ IF page[r.tab] \in AuthPages
       THEN /\ storage' = None
            /\ logins' = logins \ {r}
            /\ UNCHANGED <<users, registers, owner, expired, page, context, mes, calls>>
       ELSE Redirect(r.tab)

LoginTimeout(r) ==
    /\ Fault
    /\ r.tab # None
    /\ logins' = (logins \ {r}) \cup
         (IF r.at = "received" THEN {[r EXCEPT !.tab = None, !.mounted = FALSE]} ELSE {})
    /\ UNCHANGED <<users, registers, owner, expired, browser>>

-----------------------------------------------------------------------------
(* Registration.                                                           *)

SubmitRegister(t, f) ==
    /\ Act
    /\ page[t] = "register" /\ Free(registers, t)
    /\ registers' = registers \cup
         {[tab |-> t, mounted |-> TRUE, form |-> f, at |-> "received"]}
    /\ UNCHANGED <<users, logins, owner, expired, browser>>

\* The next stage of r, which nobody waits for after the last one.
Stage(r, at) ==
    registers' = (registers \ {r}) \cup
        (IF r.tab = None /\ at \notin Running THEN {} ELSE {[r EXCEPT !.at = at]})

CheckName(r) ==
    /\ Run
    /\ r.at = "received"
    /\ Stage(r, IF NameUsed(r.form) THEN "name taken" ELSE "name free")
    /\ UNCHANGED <<users, logins, owner, expired, browser>>

\* The second query, and the hash of the password.
CheckEmail(r) ==
    /\ Run
    /\ r.at = "name free"
    /\ Stage(r, IF EmailUsed(r.form) THEN "email taken" ELSE "hashed")
    /\ UNCHANGED <<users, logins, owner, expired, browser>>

\* Mutant: the IntegrityError is caught and success is answered.
Commit_Swallows(r) ==
    /\ Run
    /\ r.at = "hashed"
    /\ users' = IF NameUsed(r.form) \/ EmailUsed(r.form) THEN users ELSE users \cup {r.form}
    /\ Stage(r, "created")
    /\ UNCHANGED <<logins, owner, expired, browser>>

\* db.commit(): the unique columns refuse a second row (HTTP 500).
Commit(r) ==
    /\ Run
    /\ r.at = "hashed"
    /\ IF NameUsed(r.form) \/ EmailUsed(r.form)
       THEN Stage(r, "conflict") /\ UNCHANGED users
       ELSE Stage(r, "created") /\ users' = users \cup {r.form}
    /\ UNCHANGED <<logins, owner, expired, browser>>

\* The page shows the error, or goes to /login with the message.
RegisterDone(r) ==
    /\ Run
    /\ r.tab # None /\ r.at \notin Running
    /\ IF r.at = "created"
       THEN /\ registers' = Unmounted(registers \ {r}, r.tab)
            /\ Render(r.tab, "login", token[r.tab], loading[r.tab])
       ELSE registers' = registers \ {r} /\ UNCHANGED <<page, token, loading, effect>>
    /\ UNCHANGED <<users, logins, owner, expired, storage, user, mes, calls>>

RegisterTimeout(r) ==
    /\ Fault
    /\ r.tab # None
    /\ registers' = (registers \ {r}) \cup
         (IF r.at \in Running THEN {[r EXCEPT !.tab = None, !.mounted = FALSE]} ELSE {})
    /\ UNCHANGED <<users, logins, owner, expired, browser>>

-----------------------------------------------------------------------------

\* What goes on in a tab by itself.
Goes(t) ==
    \/ EffectWithout(t) \/ EffectFetchMe(t) \/ Poll(t)
    \/ \E s \in mes[t] : MeDone(t, s) \/ MeRefused(t, s)
    \/ \E s \in calls[t] : CallRefused(t, s)

Session(t) == Goes(t) \/ OpenLogin(t) \/ \E s \in calls[t] : CallDone(t, s)

Operator(t) ==
    \/ Link(t) \/ LoadFlows(t) \/ Logout(t)
    \/ Visit(t, "login") \/ Visit(t, "live")   \* the others by a link
    \/ \E n \in Name : SubmitLogin(t, n)
    \/ \E f \in Form : SubmitRegister(t, f)

Login == \E r \in logins : ServeLogin(r) \/ RefuseLogin(r) \/ LoginDone(r) \/ LoginRefused(r)

Registration == \E r \in registers : CheckName(r) \/ CheckEmail(r) \/ Commit(r) \/ RegisterDone(r)

Faults ==
    \/ \E t \in Tab : \E s \in mes[t] : MeFails(t, s)
    \/ \E r \in logins : LoginTimeout(r)
    \/ \E r \in registers : RegisterTimeout(r)

Next ==
    \/ \E t \in Tab : Session(t) \/ Operator(t)
    \/ Login \/ Registration \/ Faults
    \/ \E k \in DOMAIN owner : Expire(k)

Spec == Init /\ [][Next]_vars

\* Effects run, answers are taken and the interval of a page ticks.  Nobody
\* has to do anything, and no login or registration has to end.
FairSpec == Spec /\ \A t \in Tab : WF_vars(Goes(t))

-----------------------------------------------------------------------------
(* Properties.                                                             *)

\* A name and an email belong to one account, though two registrations may
\* both have passed the checks before either commits.
AccountsUnique == Unique(users)

\* What register() answers is true when it is read: an account that was
\* created is there, and a refusal has a reason, so that no two registrations
\* refuse each other.
RegistrationHonest ==
    \A r \in registers :
        /\ r.at = "created" => r.form \in users
        /\ r.at \in Refusals => NameUsed(r.form) \/ EmailUsed(r.form)

\* A page says "Loading..." only while something is under way that ends it,
\* through logins, logouts and failures that meet the first fetchMe().
LoadingHonest == \A t \in Tab : loading[t] => page[t] = "away" \/ effect[t] \/ mes[t] # {}

\* Whoever is signed in and waits for nothing sees a user in the sidebar:
\* the token a tab holds was shown to the server, or is given up.
SignedInKnown ==
    \A t \in Tab :
        Shown(t) /\ ~effect[t] /\ mes[t] = {} => user[t] # None

\* Each tab knows where it stands: it is loading with reason, or knows its user.
TabsKnown == LoadingHonest /\ SignedInKnown

Ended == storage \notin DOMAIN owner \ expired

\* When the token all tabs share has gone, through a logout, a 401 or a
\* failure in any tab, or has expired, no tab stays on a page that polls.
SessionEnds == \A t \in Tab : (Ended /\ page[t] = "live") ~> (~Ended \/ page[t] # "live")
=============================================================================
