------------------------------ MODULE AdminAccess ------------------------------
(***************************************************************************)
(* Admin logins (POST /v1/auth/login) and the preHandler of every other    *)
(* admin route.  A login reads the account, checks the password, inserts a *)
(* session, signs a token for it and marks the login; the preHandler       *)
(* verifies the token, reads its session and then its account.  These are  *)
(* separate statements: accounts and sessions change between any two, the  *)
(* clock runs, statements fail and the process crashes.                    *)
(***************************************************************************)
EXTENDS Naturals, Sequences

CONSTANTS Requests,    \* logins and views; a session is named by its login
          Admins,      \* admin accounts
          NoToken,     \* no Authorization header with a Bearer token
          Forged,      \* a token this server did not sign, or not for this issuer
          None,
          MaxChanges,  \* bound on changes of accounts and sessions, for TLC
          MaxCrashes   \* bound on process crashes, for TLC

ASSUME NullAssumption  == None \notin Requests \cup Admins /\ {NoToken, Forged} \cap Requests = {}
ASSUME BoundAssumption == MaxChanges \in Nat /\ MaxCrashes \in Nat

VARIABLES
  account,     \* admin_users, by email
  session,     \* admin_sessions: the admin and the state of each login's session
  lapsed,      \* logins whose token's exp claim is past
  lastLogin,   \* admins whose last_login_at is set
  audit,       \* audit_events written for each request
  ask,         \* what each request carries
  pc,          \* where its handler is
  user,        \* request.adminUser
  answer,      \* the reply decided
  note,        \* the audit row to write before it
  up,          \* is the process running
  cut,         \* requests whose handler a crash ended
  faulted,     \* history: requests that met a rejected statement
  seen,        \* history: what was true of a request while it was open
  changes, crashes

accounts == <<account, session, lapsed>>
handler  == <<ask, pc, user, answer, note>>
bounds   == <<changes, crashes>>
vars == <<accounts, lastLogin, audit, handler, up, cut, faulted, seen, bounds>>

\* An account is usable by a login only if it has a password hash too.
Accounts == {"absent", "active", "passwordless", "disabled"}
States   == {"live", "expired", "revoked"}
Sessions == [admin : Admins, state : States]
Logins   == [kind : {"login"}, admin : Admins, correct : BOOLEAN]
Views    == [kind : {"view"}, token : Requests \cup {NoToken, Forged}]
Asks     == Logins \cup Views \cup [kind : {"invalid"}]
Notes    == [result : {"allowed", "denied"}, admin : Admins \cup {None},
             reason : {"invalid_credentials", "missing_bearer", "invalid_token", None}]
Pending  == {"find", "password", "create", "touch", "token", "session", "account", "admitted",
             "audit", "reply"}
Done     == {"answered", "lost"}

\* NULL is no status code, and no row.
ASSUME RowAssumption == None \notin Nat /\ None \notin Sessions

\* Mutant: only the expiry of a session is looked at, not its revocation.
NotExpired(l) == session[l] # None /\ session[l].state # "expired"

Live(l) == session[l] # None /\ session[l].state = "live"

\* Mutant: an account without a password is taken for a disabled one.
OnlyWithPassword(a) == account[a] = "active"

AdminActive(a) == account[a] \in {"active", "passwordless"}

TokenFresh(t) == t # Forged /\ t \notin lapsed

-----------------------------------------------------------------------------
(* History: what was true of a request at some moment while it was open *)

Truth(fact, opposite, holds) == {IF holds THEN fact ELSE opposite}

Facts(r) ==
  CASE ask[r].kind = "login" ->
         Truth("login_enabled", "login_disabled", account[ask[r].admin] = "active")
    [] ask[r].kind = "view" /\ ask[r].token \in Requests ->
         LET l == ask[r].token IN
           Truth("token_fresh", "token_lapsed", l \notin lapsed)
             \cup Truth("session_live", "session_dead", session[l].state = "live")
             \cup Truth("admin_active", "admin_inactive",
                        account[session[l].admin] \in {"active", "passwordless"})
    [] OTHER -> {}

Observe ==
  seen' = [r \in Requests |-> IF pc[r] \in Pending THEN seen[r] \cup Facts(r)' ELSE seen[r]]

-----------------------------------------------------------------------------
Init ==
  /\ account \in [Admins -> {"absent", "active"}]
  /\ session = [r \in Requests |-> None]
  /\ lapsed = {} /\ lastLogin = {}
  /\ audit = [r \in Requests |-> <<>>]
  /\ ask = [r \in Requests |-> None]
  /\ pc = [r \in Requests |-> "idle"]
  /\ user = [r \in Requests |-> None]
  /\ answer = [r \in Requests |-> None]
  /\ note = [r \in Requests |-> None]
  /\ up = TRUE /\ cut = {}
  /\ faulted = {}
  /\ seen = [r \in Requests |-> {}]
  /\ changes = 0 /\ crashes = 0

At(r, label)   == up /\ r \notin cut /\ pc[r] = label
GoTo(r, label) == pc' = [pc EXCEPT ![r] = label]

Answer(r, status, label) == answer' = [answer EXCEPT ![r] = status] /\ GoTo(r, label)

\* Mutant: a denial is answered without its audit row.
DenyUnaudited(r, admin, reason) ==
  Answer(r, 401, "reply")
    /\ note' = [note EXCEPT ![r] = [result |-> "denied", admin |-> admin, reason |-> reason]]

\* The audit row is written, then 401 is thrown.
Deny(r, admin, reason) ==
  Answer(r, 401, "audit")
    /\ note' = [note EXCEPT ![r] = [result |-> "denied", admin |-> admin, reason |-> reason]]

\* A token is known to clients once the login that issued it is answered.
Issued == {l \in Requests : pc[l] = "answered" /\ ask[l].kind = "login" /\ answer[l] = 200}

\* A login body is parsed by its schema; the preHandler starts with the header.
Receive(r) ==
  /\ At(r, "idle")
  /\ \E a \in Logins \cup Views \cup [kind : {"invalid"}] :
       /\ a.kind = "view" => a.token \in Issued \cup {NoToken, Forged}
       /\ ask' = [ask EXCEPT ![r] = a]
       /\ CASE a.kind = "login"   -> GoTo(r, "find") /\ UNCHANGED <<answer, note>>
            [] a.kind = "invalid" -> Answer(r, 400, "reply") /\ UNCHANGED note
            [] OTHER -> IF a.token = NoToken THEN Deny(r, None, "missing_bearer")
                        ELSE GoTo(r, "token") /\ UNCHANGED <<answer, note>>
  /\ UNCHANGED <<accounts, lastLogin, audit, user, up, cut, faulted, bounds>>
  /\ seen' = [seen EXCEPT ![r] = Facts(r)']

-----------------------------------------------------------------------------
(* login *)

\* getAdminRowByEmail: unknown, disabled and passwordless accounts are all refused alike.
FindAdmin(r) ==
  /\ At(r, "find")
  /\ IF account[ask[r].admin] = "active"
     THEN GoTo(r, "password") /\ UNCHANGED <<answer, note>>
     ELSE Deny(r, None, "invalid_credentials")
  /\ UNCHANGED <<accounts, lastLogin, audit, ask, user, up, cut, faulted, seen, bounds>>

\* Mutant: the promise of verifyPassword is not awaited; a promise is truthy.
PromiseIsTruthy(r) == ask[r].correct \in BOOLEAN

PasswordOk(r) == ask[r].correct

CheckPassword(r) ==
  /\ At(r, "password")
  /\ IF PasswordOk(r) THEN GoTo(r, "create") /\ UNCHANGED <<answer, note>>
     ELSE Deny(r, ask[r].admin, "invalid_credentials")
  /\ UNCHANGED <<accounts, lastLogin, audit, ask, user, up, cut, faulted, seen, bounds>>

StoreSession(r) ==
  session' = [session EXCEPT ![r] = [admin |-> ask[r].admin, state |-> "live"]]

\* createSession, then the token is signed
CreateSession(r) ==
  /\ At(r, "create")
  /\ StoreSession(r)
  /\ GoTo(r, "touch")
  /\ UNCHANGED <<account, lapsed, lastLogin, audit, ask, user, answer, note, up, cut, faulted, seen, bounds>>

MarkLogin(r) == lastLogin' = lastLogin \cup {ask[r].admin}

TouchLogin(r) ==
  /\ At(r, "touch")
  /\ MarkLogin(r)
  /\ Answer(r, 200, "audit")
  /\ note' = [note EXCEPT ![r] = [result |-> "allowed", admin |-> ask[r].admin, reason |-> None]]
  /\ UNCHANGED <<accounts, audit, ask, user, up, cut, faulted, seen, bounds>>

\* What a statement of a login whose outcome is not learnt may have done all the same.
Unacknowledged(r) ==
  \/ UNCHANGED <<session, lastLogin>>
  \/ pc[r] = "create" /\ StoreSession(r) /\ UNCHANGED lastLogin
  \/ pc[r] = "touch" /\ MarkLogin(r) /\ UNCHANGED session

\* A rejected statement ends the login with 500; a session it inserted stays.
LoginFails(r) ==
  /\ At(r, "find") \/ At(r, "create") \/ At(r, "touch")
  /\ Unacknowledged(r)
  /\ Answer(r, 500, "reply")
  /\ faulted' = faulted \cup {r}
  /\ UNCHANGED <<account, lapsed, audit, ask, user, note, up, cut, seen, bounds>>

-----------------------------------------------------------------------------
(* adminAuthPreHandler and getActiveAdminFromToken *)

VerifyToken(r) ==
  /\ At(r, "token")
  /\ IF TokenFresh(ask[r].token) THEN GoTo(r, "session") /\ UNCHANGED <<answer, note>>
     ELSE Deny(r, None, "invalid_token")
  /\ UNCHANGED <<accounts, lastLogin, audit, ask, user, up, cut, faulted, seen, bounds>>

ReadSession(r) ==
  /\ At(r, "session")
  /\ IF Live(ask[r].token) THEN GoTo(r, "account") /\ UNCHANGED <<answer, note>>
     ELSE Deny(r, None, "invalid_token")
  /\ UNCHANGED <<accounts, lastLogin, audit, ask, user, up, cut, faulted, seen, bounds>>

\* Mutant: the hook keeps the session row and not the admin.
SessionRow(l) == session[l]

\* The token's sub claim: the admin the session was created for
Subject(l) == ask[l].admin

ReadAccount(r) ==
  /\ At(r, "account")
  /\ IF AdminActive(ask[ask[r].token].admin)
     THEN /\ user' = [user EXCEPT ![r] = Subject(ask[r].token)]
          /\ GoTo(r, "admitted")
          /\ UNCHANGED <<answer, note>>
     ELSE Deny(r, None, "invalid_token") /\ UNCHANGED user
  /\ UNCHANGED <<accounts, lastLogin, audit, ask, up, cut, faulted, seen, bounds>>

\* The hook catches every error alike: a rejected read is denied as an invalid token.
LookupFails(r) ==
  /\ At(r, "session") \/ At(r, "account")
  /\ Deny(r, None, "invalid_token")
  /\ faulted' = faulted \cup {r}
  /\ UNCHANGED <<accounts, lastLogin, audit, ask, user, up, cut, seen, bounds>>

\* The route's own handler
Serve(r) ==
  /\ At(r, "admitted")
  /\ \E status \in {200, 500} : Answer(r, status, "reply")
  /\ UNCHANGED <<accounts, lastLogin, audit, ask, user, note, up, cut, faulted, seen, bounds>>

-----------------------------------------------------------------------------
(* recordAdminLogin, recordAdminViewDenied and the reply *)

StoreNote(r) == audit' = [audit EXCEPT ![r] = Append(@, note[r])]

InsertAudit(r) ==
  /\ At(r, "audit")
  /\ StoreNote(r)
  /\ GoTo(r, "reply")
  /\ UNCHANGED <<accounts, lastLogin, ask, user, answer, note, up, cut, faulted, seen, bounds>>

AuditFails(r) ==
  /\ At(r, "audit")
  /\ UNCHANGED audit \/ StoreNote(r)
  /\ GoTo(r, "reply")
  /\ faulted' = faulted \cup {r}
  /\ UNCHANGED <<accounts, lastLogin, ask, user, answer, note, up, cut, seen, bounds>>

Respond(r) ==
  /\ At(r, "reply")
  /\ GoTo(r, "answered")
  /\ UNCHANGED <<accounts, lastLogin, audit, ask, user, answer, note, up, cut, faulted, seen, bounds>>

-----------------------------------------------------------------------------
(* Accounts and sessions change under the requests; crashes *)

AccountsOnly ==
  /\ changes < MaxChanges /\ changes' = changes + 1
  /\ UNCHANGED <<lastLogin, audit, handler, up, cut, faulted, crashes>>

\* createAdmin, from the script or at startup
CreateAdmin(a) ==
  /\ account[a] = "absent"
  /\ account' = [account EXCEPT ![a] = "active"]
  /\ AccountsOnly /\ UNCHANGED <<session, lapsed>>
  /\ Observe

\* An operator edits the account: no code of the server does.
SetAccount(a, state) ==
  /\ account[a] \notin {"absent", state}
  /\ account' = [account EXCEPT ![a] = state]
  /\ AccountsOnly /\ UNCHANGED <<session, lapsed>>
  /\ Observe

\* The clock passes the session's expires_at, or an operator sets its revoked_at.
EndSession(l, state) ==
  /\ session[l] # None /\ session[l].state = "live"
  /\ session' = [session EXCEPT ![l].state = state]
  /\ AccountsOnly /\ UNCHANGED <<account, lapsed>>
  /\ Observe

\* The clock passes the token's exp claim, which is not the session's expires_at.
LapseToken(l) ==
  /\ session[l] # None /\ l \notin lapsed
  /\ lapsed' = lapsed \cup {l}
  /\ AccountsOnly /\ UNCHANGED <<account, session>>
  /\ Observe

AccountStep ==
  \/ \E a \in Admins : CreateAdmin(a)
  \/ \E a \in Admins, state \in Accounts \ {"absent"} : SetAccount(a, state)
  \/ \E l \in Requests, state \in {"expired", "revoked"} : EndSession(l, state)
  \/ \E l \in Requests : LapseToken(l)

\* A crash ends every handler.
Crash ==
  /\ up /\ crashes < MaxCrashes
  /\ up' = FALSE /\ crashes' = crashes + 1
  /\ cut' = cut \cup {r \in Requests : pc[r] \in Pending}
  /\ UNCHANGED <<accounts, lastLogin, audit, handler, faulted, seen, changes>>

\* PostgreSQL carries out the statement a dead handler had sent, or never got it.
Abandon(r) ==
  /\ r \in cut
  /\ cut' = cut \ {r}
  /\ GoTo(r, "lost")
  /\ \/ Unacknowledged(r) /\ UNCHANGED audit
     \/ pc[r] = "audit" /\ StoreNote(r) /\ UNCHANGED <<session, lastLogin>>
  /\ UNCHANGED <<account, lapsed, ask, user, answer, note, up, faulted, seen, bounds>>

Restart ==
  /\ ~up /\ up' = TRUE
  /\ UNCHANGED <<accounts, lastLogin, audit, handler, cut, faulted, seen, bounds>>

Handle(r) ==
  \/ FindAdmin(r) \/ CheckPassword(r) \/ CreateSession(r) \/ TouchLogin(r) \/ LoginFails(r)
  \/ VerifyToken(r) \/ ReadSession(r) \/ ReadAccount(r) \/ LookupFails(r) \/ Serve(r)
  \/ InsertAudit(r) \/ AuditFails(r) \/ Respond(r)

Next ==
  \/ \E r \in Requests : Receive(r) \/ Handle(r) \/ Abandon(r)
  \/ AccountStep \/ Crash \/ Restart

Spec == Init /\ [][Next]_vars

-----------------------------------------------------------------------------
(* Properties *)

\* Every variable keeps its shape.
TypeOK ==
  /\ account \in [Admins -> Accounts]
  /\ session \in [Requests -> Sessions \cup {None}]
  /\ lapsed \subseteq Requests /\ lastLogin \subseteq Admins
  /\ audit \in [Requests -> Seq(Notes)]
  /\ ask \in [Requests -> Asks \cup {None}]
  /\ pc \in [Requests -> {"idle"} \cup Pending \cup Done]
  /\ user \in [Requests -> Admins \cup {None}]
  /\ answer \in [Requests -> {200, 400, 401, 500, None}]
  /\ note \in [Requests -> Notes \cup {None}]
  /\ up \in BOOLEAN /\ cut \subseteq Requests
  /\ faulted \subseteq Requests
  /\ changes \in Nat /\ crashes \in Nat

\* Access.  Whatever happens to accounts and sessions between the reads, a route's handler
\* runs only for a request whose token was fresh, whose session was live and whose admin
\* was active at moments after the request arrived; and it runs as the admin the session
\* was created for.  A session revoked or an account disabled before a request arrives,
\* and left so, is never let in.
AccessJustified ==
  \A r \in Requests : user[r] # None =>
    /\ {"token_fresh", "session_live", "admin_active"} \subseteq seen[r]
    /\ user[r] = session[ask[r].token].admin

\* Sessions are earned.  A session exists only if its login carried the right password
\* for an account that could log in at some moment of the login; one that was refused
\* left none, and a 200 left one.
SessionsEarned ==
  \A l \in Requests :
    /\ session[l] # None =>
         /\ ask[l].kind = "login" /\ ask[l].correct /\ session[l].admin = ask[l].admin
         /\ "login_enabled" \in seen[l]
         /\ answer[l] \in {None, 200, 500}
    /\ answer[l] = 200 /\ ask[l].kind = "login" => session[l] # None

\* Refusals are justified.  Where no statement was rejected, a login answered 401 carried a
\* wrong password or met an account it could not use, and a view answered 401 carried no
\* token or one that was bad at some moment of the request.
DenialsJustified ==
  \A r \in Requests : answer[r] = 401 /\ r \notin faulted =>
    CASE ask[r].kind = "login" -> ~ask[r].correct \/ "login_disabled" \in seen[r]
      [] ask[r].kind = "view" /\ ask[r].token \in Requests ->
           seen[r] \cap {"token_lapsed", "session_dead", "admin_inactive"} # {}
      [] OTHER -> TRUE

\* Audit trail.  Every refusal and every login that is answered has the one row that tells
\* of it, unless its insert was rejected, and so has no other request; a row that says a
\* login was allowed names the admin whose session exists.
AdminAuditTrail ==
  \A r \in Requests :
    /\ Len(audit[r]) <= 1
    /\ \A i \in 1..Len(audit[r]) :
         LET row == audit[r][i] IN
         IF row.result = "allowed" THEN session[r] # None /\ row.admin = session[r].admin
         ELSE answer[r] = 401 /\ (ask[r].kind = "login") = (row.reason = "invalid_credentials")
    /\ pc[r] = "answered" /\ r \notin faulted =>
         (audit[r] # <<>>) = (answer[r] = 401 \/ (ask[r].kind = "login" /\ answer[r] = 200))

===============================================================================
