--------------------------- MODULE AdminAccessProofs ---------------------------
(* Theorems about AdminAccess, for any requests, admins, changes and crashes. *)
EXTENDS AdminAccess, TLAPS

-----------------------------------------------------------------------------
(* Every variable keeps its shape. *)

\* A handler is only at the labels of its kind of request, and what it is to record is a
\* row of the trail.
Labelled(r) ==
  /\ pc[r] \in {"find", "password", "create", "touch"} => ask[r] \in Logins
  /\ pc[r] \in {"token", "session", "account", "admitted"} => ask[r] \in Views /\ ask[r].token # NoToken
  /\ pc[r] \in {"session", "account", "admitted"} => ask[r].token \in Requests
  /\ pc[r] = "audit" => note[r] \in Notes
  /\ pc[r] # "idle" => ask[r] \in Asks
  /\ r \in cut => pc[r] \in Pending

Labels == \A r \in Requests : Labelled(r)

\* A token that a view carries was issued by a login that is answered.
Tokens ==
  \A r \in Requests : pc[r] # "idle" /\ ask[r] \in Views /\ ask[r].token \in Requests =>
    ask[ask[r].token] \in Logins /\ pc[ask[r].token] = "answered"

Typed == TypeOK /\ Labels /\ Tokens

\* What requests carry, by their kind.
LEMMA AskFacts ==
  /\ \A a \in Asks : /\ a.kind = "login" => a \in Logins
                     /\ a.kind = "view" => a \in Views
                     /\ a.kind \in {"login", "view", "invalid"}
  /\ \A a \in Logins : a \in Asks /\ a.admin \in Admins /\ a.correct \in BOOLEAN /\ a.kind = "login"
  /\ \A a \in Views : a \in Asks /\ a.token \in Requests \cup {NoToken, Forged} /\ a.kind = "view"
  BY DEF Asks, Logins, Views

\* At first nothing is asked.
LEMMA InitType == Init => Typed
<1> SUFFICES ASSUME Init
             PROVE  Typed
  OBVIOUS
<1>1. TypeOK
  BY BoundAssumption DEF Init, TypeOK, Accounts
<1>2. Labels
  BY DEF Init, Labels, Labelled
<1>3. \A r \in Requests : pc[r] = "idle"
  BY DEF Init
<1> QED
  BY <1>1, <1>2, <1>3 DEF Typed, Tokens

\* A step of a handler, and its end.
HandlerStep(r) == Handle(r) \/ Abandon(r)

\* A refusal makes a row of the trail.
LEMMA DenyFacts ==
  ASSUME NEW r, NEW admin \in Admins \cup {None},
         NEW reason \in {"invalid_credentials", "missing_bearer", "invalid_token"},
         Deny(r, admin, reason)
  PROVE  /\ answer' = [answer EXCEPT ![r] = 401] /\ pc' = [pc EXCEPT ![r] = "audit"]
         /\ \E n \in Notes : /\ note' = [note EXCEPT ![r] = n]
                            /\ n.result = "denied" /\ n.reason = reason /\ n.admin = admin
<1> DEFINE n == [result |-> "denied", admin |-> admin, reason |-> reason]
<1>1. n \in Notes /\ n.result = "denied" /\ n.reason = reason /\ n.admin = admin
  BY DEF Notes
<1>2. note' = [note EXCEPT ![r] = n]
  BY DEF Deny
<1> HIDE DEF n
<1> QED
  BY <1>1, <1>2 DEF Deny, Answer, GoTo

\* What a step of a handler changes is its own; accounts and the clock it leaves alone.
LEMMA HandlerStepFacts ==
  ASSUME NEW r \in Requests, HandlerStep(r)
  PROVE  /\ UNCHANGED <<account, lapsed, ask, seen, up, changes, crashes>>
         /\ faulted' \in {faulted, faulted \cup {r}} /\ cut' \in {cut, cut \ {r}} /\ r \notin cut'
  BY DEF HandlerStep, Handle, Abandon, FindAdmin, CheckPassword, CreateSession, TouchLogin, LoginFails,
         VerifyToken, ReadSession, ReadAccount, LookupFails, Serve, InsertAudit, AuditFails, Respond,
         accounts, bounds, At

\* A handler goes to a label of its kind of request, with a row to write at "audit" only.
Moves(r, label) ==
  /\ label \in Pending \cup Done /\ label \notin {"find", "token"}
  /\ pc' = [pc EXCEPT ![r] = label]
  /\ label \in {"password", "create", "touch"} => ask[r] \in Logins
  /\ label \in {"session", "account", "admitted"} => ask[r] \in Views /\ ask[r].token \in Requests
  /\ IF label = "audit" THEN \E n \in Notes : note' = [note EXCEPT ![r] = n] ELSE UNCHANGED note
  /\ pc[r] \in Pending /\ r \notin cut' /\ cut' \subseteq cut

\* A handler goes from its label to one of the next.
LEMMA LabelStep ==
  ASSUME Typed, NEW r \in Requests, HandlerStep(r)
  PROVE  \E label : Moves(r, label)
<1> USE DEF Typed, Labels, Labelled, At, GoTo, Answer, Moves, Pending, Done
<1>0. /\ pc[r] \in {"find", "password", "create", "touch"} => ask[r].admin \in Admins
      /\ pc[r] = "token" /\ TokenFresh(ask[r].token) => ask[r].token \in Requests
      /\ r \notin cut' /\ cut' \subseteq cut
  BY AskFacts, HandlerStepFacts DEF TokenFresh
<1>1. CASE FindAdmin(r)
  BY <1>0, <1>1, DenyFacts DEF FindAdmin
<1>2. CASE CheckPassword(r)
  <2>1. pc[r] = "password" /\ ask[r] \in Logins /\ ask[r].admin \in Admins \cup {None}
    BY <1>0, <1>2 DEF CheckPassword
  <2>2. CASE PasswordOk(r)
    BY <1>0, <1>2, <2>1, <2>2 DEF CheckPassword
  <2>3. CASE ~PasswordOk(r)
    <3>1. Deny(r, ask[r].admin, "invalid_credentials")
      BY <1>2, <2>3 DEF CheckPassword
    <3> QED
      BY <1>0, <2>1, <3>1, DenyFacts
  <2> QED
    BY <2>2, <2>3
<1>3. CASE CreateSession(r)
  BY <1>0, <1>3 DEF CreateSession
<1>4. CASE TouchLogin(r)
  <2> DEFINE n == [result |-> "allowed", admin |-> ask[r].admin, reason |-> None]
  <2>1. pc[r] = "touch" /\ ask[r].admin \in Admins
    BY <1>0, <1>4 DEF TouchLogin
  <2>2. n \in Notes
    BY <2>1 DEF Notes
  <2>3. pc' = [pc EXCEPT ![r] = "audit"] /\ note' = [note EXCEPT ![r] = n]
    BY <1>4 DEF TouchLogin
  <2> HIDE DEF n
  <2>4. \E m \in Notes : note' = [note EXCEPT ![r] = m]
    BY <2>2, <2>3
  <2>5. Moves(r, "audit")
    BY <1>0, <2>1, <2>3, <2>4
  <2> QED
    BY <2>5
<1>5. CASE VerifyToken(r)
  BY <1>0, <1>5, DenyFacts DEF VerifyToken
<1>6. CASE ReadSession(r)
  BY <1>0, <1>6, DenyFacts DEF ReadSession
<1>7. CASE ReadAccount(r)
  BY <1>0, <1>7, DenyFacts DEF ReadAccount
<1>8. CASE LookupFails(r)
  BY <1>0, <1>8, DenyFacts DEF LookupFails
<1>9. CASE LoginFails(r) \/ Serve(r)
  BY <1>0, <1>9 DEF LoginFails, Serve
<1>10. CASE InsertAudit(r) \/ AuditFails(r) \/ Respond(r) \/ Abandon(r)
  BY <1>0, <1>10 DEF InsertAudit, AuditFails, Respond, Abandon
<1> QED
  BY <1>1, <1>2, <1>3, <1>4, <1>5, <1>6, <1>7, <1>8, <1>9, <1>10 DEF HandlerStep, Handle

\* The answer, the user and the row in the trail it decides.
LEMMA DecisionStep ==
  ASSUME Typed, NEW r \in Requests, HandlerStep(r)
  PROVE  /\ UNCHANGED answer \/ \E status \in {200, 401, 500} : answer' = [answer EXCEPT ![r] = status]
         /\ UNCHANGED user \/ \E a \in Admins : user' = [user EXCEPT ![r] = a]
         /\ UNCHANGED audit \/ (pc[r] = "audit" /\ audit' = [audit EXCEPT ![r] = Append(@, note[r])])
         /\ lastLogin \subseteq Admins => lastLogin' \subseteq Admins
         /\ UNCHANGED session \/ (pc[r] = "create" /\ StoreSession(r))
<1> USE DEF At, Answer, Deny, StoreNote
<1>1. UNCHANGED answer \/ \E status \in {200, 401, 500} : answer' = [answer EXCEPT ![r] = status]
  BY DEF HandlerStep, Handle, Abandon, FindAdmin, CheckPassword, CreateSession, TouchLogin, LoginFails,
         VerifyToken, ReadSession, ReadAccount, LookupFails, Serve, InsertAudit, AuditFails, Respond
<1>2. UNCHANGED user \/ \E a \in Admins : user' = [user EXCEPT ![r] = a]
  <2>1. pc[r] = "account" => Subject(ask[r].token) \in Admins
    BY AskFacts DEF Subject, Typed, Labels, Labelled, Tokens
  <2> QED
    BY <2>1
    DEF HandlerStep, Handle, Abandon, FindAdmin, CheckPassword, CreateSession, TouchLogin, LoginFails,
        VerifyToken, ReadSession, ReadAccount, LookupFails, Serve, InsertAudit, AuditFails, Respond
<1>3. UNCHANGED audit \/ (pc[r] = "audit" /\ audit' = [audit EXCEPT ![r] = Append(@, note[r])])
  BY DEF HandlerStep, Handle, Abandon, FindAdmin, CheckPassword, CreateSession, TouchLogin, LoginFails,
         VerifyToken, ReadSession, ReadAccount, LookupFails, Serve, InsertAudit, AuditFails, Respond
<1>4. UNCHANGED session \/ (pc[r] = "create" /\ StoreSession(r))
  BY DEF HandlerStep, Handle, Abandon, FindAdmin, CheckPassword, CreateSession, TouchLogin, LoginFails,
         VerifyToken, ReadSession, ReadAccount, LookupFails, Serve, InsertAudit, AuditFails, Respond,
         Unacknowledged, accounts
<1>5. lastLogin \subseteq Admins => lastLogin' \subseteq Admins
  <2>1. UNCHANGED lastLogin \/ (pc[r] = "touch" /\ MarkLogin(r))
    BY DEF HandlerStep, Handle, Abandon, FindAdmin, CheckPassword, CreateSession, TouchLogin, LoginFails,
           VerifyToken, ReadSession, ReadAccount, LookupFails, Serve, InsertAudit, AuditFails, Respond,
           Unacknowledged
  <2> QED
    BY <2>1, AskFacts DEF MarkLogin, Typed, Labels, Labelled
<1> QED
  BY <1>1, <1>2, <1>3, <1>4, <1>5

\* A step of a handler keeps the type.
LEMMA HandlerKeepsType ==
  ASSUME Typed, NEW r \in Requests, HandlerStep(r)
  PROVE  Typed'
<1>0. TypeOK /\ Labels /\ Tokens
  BY DEF Typed
<1>1. PICK label : Moves(r, label)
  BY LabelStep
<1>2. pc' \in [Requests -> {"idle"} \cup Pending \cup Done]
  BY <1>0, <1>1 DEF TypeOK, Moves
<1>3. note' \in [Requests -> Notes \cup {None}] /\ \A q \in Requests \ {r} : note'[q] = note[q]
  <2>1. CASE label = "audit"
    <3>1. PICK n \in Notes : note' = [note EXCEPT ![r] = n]
      BY <1>1, <2>1 DEF Moves
    <3> QED
      BY <1>0, <3>1 DEF TypeOK
  <2>2. CASE label # "audit"
    BY <1>0, <1>1, <2>2 DEF TypeOK, Moves
  <2> QED
    BY <2>1, <2>2
<1>4. TypeOK'
  <2>1. session' \in [Requests -> Sessions \cup {None}]
    <3>1. CASE pc[r] = "create" /\ StoreSession(r)
      <4>1. [admin |-> ask[r].admin, state |-> "live"] \in Sessions
        BY <1>0, <3>1, AskFacts DEF Labels, Labelled, Sessions, States
      <4> QED
        BY <1>0, <3>1, <4>1 DEF StoreSession, TypeOK
    <3> QED
      BY <1>0, <3>1, DecisionStep DEF TypeOK
  <2>2. audit' \in [Requests -> Seq(Notes)]
    <3>1. CASE pc[r] = "audit" /\ audit' = [audit EXCEPT ![r] = Append(@, note[r])]
      <4>1. Append(audit[r], note[r]) \in Seq(Notes)
        BY <1>0, <3>1 DEF Labels, Labelled, TypeOK
      <4> QED
        BY <1>0, <3>1, <4>1 DEF TypeOK
    <3>2. CASE UNCHANGED audit
      BY <1>0, <3>2 DEF TypeOK
    <3> QED
      BY <3>1, <3>2, DecisionStep
  <2>3. answer' \in [Requests -> {200, 400, 401, 500, None}]
    <3>1. CASE UNCHANGED answer
      BY <1>0, <3>1 DEF TypeOK
    <3>2. CASE \E status \in {200, 401, 500} : answer' = [answer EXCEPT ![r] = status]
      BY <1>0, <3>2 DEF TypeOK
    <3> QED
      BY <3>1, <3>2, DecisionStep
  <2>6. user' \in [Requests -> Admins \cup {None}]
    <3>1. CASE UNCHANGED user
      BY <1>0, <3>1 DEF TypeOK
    <3>2. CASE \E a \in Admins : user' = [user EXCEPT ![r] = a]
      BY <1>0, <3>2 DEF TypeOK
    <3> QED
      BY <3>1, <3>2, DecisionStep
  <2>4. lastLogin' \subseteq Admins
    <3>1. lastLogin \subseteq Admins
      BY <1>0 DEF TypeOK
    <3> QED
      BY <3>1, DecisionStep
  <2>5. /\ account' = account /\ lapsed' = lapsed /\ ask' = ask /\ up' = up
        /\ changes' = changes /\ crashes' = crashes
        /\ cut' \subseteq cut /\ faulted' \subseteq faulted \cup {r}
    BY HandlerStepFacts
  <2> QED
    BY <1>2, <1>3, <2>1, <2>2, <2>3, <2>4, <2>5, <2>6, <1>0 DEF TypeOK
<1>5. Labels'
  <2>1. pc'[r] = label /\ ask' = ask
    BY <1>0, <1>1, HandlerStepFacts DEF TypeOK, Moves
  <2>2. label = "audit" => note'[r] \in Notes
    BY <1>0, <1>1 DEF TypeOK, Moves
  <2>3. ask[r] \in Asks
    BY <1>0, <1>1, <2>1 DEF Labels, Labelled, Moves, Pending
  <2>4. \A q \in Requests \ {r} : pc'[q] = pc[q] /\ note'[q] = note[q]
    BY <1>0, <1>1, <1>3 DEF TypeOK, Moves
  <2>5. label \in {"session", "account", "admitted"} => ask[r].token # NoToken
    BY <1>1, NullAssumption DEF Moves
  <2>6. \A q \in Requests \ {r} : Labelled(q)'
    BY <1>0, <1>1, <2>1, <2>4 DEF Labels, Labelled, Moves
  <2>7. Labelled(r)'
    BY <1>0, <1>1, <2>1, <2>2, <2>3, <2>5 DEF Labels, Labelled, Moves
  <2> QED
    BY <2>6, <2>7 DEF Labels
<1>6. Tokens'
  <2>1. ask' = ask /\ \A q \in Requests : pc[q] = "answered" => pc'[q] = "answered"
    BY <1>0, <1>1, HandlerStepFacts DEF TypeOK, Moves, Pending
  <2>2. \A q \in Requests : pc'[q] # "idle" => pc[q] # "idle"
    BY <1>0, <1>1 DEF TypeOK, Moves, Pending
  <2> QED
    BY <1>0, <2>1, <2>2 DEF Tokens
<1> QED
  BY <1>4, <1>5, <1>6 DEF Typed

\* A request that arrives is one of the three kinds, and carries no token but an issued one.
Arrives(r, a, label) ==
  /\ a \in Asks /\ ask' = [ask EXCEPT ![r] = a]
  /\ a \in Views /\ a.token \in Requests => a.token \in Issued
  /\ label \in {"find", "reply", "token", "audit"} /\ pc' = [pc EXCEPT ![r] = label]
  /\ label = "find" => a \in Logins
  /\ label = "token" => a \in Views /\ a.token # NoToken
  /\ label = "audit" =>
       /\ a \in Views /\ a.token = NoToken
       /\ answer' = [answer EXCEPT ![r] = 401]
       /\ \E n \in Notes : /\ note' = [note EXCEPT ![r] = n]
                          /\ n.result = "denied" /\ n.reason = "missing_bearer"
  /\ label = "reply" => answer' = [answer EXCEPT ![r] = 400]
  /\ label \in {"find", "token"} => UNCHANGED answer
  /\ label # "audit" => UNCHANGED note

\* A request that arrives goes to its first label.
LEMMA ArrivalStep ==
  ASSUME NEW r \in Requests, Receive(r)
  PROVE  \E a, label : Arrives(r, a, label)
<1>1. PICK a \in Logins \cup Views \cup [kind : {"invalid"}] :
        /\ a.kind = "view" => a.token \in Issued \cup {NoToken, Forged}
        /\ ask' = [ask EXCEPT ![r] = a]
        /\ CASE a.kind = "login"   -> GoTo(r, "find") /\ UNCHANGED <<answer, note>>
             [] a.kind = "invalid" -> Answer(r, 400, "reply") /\ UNCHANGED note
             [] OTHER -> IF a.token = NoToken THEN Deny(r, None, "missing_bearer")
                         ELSE GoTo(r, "token") /\ UNCHANGED <<answer, note>>
  BY DEF Receive
<1>2. /\ a \in Asks /\ a.kind \in {"login", "view", "invalid"}
      /\ a.kind = "login" => a \in Logins
      /\ a.kind = "view" => a \in Views
      /\ a \in Views => a.kind = "view"
  BY AskFacts DEF Asks
<1>3. a \in Views /\ a.token \in Requests => a.token \in Issued
  BY <1>1, <1>2, NullAssumption
<1>4. CASE a.kind = "login"
  <2>1. Arrives(r, a, "find")
    BY <1>1, <1>2, <1>3, <1>4 DEF GoTo, Arrives
  <2> QED
    BY <2>1
<1>5. CASE a.kind = "invalid"
  <2>1. pc' = [pc EXCEPT ![r] = "reply"] /\ answer' = [answer EXCEPT ![r] = 400] /\ UNCHANGED note
    BY <1>1, <1>5 DEF GoTo, Answer
  <2>2. Arrives(r, a, "reply")
    BY <1>1, <1>2, <1>3, <2>1 DEF Arrives
  <2> QED
    BY <2>2
<1>6. CASE a.kind = "view" /\ a.token = NoToken
  <2>1. Deny(r, None, "missing_bearer")
    BY <1>1, <1>6
  <2>2. /\ answer' = [answer EXCEPT ![r] = 401] /\ pc' = [pc EXCEPT ![r] = "audit"]
        /\ \E n \in Notes : /\ note' = [note EXCEPT ![r] = n]
                           /\ n.result = "denied" /\ n.reason = "missing_bearer"
    BY <2>1, DenyFacts
  <2>3. Arrives(r, a, "audit")
    BY <1>1, <1>2, <1>3, <1>6, <2>2 DEF Arrives
  <2> QED
    BY <2>3
<1>7. CASE a.kind = "view" /\ a.token # NoToken
  <2>1. Arrives(r, a, "token")
    BY <1>1, <1>2, <1>3, <1>7 DEF GoTo, Arrives
  <2> QED
    BY <2>1
<1> QED
  BY <1>2, <1>4, <1>5, <1>6, <1>7

\* A request that arrives keeps every type.
LEMMA ReceiveKeepsType ==
  ASSUME Typed, NEW r \in Requests, Receive(r)
  PROVE  Typed'
<1>0. TypeOK /\ Labels /\ Tokens
  BY DEF Typed
<1>3. r \notin cut /\ pc[r] = "idle" /\ UNCHANGED <<accounts, lastLogin, audit, user, up, cut, faulted, bounds>>
  BY DEF Receive, At
<1>5. PICK a, label : Arrives(r, a, label)
  BY ArrivalStep
<1>6. TypeOK'
  <2>1. note' \in [Requests -> Notes \cup {None}]
    <3>1. CASE label = "audit"
      <4>1. PICK n \in Notes : note' = [note EXCEPT ![r] = n]
        BY <1>5, <3>1 DEF Arrives
      <4> QED
        BY <1>0, <4>1 DEF TypeOK
    <3>2. CASE label # "audit"
      BY <1>0, <1>5, <3>2 DEF TypeOK, Arrives
    <3> QED
      BY <3>1, <3>2
  <2>2. pc' \in [Requests -> {"idle"} \cup Pending \cup Done]
    BY <1>0, <1>5 DEF TypeOK, Pending, Arrives
  <2>3. ask' \in [Requests -> Asks \cup {None}]
    BY <1>0, <1>5 DEF TypeOK, Arrives
  <2>4. answer' \in [Requests -> {200, 400, 401, 500, None}]
    <3>1. \/ answer' = answer \/ answer' = [answer EXCEPT ![r] = 401]
          \/ answer' = [answer EXCEPT ![r] = 400]
      BY <1>5 DEF Arrives
    <3>2. answer \in [Requests -> {200, 400, 401, 500, None}]
      BY <1>0 DEF TypeOK
    <3> QED
      BY <3>1, <3>2
  <2> QED
    BY <1>0, <1>3, <2>1, <2>2, <2>3, <2>4 DEF TypeOK, accounts, bounds, Arrives
<1>7. Labels'
  <2>1. pc'[r] = label /\ ask'[r] = a /\ (label = "audit" => note'[r] \in Notes) /\ cut' = cut
    BY <1>0, <1>3, <1>5 DEF TypeOK, Arrives
  <2>2. \A q \in Requests \ {r} : pc'[q] = pc[q] /\ ask'[q] = ask[q] /\ note'[q] = note[q]
    BY <1>0, <1>5 DEF TypeOK, Arrives
  <2>3. \A q \in Requests \ {r} : Labelled(q)'
    BY <1>0, <1>3, <2>2 DEF Labels, Labelled
  <2>4. Labelled(r)'
    BY <1>3, <1>5, <2>1 DEF Labelled, Arrives
  <2> QED
    BY <2>3, <2>4 DEF Labels
<1>8. Tokens'
  <2>1. \A q \in Requests \ {r} : pc'[q] = pc[q] /\ ask'[q] = ask[q]
    BY <1>0, <1>5 DEF TypeOK, Arrives
  <2>2. ask'[r] = a
    BY <1>0, <1>5 DEF TypeOK, Arrives
  <2>3. a \in Views /\ a.token \in Requests => a.token \in Issued
    BY <1>5 DEF Arrives
  <2>4. \A l \in Issued : l \in Requests /\ pc[l] = "answered" /\ ask[l] \in Logins
    BY <1>0, AskFacts DEF Issued, Labels, Labelled
  <2>5. \A q \in Requests : pc[q] = "answered" => q # r
    BY <1>3
  <2> QED
    BY <1>0, <2>1, <2>2, <2>3, <2>4, <2>5 DEF Tokens
<1> QED
  BY <1>6, <1>7, <1>8 DEF Typed

\* Accounts, sessions and the clock change nothing of a request.
LEMMA AccountStepFacts ==
  ASSUME AccountStep
  PROVE  /\ UNCHANGED <<lastLogin, audit, ask, pc, user, answer, note, up, cut, faulted, crashes>>
         /\ changes' = changes + 1 /\ Observe
  BY DEF AccountStep, CreateAdmin, SetAccount, EndSession, LapseToken, AccountsOnly, handler

\* So does what operators and the clock do.
LEMMA AccountStepKeepsType ==
  ASSUME Typed, AccountStep
  PROVE  Typed'
<1>0. TypeOK /\ Labels /\ Tokens
  BY DEF Typed
<1>1. account' \in [Admins -> Accounts] /\ lapsed' \subseteq Requests
  BY <1>0 DEF AccountStep, CreateAdmin, SetAccount, EndSession, LapseToken, TypeOK, Accounts
<1>2. session' \in [Requests -> Sessions \cup {None}]
  <2>1. ASSUME NEW l \in Requests, NEW state \in {"expired", "revoked"}, EndSession(l, state)
        PROVE  session' \in [Requests -> Sessions \cup {None}]
    <3>1. session[l] \in Sessions
      BY <1>0, <2>1 DEF EndSession, TypeOK
    <3>2. [session[l] EXCEPT !.state = state] \in Sessions
      BY <3>1 DEF Sessions, States
    <3> QED
      BY <1>0, <2>1, <3>2 DEF EndSession, TypeOK
  <2> QED
    BY <1>0, <2>1 DEF AccountStep, CreateAdmin, SetAccount, LapseToken, TypeOK
<1>3. TypeOK'
  BY <1>0, <1>1, <1>2, AccountStepFacts DEF TypeOK
<1>4. Labels' /\ Tokens'
  BY <1>0, AccountStepFacts DEF Labels, Labelled, Tokens
<1> QED
  BY <1>3, <1>4 DEF Typed

\* A crash cuts the handlers that run.
LEMMA ProcessStepKeepsType ==
  ASSUME Typed, Crash \/ Restart
  PROVE  Typed'
<1>0. TypeOK /\ Labels /\ Tokens
  BY DEF Typed
<1>1. UNCHANGED <<accounts, lastLogin, audit, handler, faulted, changes>>
  BY DEF Crash, Restart, bounds
<1>2. /\ up' \in BOOLEAN /\ cut' \subseteq cut \cup {r \in Requests : pc[r] \in Pending}
      /\ crashes' \in {crashes, crashes + 1}
  BY DEF Crash, Restart, bounds
<1>3. TypeOK'
  BY <1>0, <1>1, <1>2 DEF TypeOK, accounts, handler
<1>4. Labels' /\ Tokens'
  BY <1>0, <1>1, <1>2 DEF Labels, Labelled, Tokens, handler
<1> QED
  BY <1>3, <1>4 DEF Typed

\* A step that stutters
LEMMA StutterKeepsType ==
  ASSUME Typed, UNCHANGED vars
  PROVE  Typed'
  BY DEF Typed, TypeOK, Labels, Labelled, Tokens, vars, accounts, handler, bounds

\* A step is one of a request, of the accounts, or a crash or a restart.
LEMMA NextIsAStep ==
  ASSUME Next
  PROVE  \/ \E r \in Requests : Receive(r) \/ HandlerStep(r)
         \/ AccountStep \/ Crash \/ Restart
  BY DEF Next, HandlerStep

\* Every variable of AdminAccess keeps its shape, whatever requests arrive and however
\* accounts, sessions and the clock change.
THEOREM TypeCorrect == Spec => []TypeOK
<1>1. Typed /\ [Next]_vars => Typed'
  BY NextIsAStep, ReceiveKeepsType, HandlerKeepsType, AccountStepKeepsType, ProcessStepKeepsType,
     StutterKeepsType
<1>2. Typed => TypeOK
  BY DEF Typed
<1> QED
  BY InitType, <1>1, <1>2, PTL DEF Spec

-----------------------------------------------------------------------------
(* What a request has shown by the label it is at *)

\* While a request is open, what is true of it has been seen.
Observed(r) == pc[r] \in Pending => Facts(r) \subseteq seen[r]

Early == {"idle", "find", "password", "create", "touch", "token", "session", "account", "admitted"}

\* A login is let from one statement to the next by what the statement found.
Earned(r) ==
  /\ pc[r] \in Early => answer[r] = None
  /\ pc[r] \in Early \ {"touch"} => session[r] = None
  /\ pc[r] \in {"password", "create", "touch"} => "login_enabled" \in seen[r]
  /\ pc[r] \in {"create", "touch"} => ask[r].correct
  /\ pc[r] = "touch" => session[r] # None
  /\ session[r] # None =>
       /\ ask[r] \in Logins /\ ask[r].correct /\ session[r].admin = ask[r].admin
       /\ "login_enabled" \in seen[r] /\ answer[r] \in {None, 200, 500}
  /\ answer[r] = 200 /\ ask[r] \in Logins => session[r] # None

\* A view is let from one check to the next by what the check found.
Admitted(r) ==
  /\ pc[r] # "idle" /\ ask[r] \in Views /\ ask[r].token \in Requests =>
       /\ session[ask[r].token] # None
       /\ session[ask[r].token].admin = ask[ask[r].token].admin
  /\ pc[r] \in {"session", "account"} => "token_fresh" \in seen[r]
  /\ pc[r] = "account" => "session_live" \in seen[r]
  /\ pc[r] = "idle" => user[r] = None
  /\ user[r] # None =>
       /\ ask[r] \in Views /\ ask[r].token \in Requests
       /\ {"token_fresh", "session_live", "admin_active"} \subseteq seen[r]
       /\ user[r] = ask[ask[r].token].admin

\* A refusal has its ground.
Justified(r) == answer[r] = 401 /\ r \notin faulted =>
  \/ ask[r] \in Logins /\ (~ask[r].correct \/ "login_disabled" \in seen[r])
  \/ /\ ask[r] \in Views
     /\ ask[r].token \in Requests => seen[r] \cap {"token_lapsed", "session_dead", "admin_inactive"} # {}

\* What a row says of its request
RowHolds(r, row) ==
  IF row.result = "allowed" THEN session[r] # None /\ row.admin = session[r].admin
  ELSE answer[r] = 401 /\ (ask[r] \in Logins) = (row.reason = "invalid_credentials")

Audited(r) == answer[r] = 401 \/ (ask[r] \in Logins /\ answer[r] = 200)

\* The row is written after the decision and before the reply.
Recorded(r) ==
  /\ pc[r] \notin {"reply", "answered", "lost"} => audit[r] = <<>>
  /\ pc[r] = "audit" => RowHolds(r, note[r]) /\ Audited(r)
  /\ audit[r] = <<>> \/ \E row \in Notes : audit[r] = <<row>> /\ RowHolds(r, row)
  /\ pc[r] \in {"reply", "answered"} /\ r \notin faulted => (audit[r] # <<>>) = Audited(r)

Decided(r) == Earned(r) /\ Admitted(r) /\ Justified(r) /\ Recorded(r)

\* What was seen is kept for every request.
Shaped == seen = [r \in Requests |-> seen[r]]

AccessInv == Typed /\ Shaped /\ \A r \in Requests : Observed(r) /\ Decided(r)

\* The invariant holds at first.
LEMMA InitAccess == Init => AccessInv
<1> SUFFICES ASSUME Init, NEW r \in Requests
             PROVE  Observed(r) /\ Decided(r)
  <2>1. Init => Shaped
    BY DEF Init, Shaped
  <2> QED
    BY <2>1, InitType DEF AccessInv
<1>1. /\ pc[r] = "idle" /\ answer[r] = None /\ session[r] = None /\ user[r] = None
      /\ audit[r] = <<>>
  BY DEF Init
<1>2. None \notin {200, 401}
  BY RowAssumption
<1> QED
  BY <1>1, <1>2 DEF Observed, Decided, Earned, Admitted, Justified, Recorded, Pending

-----------------------------------------------------------------------------
(* What another request's step, or a change of accounts, leaves of it *)

\* A session keeps its admin.
Same(l) ==
  /\ session'[l] = None <=> session[l] = None
  /\ session[l] # None => session'[l].admin = session[l].admin
  /\ pc[l] # "idle" => ask'[l] = ask[l]

Rests(q) ==
  /\ pc'[q] = pc[q] /\ ask'[q] = ask[q] /\ user'[q] = user[q] /\ answer'[q] = answer[q]
  /\ note'[q] = note[q] /\ audit'[q] = audit[q] /\ seen[q] \subseteq seen'[q]
  /\ (q \in faulted' <=> q \in faulted)
  /\ Same(q)
  /\ pc[q] # "idle" /\ ask[q] \in Views /\ ask[q].token \in Requests => Same(ask[q].token)

\* What is decided of a request stays so while nothing of it changes.
LEMMA RestsDecided ==
  ASSUME Typed, NEW q \in Requests, Decided(q), Rests(q)
  PROVE  Decided(q)'
<1>1. Earned(q)'
  BY DEF Decided, Earned, Rests, Same
<1>2. Admitted(q)'
  <2>1. pc[q] # "idle" /\ ask[q] \in Views /\ ask[q].token \in Requests =>
          /\ ask'[ask[q].token] = ask[ask[q].token]
          /\ session'[ask[q].token] # None
          /\ session'[ask[q].token].admin = ask[ask[q].token].admin
    BY DEF Decided, Admitted, Rests, Same, Typed, Tokens
  <2>2. user[q] # None => pc[q] # "idle"
    BY DEF Decided, Admitted
  <2> QED
    BY <2>1, <2>2 DEF Decided, Admitted, Rests
<1>3. Justified(q)'
  BY DEF Decided, Justified, Rests
<1>4. Recorded(q)'
  <2>1. \A row : RowHolds(q, row) => RowHolds(q, row)'
    BY DEF RowHolds, Rests, Same
  <2>2. Audited(q)' = Audited(q)
    BY DEF Audited, Rests
  <2>3. RowHolds(q, note[q]) => RowHolds(q, note[q])'
    BY DEF RowHolds, Rests, Same
  <2> QED
    BY <2>1, <2>2, <2>3 DEF Decided, Recorded, Rests
<1> QED
  BY <1>1, <1>2, <1>3, <1>4 DEF Decided

\* A handler's step is no other request's.
LEMMA HandlerSparesOthers ==
  ASSUME Typed, NEW r \in Requests, HandlerStep(r), NEW q \in Requests \ {r}
  PROVE  Rests(q)
<1>1. PICK label : Moves(r, label)
  BY LabelStep
<1>2. TypeOK /\ Tokens
  BY DEF Typed
<1>3. pc'[q] = pc[q] /\ note'[q] = note[q] /\ pc[r] \in Pending
  <2>1. CASE label = "audit"
    BY <1>1, <1>2, <2>1 DEF Moves, TypeOK
  <2>2. CASE label # "audit"
    BY <1>1, <1>2, <2>2 DEF Moves, TypeOK
  <2> QED
    BY <2>1, <2>2
<1>4. ask' = ask /\ seen' = seen /\ (q \in faulted' <=> q \in faulted)
  BY HandlerStepFacts
<1>5. answer'[q] = answer[q]
  <2>1. UNCHANGED answer \/ \E status \in {200, 401, 500} : answer' = [answer EXCEPT ![r] = status]
    BY DecisionStep
  <2>2. answer = [l \in Requests |-> answer[l]]
    BY <1>2 DEF TypeOK
  <2> QED
    BY <2>1, <2>2
<1>6. user'[q] = user[q]
  <2>1. UNCHANGED user \/ \E a \in Admins : user' = [user EXCEPT ![r] = a]
    BY DecisionStep
  <2>2. user = [l \in Requests |-> user[l]]
    BY <1>2 DEF TypeOK
  <2> QED
    BY <2>1, <2>2
<1>7. audit'[q] = audit[q]
  <2>1. UNCHANGED audit \/ audit' = [audit EXCEPT ![r] = Append(@, note[r])]
    BY DecisionStep
  <2>2. audit = [l \in Requests |-> audit[l]]
    BY <1>2 DEF TypeOK
  <2> QED
    BY <2>1, <2>2
<1>8. \A l \in Requests \ {r} : session'[l] = session[l]
  BY <1>2, DecisionStep DEF TypeOK, StoreSession
<1>9. pc[q] # "idle" /\ ask[q] \in Views /\ ask[q].token \in Requests => ask[q].token # r
  BY <1>2, <1>3 DEF Tokens, Pending
<1> QED
  BY <1>3, <1>4, <1>5, <1>6, <1>7, <1>8, <1>9 DEF Rests, Same

\* An arrival decides nothing of another request.
LEMMA ArrivalSparesOthers ==
  ASSUME Typed, Shaped, NEW r \in Requests, Receive(r), NEW q \in Requests \ {r}
  PROVE  Rests(q) /\ seen'[q] = seen[q] /\ UNCHANGED accounts
<1>1. TypeOK /\ Tokens
  BY DEF Typed
<1>2. pc[r] = "idle" /\ UNCHANGED <<accounts, audit, user, faulted>> /\ seen' = [seen EXCEPT ![r] = Facts(r)']
  BY DEF Receive, At
<1>3. \A l \in Requests \ {r} : ask'[l] = ask[l]
  BY <1>1 DEF Receive, TypeOK
<1>4. pc'[q] = pc[q] /\ answer'[q] = answer[q] /\ note'[q] = note[q]
  <2>1. PICK a, label : Arrives(r, a, label)
    BY ArrivalStep
  <2>2. pc'[q] = pc[q]
    BY <1>1, <2>1 DEF Arrives, TypeOK
  <2>3. answer'[q] = answer[q]
    <3>1. answer' \in {answer, [answer EXCEPT ![r] = 401], [answer EXCEPT ![r] = 400]}
      BY <2>1 DEF Arrives
    <3> QED
      BY <1>1, <3>1 DEF TypeOK
  <2>4. note'[q] = note[q]
    <3>1. UNCHANGED note \/ \E n \in Notes : note' = [note EXCEPT ![r] = n]
      BY <2>1 DEF Arrives
    <3> QED
      BY <1>1, <3>1 DEF TypeOK
  <2> QED
    BY <2>2, <2>3, <2>4
<1>7. pc[q] # "idle" /\ ask[q] \in Views /\ ask[q].token \in Requests => ask[q].token # r
  BY <1>1, <1>2 DEF Tokens
<1> QED
  BY <1>2, <1>3, <1>4, <1>7 DEF Rests, Same, accounts, Shaped

\* What operators and the clock do decides nothing of any request.
LEMMA AccountStepSparesAll ==
  ASSUME Typed, AccountStep, NEW q \in Requests
  PROVE  Rests(q)
<1>1. TypeOK
  BY DEF Typed
<1>2. \A l \in Requests : /\ session'[l] = None <=> session[l] = None
                          /\ session[l] # None => session'[l].admin = session[l].admin
  <2>1. ASSUME NEW e \in Requests, NEW state \in {"expired", "revoked"}, EndSession(e, state),
               NEW l \in Requests
        PROVE  /\ session'[l] = None <=> session[l] = None
               /\ session[l] # None => session'[l].admin = session[l].admin
    <3>1. session[e] \in Sessions
      BY <1>1, <2>1 DEF EndSession, TypeOK
    <3>2. /\ [session[e] EXCEPT !.state = state] \in Sessions
          /\ [session[e] EXCEPT !.state = state].admin = session[e].admin
      BY <3>1 DEF Sessions, States
    <3>3. session'[l] = IF l = e THEN [session[e] EXCEPT !.state = state] ELSE session[l]
      BY <1>1, <2>1 DEF EndSession, TypeOK
    <3> QED
      BY <3>1, <3>2, <3>3, RowAssumption
  <2> QED
    BY <2>1 DEF AccountStep, CreateAdmin, SetAccount, LapseToken
<1>3. seen[q] \subseteq seen'[q]
  BY AccountStepFacts DEF Observe
<1> QED
  <2>0. ask' = ask
    BY AccountStepFacts
  <2>1. \A l \in Requests : Same(l)
    BY <1>2, <2>0 DEF Same
  <2>2. UNCHANGED <<pc, ask, user, answer, note, audit, faulted>>
    BY AccountStepFacts
  <2> QED
    BY <1>3, <2>1, <2>2 DEF Rests

-----------------------------------------------------------------------------
(* What is true of an open request is seen at once *)

\* A handler's step keeps what is observed.
LEMMA HandlerObserves ==
  ASSUME Typed, NEW r \in Requests, HandlerStep(r), NEW q \in Requests, Observed(q)
  PROVE  Observed(q)'
<1>1. PICK label : Moves(r, label)
  BY LabelStep
<1>2. TypeOK /\ Tokens
  BY DEF Typed
<1>3. pc'[q] \in Pending => pc[q] \in Pending
  BY <1>1, <1>2 DEF Moves, TypeOK
<1>4. pc[q] \in Pending => Facts(q)' = Facts(q)
  <2>1. pc[r] # "answered"
    BY <1>1 DEF Moves, Pending
  <2>2. \A l \in Requests : pc[l] = "answered" => session'[l] = session[l]
    BY <1>2, <2>1, DecisionStep DEF TypeOK, StoreSession
  <2>3. account' = account /\ lapsed' = lapsed /\ ask' = ask
    BY HandlerStepFacts
  <2>4. pc[q] \in Pending /\ ask[q].kind = "view" /\ ask[q].token \in Requests =>
          session'[ask[q].token] = session[ask[q].token]
    BY <1>2, <2>2, AskFacts DEF Tokens, Pending, TypeOK, Typed, Labels, Labelled
  <2> QED
    BY <2>3, <2>4 DEF Facts, Truth
<1> QED
  BY <1>3, <1>4, HandlerStepFacts DEF Observed

\* So does an arrival, which begins to observe.
LEMMA ArrivalObserves ==
  ASSUME Typed, NEW r \in Requests, Receive(r), NEW q \in Requests, Observed(q),
         Shaped
  PROVE  Observed(q)'
<1>1. CASE q = r
  BY <1>1 DEF Receive, Observed, Shaped
<1>2. CASE q # r
  <2>1. Rests(q) /\ seen'[q] = seen[q] /\ account' = account /\ session' = session /\ lapsed' = lapsed
    BY <1>2, ArrivalSparesOthers DEF accounts
  <2>2. Facts(q)' = Facts(q)
    BY <2>1 DEF Facts, Truth, Rests
  <2> QED
    BY <2>1, <2>2 DEF Observed, Rests
<1> QED
  BY <1>1, <1>2

\* What operators and the clock do is observed by every open request.
LEMMA AccountStepObserves ==
  ASSUME AccountStep, NEW q \in Requests
  PROVE  Observed(q)'
  BY AccountStepFacts DEF Observe, Observed

-----------------------------------------------------------------------------
(* What a request's own step makes of it *)

\* A login that arrives has no session, and a view's token is of a login that has one.
LEMMA ArrivalDecided ==
  ASSUME AccessInv, NEW r \in Requests, Receive(r)
  PROVE  Decided(r)'
<1>0. TypeOK /\ Decided(r)
  BY DEF AccessInv, Typed
<1>1. PICK a, label : Arrives(r, a, label)
  BY ArrivalStep
<1>2. /\ pc[r] = "idle" /\ session' = session /\ audit' = audit /\ user' = user /\ faulted' = faulted
      /\ answer[r] = None /\ session[r] = None /\ user[r] = None /\ audit[r] = <<>>
  BY <1>0 DEF Receive, At, accounts, Decided, Earned, Admitted, Recorded, Early
<1>3. pc'[r] = label /\ ask'[r] = a /\ label \in {"find", "reply", "token", "audit"}
  BY <1>0, <1>1 DEF Arrives, TypeOK
<1>4. answer'[r] = IF label = "audit" THEN 401 ELSE IF label = "reply" THEN 400 ELSE None
  BY <1>0, <1>1, <1>2 DEF Arrives, TypeOK
<1>5. None \notin {200, 400, 401, 500}
  BY RowAssumption
<1>6. a \in Views => a \notin Logins
  BY AskFacts
<1>7. Earned(r)'
  BY <1>2, <1>3, <1>4, <1>5 DEF Earned, Early
<1>8. Admitted(r)'
  <2>1. ASSUME a \in Views, a.token \in Requests
        PROVE  /\ session[a.token] # None /\ session[a.token].admin = ask[a.token].admin
               /\ ask'[a.token] = ask[a.token]
    <3>1. a.token \in Issued
      BY <1>1, <2>1 DEF Arrives
    <3>2. pc[a.token] = "answered" /\ ask[a.token] \in Asks /\ ask[a.token] \in Logins /\ answer[a.token] = 200
      BY <3>1, AskFacts DEF Issued, AccessInv, Typed, Labels, Labelled
    <3>3. Earned(a.token)
      BY <2>1 DEF AccessInv, Decided
    <3> QED
      BY <1>0, <1>1, <1>2, <2>1, <3>2, <3>3 DEF Earned, Arrives, TypeOK
  <2> QED
    BY <1>2, <1>3, <2>1 DEF Admitted
<1>9. Justified(r)'
  BY <1>1, <1>3, <1>4, <1>5, NullAssumption DEF Justified, Arrives
<1>10. Recorded(r)'
  <2>1. label = "audit" => note'[r].result = "denied" /\ note'[r].reason = "missing_bearer"
    BY <1>0, <1>1 DEF Arrives, TypeOK
  <2>2. label = "audit" => a \notin Logins
    BY <1>1, <1>6 DEF Arrives
  <2> QED
    BY <1>2, <1>3, <1>4, <1>5, <2>1, <2>2 DEF Recorded, RowHolds, Audited
<1> QED
  BY <1>7, <1>8, <1>9, <1>10 DEF Decided

\* Where a handler goes, what it answers and what it is to record
Goes(r, label, status) == pc'[r] = label /\ answer'[r] = status

\* A denial goes to the insert of its row.
LEMMA DenialGoes ==
  ASSUME TypeOK, NEW r \in Requests, NEW admin \in Admins \cup {None},
         NEW reason \in {"invalid_credentials", "missing_bearer", "invalid_token"},
         Deny(r, admin, reason)
  PROVE  Goes(r, "audit", 401) /\ note'[r].result = "denied" /\ note'[r].reason = reason
<1>1. /\ answer' = [answer EXCEPT ![r] = 401] /\ pc' = [pc EXCEPT ![r] = "audit"]
      /\ \E n \in Notes : note' = [note EXCEPT ![r] = n] /\ n.result = "denied" /\ n.reason = reason
  BY DenyFacts
<1>2. PICK n \in Notes : note' = [note EXCEPT ![r] = n] /\ n.result = "denied" /\ n.reason = reason
  BY <1>1
<1> QED
  BY <1>1, <1>2 DEF Goes, TypeOK

\* login reads the account: one that is missing or inactive is a reason to deny.
LEMMA FindAdminDecided ==
  ASSUME AccessInv, NEW r \in Requests, FindAdmin(r)
  PROVE  Decided(r)'
<1>0. /\ TypeOK /\ Observed(r) /\ Earned(r) /\ Admitted(r) /\ Recorded(r)
      /\ pc[r] = "find" /\ pc[r] \in Pending /\ ask[r] \in Logins /\ ask[r].kind = "login"
  BY AskFacts DEF AccessInv, Typed, Labels, Labelled, Decided, FindAdmin, At, Pending
<1>1. /\ session' = session /\ audit' = audit /\ ask' = ask /\ user' = user
      /\ faulted' = faulted /\ seen' = seen
  BY DEF FindAdmin, accounts, bounds
<1>2. None \notin {200, 400, 401, 500} /\ ask[r] \notin Views
  BY <1>0, RowAssumption, AskFacts
<1>3. CASE account[ask[r].admin] = "active"
  <2>1. Goes(r, "password", answer[r])
    BY <1>0, <1>3 DEF FindAdmin, GoTo, Goes, TypeOK
  <2>2. "login_enabled" \in seen[r]
    BY <1>0, <1>3 DEF Observed, Facts, Truth
  <2> QED
    BY <1>0, <1>1, <1>2, <2>1, <2>2
    DEF Decided, Earned, Admitted, Justified, Recorded, RowHolds, Audited, Goes, Early
<1>4. CASE account[ask[r].admin] # "active"
  <2>1. Deny(r, None, "invalid_credentials")
    BY <1>4 DEF FindAdmin
  <2>2. Goes(r, "audit", 401) /\ note'[r].result = "denied" /\ note'[r].reason = "invalid_credentials"
    BY <1>0, <2>1, DenialGoes
  <2>3. "login_disabled" \in seen[r]
    BY <1>0, <1>4 DEF Observed, Facts, Truth
  <2> QED
    BY <1>0, <1>1, <1>2, <2>2, <2>3
    DEF Decided, Earned, Admitted, Justified, Recorded, RowHolds, Audited, Goes, Early
<1> QED
  BY <1>3, <1>4

\* A password that does not verify is another.
LEMMA CheckPasswordDecided ==
  ASSUME AccessInv, NEW r \in Requests, CheckPassword(r)
  PROVE  Decided(r)'
<1>0. /\ TypeOK /\ Observed(r) /\ Earned(r) /\ Admitted(r) /\ Recorded(r)
      /\ pc[r] = "password" /\ pc[r] \in Pending
      /\ ask[r] \in Logins /\ ask[r].kind = "login" /\ ask[r] \notin Views
  BY AskFacts DEF AccessInv, Typed, Labels, Labelled, Decided, CheckPassword, At, Pending
<1>1. /\ ask' = ask /\ seen' = seen
      /\ session' = session /\ audit' = audit /\ user' = user /\ faulted' = faulted
  BY DEF CheckPassword, accounts, bounds
<1>2. None \notin {200, 400, 401, 500}
  BY RowAssumption
<1>3. CASE PasswordOk(r)
  <2>1. Goes(r, "create", answer[r])
    BY <1>0, <1>3 DEF CheckPassword, GoTo, Goes, TypeOK
  <2> QED
    BY <1>0, <1>1, <1>2, <1>3, <2>1
    DEF Decided, Earned, Admitted, Justified, Recorded, RowHolds, Audited, Goes, Early, PasswordOk
<1>4. CASE ~PasswordOk(r)
  <2>1. Deny(r, ask[r].admin, "invalid_credentials")
    BY <1>4 DEF CheckPassword
  <2>2. Goes(r, "audit", 401) /\ note'[r].result = "denied" /\ note'[r].reason = "invalid_credentials"
    BY <1>0, <2>1, DenialGoes, AskFacts
  <2>3. ~ask[r].correct
    BY <1>4 DEF PasswordOk
  <2> QED
    BY <1>0, <1>1, <1>2, <2>2, <2>3
    DEF Decided, Earned, Admitted, Justified, Recorded, RowHolds, Audited, Goes, Early
<1> QED
  BY <1>3, <1>4

\* The session is inserted for an account found active with its password.
LEMMA CreateSessionDecided ==
  ASSUME AccessInv, NEW r \in Requests, CreateSession(r)
  PROVE  Decided(r)'
<1>0. /\ TypeOK /\ Observed(r) /\ Earned(r) /\ Admitted(r) /\ Recorded(r)
      /\ pc[r] = "create" /\ pc[r] \in Pending
      /\ ask[r] \in Logins /\ ask[r].kind = "login" /\ ask[r] \notin Views
  BY AskFacts DEF AccessInv, Typed, Labels, Labelled, Decided, CreateSession, At, Pending
<1>1. /\ ask' = ask /\ seen' = seen
      /\ audit' = audit /\ user' = user /\ faulted' = faulted
  BY DEF CreateSession, accounts, bounds
<1>2. None \notin {200, 400, 401, 500}
  BY RowAssumption
<1>3. Goes(r, "touch", answer[r])
  BY <1>0 DEF CreateSession, GoTo, Goes, TypeOK
<1>4. session'[r] # None /\ session'[r].admin = ask[r].admin
  <2>1. session'[r] = [admin |-> ask[r].admin, state |-> "live"]
    BY <1>0 DEF CreateSession, StoreSession, TypeOK
  <2>2. [admin |-> ask[r].admin, state |-> "live"] \in Sessions
    BY <1>0, AskFacts DEF Sessions, States
  <2> QED
    BY <2>1, <2>2, RowAssumption
<1> QED
  BY <1>0, <1>1, <1>2, <1>3, <1>4
  DEF Decided, Earned, Admitted, Justified, Recorded, RowHolds, Audited, Goes, Early

\* last_login_at decides nothing.
LEMMA TouchLoginDecided ==
  ASSUME AccessInv, NEW r \in Requests, TouchLogin(r)
  PROVE  Decided(r)'
<1>0. /\ TypeOK /\ Observed(r) /\ Earned(r) /\ Admitted(r) /\ Recorded(r)
      /\ pc[r] = "touch" /\ pc[r] \in Pending
      /\ ask[r] \in Logins /\ ask[r].kind = "login" /\ ask[r] \notin Views
  BY AskFacts DEF AccessInv, Typed, Labels, Labelled, Decided, TouchLogin, At, Pending
<1>1. /\ ask' = ask /\ seen' = seen
      /\ session' = session /\ audit' = audit /\ user' = user /\ faulted' = faulted
  BY DEF TouchLogin, accounts, bounds
<1>2. None \notin {200, 400, 401, 500}
  BY RowAssumption
<1>3. Goes(r, "audit", 200)
  BY <1>0 DEF TouchLogin, Answer, GoTo, Goes, TypeOK
<1>4. note'[r].result = "allowed" /\ note'[r].admin = ask[r].admin
  BY <1>0 DEF TouchLogin, TypeOK
<1> QED
  BY <1>0, <1>1, <1>2, <1>3, <1>4
  DEF Decided, Earned, Admitted, Justified, Recorded, RowHolds, Audited, Goes, Early

\* The preHandler: a token that is missing or bad is denied.
LEMMA VerifyTokenDecided ==
  ASSUME AccessInv, NEW r \in Requests, VerifyToken(r)
  PROVE  Decided(r)'
<1>0. /\ TypeOK /\ Observed(r) /\ Earned(r) /\ Admitted(r) /\ Recorded(r)
      /\ pc[r] = "token" /\ pc[r] \in Pending
      /\ ask[r] \in Views /\ ask[r].kind = "view" /\ ask[r] \notin Logins
  BY AskFacts DEF AccessInv, Typed, Labels, Labelled, Decided, VerifyToken, At, Pending
<1>1. /\ ask' = ask /\ seen' = seen
      /\ session' = session /\ audit' = audit /\ user' = user /\ faulted' = faulted
  BY DEF VerifyToken, accounts, bounds
<1>2. None \notin {200, 400, 401, 500}
  BY RowAssumption
<1>3. ask[r].token \in Requests \cup {Forged}
  BY <1>0, AskFacts DEF AccessInv, Typed, Labels, Labelled
<1>4. CASE TokenFresh(ask[r].token)
  <2>1. Goes(r, "session", answer[r])
    BY <1>0, <1>4 DEF VerifyToken, GoTo, Goes, TypeOK
  <2>2. "token_fresh" \in seen[r]
    BY <1>0, <1>3, <1>4 DEF Observed, Facts, Truth, TokenFresh
  <2> QED
    BY <1>0, <1>1, <1>2, <2>1, <2>2
    DEF Decided, Earned, Admitted, Justified, Recorded, RowHolds, Audited, Goes, Early
<1>5. CASE ~TokenFresh(ask[r].token)
  <2>1. Deny(r, None, "invalid_token")
    BY <1>5 DEF VerifyToken
  <2>2. Goes(r, "audit", 401) /\ note'[r].result = "denied" /\ note'[r].reason = "invalid_token"
    BY <1>0, <2>1, DenialGoes
  <2>3. ask[r].token \in Requests => "token_lapsed" \in seen[r]
    BY <1>0, <1>3, <1>5, NullAssumption DEF Observed, Facts, Truth, TokenFresh
  <2> QED
    BY <1>0, <1>1, <1>2, <2>2, <2>3
    DEF Decided, Earned, Admitted, Justified, Recorded, RowHolds, Audited, Goes, Early
<1> QED
  BY <1>4, <1>5

\* So is one whose session is over,
LEMMA ReadSessionDecided ==
  ASSUME AccessInv, NEW r \in Requests, ReadSession(r)
  PROVE  Decided(r)'
<1>0. /\ TypeOK /\ Observed(r) /\ Earned(r) /\ Admitted(r) /\ Recorded(r)
      /\ pc[r] = "session" /\ pc[r] \in Pending
      /\ ask[r] \in Views /\ ask[r].kind = "view" /\ ask[r] \notin Logins
  BY AskFacts DEF AccessInv, Typed, Labels, Labelled, Decided, ReadSession, At, Pending
<1>1. /\ ask' = ask /\ seen' = seen
      /\ session' = session /\ audit' = audit /\ user' = user /\ faulted' = faulted
  BY DEF ReadSession, accounts, bounds
<1>2. None \notin {200, 400, 401, 500}
  BY RowAssumption
<1>3. ask[r].token \in Requests /\ session[ask[r].token] # None
  BY <1>0 DEF AccessInv, Typed, Labels, Labelled, Admitted
<1>4. CASE Live(ask[r].token)
  <2>1. Goes(r, "account", answer[r])
    BY <1>0, <1>4 DEF ReadSession, GoTo, Goes, TypeOK
  <2>2. "session_live" \in seen[r]
    BY <1>0, <1>3, <1>4 DEF Observed, Facts, Truth, Live
  <2> QED
    BY <1>0, <1>1, <1>2, <2>1, <2>2
    DEF Decided, Earned, Admitted, Justified, Recorded, RowHolds, Audited, Goes, Early
<1>5. CASE ~Live(ask[r].token)
  <2>1. Deny(r, None, "invalid_token")
    BY <1>5 DEF ReadSession
  <2>2. Goes(r, "audit", 401) /\ note'[r].result = "denied" /\ note'[r].reason = "invalid_token"
    BY <1>0, <2>1, DenialGoes
  <2>3. "session_dead" \in seen[r]
    BY <1>0, <1>3, <1>5 DEF Observed, Facts, Truth, Live
  <2> QED
    BY <1>0, <1>1, <1>2, <2>2, <2>3
    DEF Decided, Earned, Admitted, Justified, Recorded, RowHolds, Audited, Goes, Early
<1> QED
  BY <1>4, <1>5

\* or whose account is not active.
LEMMA ReadAccountDecided ==
  ASSUME AccessInv, NEW r \in Requests, ReadAccount(r)
  PROVE  Decided(r)'
<1>0. /\ TypeOK /\ Observed(r) /\ Earned(r) /\ Admitted(r) /\ Recorded(r)
      /\ pc[r] = "account" /\ pc[r] \in Pending
      /\ ask[r] \in Views /\ ask[r].kind = "view" /\ ask[r] \notin Logins
  BY AskFacts DEF AccessInv, Typed, Labels, Labelled, Decided, ReadAccount, At, Pending
<1>1. /\ ask' = ask /\ seen' = seen
      /\ session' = session /\ audit' = audit /\ faulted' = faulted
  BY DEF ReadAccount, accounts, bounds
<1>2. None \notin {200, 400, 401, 500}
  BY RowAssumption
<1>3. ask[r].token \in Requests /\ session[ask[r].token].admin = ask[ask[r].token].admin
  BY <1>0 DEF AccessInv, Typed, Labels, Labelled, Admitted
<1>4. CASE AdminActive(ask[ask[r].token].admin)
  <2>1. Goes(r, "admitted", answer[r]) /\ user'[r] = ask[ask[r].token].admin
    BY <1>0, <1>4 DEF ReadAccount, GoTo, Goes, Subject, TypeOK
  <2>2. "admin_active" \in seen[r]
    BY <1>0, <1>3, <1>4 DEF Observed, Facts, Truth, AdminActive
  <2> QED
    BY <1>0, <1>1, <1>2, <1>3, <2>1, <2>2
    DEF Decided, Earned, Admitted, Justified, Recorded, RowHolds, Audited, Goes, Early
<1>5. CASE ~AdminActive(ask[ask[r].token].admin)
  <2>1. Deny(r, None, "invalid_token")
    BY <1>5 DEF ReadAccount
  <2>2. Goes(r, "audit", 401) /\ note'[r].result = "denied" /\ note'[r].reason = "invalid_token"
    BY <1>0, <2>1, DenialGoes
  <2>3. "admin_inactive" \in seen[r] /\ user' = user
    BY <1>0, <1>3, <1>5 DEF Observed, Facts, Truth, AdminActive, ReadAccount
  <2> QED
    BY <1>0, <1>1, <1>2, <2>2, <2>3
    DEF Decided, Earned, Admitted, Justified, Recorded, RowHolds, Audited, Goes, Early
<1> QED
  BY <1>4, <1>5

\* A statement of a login whose outcome is not learnt leaves a session it could earn, or none.
LEMMA UnacknowledgedEarned ==
  ASSUME TypeOK, NEW r \in Requests, Earned(r), Labelled(r), Unacknowledged(r)
  PROVE  \/ session'[r] = session[r]
         \/ /\ pc[r] = "create" /\ ask[r] \in Logins /\ ask[r] \notin Views /\ ask[r].correct
            /\ "login_enabled" \in seen[r]
            /\ session'[r] # None /\ session'[r].admin = ask[r].admin
<1>1. CASE session' = session
  BY <1>1
<1>2. CASE pc[r] = "create" /\ StoreSession(r)
  <2>1. session'[r] = [admin |-> ask[r].admin, state |-> "live"]
    BY <1>2 DEF StoreSession, TypeOK
  <2>2. ask[r] \in Logins /\ ask[r] \notin Views
    BY <1>2, AskFacts DEF Labelled
  <2>3. [admin |-> ask[r].admin, state |-> "live"] \in Sessions
    BY <2>2, AskFacts DEF Sessions, States
  <2> QED
    BY <1>2, <2>1, <2>2, <2>3, RowAssumption DEF Earned
<1> QED
  BY <1>1, <1>2 DEF Unacknowledged

\* A rejected statement of a login is answered 500,
LEMMA LoginFailsDecided ==
  ASSUME AccessInv, NEW r \in Requests, LoginFails(r)
  PROVE  Decided(r)'
<1>0. /\ TypeOK /\ Earned(r) /\ Admitted(r) /\ Recorded(r) /\ Labelled(r)
      /\ pc[r] \in {"find", "create", "touch"} /\ Unacknowledged(r)
      /\ ask[r] \in Logins /\ ask[r] \notin Views
  BY AskFacts DEF AccessInv, Typed, Labels, Labelled, Decided, LoginFails, At
<1>1. /\ ask' = ask /\ seen' = seen /\ audit' = audit /\ user' = user /\ r \in faulted'
  BY DEF LoginFails, bounds
<1>2. None \notin {200, 400, 401, 500}
  BY RowAssumption
<1>3. Goes(r, "reply", 500)
  BY <1>0 DEF LoginFails, Answer, GoTo, Goes, TypeOK
<1> QED
  BY <1>0, <1>1, <1>2, <1>3, UnacknowledgedEarned
  DEF Decided, Earned, Admitted, Justified, Recorded, RowHolds, Audited, Goes, Early

\* one of the preHandler denies.
LEMMA LookupFailsDecided ==
  ASSUME AccessInv, NEW r \in Requests, LookupFails(r)
  PROVE  Decided(r)'
<1>0. /\ TypeOK /\ Earned(r) /\ Admitted(r) /\ Recorded(r)
      /\ pc[r] \in {"session", "account"} /\ ask[r] \in Views /\ ask[r] \notin Logins
  BY AskFacts DEF AccessInv, Typed, Labels, Labelled, Decided, LookupFails, At
<1>1. /\ ask' = ask /\ seen' = seen /\ session' = session /\ audit' = audit /\ user' = user
      /\ r \in faulted'
  BY DEF LookupFails, accounts, bounds
<1>2. None \notin {200, 400, 401, 500}
  BY RowAssumption
<1>3. Goes(r, "audit", 401) /\ note'[r].result = "denied" /\ note'[r].reason = "invalid_token"
  <2>1. Deny(r, None, "invalid_token")
    BY DEF LookupFails
  <2> QED
    BY <1>0, <2>1, DenialGoes
<1> QED
  BY <1>0, <1>1, <1>2, <1>3
  DEF Decided, Earned, Admitted, Justified, Recorded, RowHolds, Audited, Goes, Early

\* What is served was admitted.
LEMMA ServeDecided ==
  ASSUME AccessInv, NEW r \in Requests, Serve(r)
  PROVE  Decided(r)'
<1>0. /\ TypeOK /\ Earned(r) /\ Admitted(r) /\ Recorded(r)
      /\ pc[r] = "admitted" /\ ask[r] \in Views /\ ask[r] \notin Logins
  BY AskFacts DEF AccessInv, Typed, Labels, Labelled, Decided, Serve, At
<1>1. /\ ask' = ask /\ seen' = seen /\ session' = session /\ audit' = audit /\ user' = user
      /\ faulted' = faulted
  BY DEF Serve, accounts, bounds
<1>2. None \notin {200, 400, 401, 500}
  BY RowAssumption
<1>3. Goes(r, "reply", 200) \/ Goes(r, "reply", 500)
  BY <1>0 DEF Serve, Answer, GoTo, Goes, TypeOK
<1> QED
  BY <1>0, <1>1, <1>2, <1>3
  DEF Decided, Earned, Admitted, Justified, Recorded, RowHolds, Audited, Goes, Early

\* The row that is written is the one decided.
LEMMA StoreNoteRecords ==
  ASSUME AccessInv, NEW r \in Requests, pc[r] = "audit", StoreNote(r)
  PROVE  audit'[r] = <<note[r]>> /\ note[r] \in Notes /\ RowHolds(r, note[r]) /\ Audited(r)
<1>1. TypeOK /\ Recorded(r) /\ Labelled(r)
  BY DEF AccessInv, Typed, Labels, Decided
<1>2. audit[r] = <<>>
  BY <1>1 DEF Recorded
<1>3. audit'[r] = Append(audit[r], note[r])
  BY <1>1 DEF StoreNote, TypeOK
<1> QED
  BY <1>1, <1>2, <1>3 DEF Recorded, Labelled

\* The audit insert leaves the row of what was decided, or none if it is rejected.
LEMMA AuditDecided ==
  ASSUME AccessInv, NEW r \in Requests, InsertAudit(r) \/ AuditFails(r)
  PROVE  Decided(r)'
<1>0. /\ TypeOK /\ Earned(r) /\ Admitted(r) /\ Justified(r) /\ Recorded(r) /\ pc[r] = "audit"
  BY DEF AccessInv, Typed, Decided, InsertAudit, AuditFails, At
<1>1. /\ ask' = ask /\ seen' = seen /\ session' = session /\ user' = user /\ answer' = answer
      /\ note' = note
  BY DEF InsertAudit, AuditFails, accounts, bounds
<1>2. /\ StoreNote(r) \/ audit' = audit
      /\ r \in faulted' \/ (faulted' = faulted /\ StoreNote(r))
      /\ r \in faulted => r \in faulted'
  BY DEF InsertAudit, AuditFails
<1>3. Goes(r, "reply", answer[r])
  BY <1>0, <1>1 DEF InsertAudit, AuditFails, GoTo, Goes, TypeOK
<1>4. Earned(r)' /\ Admitted(r)' /\ Justified(r)'
  BY <1>0, <1>1, <1>2, <1>3 DEF Earned, Admitted, Justified, Goes, Early
<1>5. Recorded(r)'
  <2>1. CASE StoreNote(r)
    <3>1. /\ audit'[r] = <<note[r]>> /\ note[r] \in Notes
          /\ RowHolds(r, note[r])' /\ Audited(r)'
      BY <1>0, <1>1, <2>1, StoreNoteRecords DEF RowHolds, Audited
    <3>2. audit'[r] # <<>> /\ \E row \in Notes : audit'[r] = <<row>> /\ RowHolds(r, row)'
      BY <1>1, <3>1 DEF RowHolds
    <3> QED
      BY <1>3, <3>1, <3>2 DEF Recorded, Goes
  <2>2. CASE audit' = audit /\ r \in faulted'
    <3>1. audit'[r] = <<>>
      BY <1>0, <2>2 DEF Recorded
    <3> QED
      BY <1>3, <2>2, <3>1 DEF Recorded, Goes
  <2> QED
    BY <1>2, <2>1, <2>2
<1> QED
  BY <1>4, <1>5 DEF Decided

\* The reply tells it.
LEMMA RespondDecided ==
  ASSUME AccessInv, NEW r \in Requests, Respond(r)
  PROVE  Decided(r)'
<1>0. /\ TypeOK /\ Earned(r) /\ Admitted(r) /\ Justified(r) /\ Recorded(r) /\ pc[r] = "reply"
  BY DEF AccessInv, Typed, Decided, Respond, At
<1>1. /\ ask' = ask /\ seen' = seen /\ session' = session /\ audit' = audit /\ user' = user
      /\ answer' = answer /\ faulted' = faulted
  BY DEF Respond, accounts, bounds
<1>2. Goes(r, "answered", answer[r])
  BY <1>0, <1>1 DEF Respond, GoTo, Goes, TypeOK
<1> QED
  BY <1>0, <1>1, <1>2
  DEF Decided, Earned, Admitted, Justified, Recorded, RowHolds, Audited, Goes, Early

\* What a dead handler's last statement did is what the handler had earned.
LEMMA AbandonDecided ==
  ASSUME AccessInv, NEW r \in Requests, Abandon(r)
  PROVE  Decided(r)'
<1>0. /\ TypeOK /\ Earned(r) /\ Admitted(r) /\ Justified(r) /\ Recorded(r) /\ Labelled(r)
      /\ pc[r] \in Pending
  BY DEF AccessInv, Typed, Labels, Labelled, Decided, Abandon
<1>1. /\ ask' = ask /\ seen' = seen /\ user' = user /\ answer' = answer /\ faulted' = faulted
  BY DEF Abandon
<1>2. Goes(r, "lost", answer[r])
  BY <1>0, <1>1 DEF Abandon, GoTo, Goes, TypeOK
<1>3. None \notin {200, 401}
  BY RowAssumption
<1>4. CASE Unacknowledged(r) /\ audit' = audit
  <2>1. pc[r] = "create" => answer[r] = None /\ audit[r] = <<>> /\ user[r] = None
    BY <1>0, <1>3, AskFacts DEF Earned, Recorded, Early, Admitted, Labelled
  <2>2. Earned(r)' /\ Justified(r)'
    BY <1>0, <1>1, <1>2, <1>3, <1>4, <2>1, UnacknowledgedEarned
    DEF Earned, Justified, Goes, Early
  <2>3. Admitted(r)'
    <3>1. \A l \in Requests \ {r} : session'[l] = session[l]
      BY <1>0, <1>4 DEF Unacknowledged, StoreSession, TypeOK
    <3>2. ask[r] \in Views /\ ask[r].token \in Requests => ask[r].token # r
      BY <1>0 DEF AccessInv, Typed, Tokens, Pending
    <3> QED
      BY <1>0, <1>1, <1>2, <3>1, <3>2 DEF Admitted, Goes, Pending
  <2>4. Recorded(r)'
    BY <1>0, <1>1, <1>2, <1>4, <2>1, UnacknowledgedEarned DEF Recorded, RowHolds, Goes
  <2> QED
    BY <2>2, <2>3, <2>4 DEF Decided
<1>5. CASE pc[r] = "audit" /\ StoreNote(r) /\ session' = session
  <2>1. /\ audit'[r] = <<note[r]>> /\ note[r] \in Notes /\ RowHolds(r, note[r])
    BY <1>5, StoreNoteRecords
  <2>2. \E row \in Notes : audit'[r] = <<row>> /\ RowHolds(r, row)'
    BY <1>1, <1>5, <2>1 DEF RowHolds
  <2>3. Recorded(r)'
    BY <1>2, <2>2 DEF Recorded, Goes
  <2>4. Earned(r)' /\ Admitted(r)' /\ Justified(r)'
    BY <1>0, <1>1, <1>2, <1>5 DEF Earned, Admitted, Justified, Goes, Early
  <2> QED
    BY <2>3, <2>4 DEF Decided
<1> QED
  BY <1>4, <1>5 DEF Abandon

\* Every step of a handler decides rightly.
LEMMA HandlerDecided ==
  ASSUME AccessInv, NEW r \in Requests, HandlerStep(r)
  PROVE  Decided(r)'
  BY FindAdminDecided, CheckPasswordDecided, CreateSessionDecided, TouchLoginDecided, LoginFailsDecided,
     VerifyTokenDecided, ReadSessionDecided, ReadAccountDecided, LookupFailsDecided, ServeDecided,
     AuditDecided, RespondDecided, AbandonDecided
  DEF HandlerStep, Handle

-----------------------------------------------------------------------------
(* The invariant is kept *)

\* Every step keeps the invariant.
LEMMA AccessStep ==
  ASSUME AccessInv, [Next]_vars
  PROVE  AccessInv'
<1>0. Typed /\ Shaped /\ \A q \in Requests : Observed(q) /\ Decided(q)
  BY DEF AccessInv
<1>1. ASSUME NEW r \in Requests, Receive(r)
      PROVE  AccessInv'
  <2>1. Shaped'
    BY <1>0, <1>1 DEF Shaped, Receive
  <2>2. \A q \in Requests : Observed(q)'
    BY <1>0, <1>1, ArrivalObserves
  <2>3. \A q \in Requests \ {r} : Decided(q)'
    BY <1>0, <1>1, ArrivalSparesOthers, RestsDecided
  <2> QED
    BY <1>0, <1>1, <2>1, <2>2, <2>3, ReceiveKeepsType, ArrivalDecided DEF AccessInv
<1>2. ASSUME NEW r \in Requests, HandlerStep(r)
      PROVE  AccessInv'
  <2>1. Shaped'
    BY <1>0, <1>2, HandlerStepFacts DEF Shaped
  <2>2. \A q \in Requests : Observed(q)'
    BY <1>0, <1>2, HandlerObserves
  <2>3. \A q \in Requests \ {r} : Decided(q)'
    BY <1>0, <1>2, HandlerSparesOthers, RestsDecided
  <2> QED
    BY <1>0, <1>2, <2>1, <2>2, <2>3, HandlerKeepsType, HandlerDecided DEF AccessInv
<1>3. CASE AccountStep
  <2>1. Shaped'
    BY <1>3, AccountStepFacts DEF Observe, Shaped
  <2>2. \A q \in Requests : Observed(q)' /\ Decided(q)'
    BY <1>0, <1>3, AccountStepObserves, AccountStepSparesAll, RestsDecided
  <2> QED
    BY <1>0, <1>3, <2>1, <2>2, AccountStepKeepsType DEF AccessInv
<1>4. CASE Crash \/ Restart \/ UNCHANGED vars
  <2>1. UNCHANGED <<account, session, lapsed, audit, ask, pc, user, answer, note, faulted, seen>>
    BY <1>4 DEF Crash, Restart, vars, accounts, handler
  <2>2. Typed'
    BY <1>0, <1>4, ProcessStepKeepsType, StutterKeepsType
  <2>3. Shaped' /\ \A q \in Requests : Observed(q)'
    BY <1>0, <2>1 DEF Shaped, Observed, Facts, Truth
  <2>4. \A q \in Requests : Decided(q)'
    BY <1>0, <2>1, RestsDecided DEF Rests, Same
  <2> QED
    BY <2>2, <2>3, <2>4 DEF AccessInv
<1> QED
  BY <1>1, <1>2, <1>3, <1>4, NextIsAStep

\* The invariant of login and authorisation.
LEMMA AccessInvariant == Spec => []AccessInv
<1>1. Init => AccessInv
  BY InitAccess
<1>2. AccessInv /\ [Next]_vars => AccessInv'
  BY AccessStep
<1> QED
  BY <1>1, <1>2, PTL DEF Spec

-----------------------------------------------------------------------------
(* Theorems *)

\* A route's handler runs only for a request whose token was fresh, whose session was live
\* and whose admin was active while the request was open, and as that session's admin:
\* for any number of requests, and any changes of accounts and sessions between the reads.
THEOREM AccessIsJustified == Spec => []AccessJustified
<1>1. AccessInv => AccessJustified
  <2> SUFFICES ASSUME AccessInv, NEW r \in Requests, user[r] # None
               PROVE  /\ {"token_fresh", "session_live", "admin_active"} \subseteq seen[r]
                      /\ user[r] = session[ask[r].token].admin
    BY DEF AccessJustified
  <2> QED
    BY DEF AccessInv, Decided, Admitted
<1> QED
  BY <1>1, AccessInvariant, PTL

\* A session exists only if its login carried the right password for an account that could
\* log in; a refused login leaves none, and a login answered 200 leaves one.
THEOREM SessionsAreEarned == Spec => []SessionsEarned
<1>1. AccessInv => SessionsEarned
  <2>1. ASSUME AccessInv, NEW l \in Requests
        PROVE  Earned(l) /\ Labelled(l)
    BY <2>1 DEF AccessInv, Typed, Labels, Decided
  <2>2. ASSUME AccessInv, NEW l \in Requests, answer[l] = 200, ask[l].kind = "login"
        PROVE  session[l] # None
    <3>1. pc[l] # "idle"
      BY <2>1, <2>2, RowAssumption DEF Earned, Early
    <3> QED
      BY <2>1, <2>2, <3>1, AskFacts DEF Earned, Labelled
  <2>3. ASSUME AccessInv, NEW l \in Requests, session[l] # None
        PROVE  /\ ask[l].kind = "login" /\ ask[l].correct /\ session[l].admin = ask[l].admin
               /\ "login_enabled" \in seen[l]
               /\ answer[l] \in {None, 200, 500}
    BY <2>1, <2>3, AskFacts DEF Earned
  <2> QED
    BY <2>2, <2>3 DEF SessionsEarned
<1> QED
  BY <1>1, AccessInvariant, PTL

\* Where no statement was rejected, a refusal has its ground: a wrong password or an account
\* that could not log in, no token, or one that was bad while the request was open.
THEOREM DenialsAreJustified == Spec => []DenialsJustified
<1>1. AccessInv => DenialsJustified
  <2> SUFFICES ASSUME AccessInv, NEW r \in Requests, answer[r] = 401, r \notin faulted
               PROVE  CASE ask[r].kind = "login" -> ~ask[r].correct \/ "login_disabled" \in seen[r]
                        [] ask[r].kind = "view" /\ ask[r].token \in Requests ->
                             seen[r] \cap {"token_lapsed", "session_dead", "admin_inactive"} # {}
                        [] OTHER -> TRUE
    BY DEF DenialsJustified
  <2>1. Justified(r)
    BY DEF AccessInv, Decided
  <2>2. CASE ask[r] \in Logins
    BY <2>1, <2>2, AskFacts DEF Justified
  <2>3. CASE ask[r] \in Views
    BY <2>1, <2>3, AskFacts DEF Justified
  <2> QED
    BY <2>1, <2>2, <2>3 DEF Justified
<1> QED
  BY <1>1, AccessInvariant, PTL

\* A refusal and a login that is answered have their one row unless its insert was rejected,
\* and a row that says a login was allowed names the admin whose session exists.
THEOREM AdminAuditIsTrue == Spec => []AdminAuditTrail
<1>1. AccessInv => AdminAuditTrail
  <2> SUFFICES ASSUME AccessInv, NEW r \in Requests
               PROVE  /\ Len(audit[r]) <= 1
                      /\ \A i \in 1..Len(audit[r]) :
                           IF audit[r][i].result = "allowed"
                           THEN session[r] # None /\ audit[r][i].admin = session[r].admin
                           ELSE /\ answer[r] = 401
                                /\ (ask[r].kind = "login") = (audit[r][i].reason = "invalid_credentials")
                      /\ pc[r] = "answered" /\ r \notin faulted =>
                           (audit[r] # <<>>)
                             = (answer[r] = 401 \/ (ask[r].kind = "login" /\ answer[r] = 200))
    BY DEF AdminAuditTrail
  <2>1. Recorded(r) /\ Labelled(r) /\ Earned(r)
    BY DEF AccessInv, Typed, Labels, Decided
  <2>2. answer[r] \in {200, 401} => pc[r] # "idle"
    BY <2>1, RowAssumption DEF Earned, Early
  <2>3. pc[r] # "idle" => (ask[r].kind = "login" <=> ask[r] \in Logins)
    BY <2>1, AskFacts DEF Labelled
  <2>4. CASE audit[r] = <<>>
    BY <2>1, <2>2, <2>3, <2>4 DEF Recorded, Audited
  <2>5. CASE audit[r] # <<>>
    <3>1. PICK row \in Notes : audit[r] = <<row>> /\ RowHolds(r, row)
      BY <2>1, <2>5 DEF Recorded
    <3>2. Len(audit[r]) = 1 /\ audit[r][1] = row
      BY <3>1
    <3> QED
      BY <2>1, <2>2, <2>3, <2>5, <3>1, <3>2 DEF Recorded, Audited, RowHolds
  <2> QED
    BY <2>4, <2>5
<1> QED
  BY <1>1, AccessInvariant, PTL

===============================================================================
