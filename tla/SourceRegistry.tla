---------------------------- MODULE SourceRegistry ----------------------------
(***************************************************************************)
(* The admin API over the source registry: create a source (and seed its   *)
(* routes), change it, create a credential for it.  Requests of admins run *)
(* concurrently; each handler is a sequence of separate autocommitted      *)
(* statements, any of which PostgreSQL may reject, and the process may     *)
(* crash between any two.  A request that reaches these handlers has       *)
(* passed the admin preHandler.  Rows are never deleted by the code.       *)
(***************************************************************************)
EXTENDS Naturals, Sequences

CONSTANTS Requests,    \* admin requests; a new source's id is the request that inserts it
          Existing,    \* the sources there are at first
          Slots,       \* (slug, environment) pairs
          TakenBy,     \* the slot each of them has
          Fields,      \* the columns PATCH may set
          Values,      \* values of these columns
          Default,     \* the value a new row has in each of them
          None,
          MaxCrashes   \* bound on process crashes, for TLC

ASSUME NullAssumption     == /\ None \notin Requests \cup Existing \cup Slots /\ None \notin Nat
                             /\ Default \in Values
ASSUME ExistingAssumption == /\ Existing \cap Requests = {}
                             /\ TakenBy \in [Existing -> Slots]
                             /\ \A i, j \in Existing : TakenBy[i] = TakenBy[j] => i = j
ASSUME BoundAssumption    == MaxCrashes \in Nat

VARIABLES
  slot,      \* source_applications: slug and environment of each id, None if no row
  columns,   \*   and its columns that PATCH sets
  routes,    \* telemetry_routes: the signals each source has an enabled route for
  owner,     \* source_credentials: the source of the credential each request inserted
  audit,     \* audit_events written for each request
  ask,       \* the operation each request asks for
  pc,        \* where its handler is
  seeded,    \* how many default routes its handler has inserted
  reply,     \* the reply decided
  result,    \* the columns the reply shows
  up,        \* is the process running
  cut,       \* requests whose handler a crash ended
  faulted,   \* history: requests that met a rejected statement
  setBy,     \* history: the requests that set each column of each source, oldest first
  crashes

tables  == <<slot, columns, routes, owner>>
handler == <<ask, pc, seeded, reply, result>>
history == <<faulted, setBy>>
vars == <<tables, audit, handler, up, cut, history, crashes>>

\* TELEMETRY_TYPES, in the order ensureDefaultRoutes inserts them
Signals   == <<"logs", "traces", "metrics">>
SignalSet == {Signals[i] : i \in DOMAIN Signals}

Ids     == Existing \cup Requests
Changes == UNION {[set -> Values] : set \in SUBSET Fields \ {{}}}
Asks    == [op : {"create"}, slot : Slots]
             \cup [op : {"patch"}, id : Ids, set : Changes]
             \cup [op : {"credential"}, id : Ids]
             \cup [op : {"invalid"}]
Pending == {"check", "insert", "seed", "update", "find", "issue", "audit", "reply"}
Done    == {"answered", "lost"}

Exists(id) == slot[id] # None

Init ==
  /\ slot = [id \in Ids |-> IF id \in Existing THEN TakenBy[id] ELSE None]
  /\ columns = [id \in Ids |-> [f \in Fields |-> Default]]
  /\ routes = [id \in Ids |-> IF id \in Existing THEN SignalSet ELSE {}]
  /\ owner = [r \in Requests |-> None]
  /\ audit = [r \in Requests |-> <<>>]
  /\ ask = [r \in Requests |-> None]
  /\ pc = [r \in Requests |-> "idle"]
  /\ seeded = [r \in Requests |-> 0]
  /\ reply = [r \in Requests |-> None]
  /\ result = [r \in Requests |-> None]
  /\ up = TRUE /\ cut = {}
  /\ faulted = {}
  /\ setBy = [id \in Ids |-> [f \in Fields |-> <<>>]]
  /\ crashes = 0

At(r, label)   == up /\ r \notin cut /\ pc[r] = label
GoTo(r, label) == pc' = [pc EXCEPT ![r] = label]
Answer(r, status, label) == reply' = [reply EXCEPT ![r] = status] /\ GoTo(r, label)

\* The body is parsed by its schema: what fails is a 400 with no statement at all.
Receive(r) ==
  /\ At(r, "idle")
  /\ \E a \in Asks :
       /\ ask' = [ask EXCEPT ![r] = a]
       /\ CASE a.op = "create"     -> GoTo(r, "check") /\ UNCHANGED reply
            [] a.op = "patch"      -> GoTo(r, "update") /\ UNCHANGED reply
            [] a.op = "credential" -> GoTo(r, "find") /\ UNCHANGED reply
            [] a.op = "invalid"    -> Answer(r, 400, "reply")
  /\ UNCHANGED <<tables, audit, seeded, result, up, cut, history, crashes>>

Taken(s) == \E id \in Ids : slot[id] = s

\* getSourceBySlugEnvironment
CheckSlot(r) ==
  /\ At(r, "check")
  /\ IF Taken(ask[r].slot) THEN Answer(r, 409, "reply")
     ELSE GoTo(r, "insert") /\ UNCHANGED reply
  /\ UNCHANGED <<tables, audit, ask, seeded, result, up, cut, history, crashes>>

\* Mutant: the table has no UNIQUE (slug, environment).
NoUniqueConstraint(s) == FALSE

UniqueViolation(s) == Taken(s)

StoreSource(r) ==
  /\ slot' = [slot EXCEPT ![r] = ask[r].slot]
  /\ result' = [result EXCEPT ![r] = columns[r]]
  /\ UNCHANGED <<columns, routes, owner>>

\* insertSource: a violated constraint is an error like any other, answered 500.
InsertSource(r) ==
  /\ At(r, "insert")
  /\ \/ /\ UniqueViolation(ask[r].slot)
        /\ Answer(r, 500, "reply")
        /\ UNCHANGED <<tables, result>>
     \/ /\ ~UniqueViolation(ask[r].slot)
        /\ StoreSource(r)
        /\ GoTo(r, "seed")
        /\ UNCHANGED reply
  /\ UNCHANGED <<audit, ask, seeded, up, cut, history, crashes>>

\* Mutant: the seeding is started and not awaited.
LastSeedUnawaited(n) == n + 1 >= Len(Signals)

AllSeeded(n) == n = Len(Signals)

\* Mutant: routes are unique per source, so each row inserted replaces the one before.
StoreOnlyRoute(r) ==
  routes' = [routes EXCEPT ![r] = {Signals[seeded[r] + 1]}]

StoreRoute(r) ==
  routes' = [routes EXCEPT ![r] = @ \cup {Signals[seeded[r] + 1]}]

\* ensureDefaultRoutes: one INSERT ... ON CONFLICT DO NOTHING after the other
SeedRoute(r) ==
  /\ At(r, "seed") /\ ~AllSeeded(seeded[r])
  /\ StoreRoute(r)
  /\ seeded' = [seeded EXCEPT ![r] = @ + 1]
  /\ UNCHANGED <<slot, columns, owner, audit, ask, pc, reply, result, up, cut, history, crashes>>

\* The route handler goes on to record source.created and to answer 201.
Seeded(r) ==
  /\ At(r, "seed") /\ AllSeeded(seeded[r])
  /\ Answer(r, 201, "audit")
  /\ UNCHANGED <<tables, audit, ask, seeded, result, up, cut, history, crashes>>

\* Mutant: "if (input.x)" for each column leaves out those set to nothing.
TruthyColumns(set) == {f \in DOMAIN set : set[f] # Default}

\* "if (input.x !== undefined)" for each column
SetColumns(set) == DOMAIN set

\* Mutant: columns that are not given are reset, as a PUT would.
ReplaceColumns(old, set) == [f \in Fields |-> IF f \in DOMAIN set THEN set[f] ELSE Default]

\* Mutant: the row made of the RETURNING clause has the columns given only.
GivenColumns(old, set) == set

MergeColumns(old, set) ==
  [f \in Fields |-> IF f \in SetColumns(set) THEN set[f] ELSE old[f]]

StorePatch(r) ==
  LET id  == ask[r].id
      set == ask[r].set
  IN /\ columns' = [columns EXCEPT ![id] = MergeColumns(@, set)]
     /\ setBy' = [setBy EXCEPT ![id] =
                   [f \in Fields |-> IF f \in SetColumns(set) THEN Append(@[f], r) ELSE @[f]]]
     /\ UNCHANGED <<slot, routes, owner>>

\* updateSource: one UPDATE ... RETURNING of the columns given, and of no other
UpdateSource(r) ==
  /\ At(r, "update")
  /\ \/ /\ ~Exists(ask[r].id)
        /\ Answer(r, 404, "reply")
        /\ UNCHANGED <<tables, result, setBy>>
     \/ /\ Exists(ask[r].id)
        /\ StorePatch(r)
        /\ result' = [result EXCEPT ![r] = columns'[ask[r].id]]
        /\ Answer(r, 200, "audit")
  /\ UNCHANGED <<audit, ask, seeded, up, cut, faulted, crashes>>

\* getSourceOrThrow, before a credential is created
FindSource(r) ==
  /\ At(r, "find")
  /\ IF Exists(ask[r].id) THEN GoTo(r, "issue") /\ UNCHANGED reply
     ELSE Answer(r, 404, "reply")
  /\ UNCHANGED <<tables, audit, ask, seeded, result, up, cut, history, crashes>>

StoreCredential(r) ==
  owner' = [owner EXCEPT ![r] = ask[r].id] /\ UNCHANGED <<slot, columns, routes>>

\* insertCredential; the plaintext key goes into the reply only
IssueCredential(r) ==
  /\ At(r, "issue")
  /\ StoreCredential(r)
  /\ Answer(r, 201, "audit")
  /\ UNCHANGED <<audit, ask, seeded, result, up, cut, history, crashes>>

\* recordSourceChange and recordCredentialCreated: a rejected insert is only logged
RecordAudit(r) ==
  /\ At(r, "audit")
  /\ \/ audit' = [audit EXCEPT ![r] = Append(@, ask[r].op)] /\ faulted' \in {faulted, faulted \cup {r}}
     \/ UNCHANGED audit /\ faulted' = faulted \cup {r}
  /\ GoTo(r, "reply")
  /\ UNCHANGED <<tables, ask, seeded, reply, result, up, cut, setBy, crashes>>

Respond(r) ==
  /\ At(r, "reply")
  /\ GoTo(r, "answered")
  /\ UNCHANGED <<tables, audit, ask, seeded, reply, result, up, cut, history, crashes>>

\* What a statement whose outcome the handler never learns may have done all the same.
Unacknowledged(r) ==
  \/ UNCHANGED <<tables, audit, result, setBy>>
  \/ /\ pc[r] = "insert" /\ ~UniqueViolation(ask[r].slot)
     /\ StoreSource(r)
     /\ UNCHANGED <<audit, setBy>>
  \/ /\ pc[r] = "seed" /\ ~AllSeeded(seeded[r])
     /\ StoreRoute(r)
     /\ UNCHANGED <<slot, columns, owner, audit, result, setBy>>
  \/ /\ pc[r] = "update" /\ Exists(ask[r].id)
     /\ StorePatch(r)
     /\ UNCHANGED <<audit, result>>
  \/ pc[r] = "issue" /\ StoreCredential(r) /\ UNCHANGED <<audit, result, setBy>>
  \/ /\ pc[r] = "audit"
     /\ audit' = [audit EXCEPT ![r] = Append(@, ask[r].op)]
     /\ UNCHANGED <<tables, result, setBy>>

\* A rejected statement ends the handler with 500.  Nothing done before is undone.
StatementFails(r) ==
  /\ up /\ r \notin cut /\ pc[r] \in {"check", "insert", "seed", "update", "find", "issue"}
  /\ pc[r] = "seed" => ~AllSeeded(seeded[r])
  /\ Unacknowledged(r)
  /\ Answer(r, 500, "reply")
  /\ faulted' = faulted \cup {r}
  /\ UNCHANGED <<ask, seeded, up, cut, crashes>>

\* A crash ends every handler.
Crash ==
  /\ up /\ crashes < MaxCrashes
  /\ up' = FALSE /\ crashes' = crashes + 1
  /\ cut' = cut \cup {r \in Requests : pc[r] \in Pending}
  /\ UNCHANGED <<tables, audit, handler, history>>

\* PostgreSQL carries out the statement a dead handler had sent, or never got it.
Abandon(r) ==
  /\ r \in cut
  /\ cut' = cut \ {r}
  /\ GoTo(r, "lost")
  /\ Unacknowledged(r)
  /\ UNCHANGED <<ask, seeded, reply, up, faulted, crashes>>

Restart == ~up /\ up' = TRUE /\ UNCHANGED <<tables, audit, handler, cut, history, crashes>>

Handle(r) ==
  \/ CheckSlot(r) \/ InsertSource(r) \/ SeedRoute(r) \/ Seeded(r) \/ UpdateSource(r)
  \/ FindSource(r) \/ IssueCredential(r) \/ RecordAudit(r) \/ Respond(r) \/ StatementFails(r)

Next == (\E r \in Requests : Receive(r) \/ Handle(r) \/ Abandon(r)) \/ Crash \/ Restart

Spec == Init /\ [][Next]_vars

-----------------------------------------------------------------------------
(* Properties *)

\* Every variable keeps its shape.
TypeOK ==
  /\ slot \in [Ids -> Slots \cup {None}]
  /\ columns \in [Ids -> [Fields -> Values]]
  /\ routes \in [Ids -> SUBSET SignalSet]
  /\ owner \in [Requests -> Ids \cup {None}]
  /\ audit \in [Requests -> Seq({"create", "patch", "credential"})]
  /\ ask \in [Requests -> Asks \cup {None}]
  /\ pc \in [Requests -> {"idle"} \cup Pending \cup Done]
  /\ seeded \in [Requests -> 0..Len(Signals)]
  /\ reply \in [Requests -> {200, 201, 400, 404, 409, 500, None}]
  /\ result \in [Requests -> [Fields -> Values] \cup {None}]
  /\ up \in BOOLEAN /\ cut \subseteq Requests
  /\ faulted \subseteq Requests
  /\ setBy \in [Ids -> [Fields -> Seq(Requests)]]
  /\ crashes \in Nat

\* One slug names one source in an environment, although two creations may both find the
\* slug free before either inserts its row.
UniqueSlug ==
  \A i, j \in Ids : Exists(i) /\ slot[i] = slot[j] => i = j

Answered(r, op) == pc[r] = "answered" /\ ask[r].op = op

\* What the reply to a creation says is so: 201 means the row and all its routes are
\* there; 409 means another source has the slug and this request inserted nothing; and
\* without a rejected statement a 500 only ever hides a lost race for the slug.
CreationReplies ==
  \A r \in Requests : Answered(r, "create") =>
    /\ reply[r] = 201 => slot[r] = ask[r].slot /\ routes[r] = SignalSet
    /\ reply[r] = 409 => ~Exists(r) /\ Taken(ask[r].slot)
    /\ reply[r] = 500 /\ r \notin faulted => ~Exists(r) /\ Taken(ask[r].slot)

\* No lost update: each column of a source holds what the last request to set that column
\* gave it, however the changes of several admins to different columns interleave.
NoLostUpdate ==
  \A id \in Ids, f \in Fields :
    LET by == setBy[id][f]
    IN columns[id][f] = IF by = <<>> THEN Default ELSE ask[by[Len(by)]].set[f]

\* The change was written, in each column that was asked for; by NoLostUpdate it is there
\* until another request sets that column.
Patched(r) ==
  \A f \in DOMAIN ask[r].set :
    LET by == setBy[ask[r].id][f] IN \E n \in 1..Len(by) : by[n] = r

\* A row of the audit trail, and a 2xx reply, tell of a change that was written in full,
\* whatever failed later; a refused or failed request leaves no row, and a change answered
\* with 2xx has its one row unless the audit insert was rejected.
AuditTellsTheTruth ==
  \A r \in Requests :
    /\ Len(audit[r]) <= 1
    /\ audit[r] # <<>> \/ reply[r] \in {200, 201} =>
         CASE ask[r].op = "create"     -> Exists(r) /\ routes[r] = SignalSet
           [] ask[r].op = "patch"      -> Exists(ask[r].id) /\ Patched(r)
           [] ask[r].op = "credential" -> owner[r] = ask[r].id /\ Exists(ask[r].id)
           [] OTHER                    -> FALSE
    /\ pc[r] = "answered" =>
         IF reply[r] \in {200, 201} THEN audit[r] # <<>> \/ r \in faulted ELSE audit[r] = <<>>

\* data-model.md:183 "Each active source must have enabled routes for logs, traces, and
\* metrics in v1": once the request that created a source is over, it has its routes.
\* Stated of the documentation; the code does not keep it.
SourcesHaveRoutes ==
  \A r \in Requests : pc[r] \in Done /\ Exists(r) => routes[r] = SignalSet
===============================================================================
