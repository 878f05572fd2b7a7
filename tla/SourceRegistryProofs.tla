-------------------------- MODULE SourceRegistryProofs --------------------------
(* Theorems about SourceRegistry, for any requests, sources, columns and crashes. *)
EXTENDS RegistryOfSources, TLAPS

Creations   == [op : {"create"}, slot : Slots]
Patches     == [op : {"patch"}, id : Ids, set : Changes]
Credentials == [op : {"credential"}, id : Ids]

-----------------------------------------------------------------------------
(* Every variable keeps its shape. *)

\* A handler is only at the labels of the operation its request asks for.
Operations ==
  \A r \in Requests :
    /\ pc[r] \in {"check", "insert", "seed"} => ask[r] \in Creations
    /\ pc[r] = "update" => ask[r] \in Patches
    /\ pc[r] \in {"find", "issue"} => ask[r] \in Credentials
    /\ pc[r] = "audit" => ask[r] \in Creations \cup Patches \cup Credentials

Typed == TypeOK /\ Operations

\* What a request asks for, by its operation.
LEMMA AsksByOperation ==
  /\ Creations \cup Patches \cup Credentials \subseteq Asks
  /\ \A a \in Asks : /\ a.op = "create" => a \in Creations
                     /\ a.op = "patch" => a \in Patches
                     /\ a.op = "credential" => a \in Credentials
                     /\ a.op \in {"create", "patch", "credential", "invalid"}
  BY DEF Asks, Creations, Patches, Credentials

\* Merging the columns given into a row makes a row.
LEMMA MergeType ==
  ASSUME NEW old \in [Fields -> Values], NEW set \in Changes
  PROVE  MergeColumns(old, set) \in [Fields -> Values]
<1>1. PICK fields \in SUBSET Fields : set \in [fields -> Values]
  BY DEF Changes
<1> QED
  BY <1>1 DEF MergeColumns, SetColumns

\* There are three signals.
LEMMA SignalFacts ==
  /\ Len(Signals) = 3 /\ SignalSet = {Signals[1], Signals[2], Signals[3]}
  /\ \A n \in 0..2 : Signals[n + 1] \in SignalSet
<1>1. Len(Signals) = 3 /\ DOMAIN Signals = 1..3
  BY DEF Signals
<1>2. SignalSet = {Signals[1], Signals[2], Signals[3]}
  BY <1>1 DEF SignalSet
<1> QED
  BY <1>1, <1>2

\* At first nothing is asked.
LEMMA InitType == Init => Typed
  BY NullAssumption, ExistingAssumption, BoundAssumption, SignalFacts
  DEF Init, Typed, TypeOK, Operations, Ids

\* A patch writes rows.
LEMMA PatchType ==
  ASSUME Typed, NEW r \in Requests, pc[r] = "update", StorePatch(r)
  PROVE  /\ columns' \in [Ids -> [Fields -> Values]]
         /\ setBy' \in [Ids -> [Fields -> Seq(Requests)]]
         /\ ask[r].id \in Ids /\ UNCHANGED <<slot, routes, owner>>
<1>1. ask[r].id \in Ids /\ ask[r].set \in Changes
  BY DEF Typed, Operations, Patches
<1>0. UNCHANGED <<slot, routes, owner>>
  BY DEF StorePatch
<1>2. MergeColumns(columns[ask[r].id], ask[r].set) \in [Fields -> Values]
  <2>1. columns[ask[r].id] \in [Fields -> Values]
    BY <1>1 DEF Typed, TypeOK
  <2> QED
    BY <1>1, <2>1, MergeType
<1>3. [f \in Fields |-> IF f \in SetColumns(ask[r].set) THEN Append(setBy[ask[r].id][f], r)
                                                        ELSE setBy[ask[r].id][f]]
        \in [Fields -> Seq(Requests)]
  <2>1. \A f \in Fields : /\ setBy[ask[r].id][f] \in Seq(Requests)
                          /\ Append(setBy[ask[r].id][f], r) \in Seq(Requests)
    BY <1>1 DEF Typed, TypeOK
  <2> QED
    BY <2>1
<1>4. columns' \in [Ids -> [Fields -> Values]]
  BY <1>1, <1>2 DEF StorePatch, Typed, TypeOK
<1>5. setBy' \in [Ids -> [Fields -> Seq(Requests)]]
  BY <1>1, <1>3 DEF StorePatch, Typed, TypeOK
<1> QED
  BY <1>0, <1>1, <1>4, <1>5

Tables ==
  /\ slot \in [Ids -> Slots \cup {None}]
  /\ columns \in [Ids -> [Fields -> Values]]
  /\ routes \in [Ids -> SUBSET SignalSet]
  /\ owner \in [Requests -> Ids \cup {None}]
  /\ setBy \in [Ids -> [Fields -> Seq(Requests)]]
  /\ audit \in [Requests -> Seq({"create", "patch", "credential"})]
  /\ result \in [Requests -> [Fields -> Values] \cup {None}]

\* So does a statement whose outcome is not learnt.
LEMMA UnacknowledgedType ==
  ASSUME Typed, NEW r \in Requests, Unacknowledged(r)
  PROVE  Tables'
<1> USE DEF Typed, TypeOK, Tables, tables
<1>1. CASE UNCHANGED <<tables, audit, result, setBy>>
  BY <1>1
<1>2. CASE pc[r] = "insert" /\ StoreSource(r) /\ UNCHANGED <<audit, setBy>>
  BY <1>2 DEF StoreSource, Operations, Creations, Ids
<1>3. CASE pc[r] = "seed" /\ ~AllSeeded(seeded[r]) /\ StoreRoute(r)
             /\ UNCHANGED <<slot, columns, owner, audit, result, setBy>>
  <2>1. seeded[r] \in 0..2
    BY <1>3, SignalFacts DEF AllSeeded
  <2> QED
    BY <1>3, <2>1, SignalFacts DEF StoreRoute, Ids
<1>4. CASE pc[r] = "update" /\ StorePatch(r) /\ UNCHANGED <<audit, result>>
  BY <1>4, PatchType
<1>5. CASE pc[r] = "issue" /\ StoreCredential(r) /\ UNCHANGED <<audit, result, setBy>>
  BY <1>5 DEF StoreCredential, Operations, Credentials
<1>6. CASE /\ pc[r] = "audit"
           /\ audit' = [audit EXCEPT ![r] = Append(@, ask[r].op)]
           /\ UNCHANGED <<tables, result, setBy>>
  <2>1. ask[r].op \in {"create", "patch", "credential"}
    BY <1>6 DEF Operations, Creations, Patches, Credentials
  <2> QED
    BY <1>6, <2>1
<1> QED
  BY <1>1, <1>2, <1>3, <1>4, <1>5, <1>6 DEF Unacknowledged

\* What a handler goes to has the operation of the label.
LEMMA LabelType ==
  ASSUME Typed, NEW r \in Requests, NEW label \in Pending \cup Done,
         pc' = [pc EXCEPT ![r] = label],
         \A q \in Requests \ {r} : ask'[q] = ask[q],
         label \in {"check", "insert", "seed"} => ask'[r] \in Creations,
         label = "update" => ask'[r] \in Patches,
         label \in {"find", "issue"} => ask'[r] \in Credentials,
         label = "audit" => ask'[r] \in Creations \cup Patches \cup Credentials
  PROVE  pc' \in [Requests -> {"idle"} \cup Pending \cup Done] /\ Operations'
<1>1. pc' \in [Requests -> {"idle"} \cup Pending \cup Done]
  BY DEF Typed, TypeOK
<1>2. \A q \in Requests : pc'[q] = IF q = r THEN label ELSE pc[q]
  BY DEF Typed, TypeOK
<1> QED
  BY <1>1, <1>2 DEF Typed, Operations

\* Receiving a request keeps every type.
LEMMA ReceiveType ==
  ASSUME Typed, NEW r \in Requests, Receive(r)
  PROVE  Typed'
<1>1. PICK a \in Asks : /\ ask' = [ask EXCEPT ![r] = a]
                       /\ CASE a.op = "create"     -> GoTo(r, "check") /\ UNCHANGED reply
                            [] a.op = "patch"      -> GoTo(r, "update") /\ UNCHANGED reply
                            [] a.op = "credential" -> GoTo(r, "find") /\ UNCHANGED reply
                            [] a.op = "invalid"    -> Answer(r, 400, "reply")
  BY DEF Receive
<1>2. PICK label \in {"check", "update", "find", "reply"} :
        /\ GoTo(r, label)
        /\ reply' \in {reply, [reply EXCEPT ![r] = 400]}
        /\ label = "check" => a \in Creations
        /\ label = "update" => a \in Patches
        /\ label = "find" => a \in Credentials
  <2>1. CASE a.op = "create"
    BY <1>1, <2>1, AsksByOperation
  <2>2. CASE a.op = "patch"
    BY <1>1, <2>2, AsksByOperation
  <2>3. CASE a.op = "credential"
    BY <1>1, <2>3, AsksByOperation
  <2>4. CASE a.op = "invalid"
    BY <1>1, <2>4 DEF Answer
  <2> QED
    BY <2>1, <2>2, <2>3, <2>4, AsksByOperation
<1>3. ask' \in [Requests -> Asks \cup {None}] /\ \A q \in Requests : ask'[q] = IF q = r THEN a ELSE ask[q]
  BY <1>1 DEF Typed, TypeOK
<1>4. pc' \in [Requests -> {"idle"} \cup Pending \cup Done] /\ Operations'
  <2>1. label \in Pending \cup Done /\ pc' = [pc EXCEPT ![r] = label]
    BY <1>2 DEF GoTo, Pending
  <2>2. ask'[r] = a /\ \A q \in Requests \ {r} : ask'[q] = ask[q]
    BY <1>3
  <2> QED
    BY <1>2, <2>1, <2>2, LabelType
<1>5. reply' \in [Requests -> {200, 201, 400, 404, 409, 500, None}]
  <2>1. reply \in [Requests -> {200, 201, 400, 404, 409, 500, None}]
    BY DEF Typed, TypeOK
  <2> QED
    BY <1>2, <2>1
<1>6. UNCHANGED <<slot, columns, routes, owner, audit, seeded, result, up, cut, faulted, setBy, crashes>>
  BY DEF Receive, tables, history
<1> QED
  BY <1>3, <1>4, <1>5, <1>6 DEF Typed, TypeOK

\* The tables keep theirs at every step of a handler.
LEMMA TablesType ==
  ASSUME Typed, NEW r \in Requests, Handle(r) \/ Abandon(r)
  PROVE  Tables'
<1>0. Tables
  BY DEF Tables, Typed, TypeOK
<1> USE DEF Tables, At, tables, history
<1>1. CASE UNCHANGED <<tables, audit, result, setBy>>
  BY <1>0, <1>1
<1>2. CASE InsertSource(r) /\ StoreSource(r)
  <2>1. ask[r].slot \in Slots /\ UNCHANGED <<audit, setBy>>
    BY <1>2 DEF InsertSource, Typed, Operations, Creations
  <2> QED
    BY <1>0, <1>2, <2>1 DEF StoreSource, Ids
<1>3. CASE SeedRoute(r)
  <2>1. seeded[r] \in 0..2
    BY <1>3, SignalFacts DEF SeedRoute, AllSeeded, Typed, TypeOK
  <2> QED
    BY <1>0, <1>3, <2>1, SignalFacts DEF SeedRoute, StoreRoute, Ids
<1>4. CASE UpdateSource(r) /\ Exists(ask[r].id)
  <2>1. StorePatch(r) /\ pc[r] = "update"
    BY <1>4 DEF UpdateSource
  <2>2. columns'[ask[r].id] \in [Fields -> Values]
    BY <2>1, PatchType
  <2>3. result' = [result EXCEPT ![r] = columns'[ask[r].id]] /\ UNCHANGED audit
    BY <1>4 DEF UpdateSource
  <2>4. result' \in [Requests -> [Fields -> Values] \cup {None}]
    BY <1>0, <2>2, <2>3
  <2> QED
    BY <1>0, <2>1, <2>3, <2>4, PatchType
<1>5. CASE IssueCredential(r)
  <2>1. ask[r].id \in Ids
    BY <1>5 DEF IssueCredential, Typed, Operations, Credentials
  <2> QED
    BY <1>0, <1>5, <2>1 DEF IssueCredential, StoreCredential
<1>6. CASE RecordAudit(r)
  <2>1. ask[r].op \in {"create", "patch", "credential"}
    BY <1>6 DEF RecordAudit, Typed, Operations, Creations, Patches, Credentials
  <2>2. audit' \in [Requests -> Seq({"create", "patch", "credential"})]
    <3>1. Append(audit[r], ask[r].op) \in Seq({"create", "patch", "credential"})
      BY <1>0, <2>1
    <3>2. UNCHANGED audit \/ audit' = [audit EXCEPT ![r] = Append(audit[r], ask[r].op)]
      BY <1>6 DEF RecordAudit
    <3> QED
      BY <1>0, <3>1, <3>2
  <2> QED
    BY <1>0, <1>6, <2>2 DEF RecordAudit
<1>7. CASE Unacknowledged(r)
  BY <1>7, UnacknowledgedType
<1> QED
  BY <1>1, <1>2, <1>3, <1>4, <1>5, <1>6, <1>7
  DEF Handle, CheckSlot, InsertSource, Seeded, UpdateSource, FindSource, Respond, StatementFails,
      Abandon

\* So do the handlers.
LEMMA HandlerType ==
  ASSUME Typed, NEW r \in Requests, Handle(r) \/ Abandon(r)
  PROVE  /\ pc' \in [Requests -> {"idle"} \cup Pending \cup Done] /\ Operations'
         /\ UNCHANGED ask
         /\ seeded' \in [Requests -> 0..Len(Signals)]
         /\ reply' \in [Requests -> {200, 201, 400, 404, 409, 500, None}]
<1>1. UNCHANGED ask
  BY DEF Handle, CheckSlot, InsertSource, SeedRoute, Seeded, UpdateSource, FindSource,
         IssueCredential, RecordAudit, Respond, StatementFails, Abandon, handler
<1>2. seeded' \in [Requests -> 0..Len(Signals)]
  <2>1. CASE SeedRoute(r)
    <3>1. seeded[r] \in 0..2
      BY <2>1, SignalFacts DEF SeedRoute, AllSeeded, Typed, TypeOK
    <3> QED
      BY <2>1, <3>1, SignalFacts DEF SeedRoute, Typed, TypeOK
  <2> QED
    BY <2>1 DEF Handle, CheckSlot, InsertSource, Seeded, UpdateSource, FindSource, Typed, TypeOK,
                IssueCredential, RecordAudit, Respond, StatementFails, Abandon
<1>3. reply' \in [Requests -> {200, 201, 400, 404, 409, 500, None}]
  <2>1. UNCHANGED reply \/ \E status \in {200, 201, 404, 409, 500} : reply' = [reply EXCEPT ![r] = status]
    BY DEF Handle, CheckSlot, InsertSource, SeedRoute, Seeded, UpdateSource, FindSource, Answer,
           IssueCredential, RecordAudit, Respond, StatementFails, Abandon
  <2>2. reply \in [Requests -> {200, 201, 400, 404, 409, 500, None}]
    BY DEF Typed, TypeOK
  <2> QED
    BY <2>1, <2>2
<1>4. UNCHANGED pc \/ \E label \in Pending \cup Done :
        /\ pc' = [pc EXCEPT ![r] = label]
        /\ label \in {"check", "insert", "seed"} => ask[r] \in Creations
        /\ label \notin {"update", "find"}
        /\ label = "issue" => ask[r] \in Credentials
        /\ label = "audit" => ask[r] \in Creations \cup Patches \cup Credentials
  <2> USE DEF At, GoTo, Answer, Pending, Done, Typed, Operations
  <2>1. CASE CheckSlot(r)
    BY <2>1 DEF CheckSlot
  <2>2. CASE InsertSource(r)
    BY <2>2 DEF InsertSource
  <2>3. CASE SeedRoute(r) \/ Seeded(r)
    BY <2>3 DEF SeedRoute, Seeded
  <2>4. CASE UpdateSource(r)
    BY <2>4 DEF UpdateSource
  <2>5. CASE FindSource(r) \/ IssueCredential(r)
    BY <2>5 DEF FindSource, IssueCredential
  <2>6. CASE RecordAudit(r) \/ Respond(r) \/ StatementFails(r) \/ Abandon(r)
    BY <2>6 DEF RecordAudit, Respond, StatementFails, Abandon
  <2> QED
    BY <2>1, <2>2, <2>3, <2>4, <2>5, <2>6 DEF Handle
<1>5. pc' \in [Requests -> {"idle"} \cup Pending \cup Done] /\ Operations'
  <2>1. CASE UNCHANGED pc
    BY <1>1, <2>1 DEF Typed, TypeOK, Operations
  <2>2. CASE ~UNCHANGED pc
    BY <1>1, <1>4, <2>2, LabelType
  <2> QED
    BY <2>1, <2>2
<1> QED
  BY <1>1, <1>2, <1>3, <1>5

\* Every step of a request keeps every type.
LEMMA RequestType ==
  ASSUME Typed, NEW r \in Requests, Handle(r) \/ Abandon(r)
  PROVE  Typed'
<1>1. UNCHANGED <<up, crashes>> /\ cut' \subseteq cut
  BY DEF Handle, CheckSlot, InsertSource, SeedRoute, Seeded, UpdateSource, FindSource,
         IssueCredential, RecordAudit, Respond, StatementFails, Abandon
<1>2. faulted' \subseteq faulted \cup {r}
  BY DEF Handle, CheckSlot, InsertSource, SeedRoute, Seeded, UpdateSource, FindSource,
         IssueCredential, RecordAudit, Respond, StatementFails, Abandon, history
<1>3. Tables'
  BY TablesType
<1>4. /\ pc' \in [Requests -> {"idle"} \cup Pending \cup Done] /\ Operations'
      /\ UNCHANGED ask
      /\ seeded' \in [Requests -> 0..Len(Signals)]
      /\ reply' \in [Requests -> {200, 201, 400, 404, 409, 500, None}]
  BY HandlerType
<1>5. /\ ask' \in [Requests -> Asks \cup {None}] /\ up' \in BOOLEAN /\ crashes' \in Nat
      /\ cut' \subseteq Requests /\ faulted' \subseteq Requests
  BY <1>1, <1>2, <1>4 DEF Typed, TypeOK
<1>6. TypeOK'
  BY <1>3, <1>4, <1>5 DEF TypeOK, Tables
<1> QED
  BY <1>4, <1>6 DEF Typed

\* So does every step.
LEMMA TypeStep == Typed /\ [Next]_vars => Typed'
<1> SUFFICES ASSUME Typed, [Next]_vars
             PROVE  Typed'
  OBVIOUS
<1>1. CASE \E r \in Requests : Receive(r) \/ Handle(r) \/ Abandon(r)
  BY <1>1, ReceiveType, RequestType
<1>2. CASE Crash \/ Restart \/ UNCHANGED vars
  <2>1. UNCHANGED <<slot, columns, routes, owner, audit, ask, pc, seeded, reply, result, faulted,
                    setBy>>
    BY <1>2 DEF Crash, Restart, vars, tables, handler, history
  <2>2. up' \in {TRUE, FALSE, up}
    BY <1>2 DEF Crash, Restart, vars
  <2>3. cut' \subseteq Requests /\ crashes' \in Nat
    BY <1>2 DEF Crash, Restart, vars, Typed, TypeOK
  <2> QED
    BY <2>1, <2>2, <2>3 DEF Typed, TypeOK, Operations
<1> QED
  BY <1>1, <1>2 DEF Next

\* Every variable keeps its shape, and every handler its labels.
THEOREM TypeCorrect == Spec => []TypeOK
<1>1. Typed => TypeOK
  BY DEF Typed
<1> QED
  BY <1>1, InitType, TypeStep, PTL DEF Spec

-----------------------------------------------------------------------------
(* What the admin API does to the tables, and what the ingestion path sees of it. *)

\* A step inserts one source, one route or one credential, or writes the columns of one
\* source, or leaves the tables alone; whether the handler learns of it or not.
TablesStep ==
  \/ UNCHANGED <<tables, setBy>>
  \/ \E r \in Requests : /\ pc[r] = "insert" /\ ~Taken(ask[r].slot)
                         /\ StoreSource(r) /\ UNCHANGED setBy
  \/ \E r \in Requests : /\ pc[r] = "seed" /\ seeded[r] \in 0..2 /\ StoreRoute(r)
                         /\ UNCHANGED <<slot, columns, owner, setBy>>
  \/ \E r \in Requests : pc[r] = "update" /\ StorePatch(r)
  \/ \E r \in Requests : pc[r] = "issue" /\ StoreCredential(r) /\ UNCHANGED setBy

\* No handler does more than that between two steps of another.
LEMMA EveryStepIsATablesStep == Typed /\ [Next]_vars => TablesStep
<1> SUFFICES ASSUME Typed, [Next]_vars
             PROVE  TablesStep
  OBVIOUS
<1>0. \A r \in Requests : ~AllSeeded(seeded[r]) => seeded[r] \in 0..2
  BY SignalFacts DEF AllSeeded, Typed, TypeOK
<1> USE DEF TablesStep
<1>1. ASSUME NEW r \in Requests, Unacknowledged(r)
      PROVE  TablesStep
  BY <1>0, <1>1 DEF Unacknowledged, UniqueViolation, tables
<1>2. ASSUME NEW r \in Requests, Handle(r)
      PROVE  TablesStep
  <2>1. CASE InsertSource(r)
    BY <2>1 DEF InsertSource, UniqueViolation, At, tables, history
  <2>2. CASE SeedRoute(r)
    BY <1>0, <2>1, <2>2 DEF SeedRoute, At, history
  <2>3. CASE UpdateSource(r)
    BY <2>3 DEF UpdateSource, At
  <2>4. CASE IssueCredential(r)
    BY <2>4 DEF IssueCredential, At, history
  <2>5. CASE StatementFails(r)
    BY <1>1, <2>5 DEF StatementFails
  <2>6. CASE CheckSlot(r) \/ Seeded(r) \/ FindSource(r) \/ RecordAudit(r) \/ Respond(r)
    BY <2>6 DEF CheckSlot, Seeded, FindSource, RecordAudit, Respond, history
  <2> QED
    BY <1>2, <2>1, <2>2, <2>3, <2>4, <2>5, <2>6 DEF Handle
<1>3. CASE \E r \in Requests : Abandon(r)
  BY <1>1, <1>3 DEF Abandon
<1>4. CASE (\E r \in Requests : Receive(r)) \/ Crash \/ Restart \/ UNCHANGED vars
  BY <1>4 DEF Receive, Crash, Restart, vars, history
<1> QED
  BY <1>2, <1>3, <1>4 DEF Next

\* An insert that loses the race for a slug is refused by the constraint.
LEMMA UniqueSlugStep == Typed /\ UniqueSlug /\ [Next]_vars => UniqueSlug'
<1> SUFFICES ASSUME Typed, UniqueSlug, [Next]_vars
             PROVE  UniqueSlug'
  OBVIOUS
<1>1. CASE UNCHANGED slot
  BY <1>1 DEF UniqueSlug, Exists
<1>2. CASE \E r \in Requests : ~Taken(ask[r].slot) /\ StoreSource(r)
  BY <1>2 DEF UniqueSlug, Exists, Taken, StoreSource, Typed, TypeOK, Ids
<1> QED
  BY <1>1, <1>2, EveryStepIsATablesStep DEF TablesStep, tables, StorePatch, StoreCredential

\* One slug names one source in an environment, whatever creations race for it.
THEOREM SlugsAreUnique == Spec => []UniqueSlug
<1>1. Init => UniqueSlug
  BY NullAssumption, ExistingAssumption DEF Init, UniqueSlug, Exists, Ids
<1> QED
  BY <1>1, InitType, TypeStep, UniqueSlugStep, PTL DEF Spec

\* The tables at first are those of a registry.
LEMMA RefinementInit == Init => R!RegistryInit
<1> SUFFICES ASSUME Init
             PROVE  R!RegistryInit
  OBVIOUS
<1>1. \A id \in Ids : StatusOf(id) = "active"
  BY StatusFieldAssumption DEF Init, StatusOf
<1>2. \A r \in Requests : KeyOf(r) = "absent"
  BY DEF Init, KeyOf
<1>3. \A id \in Ids, g \in SignalSet : RouteOf(id, g) \in {"missing", "enabled"}
  BY DEF RouteOf
<1> QED
  BY <1>1, <1>2, <1>3 DEF R!RegistryInit

\* What a step does to the tables is one step of the registry, or none.
LEMMA RefinementStep == Typed /\ [Next]_vars => [R!RegistryStep]_(R!registry)
<1> SUFFICES ASSUME Typed, [Next]_vars
             PROVE  R!RegistryStep \/ UNCHANGED R!registry
  OBVIOUS
<1> USE DEF R!RegistryStep, R!registry
<1>1. CASE UNCHANGED <<columns, routes, owner>>
  BY <1>1 DEF StatusOf, KeyOf, RouteOf
<1>2. ASSUME NEW r \in Requests, seeded[r] \in 0..2, StoreRoute(r), UNCHANGED <<columns, owner>>
      PROVE  R!RegistryStep \/ UNCHANGED R!registry
  <2> DEFINE g == Signals[seeded[r] + 1]
  <2>1. g \in SignalSet /\ r \in Ids
    BY <1>2, SignalFacts DEF Ids
  <2>2. \A id \in Ids, h \in SignalSet :
          RouteOf(id, h)' = IF id = r /\ h = g THEN "enabled" ELSE RouteOf(id, h)
    BY <1>2 DEF RouteOf, StoreRoute, Typed, TypeOK
  <2>3. CASE RouteOf(r, g) = "enabled"
    BY <1>2, <2>1, <2>2, <2>3 DEF StatusOf, KeyOf
  <2>4. CASE RouteOf(r, g) = "missing"
    <3>1. R!SetRoute(r, g, "enabled")
      BY <1>2, <2>1, <2>2, <2>4 DEF R!SetRoute, StatusOf, KeyOf
    <3> QED
      BY <2>1, <3>1
  <2> QED
    BY <2>3, <2>4 DEF RouteOf
<1>3. ASSUME NEW r \in Requests, pc[r] = "update", StorePatch(r)
      PROVE  R!RegistryStep \/ UNCHANGED R!registry
  <2>0. PICK id \in Ids : id = ask[r].id
    BY <1>3, PatchType
  <2>1. UNCHANGED <<routes, owner>>
    BY <1>3, PatchType
  <2>2. \A i \in Ids \ {id} : columns'[i] = columns[i]
    BY <1>3, <2>0 DEF StorePatch, Typed, TypeOK
  <2>3. \A i \in Ids \ {id} : StatusOf(i)' = StatusOf(i)
    BY <2>2 DEF StatusOf
  <2>4. CASE StatusOf(id)' = StatusOf(id)
    BY <2>1, <2>3, <2>4 DEF KeyOf, RouteOf
  <2>5. CASE StatusOf(id)' # StatusOf(id)
    <3>1. PICK status \in {"active", "disabled"} : status = StatusOf(id)'
      BY DEF StatusOf
    <3>2. \A i \in Ids : StatusOf(i)' = IF i = id THEN status ELSE StatusOf(i)
      BY <2>3, <3>1
    <3>3. R!SetSourceStatus(id, status)
      BY <2>1, <2>5, <3>1, <3>2 DEF R!SetSourceStatus, KeyOf, RouteOf
    <3> QED
      BY <3>3
  <2> QED
    BY <2>4, <2>5
<1>4. ASSUME NEW r \in Requests, pc[r] = "issue", StoreCredential(r)
      PROVE  R!RegistryStep \/ UNCHANGED R!registry
  <2>1. ask[r].id \in Ids /\ ask[r].id # None
    BY <1>4, NullAssumption DEF Typed, Operations, Credentials, Ids
  <2>2. \A q \in Requests : KeyOf(q)' = IF q = r THEN "active" ELSE KeyOf(q)
    BY <1>4, <2>1 DEF StoreCredential, KeyOf, Typed, TypeOK
  <2>3. UNCHANGED <<columns, routes>>
    BY <1>4 DEF StoreCredential
  <2>4. CASE KeyOf(r) = "active"
    BY <2>2, <2>3, <2>4 DEF StatusOf, RouteOf
  <2>5. CASE KeyOf(r) = "absent"
    <3>1. R!CreateCredential(r)
      BY <2>2, <2>3, <2>5 DEF R!CreateCredential, StatusOf, RouteOf
    <3> QED
      BY <3>1
  <2> QED
    BY <2>4, <2>5 DEF KeyOf
<1> QED
  BY <1>1, <1>2, <1>3, <1>4, EveryStepIsATablesStep DEF TablesStep, tables, StoreSource

\* The admin API implements the registry that the ingestion path was checked against.
THEOREM KeepsTheRegistry == Spec => KeepsRegistry
  BY InitType, TypeStep, RefinementInit, RefinementStep, PTL DEF Spec, KeepsRegistry, R!RegistrySpec

-----------------------------------------------------------------------------
(* Lost updates *)

\* A request is received once: what it asks for stays as it is.
LEMMA AskStays ==
  ASSUME Typed, [Next]_vars, NEW r \in Requests, pc[r] # "idle"
  PROVE  ask'[r] = ask[r] /\ pc'[r] # "idle"
<1>0. pc \in [Requests -> {"idle"} \cup Pending \cup Done] /\ ask \in [Requests -> Asks \cup {None}]
  BY DEF Typed, TypeOK
<1>1. ASSUME NEW q \in Requests, Receive(q)
      PROVE  ask'[r] = ask[r] /\ pc'[r] = pc[r]
  <2>1. q # r /\ (\E a : ask' = [ask EXCEPT ![q] = a])
          /\ \E label : pc' = [pc EXCEPT ![q] = label]
    BY <1>1, AsksByOperation DEF Receive, At, GoTo, Answer
  <2> QED
    BY <1>0, <2>1
<1>2. ASSUME NEW q \in Requests, Handle(q) \/ Abandon(q)
      PROVE  /\ ask' = ask
             /\ pc' = pc \/ \E label \in Pending \cup Done : pc' = [pc EXCEPT ![q] = label]
  BY <1>2 DEF Handle, CheckSlot, InsertSource, SeedRoute, Seeded, UpdateSource, FindSource, handler,
              IssueCredential, RecordAudit, Respond, StatementFails, Abandon, Answer, GoTo, Pending, Done
<1>3. "idle" \notin Pending \cup Done
  BY DEF Pending, Done
<1>4. CASE Crash \/ Restart \/ UNCHANGED vars
  BY <1>4 DEF Crash, Restart, vars, handler
<1> QED
  BY <1>0, <1>1, <1>2, <1>3, <1>4 DEF Next

\* A patch writes the columns it was given and no other.
LEMMA PatchWrites ==
  ASSUME Typed, NEW r \in Requests, pc[r] = "update", StorePatch(r)
  PROVE  \A id \in Ids, f \in Fields :
           IF id = ask[r].id /\ f \in DOMAIN ask[r].set
           THEN setBy'[id][f] = Append(setBy[id][f], r) /\ columns'[id][f] = ask[r].set[f]
           ELSE setBy'[id][f] = setBy[id][f] /\ columns'[id][f] = columns[id][f]
<1>1. ask[r].id \in Ids
  BY PatchType
<1> QED
  BY <1>1 DEF StorePatch, MergeColumns, SetColumns, Typed, TypeOK

\* Nothing else writes them.
LEMMA ColumnsStep ==
  ASSUME Typed, [Next]_vars
  PROVE  \/ UNCHANGED <<columns, setBy>>
         \/ \E r \in Requests : pc[r] = "update" /\ StorePatch(r)
  BY EveryStepIsATablesStep DEF TablesStep, tables, StoreSource, StoreRoute, StoreCredential

\* Each column is the one its last patch gave, and that patch was received.
Latest ==
  \A id \in Ids, f \in Fields :
    LET by == setBy[id][f]
    IN IF by = <<>> THEN columns[id][f] = Default
       ELSE pc[by[Len(by)]] # "idle" /\ columns[id][f] = ask[by[Len(by)]].set[f]

\* A patch becomes the last one of each column it writes.
LEMMA LatestStep == Typed /\ Latest /\ [Next]_vars => Latest'
<1> SUFFICES ASSUME Typed, Latest, [Next]_vars, NEW id \in Ids, NEW f \in Fields
             PROVE  Latest!(id, f)'
  BY DEF Latest
<1> DEFINE by == setBy[id][f]
<1>0. by \in Seq(Requests) /\ Latest!(id, f)
  BY DEF Typed, TypeOK, Latest
<1>1. CASE setBy'[id][f] = by /\ columns'[id][f] = columns[id][f]
  <2>1. CASE by = <<>>
    BY <1>0, <1>1, <2>1
  <2>2. CASE by # <<>>
    <3>1. by[Len(by)] \in Requests /\ pc[by[Len(by)]] # "idle"
      BY <1>0, <2>2
    <3>2. ask'[by[Len(by)]] = ask[by[Len(by)]] /\ pc'[by[Len(by)]] # "idle"
      BY <3>1, AskStays
    <3> QED
      BY <1>0, <1>1, <2>2, <3>2
  <2> QED
    BY <2>1, <2>2
<1>2. ASSUME NEW r \in Requests, pc[r] = "update", setBy'[id][f] = Append(by, r),
             columns'[id][f] = ask[r].set[f]
      PROVE  Latest!(id, f)'
  <2>1. setBy'[id][f] # <<>> /\ setBy'[id][f][Len(setBy'[id][f])] = r
    BY <1>0, <1>2
  <2>2. ask'[r] = ask[r] /\ pc'[r] # "idle"
    BY <1>2, AskStays
  <2> QED
    BY <1>2, <2>1, <2>2
<1> QED
  BY <1>1, <1>2, ColumnsStep, PatchWrites

\* Changes of several admins to different columns of a source lose none of them.
THEOREM NoUpdateIsLost == Spec => []NoLostUpdate
<1>1. Init => Latest
  BY DEF Init, Latest
<1>2. Latest => NoLostUpdate
  BY DEF Latest, NoLostUpdate
<1> QED
  BY <1>1, <1>2, InitType, TypeStep, LatestStep, PTL DEF Spec

\* What a patch wrote it has written, whoever writes after it.
LEMMA PatchedStays ==
  ASSUME Typed, [Next]_vars, NEW r \in Requests, ask[r] \in Patches, ask'[r] = ask[r], Patched(r)
  PROVE  Patched(r)'
<1> SUFFICES ASSUME NEW f \in DOMAIN ask[r].set
             PROVE  \E n \in 1..Len(setBy'[ask[r].id][f]) : setBy'[ask[r].id][f][n] = r
  BY DEF Patched
<1> DEFINE by == setBy[ask[r].id][f]
<1>1. ask[r].id \in Ids /\ f \in Fields
  BY DEF Patches, Changes
<1>2. by \in Seq(Requests)
  BY <1>1 DEF Typed, TypeOK
<1>3. PICK n \in 1..Len(by) : by[n] = r
  BY DEF Patched
<1>4. setBy'[ask[r].id][f] = by \/ \E q \in Requests : setBy'[ask[r].id][f] = Append(by, q)
  <2>1. CASE UNCHANGED <<columns, setBy>>
    BY <2>1
  <2>2. ASSUME NEW q \in Requests, pc[q] = "update", StorePatch(q)
        PROVE  setBy'[ask[r].id][f] = by \/ setBy'[ask[r].id][f] = Append(by, q)
    <3>1. \A id \in Ids, g \in Fields : \/ setBy'[id][g] = Append(setBy[id][g], q)
                                       \/ setBy'[id][g] = setBy[id][g]
      BY <2>2, PatchWrites
    <3> QED
      BY <1>1, <3>1
  <2> QED
    BY <2>1, <2>2, ColumnsStep
<1>5. n \in 1..Len(setBy'[ask[r].id][f]) /\ setBy'[ask[r].id][f][n] = r
  <2>1. CASE setBy'[ask[r].id][f] = by
    BY <1>3, <2>1
  <2>2. ASSUME NEW q \in Requests, setBy'[ask[r].id][f] = Append(by, q)
        PROVE  <1>5
    <3>1. Len(Append(by, q)) = Len(by) + 1 /\ \A i \in 1..Len(by) : Append(by, q)[i] = by[i]
      BY <1>2
    <3>2. n \in 1..(Len(by) + 1)
      BY <1>2, <1>3
    <3> QED
      BY <1>3, <2>2, <3>1, <3>2
  <2> QED
    BY <1>4, <2>1, <2>2
<1> QED
  BY <1>5

\* A patch that is done is written in every column it was given.
LEMMA PatchIsWritten ==
  ASSUME Typed, NEW r \in Requests, pc[r] = "update", StorePatch(r), ask'[r] = ask[r]
  PROVE  Patched(r)'
<1> SUFFICES ASSUME NEW f \in DOMAIN ask[r].set
             PROVE  \E n \in 1..Len(setBy'[ask[r].id][f]) : setBy'[ask[r].id][f][n] = r
  BY DEF Patched
<1> DEFINE by == setBy[ask[r].id][f]
<1>1. ask[r].id \in Ids /\ f \in Fields
  BY DEF Typed, Operations, Patches, Changes
<1>2. by \in Seq(Requests)
  BY <1>1 DEF Typed, TypeOK
<1>3. setBy'[ask[r].id][f] = Append(by, r)
  BY <1>1, PatchWrites
<1> HIDE DEF by
<1>4. Len(by) + 1 \in 1..Len(Append(by, r)) /\ Append(by, r)[Len(by) + 1] = r
  <2>1. Len(by) \in Nat /\ Len(Append(by, r)) = Len(by) + 1
    BY <1>2
  <2>2. Append(by, r)[Len(by) + 1] = r
    BY <1>2
  <2> QED
    BY <2>1, <2>2
<1> QED
  BY <1>3, <1>4 DEF by

-----------------------------------------------------------------------------
(* Replies and audit rows *)

\* What the audit row of a request tells of is in the tables.
Told(r) ==
  /\ ask[r].op \in {"create", "patch", "credential"}
  /\ ask[r].op = "create"     => slot[r] = ask[r].slot /\ routes[r] = SignalSet
  /\ ask[r].op = "patch"      => Exists(ask[r].id) /\ Patched(r)
  /\ ask[r].op = "credential" => owner[r] = ask[r].id /\ Exists(ask[r].id)

\* A handler that has not decided its reply has done what the labels behind it do.
Undecided(r) ==
  /\ pc[r] \notin {"idle", "lost"} \/ reply[r] # None => ask[r] \in Asks
  /\ pc[r] \in {"idle", "check", "insert"} => slot[r] = None /\ seeded[r] = 0
  /\ pc[r] = "seed" => slot[r] = ask[r].slot /\ \A n \in 1..seeded[r] : Signals[n] \in routes[r]
  /\ pc[r] = "issue" => Exists(ask[r].id)
  /\ pc[r] \in {"idle", "check", "insert", "seed", "update", "find", "issue"} => reply[r] = None

\* A creation that is refused, or fails of itself, has inserted nothing, as the slug is taken.
Refused(r) ==
  (reply[r] = 409 \/ (reply[r] = 500 /\ r \notin faulted)) /\ ask[r].op = "create" =>
    slot[r] = None /\ Taken(ask[r].slot)

\* A reply of 2xx is decided once it is true, and recorded before it is sent.
Decided(r) ==
  /\ reply[r] \in {200, 201} => Told(r)
  /\ Refused(r)
  /\ pc[r] = "audit" => reply[r] \in {200, 201}
  /\ audit[r] # <<>> => /\ Len(audit[r]) = 1 /\ reply[r] \in {200, 201}
                        /\ pc[r] \in {"reply"} \cup Done
  /\ pc[r] \in {"reply", "answered"} /\ reply[r] \in {200, 201} => audit[r] # <<>> \/ r \in faulted

Handlers == \A r \in Requests : Undecided(r) /\ Decided(r)

\* A row of a source stays, with its slot.
LEMMA SlotsStay ==
  ASSUME Typed, Handlers, [Next]_vars
  PROVE  /\ \A id \in Ids : Exists(id) => slot'[id] = slot[id]
         /\ \A s \in Slots : Taken(s) => Taken(s)'
<1>1. \A id \in Ids : Exists(id) => slot'[id] = slot[id]
  <2>1. CASE UNCHANGED slot
    BY <2>1
  <2>2. CASE \E r \in Requests : pc[r] = "insert" /\ StoreSource(r)
    BY <2>2 DEF StoreSource, Exists, Handlers, Undecided, Typed, TypeOK
  <2> QED
    BY <2>1, <2>2, EveryStepIsATablesStep DEF TablesStep, tables, StorePatch, StoreCredential
<1> QED
  BY <1>1, NullAssumption DEF Taken, Exists

\* A request changes nothing of another one.
LEMMA OthersUntouched ==
  ASSUME Typed, NEW q \in Requests, NEW r \in Requests, q # r,
         Receive(q) \/ Handle(q) \/ Abandon(q)
  PROVE  /\ pc'[r] = pc[r] /\ ask'[r] = ask[r] /\ reply'[r] = reply[r] /\ audit'[r] = audit[r]
         /\ seeded'[r] = seeded[r] /\ owner'[r] = owner[r] /\ slot'[r] = slot[r]
         /\ routes'[r] = routes[r] /\ (r \in faulted <=> r \in faulted')
<1> USE DEF tables, handler, history
<1>0. /\ pc \in [Requests -> {"idle"} \cup Pending \cup Done]
      /\ ask \in [Requests -> Asks \cup {None}]
      /\ reply \in [Requests -> {200, 201, 400, 404, 409, 500, None}]
      /\ audit \in [Requests -> Seq({"create", "patch", "credential"})]
      /\ seeded \in [Requests -> 0..Len(Signals)]
      /\ owner \in [Requests -> Ids \cup {None}]
      /\ slot \in [Ids -> Slots \cup {None}] /\ routes \in [Ids -> SUBSET SignalSet]
      /\ q \in Ids /\ r \in Ids
  BY DEF Typed, TypeOK, Ids
<1>1. UNCHANGED slot \/ \E s : slot' = [slot EXCEPT ![q] = s]
  BY DEF Receive, Handle, CheckSlot, InsertSource, StoreSource, SeedRoute, StoreRoute, Seeded,
         UpdateSource, StorePatch, FindSource, IssueCredential, StoreCredential, RecordAudit,
         Respond, StatementFails, Unacknowledged, Abandon
<1>2. UNCHANGED routes \/ \E s : routes' = [routes EXCEPT ![q] = s]
  BY DEF Receive, Handle, CheckSlot, InsertSource, StoreSource, SeedRoute, StoreRoute, Seeded,
         UpdateSource, StorePatch, FindSource, IssueCredential, StoreCredential, RecordAudit,
         Respond, StatementFails, Unacknowledged, Abandon
<1>3. UNCHANGED owner \/ \E s : owner' = [owner EXCEPT ![q] = s]
  BY DEF Receive, Handle, CheckSlot, InsertSource, StoreSource, SeedRoute, StoreRoute, Seeded,
         UpdateSource, StorePatch, FindSource, IssueCredential, StoreCredential, RecordAudit,
         Respond, StatementFails, Unacknowledged, Abandon
<1>4. UNCHANGED audit \/ \E s : audit' = [audit EXCEPT ![q] = s]
  BY DEF Receive, Handle, CheckSlot, InsertSource, SeedRoute, Seeded, UpdateSource, FindSource,
         IssueCredential, RecordAudit, Respond, StatementFails, Unacknowledged, Abandon
<1>5. UNCHANGED reply \/ \E s : reply' = [reply EXCEPT ![q] = s]
  <2>1. CASE Receive(q)
    BY <2>1, AsksByOperation DEF Receive, Answer
  <2>2. CASE CheckSlot(q) \/ InsertSource(q) \/ SeedRoute(q) \/ Seeded(q) \/ UpdateSource(q)
    BY <2>2 DEF CheckSlot, InsertSource, SeedRoute, Seeded, UpdateSource, Answer
  <2>3. CASE FindSource(q) \/ IssueCredential(q) \/ RecordAudit(q) \/ Respond(q) \/ StatementFails(q)
               \/ Abandon(q)
    BY <2>3 DEF FindSource, IssueCredential, RecordAudit, Respond, StatementFails, Abandon, Answer
  <2> QED
    BY <2>1, <2>2, <2>3 DEF Handle
<1>6. UNCHANGED pc \/ \E s : pc' = [pc EXCEPT ![q] = s]
  <2>1. CASE Receive(q)
    BY <2>1, AsksByOperation DEF Receive, Answer, GoTo
  <2>2. CASE CheckSlot(q) \/ InsertSource(q) \/ SeedRoute(q) \/ Seeded(q) \/ UpdateSource(q)
    BY <2>2 DEF CheckSlot, InsertSource, SeedRoute, Seeded, UpdateSource, Answer, GoTo
  <2>3. CASE FindSource(q) \/ IssueCredential(q) \/ RecordAudit(q) \/ Respond(q) \/ StatementFails(q)
               \/ Abandon(q)
    BY <2>3 DEF FindSource, IssueCredential, RecordAudit, Respond, StatementFails, Abandon, Answer, GoTo
  <2> QED
    BY <2>1, <2>2, <2>3 DEF Handle
<1>7. UNCHANGED <<ask, seeded>> \/ (\E s : ask' = [ask EXCEPT ![q] = s] /\ UNCHANGED seeded)
        \/ (\E s : seeded' = [seeded EXCEPT ![q] = s] /\ UNCHANGED ask)
  <2>1. CASE Receive(q)
    BY <2>1 DEF Receive
  <2>2. CASE SeedRoute(q)
    BY <2>2 DEF SeedRoute
  <2>3. CASE (Handle(q) /\ ~SeedRoute(q)) \/ Abandon(q)
    BY <2>3 DEF Handle, CheckSlot, InsertSource, Seeded, UpdateSource, FindSource,
                IssueCredential, RecordAudit, Respond, StatementFails, Abandon
  <2> QED
    BY <2>1, <2>2, <2>3
<1>8. faulted' \in {faulted, faulted \cup {q}}
  BY DEF Receive, Handle, CheckSlot, InsertSource, SeedRoute, Seeded, UpdateSource, FindSource,
         IssueCredential, RecordAudit, Respond, StatementFails, Abandon
<1>9. seeded'[r] = seeded[r] /\ ask'[r] = ask[r]
  BY <1>0, <1>7
<1>10. slot'[r] = slot[r] /\ routes'[r] = routes[r] /\ owner'[r] = owner[r]
  BY <1>0, <1>1, <1>2, <1>3
<1>11. audit'[r] = audit[r] /\ reply'[r] = reply[r] /\ pc'[r] = pc[r]
  BY <1>0, <1>4, <1>5, <1>6
<1> QED
  BY <1>8, <1>9, <1>10, <1>11

\* So what holds of a request goes on holding as long as others step.
LEMMA OthersKeep ==
  ASSUME Typed, Handlers, [Next]_vars, NEW r \in Requests,
         pc'[r] = pc[r] /\ ask'[r] = ask[r] /\ reply'[r] = reply[r] /\ audit'[r] = audit[r],
         seeded'[r] = seeded[r] /\ owner'[r] = owner[r] /\ slot'[r] = slot[r],
         routes'[r] = routes[r] /\ (r \in faulted <=> r \in faulted')
  PROVE  Undecided(r)' /\ Decided(r)'
<1>1. pc[r] \notin {"idle", "lost"} \/ reply[r] # None => ask[r] \in Asks
  BY DEF Handlers, Undecided
<1>2. ask[r] \in Asks /\ ask[r].op \in {"patch", "credential"} => ask[r].id \in Ids
  BY AsksByOperation DEF Patches, Credentials
<1>3. ask[r] \in Asks /\ ask[r].op \in {"patch", "credential"} /\ Exists(ask[r].id) =>
        Exists(ask[r].id)'
  BY <1>2, SlotsStay DEF Exists
<1>4. ask[r] \in Asks /\ ask[r].op = "create" /\ Taken(ask[r].slot) => Taken(ask[r].slot)'
  <2>1. ask[r] \in Asks /\ ask[r].op = "create" => ask[r].slot \in Slots
    BY AsksByOperation DEF Creations
  <2>2. \A s \in Slots : Taken(s) => Taken(s)'
    BY SlotsStay
  <2> QED
    BY <2>1, <2>2 DEF Taken
<1>5. pc[r] = "issue" => ask[r].op = "credential"
  BY DEF Typed, Operations, Credentials
<1>6. pc[r] = "idle" => reply[r] = None /\ audit[r] = <<>>
  BY NullAssumption DEF Handlers, Undecided, Decided, Done
<1>7. pc[r] = "issue" => Exists(ask[r].id)'
  BY <1>1, <1>3, <1>5 DEF Handlers, Undecided
<1>8. Undecided(r)'
  <2>1. (\A n \in 1..seeded[r] : Signals[n] \in routes[r]) =>
          \A n \in 1..seeded'[r] : Signals[n] \in routes'[r]
    OBVIOUS
  <2> QED
    BY <1>1, <1>7, <2>1 DEF Handlers, Undecided, Exists
<1>10. reply'[r] \in {200, 201} => Told(r)'
  <2>1. reply[r] \in {200, 201} => Told(r) /\ ask[r] \in Asks
    BY <1>1, NullAssumption, <1>6 DEF Handlers, Decided
  <2>2. ask[r] \in Asks /\ ask[r].op = "patch" /\ Patched(r) => Patched(r)'
    BY AsksByOperation, PatchedStays
  <2> QED
    BY <1>3, <2>1, <2>2 DEF Told
<1>11. Refused(r)'
  <2>1. Refused(r)
    BY DEF Handlers, Decided
  <2> QED
    BY <1>1, <1>4, <2>1, NullAssumption DEF Refused
<1> QED
  BY <1>8, <1>10, <1>11 DEF Handlers, Decided

\* The functions of a handler.
Functions ==
  /\ pc \in [Requests -> {"idle"} \cup Pending \cup Done]
  /\ ask \in [Requests -> Asks \cup {None}]
  /\ reply \in [Requests -> {200, 201, 400, 404, 409, 500, None}]
  /\ audit \in [Requests -> Seq({"create", "patch", "credential"})]
  /\ seeded \in [Requests -> 0..Len(Signals)]
  /\ owner \in [Requests -> Ids \cup {None}]
  /\ slot \in [Ids -> Slots \cup {None}] /\ routes \in [Ids -> SUBSET SignalSet]

\* What a request's own step must keep of it.
Own(r) == Undecided(r) /\ Decided(r)

\* A creation: from the check of the slug to the last route.
LEMMA CreationKeeps ==
  ASSUME Typed, Handlers, [Next]_vars, NEW r \in Requests,
         CheckSlot(r) \/ InsertSource(r) \/ SeedRoute(r) \/ Seeded(r)
  PROVE  Own(r)'
<1>0. Functions /\ Own(r) /\ r \in Ids
  BY DEF Functions, Own, Handlers, Typed, TypeOK, Ids
<1> USE NullAssumption DEF Functions, Own, Undecided, Decided, At, GoTo, Answer, Done
<1>1. pc[r] \in {"check", "insert", "seed"} => ask[r] \in Creations
  BY DEF Typed, Operations
<1>2. pc[r] \in {"check", "insert", "seed"} => reply[r] = None /\ audit[r] = <<>> /\ ask[r] \in Asks
  BY <1>0
<1>3. CASE CheckSlot(r)
  <2>1. CASE Taken(ask[r].slot)
    <3>1. UNCHANGED <<slot, ask, audit, seeded, routes, faulted>> /\ pc[r] = "check"
            /\ reply'[r] = 409 /\ pc'[r] = "reply"
      BY <1>0, <1>3, <2>1 DEF CheckSlot, tables, history
    <3>2. Refused(r)'
      BY <1>0, <1>2, <2>1, <3>1 DEF Refused, Taken
    <3> QED
      BY <1>0, <1>2, <3>1, <3>2
  <2>2. CASE ~Taken(ask[r].slot)
    <3>1. UNCHANGED <<slot, ask, audit, seeded, routes, faulted, reply>> /\ pc[r] = "check"
            /\ pc'[r] = "insert"
      BY <1>0, <1>3, <2>2 DEF CheckSlot, tables, history
    <3> QED
      BY <1>0, <1>2, <3>1 DEF Refused
  <2> QED
    BY <2>1, <2>2
<1>4. CASE InsertSource(r)
  <2>1. CASE UniqueViolation(ask[r].slot)
    <3>1. UNCHANGED <<slot, ask, audit, seeded, routes, faulted>> /\ pc[r] = "insert"
            /\ reply'[r] = 500 /\ pc'[r] = "reply"
      BY <1>0, <1>4, <2>1 DEF InsertSource, tables, history
    <3>2. Refused(r)'
      BY <1>0, <1>2, <2>1, <3>1 DEF Refused, Taken, UniqueViolation
    <3> QED
      BY <1>0, <1>2, <3>1, <3>2
  <2>2. CASE ~UniqueViolation(ask[r].slot)
    <3>1. UNCHANGED <<ask, audit, seeded, routes, faulted, reply>> /\ pc[r] = "insert"
            /\ slot'[r] = ask[r].slot /\ pc'[r] = "seed"
      BY <1>0, <1>4, <2>2 DEF InsertSource, StoreSource, history
    <3> QED
      BY <1>0, <1>2, <3>1 DEF Refused
  <2> QED
    BY <2>1, <2>2
<1>5. CASE SeedRoute(r)
  <2>1. UNCHANGED <<slot, ask, audit, pc, faulted, reply>> /\ pc[r] = "seed"
          /\ seeded'[r] = seeded[r] + 1 /\ routes'[r] = routes[r] \cup {Signals[seeded[r] + 1]}
    BY <1>0, <1>5 DEF SeedRoute, StoreRoute, history
  <2>2. seeded[r] \in Nat /\ \A n \in 1..seeded[r] : Signals[n] \in routes[r]
    <3>1. seeded[r] \in 0..3
      BY SignalFacts DEF Typed, TypeOK
    <3> QED
      BY <1>0, <2>1, <3>1
  <2>3. \A n \in 1..seeded'[r] : n \in 1..seeded[r] \/ n = seeded[r] + 1
    BY <2>1, <2>2
  <2>4. \A n \in 1..seeded'[r] : Signals[n] \in routes'[r]
    BY <2>1, <2>2, <2>3
  <2> QED
    BY <1>0, <1>2, <2>1, <2>4 DEF Refused
<1>6. CASE Seeded(r)
  <2>1. UNCHANGED <<slot, ask, audit, seeded, routes, faulted>> /\ pc[r] = "seed"
          /\ reply'[r] = 201 /\ pc'[r] = "audit" /\ seeded[r] = 3
    BY <1>0, <1>6, SignalFacts DEF Seeded, AllSeeded, tables, history
  <2>2. routes[r] = SignalSet
    BY <1>0, <2>1, SignalFacts
  <2>3. Told(r)'
    BY <1>0, <1>1, <2>1, <2>2 DEF Told, Creations
  <2> QED
    BY <1>0, <1>2, <2>1, <2>3 DEF Refused
<1> QED
  BY <1>3, <1>4, <1>5, <1>6

\* A change of a source, or a new credential for it.
LEMMA ChangeKeeps ==
  ASSUME Typed, Handlers, [Next]_vars, NEW r \in Requests,
         UpdateSource(r) \/ FindSource(r) \/ IssueCredential(r)
  PROVE  Own(r)'
<1>0. Functions /\ Own(r) /\ r \in Ids
  BY DEF Functions, Own, Handlers, Typed, TypeOK, Ids
<1> USE NullAssumption DEF Functions, Own, Undecided, Decided, At, GoTo, Answer, Done
<1>1. /\ pc[r] = "update" => ask[r].op = "patch"
      /\ pc[r] \in {"find", "issue"} => ask[r].op = "credential"
  BY DEF Typed, Operations, Patches, Credentials
<1>2. pc[r] \in {"update", "find", "issue"} => reply[r] = None /\ audit[r] = <<>> /\ ask[r] \in Asks
  BY <1>0
<1>3. CASE UpdateSource(r) \/ (FindSource(r) /\ ~Exists(ask[r].id))
  <2>1. UNCHANGED <<slot, ask, audit, seeded, routes, faulted>> /\ pc[r] \in {"update", "find"}
    BY <1>3 DEF UpdateSource, FindSource, StorePatch, tables, history
  <2>2. (reply'[r] = 404 /\ pc'[r] = "reply")
          \/ (reply'[r] = 200 /\ pc'[r] = "audit" /\ pc[r] = "update" /\ Exists(ask[r].id))
    BY <1>0, <1>3 DEF UpdateSource, FindSource
  <2>3. reply'[r] = 200 => Told(r)'
    <3>1. CASE pc[r] = "update" /\ Exists(ask[r].id)
      <4>1. StorePatch(r)
        BY <1>3, <3>1 DEF UpdateSource, FindSource
      <4>2. Patched(r)'
        BY <2>1, <3>1, <4>1, PatchIsWritten
      <4> QED
        BY <1>1, <2>1, <3>1, <4>2 DEF Told, Exists
    <3> QED
      BY <2>2, <3>1
  <2>4. Refused(r)' /\ audit'[r] = <<>> /\ ask'[r] \in Asks
    BY <1>1, <1>2, <2>1 DEF Refused
  <2> QED
    BY <2>2, <2>3, <2>4
<1>4. CASE FindSource(r) /\ Exists(ask[r].id)
  <2>1. UNCHANGED <<slot, ask, audit, seeded, routes, faulted, reply>> /\ pc[r] = "find"
          /\ pc'[r] = "issue"
    BY <1>0, <1>4 DEF FindSource, tables, history
  <2> QED
    BY <1>0, <1>2, <1>4, <2>1 DEF Refused, Exists
<1>5. CASE IssueCredential(r)
  <2>1. UNCHANGED <<slot, ask, audit, seeded, routes, faulted>> /\ pc[r] = "issue"
          /\ owner'[r] = ask[r].id /\ reply'[r] = 201 /\ pc'[r] = "audit"
    BY <1>0, <1>5 DEF IssueCredential, StoreCredential, history
  <2>2. Told(r)'
    BY <1>0, <1>1, <2>1 DEF Told, Exists
  <2> QED
    BY <1>0, <1>2, <2>1, <2>2 DEF Refused
<1> QED
  BY <1>3, <1>4, <1>5

\* The audit row and the reply.
LEMMA ReplyKeeps ==
  ASSUME Typed, Handlers, [Next]_vars, NEW r \in Requests, RecordAudit(r) \/ Respond(r)
  PROVE  Own(r)'
<1>0. Functions /\ Own(r) /\ r \in Ids
  BY DEF Functions, Own, Handlers, Typed, TypeOK, Ids
<1> USE NullAssumption DEF Functions, Own, Undecided, Decided, At, GoTo, Done
<1>1. UNCHANGED <<slot, routes, owner, ask, seeded, reply>>
  BY DEF RecordAudit, Respond, tables
<1>2. (Told(r) => Told(r)') /\ (faulted \subseteq faulted' /\ Refused(r) => Refused(r)')
  <2>1. ask[r] \in Asks
    BY <1>0 DEF RecordAudit, Respond
  <2>2. ask[r].op = "patch" /\ Patched(r) => Patched(r)'
    BY <1>1, <2>1, AsksByOperation, PatchedStays
  <2> QED
    BY <1>1, <2>2 DEF Told, Refused, Exists, Taken
<1>3. CASE RecordAudit(r)
  <2>1. pc[r] = "audit" /\ pc'[r] = "reply" /\ faulted \subseteq faulted'
    BY <1>0, <1>3 DEF RecordAudit
  <2>2. audit[r] = <<>>
    BY <1>0, <2>1
  <2>3. (Len(audit'[r]) = 1 /\ audit'[r] # <<>>) \/ (audit'[r] = <<>> /\ r \in faulted')
    <3>1. CASE audit'[r] = Append(<<>>, ask[r].op)
      BY <3>1
    <3>2. CASE UNCHANGED audit /\ r \in faulted'
      BY <2>2, <3>2
    <3> QED
      BY <1>0, <1>3, <2>2, <3>1, <3>2 DEF RecordAudit
  <2> QED
    BY <1>0, <1>1, <1>2, <2>1, <2>3
<1>4. CASE Respond(r)
  <2>1. pc[r] = "reply" /\ pc'[r] = "answered" /\ UNCHANGED <<audit, faulted>>
    BY <1>0, <1>4 DEF Respond, history
  <2> QED
    BY <1>0, <1>1, <1>2, <2>1
<1> QED
  BY <1>3, <1>4

\* A statement rejected, or left behind by a crash.
LEMMA FailureKeeps ==
  ASSUME Typed, Handlers, [Next]_vars, NEW r \in Requests, StatementFails(r) \/ Abandon(r)
  PROVE  Own(r)'
<1>0. Functions /\ Own(r) /\ r \in Ids
  BY DEF Functions, Own, Handlers, Typed, TypeOK, Ids
<1> USE NullAssumption DEF Functions, Own, Undecided, Decided, At, GoTo, Answer, Done
<1>1. CASE StatementFails(r)
  <2>1. pc[r] \in {"check", "insert", "seed", "update", "find", "issue"} /\ UNCHANGED <<ask, seeded>>
          /\ reply'[r] = 500 /\ pc'[r] = "reply" /\ r \in faulted'
    BY <1>0, <1>1 DEF StatementFails
  <2>2. audit'[r] = <<>>
    BY <1>0, <1>1, <2>1 DEF StatementFails, Unacknowledged
  <2> QED
    BY <1>0, <2>1, <2>2 DEF Refused
<1>2. CASE Abandon(r) /\ pc[r] = "audit"
  <2>1. UNCHANGED <<slot, routes, owner, ask, seeded, reply, faulted>> /\ pc'[r] = "lost"
    BY <1>0, <1>2 DEF Abandon, Unacknowledged, tables
  <2>2. audit[r] = <<>> /\ ask[r].op \in {"create", "patch", "credential"}
    BY <1>0, <1>2 DEF Told
  <2>3. audit'[r] = <<>> \/ Len(audit'[r]) = 1
    BY <1>0, <1>2, <2>2 DEF Abandon, Unacknowledged
  <2>5. ask[r] \in Asks /\ ask'[r] = ask[r]
    BY <1>0, <1>2, <2>1
  <2>6. ask[r].op = "patch" /\ Patched(r) => Patched(r)'
    BY <2>5, AsksByOperation, PatchedStays
  <2>4. Told(r)' /\ Refused(r)'
    BY <1>0, <1>2, <2>1, <2>6 DEF Told, Refused, Exists, Taken
  <2> QED
    BY <1>0, <1>2, <2>1, <2>3, <2>4
<1>3. CASE Abandon(r) /\ pc[r] \in {"idle", "check", "insert", "seed", "update", "find", "issue"}
  <2>1. UNCHANGED <<ask, seeded, reply, faulted>> /\ pc'[r] = "lost"
    BY <1>0, <1>3 DEF Abandon
  <2>2. reply[r] = None /\ audit'[r] = <<>>
    BY <1>0, <1>3 DEF Abandon, Unacknowledged
  <2> QED
    BY <1>0, <2>1, <2>2 DEF Refused
<1>4. CASE Abandon(r) /\ pc[r] \in {"reply"} \cup Done
  <2>1. UNCHANGED <<slot, routes, owner, audit, ask, seeded, reply, faulted>> /\ pc'[r] = "lost"
    BY <1>0, <1>4 DEF Abandon, Unacknowledged, tables
  <2>3. ask[r] \in Asks /\ ask[r].op = "patch" /\ Patched(r) => Patched(r)'
    BY <2>1, AsksByOperation, PatchedStays
  <2>4. reply[r] \in {200, 201} => ask[r] \in Asks
    BY <1>0
  <2>2. (reply[r] \in {200, 201} /\ Told(r) => Told(r)') /\ (Refused(r) => Refused(r)')
    BY <2>1, <2>3, <2>4 DEF Told, Refused, Exists, Taken
  <2> QED
    BY <1>0, <1>4, <2>1, <2>2
<1> QED
  BY <1>0, <1>1, <1>2, <1>3, <1>4 DEF Pending

\* A request that is received has done nothing yet.
LEMMA ReceiveKeeps ==
  ASSUME Typed, Handlers, [Next]_vars, NEW r \in Requests, Receive(r)
  PROVE  Own(r)'
<1>0. Functions /\ Own(r) /\ r \in Ids
  BY DEF Functions, Own, Handlers, Typed, TypeOK, Ids
<1> USE NullAssumption DEF Functions, Own, Undecided, Decided, At, Done
<1>1. pc[r] = "idle" /\ reply[r] = None /\ audit[r] = <<>> /\ slot[r] = None /\ seeded[r] = 0
  BY <1>0 DEF Receive
<1>2. UNCHANGED <<slot, routes, owner, audit, seeded, faulted>> /\ ask'[r] \in Asks
  BY <1>0 DEF Receive, tables, history
<1>3. \/ pc'[r] = "check" /\ reply'[r] = None
      \/ pc'[r] \in {"update", "find"} /\ reply'[r] = None
      \/ pc'[r] = "reply" /\ reply'[r] = 400
  <2>1. PICK a \in Asks :
          CASE a.op = "create"     -> GoTo(r, "check") /\ UNCHANGED reply
            [] a.op = "patch"      -> GoTo(r, "update") /\ UNCHANGED reply
            [] a.op = "credential" -> GoTo(r, "find") /\ UNCHANGED reply
            [] a.op = "invalid"    -> Answer(r, 400, "reply")
    BY DEF Receive
  <2>2. a.op \in {"create", "patch", "credential", "invalid"}
    BY AsksByOperation
  <2>3. \/ \E label \in {"check", "update", "find"} : GoTo(r, label) /\ UNCHANGED reply
        \/ Answer(r, 400, "reply")
    BY <2>1, <2>2
  <2>4. pc \in [Requests -> {"idle"} \cup Pending \cup Done]
          /\ reply \in [Requests -> {200, 201, 400, 404, 409, 500, None}]
    BY DEF Typed, TypeOK
  <2> QED
    BY <1>1, <2>3, <2>4 DEF Answer, GoTo
<1> QED
  BY <1>0, <1>1, <1>2, <1>3 DEF Refused

\* Every step keeps what holds of every request.
LEMMA HandlersStep == Typed /\ Handlers /\ [Next]_vars => Handlers'
<1> SUFFICES ASSUME Typed, Handlers, [Next]_vars, NEW r \in Requests
             PROVE  Own(r)'
  BY DEF Handlers, Own
<1>1. CASE Receive(r) \/ Handle(r) \/ Abandon(r)
  BY <1>1, ReceiveKeeps, CreationKeeps, ChangeKeeps, ReplyKeeps, FailureKeeps DEF Handle
<1>2. CASE \E q \in Requests \ {r} : Receive(q) \/ Handle(q) \/ Abandon(q)
  BY <1>2, OthersUntouched, OthersKeep DEF Own
<1>3. CASE Crash \/ Restart \/ UNCHANGED vars
  <2>1. UNCHANGED <<tables, audit, handler, history>>
    BY <1>3 DEF Crash, Restart, vars
  <2> QED
    BY <2>1, OthersKeep DEF Own, tables, handler, history
<1> QED
  BY <1>1, <1>2, <1>3 DEF Next

\* At first no request has done anything.
LEMMA HandlersInit == Init => Handlers
<1> SUFFICES ASSUME Init, NEW r \in Requests
             PROVE  Undecided(r) /\ Decided(r)
  BY DEF Handlers
<1>1. pc[r] = "idle" /\ reply[r] = None /\ audit[r] = <<>> /\ seeded[r] = 0
  BY DEF Init
<1>2. slot[r] = None
  BY ExistingAssumption DEF Init, Ids
<1>3. None \notin {200, 201, 409, 500}
  BY NullAssumption
<1> QED
  BY <1>1, <1>2, <1>3 DEF Undecided, Decided, Refused

\* What the reply to a creation says is so.
THEOREM CreationRepliesHold == Spec => []CreationReplies
<1>1. Typed /\ Handlers => CreationReplies
  BY DEF Handlers, Decided, Refused, Told, CreationReplies, Answered, Exists
<1> QED
  BY <1>1, InitType, TypeStep, HandlersInit, HandlersStep, PTL DEF Spec

\* A row of the audit trail, and a 2xx, tell of a change that was written in full, and every
\* change that is acknowledged has its row unless the insert was rejected.
THEOREM AuditIsTrue == Spec => []AuditTellsTheTruth
<1>1. Typed /\ Handlers => AuditTellsTheTruth
  <2> SUFFICES ASSUME Typed, Handlers, NEW r \in Requests
               PROVE  AuditTellsTheTruth!(r)
    BY DEF AuditTellsTheTruth
  <2>1. Decided(r) /\ Undecided(r)
    BY DEF Handlers
  <2>2. Len(audit[r]) <= 1
    <3>1. CASE audit[r] = <<>>
      <4>1. Len(<<>>) = 0
        OBVIOUS
      <4> QED
        BY <3>1, <4>1
    <3>2. CASE audit[r] # <<>>
      <4>1. Len(audit[r]) = 1
        BY <2>1, <3>2 DEF Decided
      <4> QED
        BY <4>1
    <3> QED
      BY <3>1, <3>2
  <2>3. reply[r] \in {200, 201} /\ ask[r].op = "create" => Exists(r)
    BY <2>1, AsksByOperation, NullAssumption DEF Decided, Undecided, Told, Exists, Creations
  <2>4. reply[r] \in {200, 201} => ask[r].op \in {"create", "patch", "credential"}
    BY <2>1 DEF Decided, Told
  <2> QED
    BY <2>1, <2>2, <2>3, <2>4 DEF Decided, Told
<1> QED
  BY <1>1, InitType, TypeStep, HandlersInit, HandlersStep, PTL DEF Spec
===============================================================================
