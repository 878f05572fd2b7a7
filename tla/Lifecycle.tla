-------------------------------- MODULE Lifecycle --------------------------------
(***************************************************************************)
(* One container from its entry point to its end: the entry point migrates *)
(* and starts Ophir, signals arrive at any time, requests and the probe    *)
(* timer use the pool, and a shutdown closes the server, ends the pool and *)
(* exits.  docker-entrypoint.sh ("exec") makes Ophir PID 1;                *)
(* allinone-entrypoint.sh stays PID 1 and supervises Ophir and the stack.  *)
(***************************************************************************)
EXTENDS ConnectionPool

CONSTANTS Ingestions,   \* requests POST /otel/v1/...
          Checks,       \* requests GET /health/ready
          Probes,       \* runs of the probe timer, each of one statement, for TLC
          None,
          MaxSignals    \* bound on the signals sent to the container, for TLC

ASSUME SignalsAssumption == MaxSignals \in Nat
ASSUME NullAssumption == None \notin {"failed", "done", "ready", "not_ready"}
ASSUME StatementsAssumption ==
  Statements = ({"lookup", "touch", "audit"} \X Ingestions)
                 \cup ({"ping", "list"} \X Checks) \cup ({"probe"} \X Probes)

VARIABLES
  entry,      \* the entry point, "exec" or "allinone"
  shell,      \* what the latter does: "waiting", "trapped", "tearing" or "gone"
  stack,      \* is its telemetry stack running
  main,       \* how far Ophir's process is
  handlers,   \* who handles each signal: the instrumentation, main or both
  shutdown,   \* how far the shutdown is that each signal started
  pc,         \* where the handler of each request is
  answer,
  signals,    \* how many were sent
  heard,      \* history: was Ophir asked to stop, "early" or when it handles signals
  hurried,    \* history: did a signal come while the all-in-one container was torn down
  lost        \* history: statements that held a connection when the process ended

container == <<entry, shell, stack>>
process   == <<main, handlers, shutdown>>
asked     == <<heard, hurried>>
vars == <<poolVars, container, process, pc, answer, signals, asked, lost>>

Requests == Ingestions \cup Checks
Signals  == {"SIGTERM", "SIGINT"}
Alive    == main \notin {"exited", "killed"}
Open(r)  == pc[r] \notin {"idle", "answered", "cut"}

Init ==
  /\ PoolInit
  /\ entry \in {"exec", "allinone"}
  /\ shell = "waiting" /\ stack = TRUE
  /\ main = "absent"
  /\ handlers = [s \in Signals |-> {}]
  /\ shutdown = [s \in Signals |-> "none"]
  /\ pc = [r \in Requests |-> "idle"]
  /\ answer = [r \in Requests |-> None]
  /\ signals = 0 /\ heard = "no" /\ hurried = FALSE /\ lost = {}

-----------------------------------------------------------------------------
(* The process: start, signals, shutdown *)

\* The process ends: its requests are cut, and so is what it had running.
End(how) ==
  /\ main' = how
  /\ pc' = [r \in Requests |-> IF Open(r) THEN "cut" ELSE pc[r]]
  /\ lost' = running

GoesOn(how) == main' = how /\ UNCHANGED <<pc, lost>>

\* The migrations run in the foreground, and a trap waits for them; then Ophir is started.
Migrate ==
  /\ main = "absent"
  /\ End("exited") \/ (shell # "trapped" /\ GoesOn("preload"))
  /\ UNCHANGED <<poolVars, container, handlers, shutdown, answer, signals, asked>>

\* With the SDK enabled and started its handlers are in place before main is loaded.
Preload ==
  /\ main = "preload"
  /\ GoesOn("starting")
  /\ \E who \in SUBSET {"sdk"} : handlers' = [s \in Signals |-> who]
  /\ UNCHANGED <<poolVars, container, shutdown, answer, signals, asked>>

\* The admin, the integrations, the timer (see Startup), and app.listen, which may fail.
Listen ==
  /\ main = "starting"
  /\ GoesOn("bound") \/ End("exited")
  /\ UNCHANGED <<poolVars, container, handlers, shutdown, answer, signals, asked>>

HandleSignals ==
  /\ main = "bound"
  /\ GoesOn("serving")
  /\ handlers' = [s \in Signals |-> handlers[s] \cup {"main"}]
  /\ UNCHANGED <<poolVars, container, shutdown, answer, signals, asked>>

\* process.once: the handlers run and are gone.  Without any the signal ends the process,
\* unless it is PID 1: the kernel spares that.
Deliver(s) ==
  /\ heard' = CASE main = "serving" -> "serving"
                [] Alive /\ main # "serving" /\ heard = "no" -> "early"
                [] OTHER -> heard
  /\ handlers' = [handlers EXCEPT ![s] = {}]
  /\ shutdown' = IF Alive /\ "main" \in handlers[s]
                 THEN [shutdown EXCEPT ![s] = "closing"] ELSE shutdown
  /\ IF Alive /\ main # "absent" /\ handlers[s] = {} /\ entry # "exec"
     THEN End("killed") ELSE GoesOn(main)

\* Mutant: app.close() is not awaited.
NotAwaited == TRUE

\* app.close() resolves when the server has no request left.
Closed == \A r \in Requests : ~Open(r)

\* closePool: the first call ends the pool and waits for it, a second one is rejected.
ClosePool(s) ==
  /\ Alive /\ shutdown[s] = "closing" /\ Closed
  /\ IF pool = "open"
     THEN /\ pool' = "ending" /\ GoesOn(main)
          /\ shutdown' = [shutdown EXCEPT ![s] = "ending"]
     ELSE End("exited") /\ UNCHANGED <<pool, shutdown>>
  /\ UNCHANGED <<running, waiting, outcome, container, handlers, answer, signals, asked>>

\* finally process.exit(0)
Exit(s) ==
  /\ Alive /\ shutdown[s] = "ending" /\ Idle
  /\ End("exited")
  /\ UNCHANGED <<poolVars, container, handlers, shutdown, answer, signals, asked>>

-----------------------------------------------------------------------------
(* The container *)

\* shutdown of allinone-entrypoint.sh: SIGTERM to its children, then wait for them
TearDown ==
  /\ shell' = "tearing" /\ stack' = FALSE
  /\ Deliver("SIGTERM")

\* exit 0 of PID 1: whatever still runs in the container is killed.
ShellEnds ==
  /\ shell' = "gone" /\ stack' = FALSE
  /\ IF Alive THEN End("killed") ELSE GoesOn(main)

\* Mutant: the shell does not wait for its children.
AtOnce == TRUE

\* wait: all of them have ended.
Gone == ~Alive /\ ~stack

\* Someone stops the container: PID 1 gets the signal.  While the shell waits for its
\* children a second shutdown returns at once, and so does the wait that it interrupts.
Signal(s) ==
  /\ signals < MaxSignals /\ signals' = signals + 1
  /\ \/ /\ entry = "exec" /\ Alive
        /\ Deliver(s) /\ UNCHANGED <<shell, stack, hurried>>
     \/ /\ shell = "trapped" \/ (entry = "allinone" /\ main = "absent" /\ shell = "waiting")
        /\ shell' = "trapped" /\ UNCHANGED <<stack, process, pc, lost, asked>>
     \/ /\ entry = "allinone" /\ main # "absent" /\ shell = "waiting"
        /\ TearDown /\ UNCHANGED hurried
     \/ /\ shell = "tearing"
        /\ ShellEnds /\ hurried' = TRUE /\ UNCHANGED <<handlers, shutdown, heard>>
  /\ UNCHANGED <<poolVars, entry, answer>>

\* The stack ends by itself.
StackExits ==
  /\ entry = "allinone" /\ main # "absent" /\ stack
  /\ stack' = FALSE
  /\ UNCHANGED <<poolVars, entry, shell, process, pc, answer, signals, asked, lost>>

\* wait -n: a component has exited.  (Or the migrations failed.)
Supervise ==
  /\ entry = "allinone" /\ shell \in {"waiting", "trapped"}
  /\ ~(Alive /\ stack)
  /\ TearDown
  /\ UNCHANGED <<poolVars, entry, answer, signals, hurried>>

ShellExits ==
  /\ shell = "tearing" /\ Gone
  /\ ShellEnds
  /\ UNCHANGED <<poolVars, entry, handlers, shutdown, answer, signals, asked>>

-----------------------------------------------------------------------------
(* Requests and probes *)

At(r, label)   == Alive /\ pc[r] = label
GoTo(r, label) == pc' = [pc EXCEPT ![r] = label]
Answer(r, a)   == answer' = [answer EXCEPT ![r] = a] /\ GoTo(r, "reply")
Told(r, name)  == outcome[<<name, r>>] \in {"done", "rejected"}

HandlersOnly == UNCHANGED <<container, process, signals, asked, lost>>

Listening == main \in {"bound", "serving"}

\* A server that is closing takes no connection and answers 503 on those it has.
Accepting == Listening /\ \A s \in Signals : shutdown[s] = "none"

\* POST /otel/v1/... looks the key up; GET /health/ready pings the database.
Arrive(r) ==
  /\ At(r, "idle") /\ Accepting
  /\ LET first == IF r \in Ingestions THEN "lookup" ELSE "ping"
     IN Query(<<first, r>>) /\ GoTo(r, first)
  /\ UNCHANGED answer /\ HandlersOnly

\* authenticateSourceKey: a good key is marked used by a statement nobody awaits.
Authenticated(r) ==
  /\ At(r, "lookup") /\ Told(r, "lookup")
  /\ IF outcome[<<"lookup", r>>] = "done"
     THEN /\ Query(<<"touch", r>>) \/ UNCHANGED poolVars
          /\ GoTo(r, "authenticated") /\ UNCHANGED answer
     ELSE Answer(r, "failed") /\ UNCHANGED poolVars
  /\ HandlersOnly

\* The routes and the forward (see Ingestion), then the audit row, without which the
\* request is answered all the same
RecordAudit(r) ==
  /\ At(r, "authenticated")
  /\ Query(<<"audit", r>>) /\ GoTo(r, "audit")
  /\ UNCHANGED answer /\ HandlersOnly

Audited(r) ==
  /\ At(r, "audit") /\ Told(r, "audit")
  /\ Answer(r, "done")
  /\ UNCHANGED poolVars /\ HandlersOnly

\* pingDatabase loses the race: the SELECT 1 stays where it is, running or in line.
PingTimesOut(r) ==
  /\ At(r, "ping") /\ ~Told(r, "ping")
  /\ Answer(r, "not_ready")
  /\ UNCHANGED poolVars /\ HandlersOnly

\* Mutant: what the ping learnt is not looked at.
Tried(r) == TRUE

Reachable(r) == outcome[<<"ping", r>>] = "done"

Pinged(r) ==
  /\ At(r, "ping") /\ Told(r, "ping")
  /\ IF Reachable(r) THEN Query(<<"list", r>>) /\ GoTo(r, "list") /\ UNCHANGED answer
     ELSE Answer(r, "not_ready") /\ UNCHANGED poolVars
  /\ HandlersOnly

\* Mutant: the status of the worst integration is the service's.
WorstStatus(r) == IF outcome[<<"list", r>>] = "done" THEN "ready" ELSE "degraded"

Status(r) == "ready"

\* getIntegrations().catch(() => []): not decisive, but waited for
Listed(r) ==
  /\ At(r, "list") /\ Told(r, "list")
  /\ Answer(r, Status(r))
  /\ UNCHANGED poolVars /\ HandlersOnly

Respond(r) ==
  /\ At(r, "reply")
  /\ GoTo(r, "answered")
  /\ UNCHANGED <<poolVars, answer>> /\ HandlersOnly

\* The timer is never stopped.
Probe(p) ==
  /\ Alive /\ Listening /\ outcome[<<"probe", p>>] = "none"
  /\ Query(<<"probe", p>>)
  /\ UNCHANGED <<pc, answer>> /\ HandlersOnly

Serve(r) ==
  \/ Authenticated(r) \/ RecordAudit(r) \/ Audited(r)
  \/ PingTimesOut(r) \/ Pinged(r) \/ Listed(r) \/ Respond(r)

PostgresAnswers(s) == Alive /\ Settle(s) /\ UNCHANGED <<pc, answer>> /\ HandlersOnly

Next ==
  \/ Migrate \/ Preload \/ Listen \/ HandleSignals
  \/ \E s \in Signals : Signal(s) \/ ClosePool(s) \/ Exit(s)
  \/ StackExits \/ Supervise \/ ShellExits
  \/ \E r \in Requests : Arrive(r) \/ Serve(r)
  \/ \E p \in Probes : Probe(p)
  \/ \E s \in Statements : PostgresAnswers(s)

\* The program goes on and PostgreSQL answers or rejects each statement it has.  Nobody
\* has to send requests or signals, and no timer has to win.
Fairness ==
  /\ WF_vars(Migrate) /\ WF_vars(Preload) /\ WF_vars(Listen) /\ WF_vars(HandleSignals)
  /\ \A s \in Signals : WF_vars(ClosePool(s)) /\ WF_vars(Exit(s))
  /\ WF_vars(Supervise) /\ WF_vars(ShellExits)
  /\ \A r \in Requests : WF_vars(Serve(r))
  /\ \A s \in Statements : WF_vars(PostgresAnswers(s))

Spec == Init /\ [][Next]_vars /\ Fairness

-----------------------------------------------------------------------------
(* Properties *)

\* Every variable keeps its shape.
TypeOK ==
  /\ PoolTypeOK
  /\ entry \in {"exec", "allinone"} /\ shell \in {"waiting", "trapped", "tearing", "gone"}
  /\ stack \in BOOLEAN
  /\ main \in {"absent", "preload", "starting", "bound", "serving", "exited", "killed"}
  /\ handlers \in [Signals -> SUBSET {"sdk", "main"}]
  /\ shutdown \in [Signals -> {"none", "closing", "ending"}]
  /\ pc \in [Requests -> {"idle", "lookup", "authenticated", "audit", "ping", "list", "reply",
                          "answered", "cut"}]
  /\ answer \in [Requests -> {"failed", "done", "ready", "not_ready", None}]
  /\ signals \in Nat /\ heard \in {"no", "early", "serving"} /\ hurried \in BOOLEAN
  /\ lost \subseteq Statements

\* What kills Ophir while it works: a signal before it handles any, or the shell that ends
\* because it was signalled again while it waited for Ophir.
Killed == main = "killed" /\ (heard = "early" \/ hurried)

\* A graceful shutdown: however many shutdowns run at once, no handler meets a pool that is
\* being ended and an exit cuts no request.  Only a kill does, and once main handles signals
\* nothing kills Ophir but a second signal to the all-in-one shell while it tears down.
GracefulShutdown ==
  \A r \in Requests :
    /\ pool # "open" => ~Open(r)
    /\ pc[r] = "cut" => Killed

\* The statements that nobody awaits: a shutdown lets those that run finish, unless a second
\* signal of the other kind, or such a kill, cuts them; those in line are dropped.
RunningStatementsFinish ==
  lost # {} => (\A s \in Signals : shutdown[s] # "none") \/ Killed

\* Readiness is what this request saw of the database, and of nothing else: neither the
\* integrations' read nor a ping that came too late changes it.  So README.md:96 and
\* health.routes.ts:36 have it; contracts/openapi.yaml:31, "Readiness probe for database and
\* required integrations", does not.
ReadinessIsThePing ==
  \A r \in Checks :
    /\ answer[r] = "ready" => outcome[<<"ping", r>>] = "done"
    /\ answer[r] = "not_ready" => outcome[<<"list", r>>] = "none"

\* Every request is answered as long as the process lives, although statements that nobody
\* waits for any more (late pings, touches) keep their places in line before it.
RequestsEnd == \A r \in Requests : Open(r) ~> ~Open(r)

\* Once main handles signals a stop request ends the process, and the container with it.
StopsWhenAsked ==
  heard = "serving" ~> ~Alive /\ (entry = "allinone" => shell = "gone")

\* docker-entrypoint.sh:5 "`exec` makes Node PID 1 so it receives SIGTERM/SIGINT for graceful
\* shutdown"; allinone-entrypoint.sh:98 "If any component exits, tear the container down".
\* Stated of these comments: a signal that comes before main handles it is swallowed.
AskedToStopStops == heard # "no" ~> ~Alive
===============================================================================
