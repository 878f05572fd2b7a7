---------------------------- MODULE LifecycleProofs ----------------------------
(* Theorems about Lifecycle, for any requests, probes, connections and signals. *)
EXTENDS Lifecycle, FiniteSetTheorems, TLAPS

-----------------------------------------------------------------------------
(* Every variable keeps its shape. *)

\* A handler only gets to the labels of its own kind of request.
Routes ==
  \A r \in Requests :
    /\ pc[r] \in {"lookup", "authenticated", "audit"} => r \in Ingestions
    /\ pc[r] \in {"ping", "list"} => r \in Checks

Typed == TypeOK /\ Routes

Labels == {"idle", "lookup", "authenticated", "audit", "ping", "list", "reply",
           "answered", "cut"}

\* At first the pool is open and nothing runs.
LEMMA InitType == Init => Typed
<1> SUFFICES ASSUME Init PROVE Typed
  OBVIOUS
<1>1. PoolTypeOK
  BY DEF Init, PoolInit, PoolTypeOK
<1>2. hurried \in BOOLEAN /\ stack \in BOOLEAN
  BY DEF Init
<1> QED
  BY <1>1, <1>2, SignalsAssumption DEF Init, Typed, Routes, TypeOK, Signals

\* The statements of a request and of a probe are statements of the pool.
LEMMA StatementType ==
  /\ \A r \in Ingestions : <<"lookup", r>> \in Statements /\ <<"touch", r>> \in Statements
                             /\ <<"audit", r>> \in Statements
  /\ \A r \in Checks : <<"ping", r>> \in Statements /\ <<"list", r>> \in Statements
  /\ \A p \in Probes : <<"probe", p>> \in Statements
  BY StatementsAssumption

\* Asking for a connection keeps the pool's shape.
LEMMA QueryType ==
  ASSUME PoolTypeOK, NEW s \in Statements, Query(s)
  PROVE  PoolTypeOK'
  BY DEF PoolTypeOK, Query

\* Giving one back does too.
LEMMA SettleType ==
  ASSUME PoolTypeOK, NEW s \in Statements, Settle(s)
  PROVE  PoolTypeOK'
<1>1. waiting # <<>> => Head(waiting) \in Statements /\ Tail(waiting) \in Seq(Statements)
  BY DEF PoolTypeOK
<1> QED
  BY <1>1 DEF PoolTypeOK, Settle, HandOver

\* A pool that no step touches keeps its shape.
LEMMA PoolUntouched ==
  ASSUME PoolTypeOK, UNCHANGED poolVars
  PROVE  PoolTypeOK'
  BY DEF PoolTypeOK, poolVars

\* The end of the process changes main, the requests and what was lost.
LEMMA EndType ==
  ASSUME Typed, NEW how \in {"exited", "killed"}, End(how)
  PROVE  /\ main' = how
         /\ pc' \in [Requests -> Labels]
         /\ \A r \in Requests : pc'[r] \in {pc[r], "cut"}
         /\ lost' \subseteq Statements /\ Routes'
  BY DEF End, Typed, TypeOK, PoolTypeOK, Routes, Labels

\* As does its going on.
LEMMA GoesOnType ==
  ASSUME Typed, NEW how, GoesOn(how)
  PROVE  /\ main' = how
         /\ pc' \in [Requests -> Labels] /\ UNCHANGED pc
         /\ lost' \subseteq Statements /\ UNCHANGED lost /\ Routes'
  BY DEF GoesOn, Typed, TypeOK, Routes, Labels

\* A signal changes the process only.
LEMMA DeliverType ==
  ASSUME Typed, NEW s \in Signals, Deliver(s)
  PROVE  /\ heard' \in {"no", "early", "serving"} /\ lost' \subseteq Statements
         /\ handlers' \in [Signals -> SUBSET {"sdk", "main"}]
         /\ shutdown' \in [Signals -> {"none", "closing", "ending"}]
         /\ main' \in {"absent", "preload", "starting", "bound", "serving", "exited", "killed"}
         /\ pc' \in [Requests -> Labels]
         /\ Routes'
<1>1. CASE End("killed")
  BY <1>1, EndType DEF Deliver, Typed, TypeOK
<1>2. CASE GoesOn(main)
  BY <1>2, GoesOnType DEF Deliver, Typed, TypeOK
<1> QED
  BY <1>1, <1>2 DEF Deliver

\* The start and the end of the process keep every type.
LEMMA ProcessType ==
  ASSUME Typed, Migrate \/ Preload \/ Listen \/ HandleSignals
                  \/ \E s \in Signals : ClosePool(s) \/ Exit(s)
  PROVE  Typed'
<1> USE EndType, GoesOnType DEF container, asked
<1>0. UNCHANGED poolVars => PoolTypeOK'
  BY PoolUntouched DEF Typed, TypeOK
<1>1. CASE Migrate
  BY <1>0, <1>1 DEF Migrate, Typed, TypeOK, Labels
<1>2. CASE Preload
  BY <1>0, <1>2 DEF Preload, Typed, TypeOK, Labels
<1>3. CASE Listen
  BY <1>0, <1>3 DEF Listen, Typed, TypeOK, Labels
<1>4. CASE HandleSignals
  BY <1>0, <1>4 DEF HandleSignals, Typed, TypeOK, Labels
<1>5. ASSUME NEW s \in Signals, ClosePool(s)
      PROVE  Typed'
  <2>1. PoolTypeOK'
    BY <1>5 DEF ClosePool, Typed, TypeOK, PoolTypeOK
  <2> QED
    BY <1>5, <2>1 DEF ClosePool, Typed, TypeOK, Labels
<1>6. ASSUME NEW s \in Signals, Exit(s)
      PROVE  Typed'
  BY <1>0, <1>6 DEF Exit, Typed, TypeOK, Labels
<1> QED
  BY <1>1, <1>2, <1>3, <1>4, <1>5, <1>6

\* So does the container around it.
LEMMA ContainerType ==
  ASSUME Typed, (\E s \in Signals : Signal(s)) \/ StackExits \/ Supervise \/ ShellExits
  PROVE  Typed'
<1>0. UNCHANGED poolVars => PoolTypeOK'
  BY PoolUntouched DEF Typed, TypeOK
<1>00. ShellEnds => /\ shell' = "gone" /\ stack' = FALSE /\ pc' \in [Requests -> Labels]
                    /\ main' \in {main, "killed"} /\ lost' \subseteq Statements /\ Routes'
  BY EndType, GoesOnType DEF ShellEnds
<1>1. ASSUME NEW s \in Signals, Signal(s)
      PROVE  Typed'
  <2>1. "SIGTERM" \in Signals
    BY DEF Signals
  <2>2. CASE entry = "exec" /\ Deliver(s) /\ UNCHANGED <<shell, stack, hurried>>
    BY <1>0, <1>1, <2>2, DeliverType DEF Signal, Typed, TypeOK, Labels
  <2>3. CASE shell' = "trapped" /\ UNCHANGED <<stack, process, pc, lost, asked>>
    BY <1>0, <1>1, <2>3 DEF Signal, Typed, TypeOK, Routes, process, asked
  <2>4. CASE TearDown /\ UNCHANGED hurried
    <3>1. Deliver("SIGTERM") /\ shell' = "tearing" /\ stack' = FALSE
      BY <2>4 DEF TearDown
    <3>2. UNCHANGED <<poolVars, entry, answer>>
      BY <1>1 DEF Signal
    <3>3. signals' \in Nat /\ hurried' \in BOOLEAN
      BY <1>1, <2>4 DEF Signal, Typed, TypeOK
    <3>4. stack' \in BOOLEAN
      BY <3>1
    <3>5. /\ heard' \in {"no", "early", "serving"} /\ lost' \subseteq Statements
          /\ handlers' \in [Signals -> SUBSET {"sdk", "main"}]
          /\ shutdown' \in [Signals -> {"none", "closing", "ending"}]
          /\ main' \in {"absent", "preload", "starting", "bound", "serving", "exited", "killed"}
          /\ pc' \in [Requests -> Labels] /\ Routes'
      BY <2>1, <3>1, DeliverType
    <3> QED
      BY <1>0, <3>1, <3>2, <3>3, <3>4, <3>5 DEF Typed, TypeOK, Labels
  <2>5. CASE ShellEnds /\ hurried' = TRUE /\ UNCHANGED <<handlers, shutdown, heard>>
    <3>1. UNCHANGED <<poolVars, entry, answer>> /\ signals' \in Nat
      BY <1>1 DEF Signal, Typed, TypeOK
    <3>2. hurried' \in BOOLEAN /\ stack' \in BOOLEAN
      BY <1>00, <2>5
    <3>3. UNCHANGED <<handlers, shutdown, heard>>
      BY <2>5
    <3> QED
      BY <1>0, <1>00, <2>5, <3>1, <3>2, <3>3 DEF Typed, TypeOK, Labels
  <2> QED
    BY <1>1, <2>2, <2>3, <2>4, <2>5 DEF Signal
<1>2. CASE StackExits
  BY <1>0, <1>2 DEF StackExits, Typed, TypeOK, Routes, process, asked
<1>3. CASE Supervise
  <2>1. "SIGTERM" \in Signals
    BY DEF Signals
  <2> QED
    BY <1>0, <1>3, <2>1, DeliverType DEF Supervise, TearDown, Typed, TypeOK, Labels
<1>4. CASE ShellExits
  BY <1>0, <1>00, <1>4 DEF ShellExits, Typed, TypeOK, Labels, asked
<1> QED
  BY <1>1, <1>2, <1>3, <1>4

\* What a step of a request may do to it, if the process lives.
LEMMA RequestStep ==
  ASSUME Typed, NEW r \in Requests, Arrive(r) \/ Serve(r)
  PROVE  /\ Alive /\ UNCHANGED <<container, process, signals, asked, lost, pool>>
         /\ PoolTypeOK' /\ Routes'
         /\ answer' \in [Requests -> {"failed", "done", "ready", "not_ready", None}]
         /\ (pc[r] = "idle" /\ Accepting) \/ Open(r)
         /\ \E label \in Labels \ {"idle", "cut"} : pc' = [pc EXCEPT ![r] = label]
<1>0. UNCHANGED poolVars => PoolTypeOK'
  BY PoolUntouched DEF Typed, TypeOK
<1>00. \A s \in Statements : Query(s) => PoolTypeOK' /\ UNCHANGED pool
  BY QueryType DEF Typed, TypeOK, Query
<1> USE StatementType DEF Typed, TypeOK, Routes, HandlersOnly, At, GoTo, Answer, poolVars, Open,
        Labels
<1>1. CASE Arrive(r)
  BY <1>00, <1>1 DEF Arrive, Requests
<1>2. CASE Authenticated(r)
  BY <1>0, <1>00, <1>2 DEF Authenticated
<1>3. CASE RecordAudit(r)
  BY <1>00, <1>3 DEF RecordAudit
<1>4. CASE Audited(r)
  BY <1>0, <1>4 DEF Audited
<1>5. CASE PingTimesOut(r)
  BY <1>0, <1>5 DEF PingTimesOut
<1>6. CASE Pinged(r)
  BY <1>0, <1>00, <1>6 DEF Pinged
<1>7. CASE Listed(r)
  BY <1>0, <1>7 DEF Listed, Status
<1>8. CASE Respond(r)
  BY <1>0, <1>8 DEF Respond
<1> QED
  BY <1>1, <1>2, <1>3, <1>4, <1>5, <1>6, <1>7, <1>8 DEF Serve

\* A probe and an answer of PostgreSQL change the pool only.
LEMMA StatementStep ==
  ASSUME Typed, (\E p \in Probes : Probe(p)) \/ \E s \in Statements : PostgresAnswers(s)
  PROVE  /\ Alive /\ UNCHANGED <<container, process, signals, asked, lost, pool, pc, answer>>
         /\ PoolTypeOK' /\ Routes'
<1> USE DEF Typed, TypeOK, Routes, HandlersOnly
<1>1. ASSUME NEW p \in Probes, Probe(p)
      PROVE  PoolTypeOK' /\ Alive /\ UNCHANGED <<pool, pc, answer>> /\ HandlersOnly
  BY <1>1, QueryType, StatementType DEF Probe, Query
<1>2. ASSUME NEW s \in Statements, PostgresAnswers(s)
      PROVE  PoolTypeOK' /\ Alive /\ UNCHANGED <<pool, pc, answer>> /\ HandlersOnly
  BY <1>2, SettleType DEF PostgresAnswers, Settle
<1> QED
  BY <1>1, <1>2

\* Every step keeps every type.
LEMMA TypeStep == Typed /\ [Next]_vars => Typed'
<1> SUFFICES ASSUME Typed, [Next]_vars
             PROVE  Typed'
  OBVIOUS
<1>1. CASE Migrate \/ Preload \/ Listen \/ HandleSignals \/ \E s \in Signals : ClosePool(s) \/ Exit(s)
  BY <1>1, ProcessType
<1>2. CASE (\E s \in Signals : Signal(s)) \/ StackExits \/ Supervise \/ ShellExits
  BY <1>2, ContainerType
<1>3. CASE \E r \in Requests : Arrive(r) \/ Serve(r)
  <2>1. PICK r \in Requests : Arrive(r) \/ Serve(r)
    BY <1>3
  <2> QED
    BY <2>1, RequestStep DEF Typed, TypeOK, container, process, asked, Labels
<1>4. CASE (\E p \in Probes : Probe(p)) \/ \E s \in Statements : PostgresAnswers(s)
  BY <1>4, StatementStep DEF Typed, TypeOK, container, process, asked
<1>5. CASE UNCHANGED vars
  BY <1>5, PoolUntouched DEF Typed, TypeOK, Routes, vars, container, process, asked
<1> QED
  BY <1>1, <1>2, <1>3, <1>4, <1>5 DEF Next

\* Every variable keeps its shape, and every handler its labels.
THEOREM TypeCorrect == Spec => []TypeOK
<1>1. Typed => TypeOK
  BY DEF Typed
<1> QED
  BY <1>1, InitType, TypeStep, PTL DEF Spec

-----------------------------------------------------------------------------
(* What a graceful shutdown keeps *)

\* Before main handles signals nothing is shut down; until it listens there are no requests
\* and no statements.
NotYet ==
  /\ main \in {"absent", "preload", "starting", "bound"} =>
       \A s \in Signals : shutdown[s] = "none" /\ "main" \notin handlers[s]
  /\ main \in {"absent", "preload", "starting"} => Closed /\ running = {}

\* A signal is handled once; the pool is ended by one of the shutdowns, once the server is
\* closed, and for good.
Ended ==
  /\ \A s \in Signals : shutdown[s] # "none" => "main" \notin handlers[s]
  /\ pool # "open" => Closed /\ \E s \in Signals : shutdown[s] = "ending"
  /\ \A s \in Signals : shutdown[s] = "ending" => pool # "open"

\* When the all-in-one shell stops Ophir for the first and only time, main handles that signal
\* if it handles any.
Armed ==
  /\ entry # "exec" /\ main = "serving" /\ shell \in {"waiting", "trapped"} =>
       "main" \in handlers["SIGTERM"]
  /\ heard = "serving" => main \in {"serving", "exited", "killed"}

\* Only a kill cuts requests, and only those who asked twice or too early kill.
NoneCut == \A r \in Requests : pc[r] = "cut" => Killed

Kept ==
  /\ NotYet /\ Ended /\ Armed
  /\ NoneCut /\ RunningStatementsFinish /\ (Alive => lost = {})

LifecycleInv == Typed /\ Kept

\* All of it holds at first.
LEMMA LifecycleInit == Init => LifecycleInv
  BY InitType DEF Init, PoolInit, LifecycleInv, Kept, NotYet, Ended, Armed, NoneCut,
       RunningStatementsFinish, Closed, Open, Signals, Requests, Alive

\* When the server is closed the end of the process cuts no request.
LEMMA ClosedEnd ==
  ASSUME Typed, Closed, NEW how, End(how)
  PROVE  UNCHANGED pc
  BY DEF Closed, End, Typed, TypeOK

\* A signal keeps it: it starts a shutdown only if main handles it, and kills only before that.
LEMMA DeliverKeeps ==
  ASSUME LifecycleInv, NEW s \in Signals, Deliver(s), UNCHANGED <<poolVars, entry, hurried>>,
         \/ entry = "exec" /\ UNCHANGED shell
         \/ s = "SIGTERM" /\ shell \in {"waiting", "trapped"} /\ shell' = "tearing"
  PROVE  Kept'
<1> USE DEF LifecycleInv, Kept, Typed, TypeOK, poolVars, NotYet, Ended, Armed, NoneCut,
        RunningStatementsFinish, Killed, Closed, Open, Alive
<1>1. CASE End("killed") /\ handlers[s] = {} /\ entry # "exec" /\ Alive
  <2>1. shutdown' = shutdown /\ handlers' = handlers
    BY <1>1 DEF Deliver
  <2>2. main # "serving" /\ heard \in {"no", "early"}
    BY <1>1
  <2>3. heard' = "early" /\ main' = "killed"
    BY <1>1, <2>2 DEF Deliver, End
  <2> QED
    BY <1>1, <2>1, <2>3 DEF End
<1>2. CASE GoesOn(main)
  <2>1. ~Alive => heard' = heard
    BY DEF Deliver
  <2>2. heard' = "serving" => main = "serving" \/ heard = "serving"
    BY DEF Deliver
  <2>3. main' = main /\ UNCHANGED <<pc, lost>>
    BY <1>2 DEF GoesOn
  <2>4. Killed => Killed'
    BY <2>1, <2>3
  <2>5. NotYet' /\ Ended'
    BY <2>3 DEF Deliver
  <2>6. Armed'
    BY <2>2, <2>3 DEF Deliver
  <2>7. NoneCut' /\ RunningStatementsFinish' /\ (Alive => lost = {})'
    BY <2>3, <2>4 DEF Deliver
  <2> QED
    BY <2>5, <2>6, <2>7
<1> QED
  BY <1>1, <1>2 DEF Deliver

\* The end of the shell keeps it: it kills, after a second signal, or finds nothing to kill.
LEMMA ShellKeeps ==
  ASSUME LifecycleInv, ShellEnds, UNCHANGED <<poolVars, entry, handlers, shutdown, heard>>,
         hurried' \/ (~Alive /\ UNCHANGED hurried)
  PROVE  Kept'
<1> USE DEF LifecycleInv, Kept, Typed, TypeOK, poolVars, NotYet, Ended, Armed, NoneCut,
        RunningStatementsFinish, Killed, Closed, Open, Alive
<1>1. shell' = "gone"
  BY DEF ShellEnds
<1>2. CASE Alive
  <2>1. End("killed") /\ hurried'
    BY <1>2 DEF ShellEnds
  <2>2. main' = "killed" /\ Killed'
    BY <2>1 DEF End
  <2> QED
    BY <1>1, <2>1, <2>2 DEF End
<1>3. CASE ~Alive
  <2>1. UNCHANGED <<main, pc, lost>>
    BY <1>3 DEF ShellEnds, GoesOn
  <2>2. Killed => Killed'
    BY <2>1
  <2> QED
    BY <1>1, <1>3, <2>1, <2>2
<1> QED
  BY <1>2, <1>3

\* The start and the end of the process keep it: there is nothing to cut, or to lose, until
\* it listens, and after that only a second shutdown exits while statements run.
LEMMA ProcessKeeps ==
  ASSUME LifecycleInv, Migrate \/ Preload \/ Listen \/ HandleSignals
                         \/ \E s \in Signals : ClosePool(s) \/ Exit(s)
  PROVE  Kept'
<1> USE DEF LifecycleInv, Kept, Typed, TypeOK, NotYet, Ended, Armed, NoneCut, RunningStatementsFinish,
        Killed, Alive, Closed, Open, container, asked
<1>0. Closed => \A how : End(how) => UNCHANGED pc
  BY ClosedEnd
<1>1. CASE Migrate
  BY <1>0, <1>1 DEF Migrate, End, GoesOn, poolVars
<1>2. CASE Preload
  BY <1>2 DEF Preload, GoesOn, poolVars
<1>3. CASE Listen
  BY <1>0, <1>3 DEF Listen, End, GoesOn, poolVars
<1>4. CASE HandleSignals
  <2>1. handlers' = [s \in Signals |-> handlers[s] \cup {"main"}] /\ main = "bound" /\ main' = "serving"
    BY <1>4 DEF HandleSignals, GoesOn
  <2>2. \A s \in Signals : "main" \in handlers'[s] /\ shutdown[s] = "none"
    BY <2>1
  <2>3. UNCHANGED <<poolVars, shutdown, container, asked, pc, lost>>
    BY <1>4 DEF HandleSignals, GoesOn
  <2>4. Armed'
    BY <2>1, <2>2, <2>3 DEF Signals
  <2> QED
    BY <2>1, <2>2, <2>3, <2>4 DEF poolVars
<1>5. ASSUME NEW s \in Signals, ClosePool(s)
      PROVE  Kept'
  <2>1. CASE pool = "open"
    BY <1>5, <2>1 DEF ClosePool, GoesOn
  <2>2. CASE pool # "open"
    <3>1. PICK t \in Signals : shutdown[t] = "ending"
      BY <2>2
    <3>2. \A u \in Signals : u = s \/ u = t
      BY <1>5, <3>1 DEF ClosePool, Signals
    <3> QED
      BY <1>0, <1>5, <2>2, <3>1, <3>2 DEF ClosePool, End
  <2> QED
    BY <2>1, <2>2
<1>6. ASSUME NEW s \in Signals, Exit(s)
      PROVE  Kept'
  BY <1>0, <1>6 DEF Exit, End, Idle, poolVars
<1> QED
  BY <1>1, <1>2, <1>3, <1>4, <1>5, <1>6

\* Every step keeps it.
LEMMA LifecycleStep == LifecycleInv /\ [Next]_vars => LifecycleInv'
<1> SUFFICES ASSUME LifecycleInv, [Next]_vars
             PROVE  Kept'
  BY TypeStep DEF LifecycleInv
<1>1. CASE Migrate \/ Preload \/ Listen \/ HandleSignals \/ \E s \in Signals : ClosePool(s) \/ Exit(s)
  BY <1>1, ProcessKeeps
<1>2. CASE (\E s \in Signals : Signal(s)) \/ StackExits \/ Supervise \/ ShellExits
  <2>0. LifecycleInv /\ "SIGTERM" \in Signals
    BY DEF Signals
  <2>1. ASSUME NEW s \in Signals, Signal(s)
        PROVE  Kept'
    <3>1. CASE entry = "exec" /\ Deliver(s) /\ UNCHANGED <<shell, stack, hurried>>
      BY <2>1, <3>1, DeliverKeeps DEF Signal
    <3>2. CASE shell' = "trapped" /\ (shell = "trapped" \/ main = "absent")
                 /\ UNCHANGED <<stack, process, pc, lost, asked>>
      BY <2>1, <3>2 DEF Signal, LifecycleInv, Kept, NotYet, Ended, Armed, NoneCut,
              RunningStatementsFinish, Killed, Alive, Closed, Open, poolVars, process, asked
    <3>3. CASE shell = "waiting" /\ TearDown /\ UNCHANGED hurried
      BY <2>0, <2>1, <3>3, DeliverKeeps DEF Signal, TearDown
    <3>4. CASE ShellEnds /\ hurried' = TRUE /\ UNCHANGED <<handlers, shutdown, heard>>
      BY <2>1, <3>4, ShellKeeps DEF Signal
    <3> QED
      BY <2>1, <3>1, <3>2, <3>3, <3>4 DEF Signal
  <2>2. CASE StackExits
    BY <2>2 DEF StackExits, LifecycleInv, Kept, NotYet, Ended, Armed, NoneCut,
            RunningStatementsFinish, Killed, Alive, Closed, Open, poolVars, process, asked
  <2>3. CASE Supervise
    BY <2>0, <2>3, DeliverKeeps DEF Supervise, TearDown
  <2>4. CASE ShellExits
    BY <2>4, ShellKeeps DEF ShellExits, Gone, asked
  <2> QED
    BY <1>2, <2>1, <2>2, <2>3, <2>4
<1>3. CASE \E r \in Requests : Arrive(r) \/ Serve(r)
  <2>1. PICK r \in Requests : Arrive(r) \/ Serve(r)
    BY <1>3
  <2>2. Open(r) \/ Accepting
    BY <2>1, RequestStep DEF LifecycleInv
  <2>3. main \in {"bound", "serving"} /\ pool = "open"
    BY <2>1, <2>2, RequestStep DEF LifecycleInv, Kept, Typed, TypeOK, NotYet, Ended, Closed, Alive, Accepting,
           Listening
  <2>4. UNCHANGED <<container, process, asked, lost, pool>> /\ Alive
    BY <2>1, RequestStep DEF LifecycleInv
  <2>5. PICK label \in Labels \ {"idle", "cut"} : pc' = [pc EXCEPT ![r] = label]
    BY <2>1, RequestStep DEF LifecycleInv
  <2> QED
    BY <2>3, <2>4, <2>5 DEF LifecycleInv, Kept, Typed, TypeOK, NotYet, Ended, Armed, NoneCut,
           RunningStatementsFinish, Killed, Alive, container, process, asked
<1>4. CASE (\E p \in Probes : Probe(p)) \/ \E s \in Statements : PostgresAnswers(s)
  <2>1. UNCHANGED <<container, process, asked, lost, pool, pc>> /\ Alive
    BY <1>4, StatementStep DEF LifecycleInv
  <2>2. main \in {"absent", "preload", "starting"} => running' = {}
    BY <1>4 DEF Probe, Listening, PostgresAnswers, Settle, LifecycleInv, Kept, NotYet
  <2> QED
    BY <2>1, <2>2 DEF LifecycleInv, Kept, NotYet, Ended, Armed, NoneCut, RunningStatementsFinish,
           Killed, Alive, Closed, Open, container, process, asked
<1>5. CASE UNCHANGED vars
  BY <1>5 DEF LifecycleInv, Kept, NotYet, Ended, Armed, NoneCut, RunningStatementsFinish, Killed,
            Alive, Closed, Open, vars, container, poolVars, process, asked
<1> QED
  BY <1>1, <1>2, <1>3, <1>4, <1>5 DEF Next

\* Whatever signals arrive, to either container, no handler meets a pool that is being ended;
\* an exit cuts no request, and a kill does only where Ophir was asked to stop before it
\* handles signals or its shell was signalled again while it waited for Ophir.
THEOREM ShutdownIsGraceful == Spec => []GracefulShutdown
<1>1. LifecycleInv => GracefulShutdown
  BY DEF LifecycleInv, Kept, Ended, NoneCut, GracefulShutdown, Closed
<1> QED
  BY <1>1, LifecycleInit, LifecycleStep, PTL DEF Spec

\* The process ends while statements run only if both signals were handled, or it was killed so.
THEOREM ShutdownLetsStatementsFinish == Spec => []RunningStatementsFinish
<1>1. LifecycleInv => RunningStatementsFinish
  BY DEF LifecycleInv, Kept
<1> QED
  BY <1>1, LifecycleInit, LifecycleStep, PTL DEF Spec

-----------------------------------------------------------------------------
(* The pool *)

InLine(s) == \E i \in 1..Len(waiting) : waiting[i] = s

\* The pool, when what runs does not wait as well.
PoolInv == IsFiniteSet(running) /\ PoolCoherent /\ \A s \in running : ~InLine(s)

\* A statement that was never asked takes a connection or its place in line.
LEMMA QueryKeeps ==
  ASSUME PoolTypeOK, PoolInv, NEW s \in Statements, outcome[s] = "none", Query(s)
  PROVE  PoolInv'
<1>0. /\ IsFiniteSet(running) /\ Cardinality(running) \in Nat /\ MaxConnections \in Nat
      /\ waiting \in Seq(Statements) /\ Len(waiting) \in Nat
      /\ outcome \in [Statements -> {"none", "asked", "done", "rejected"}]
  BY FS_CardinalityType, MaxAssumption DEF PoolTypeOK, PoolInv
<1>1. s \notin running /\ ~InLine(s)
  BY DEF PoolInv, PoolCoherent, InLine
<1>2. /\ Cardinality(running) <= MaxConnections
      /\ pool = "open" /\ waiting # <<>> => ~HasRoom
      /\ \A i, j \in 1..Len(waiting) : waiting[i] = waiting[j] => i = j
      /\ \A t \in Statements : outcome[t] = "asked" <=> t \in running \/ InLine(t)
      /\ \A t \in running : ~InLine(t)
  BY DEF PoolInv, PoolCoherent, InLine
<1>3. /\ \A t \in Statements \ {s} : outcome'[t] = outcome[t]
      /\ outcome'[s] = IF pool = "open" THEN "asked" ELSE "rejected"
      /\ pool' = pool
  BY <1>0 DEF Query
<1>4. CASE pool = "open" /\ HasRoom
  <2>1. running' = running \cup {s} /\ waiting' = waiting /\ waiting = <<>>
    BY <1>2, <1>4 DEF Query
  <2>2. IsFiniteSet(running') /\ Cardinality(running') = Cardinality(running) + 1
    BY <1>0, <1>1, <2>1, FS_AddElement
  <2>3. Cardinality(running') <= MaxConnections
    BY <1>0, <1>4, <2>2 DEF HasRoom
  <2>4. \A t : ~InLine(t)'
    BY <2>1 DEF InLine
  <2> QED
    BY <1>1, <1>2, <1>3, <1>4, <2>1, <2>2, <2>3, <2>4 DEF PoolInv, PoolCoherent, InLine
<1>5. CASE pool = "open" /\ ~HasRoom
  <2>1. running' = running /\ waiting' = Append(waiting, s)
    BY <1>5 DEF Query
  <2>2. /\ Len(waiting') = Len(waiting) + 1 /\ waiting'[Len(waiting) + 1] = s
        /\ \A i \in 1..Len(waiting) : waiting'[i] = waiting[i]
    BY <1>0, <2>1
  <2>3. \A t \in Statements : InLine(t)' <=> InLine(t) \/ t = s
    BY <1>0, <2>2 DEF InLine
  <2>4. \A i, j \in 1..Len(waiting') : waiting'[i] = waiting'[j] => i = j
    <3>1. \A i \in 1..Len(waiting) : waiting[i] # s
      BY <1>1 DEF InLine
    <3>2. \A i \in 1..Len(waiting') : i \in 1..Len(waiting) \/ i = Len(waiting) + 1
      BY <1>0, <2>2
    <3> QED
      BY <1>2, <2>2, <3>1, <3>2
  <2>5. ~HasRoom'
    BY <1>5, <2>1 DEF HasRoom
  <2>6. \A t \in Statements : outcome'[t] = "asked" <=> t \in running' \/ InLine(t)'
    BY <1>1, <1>2, <1>3, <1>5, <2>1, <2>3
  <2>7. \A t \in running' : ~InLine(t)'
    BY <1>1, <1>2, <2>1, <2>3 DEF PoolTypeOK
  <2> QED
    BY <1>0, <1>2, <2>1, <2>4, <2>5, <2>6, <2>7 DEF PoolInv, PoolCoherent, InLine
<1>6. CASE pool # "open"
  <2>1. running' = running /\ waiting' = waiting
    BY <1>6 DEF Query
  <2> QED
    BY <1>0, <1>1, <1>2, <1>3, <1>6, <2>1 DEF PoolInv, PoolCoherent, InLine
<1> QED
  BY <1>4, <1>5, <1>6

\* The connection of a statement that is over goes to the first in line, if the pool is open.
LEMMA SettleKeeps ==
  ASSUME PoolTypeOK, PoolInv, NEW s \in Statements, Settle(s)
  PROVE  PoolInv'
<1>0. /\ IsFiniteSet(running) /\ Cardinality(running) \in Nat /\ MaxConnections \in Nat
      /\ waiting \in Seq(Statements) /\ Len(waiting) \in Nat
      /\ outcome \in [Statements -> {"none", "asked", "done", "rejected"}]
      /\ s \in running /\ running \subseteq Statements
  BY FS_CardinalityType, MaxAssumption DEF PoolTypeOK, PoolInv, Settle
<1>2. /\ Cardinality(running) <= MaxConnections
      /\ pool = "open" /\ waiting # <<>> => ~HasRoom
      /\ \A i, j \in 1..Len(waiting) : waiting[i] = waiting[j] => i = j
      /\ \A t \in Statements : outcome[t] = "asked" <=> t \in running \/ InLine(t)
      /\ \A t \in running : ~InLine(t)
  BY DEF PoolInv, PoolCoherent, InLine
<1>3. /\ \A t \in Statements \ {s} : outcome'[t] = outcome[t]
      /\ outcome'[s] # "asked"
      /\ pool' = pool
  BY <1>0 DEF Settle
<1>4. IsFiniteSet(running \ {s}) /\ Cardinality(running \ {s}) = Cardinality(running) - 1
  BY <1>0, FS_RemoveElement
<1>5. CASE pool = "open" /\ waiting # <<>>
  <2> DEFINE h == Head(waiting)
  <2>1. running' = (running \ {s}) \cup {h} /\ waiting' = Tail(waiting)
    BY <1>5 DEF Settle, HandOver
  <2>2. /\ Len(waiting) >= 1 /\ h = waiting[1] /\ h \in Statements
        /\ Len(waiting') = Len(waiting) - 1
        /\ \A i \in 1..Len(waiting') : waiting'[i] = waiting[i + 1]
    BY <1>0, <1>5, <2>1
  <2>3. h \notin running /\ InLine(h)
    BY <1>0, <1>2, <2>2 DEF InLine
  <2>4. IsFiniteSet(running') /\ Cardinality(running') = Cardinality(running)
    <3>1. h \notin running \ {s}
      BY <2>3
    <3>2. Cardinality((running \ {s}) \cup {h}) = Cardinality(running \ {s}) + 1
      BY <1>4, <3>1, FS_AddElement
    <3>3. IsFiniteSet((running \ {s}) \cup {h})
      BY <1>4, FS_AddElement
    <3> QED
      BY <1>0, <1>4, <2>1, <3>2, <3>3
  <2> HIDE DEF h
  <2>5. \A t \in Statements : InLine(t)' <=> InLine(t) /\ t # h
    <3>1. ASSUME NEW t \in Statements, InLine(t)'
          PROVE  InLine(t) /\ t # h
      <4>1. PICK i \in 1..Len(waiting') : waiting'[i] = t
        BY <3>1 DEF InLine
      <4>2. i + 1 \in 1..Len(waiting) /\ waiting[i + 1] = t /\ i + 1 # 1 /\ 1 \in 1..Len(waiting)
        BY <1>0, <2>2, <4>1
      <4> QED
        BY <1>2, <2>2, <4>2 DEF InLine
    <3>2. ASSUME NEW t \in Statements, InLine(t), t # h
          PROVE  InLine(t)'
      <4>1. PICK i \in 1..Len(waiting) : waiting[i] = t
        BY <3>2 DEF InLine
      <4>2. i # 1
        BY <2>2, <3>2, <4>1
      <4>3. i - 1 \in 1..Len(waiting') /\ (i - 1) + 1 = i
        BY <1>0, <2>2, <4>1, <4>2
      <4> QED
        BY <2>2, <4>1, <4>3 DEF InLine
    <3> QED
      BY <3>1, <3>2
  <2>6. \A i, j \in 1..Len(waiting') : waiting'[i] = waiting'[j] => i = j
    <3>1. ASSUME NEW i \in 1..Len(waiting'), NEW j \in 1..Len(waiting'), waiting'[i] = waiting'[j]
          PROVE  i = j
      <4>1. i + 1 \in 1..Len(waiting) /\ j + 1 \in 1..Len(waiting)
        BY <1>0, <2>2
      <4>2. i + 1 = j + 1
        BY <1>2, <2>2, <3>1, <4>1
      <4> QED
        BY <4>2
    <3> QED
      BY <3>1
  <2>7. ~HasRoom'
    BY <1>0, <1>2, <1>5, <2>4 DEF HasRoom
  <2>8. \A t \in Statements : outcome'[t] = "asked" <=> t \in running' \/ InLine(t)'
    BY <1>0, <1>2, <1>3, <2>1, <2>2, <2>3, <2>5
  <2>9. \A t \in running' : ~InLine(t)'
    BY <1>0, <1>2, <2>1, <2>2, <2>5
  <2> QED
    BY <1>0, <1>2, <2>4, <2>6, <2>7, <2>8, <2>9 DEF PoolInv, PoolCoherent, InLine
<1>6. CASE ~(pool = "open" /\ waiting # <<>>)
  <2>1. running' = running \ {s} /\ waiting' = waiting
    BY <1>6 DEF Settle, HandOver
  <2>2. IsFiniteSet(running') /\ Cardinality(running') <= MaxConnections
    BY <1>0, <1>2, <1>4, <2>1
  <2>3. \A t \in Statements : InLine(t)' <=> InLine(t)
    BY <2>1 DEF InLine
  <2>4. \A t \in Statements : outcome'[t] = "asked" <=> t \in running' \/ InLine(t)'
    BY <1>0, <1>2, <1>3, <2>1, <2>3
  <2> QED
    BY <1>0, <1>2, <1>3, <1>6, <2>1, <2>2, <2>3, <2>4 DEF PoolInv, PoolCoherent, InLine
<1> QED
  BY <1>5, <1>6

-----------------------------------------------------------------------------
(* The statements of the requests *)

\* What a handler has not got to it has not asked; a check that goes on, or is answered, has
\* seen its ping.
Asks(r) ==
  /\ r \in Ingestions =>
       /\ pc[r] = "idle" => outcome[<<"lookup", r>>] = "none"
       /\ pc[r] \in {"idle", "lookup"} => outcome[<<"touch", r>>] = "none"
       /\ pc[r] \in {"idle", "lookup", "authenticated"} => outcome[<<"audit", r>>] = "none"
  /\ r \in Checks =>
       /\ pc[r] = "idle" => outcome[<<"ping", r>>] = "none"
       /\ pc[r] \in {"idle", "ping"} => outcome[<<"list", r>>] = "none"
       /\ pc[r] = "list" \/ answer[r] = "ready" => outcome[<<"ping", r>>] = "done"
       /\ answer[r] = "not_ready" => outcome[<<"list", r>>] = "none"
  /\ answer[r] \in {"ready", "not_ready"} => pc[r] \in {"reply", "answered", "cut"}

PoolUse == Typed /\ PoolInv /\ \A r \in Requests : Asks(r)

\* What a statement that is asked, or over, changes.
LEMMA OutcomeStep ==
  ASSUME Typed, PoolInv, NEW s \in Statements
  PROVE  /\ Query(s) => \A t \in Statements \ {s} : outcome'[t] = outcome[t]
         /\ Settle(s) => \A t \in Statements : outcome[t] \in {"none", "done"} => outcome'[t] = outcome[t]
<1>1. /\ outcome \in [Statements -> {"none", "asked", "done", "rejected"}]
      /\ s \in running => outcome[s] = "asked"
  BY DEF Typed, TypeOK, PoolTypeOK, PoolInv, PoolCoherent
<1> QED
  BY <1>1 DEF Query, Settle

\* A step of one request changes nothing of another's.
LEMMA OthersAsk ==
  ASSUME Typed, NEW r \in Requests, NEW q \in Requests \ {r}, Asks(q),
         \A name : <<name, q>> \in Statements => outcome'[<<name, q>>] = outcome[<<name, q>>],
         pc'[q] = pc[q], answer'[q] = answer[q]
  PROVE  Asks(q)'
  BY StatementType DEF Asks

\* A handler asks for each of its statements once, and goes on when it has learnt of the last.
LEMMA ServeKeeps ==
  ASSUME PoolUse, NEW r \in Requests, Arrive(r) \/ Serve(r)
  PROVE  PoolInv' /\ \A q \in Requests : Asks(q)'
<1>0. /\ pc \in [Requests -> Labels]
      /\ answer \in [Requests -> {"failed", "done", "ready", "not_ready", None}]
      /\ pc[r] \in {"lookup", "authenticated", "audit"} => r \in Ingestions
      /\ pc[r] \in {"ping", "list"} => r \in Checks
      /\ Typed /\ PoolInv /\ Asks(r)
  BY DEF PoolUse, Typed, TypeOK, Routes, Labels
<1> DEFINE Asked(name) == <<name, r>> \in Statements /\ outcome[<<name, r>>] = "none" /\ Query(<<name, r>>)
<1>1. \/ UNCHANGED poolVars
      \/ \E name \in {"lookup", "touch", "audit", "ping", "list"} : Asked(name)
  <2> USE <1>0, StatementType DEF Asks, At
  <2>1. CASE Arrive(r)
    BY <2>1 DEF Arrive, Requests
  <2>2. CASE Authenticated(r)
    BY <2>2 DEF Authenticated
  <2>3. CASE RecordAudit(r)
    BY <2>3 DEF RecordAudit
  <2>4. CASE Pinged(r)
    BY <2>4 DEF Pinged
  <2>5. CASE Audited(r) \/ PingTimesOut(r) \/ Listed(r) \/ Respond(r)
    BY <2>5 DEF Audited, PingTimesOut, Listed, Respond
  <2> QED
    BY <2>1, <2>2, <2>3, <2>4, <2>5 DEF Serve
<1>2. PoolInv'
  <2>1. CASE UNCHANGED poolVars
    BY <1>0, <2>1 DEF PoolInv, PoolCoherent, HasRoom, InLine, poolVars
  <2>2. ASSUME NEW name, Asked(name)
        PROVE  PoolInv'
    BY <1>0, <2>2, QueryKeeps DEF Typed, TypeOK
  <2> QED
    BY <1>1, <2>1, <2>2
<1>3. \A q \in Requests \ {r} : \A name :
        <<name, q>> \in Statements => outcome'[<<name, q>>] = outcome[<<name, q>>]
  <2>1. CASE UNCHANGED poolVars
    BY <2>1 DEF poolVars
  <2>2. ASSUME NEW mine, Asked(mine)
        PROVE  \A t \in Statements \ {<<mine, r>>} : outcome'[t] = outcome[t]
    BY <1>0, <2>2, OutcomeStep
  <2> QED
    BY <1>1, <2>1, <2>2
<1>4. \A q \in Requests \ {r} : pc'[q] = pc[q] /\ answer'[q] = answer[q]
  BY <1>0 DEF Arrive, Serve, Authenticated, RecordAudit, Audited, PingTimesOut, Pinged, Listed, Respond,
              GoTo, Answer
<1>5. \A q \in Requests \ {r} : Asks(q)'
  BY <1>0, <1>3, <1>4, OthersAsk DEF PoolUse
<1>6. Asks(r)'
  <2> USE <1>0, StatementType DEF Asks, At, GoTo, Answer, Told, poolVars
  <2>1. CASE Arrive(r)
    <3>1. CASE r \in Ingestions
      <4>1. /\ pc' = [pc EXCEPT ![r] = "lookup"] /\ UNCHANGED answer
            /\ Query(<<"lookup", r>>) /\ pc[r] = "idle"
        BY <2>1, <3>1 DEF Arrive
      <4>2. \A t \in Statements \ {<<"lookup", r>>} : outcome'[t] = outcome[t]
        BY <3>1, <4>1, OutcomeStep
      <4> QED
        BY <3>1, <4>1, <4>2
    <3>2. CASE r \notin Ingestions
      <4>1. /\ pc' = [pc EXCEPT ![r] = "ping"] /\ UNCHANGED answer
            /\ Query(<<"ping", r>>) /\ pc[r] = "idle" /\ r \in Checks
        BY <2>1, <3>2 DEF Arrive, Requests
      <4>2. \A t \in Statements \ {<<"ping", r>>} : outcome'[t] = outcome[t]
        BY <4>1, OutcomeStep
      <4> QED
        BY <3>2, <4>1, <4>2
    <3> QED
      BY <3>1, <3>2
  <2>2. CASE Authenticated(r)
    <3>1. \A t \in Statements \ {<<"touch", r>>} : outcome'[t] = outcome[t]
      BY <2>2, OutcomeStep DEF Authenticated
    <3>2. pc[r] = "lookup" /\ \/ pc' = [pc EXCEPT ![r] = "authenticated"] /\ UNCHANGED answer
                              \/ pc' = [pc EXCEPT ![r] = "reply"] /\ answer' = [answer EXCEPT ![r] = "failed"]
      BY <2>2 DEF Authenticated
    <3> QED
      BY <3>1, <3>2
  <2>3. CASE RecordAudit(r)
    <3>1. \A t \in Statements \ {<<"audit", r>>} : outcome'[t] = outcome[t]
      BY <2>3, OutcomeStep DEF RecordAudit
    <3> QED
      BY <2>3, <3>1 DEF RecordAudit
  <2>4. CASE Audited(r)
    BY <2>4 DEF Audited
  <2>5. CASE PingTimesOut(r)
    BY <2>5 DEF PingTimesOut
  <2>6. CASE Pinged(r)
    <3>1. CASE Reachable(r)
      <4>1. /\ pc' = [pc EXCEPT ![r] = "list"] /\ UNCHANGED answer
            /\ Query(<<"list", r>>) /\ pc[r] = "ping" /\ outcome[<<"ping", r>>] = "done"
        BY <2>6, <3>1 DEF Pinged, Reachable
      <4>2. \A t \in Statements \ {<<"list", r>>} : outcome'[t] = outcome[t]
        BY <4>1, OutcomeStep
      <4> QED
        BY <4>1, <4>2
    <3>2. CASE ~Reachable(r)
      BY <2>6, <3>2 DEF Pinged
    <3> QED
      BY <3>1, <3>2
  <2>7. CASE Listed(r)
    BY <2>7 DEF Listed, Status
  <2>8. CASE Respond(r)
    BY <2>8 DEF Respond
  <2> QED
    BY <2>1, <2>2, <2>3, <2>4, <2>5, <2>6, <2>7, <2>8 DEF Serve
<1> QED
  BY <1>2, <1>5, <1>6

\* A request that is cut, or goes on, asks for nothing by that.
LEMMA CutKeeps ==
  ASSUME PoolUse, UNCHANGED <<running, waiting, outcome, answer>>, pool' \in {pool, "ending"},
         \A r \in Requests : pc'[r] \in {pc[r], "cut"}
  PROVE  PoolInv' /\ \A r \in Requests : Asks(r)'
<1>1. PoolInv'
  BY DEF PoolUse, PoolInv, PoolCoherent, HasRoom, InLine
<1>2. ASSUME NEW r \in Requests
      PROVE  Asks(r)'
  <2>1. Asks(r) /\ pc'[r] \in {pc[r], "cut"}
    BY DEF PoolUse
  <2> QED
    BY <2>1 DEF Asks
<1> QED
  BY <1>1, <1>2

\* Every step keeps the pool and what the requests asked of it.
LEMMA PoolUseStep == PoolUse /\ [Next]_vars => PoolUse'
<1> SUFFICES ASSUME PoolUse, [Next]_vars
             PROVE  PoolInv' /\ \A r \in Requests : Asks(r)'
  BY TypeStep DEF PoolUse
<1>0. Typed /\ PoolInv
  BY DEF PoolUse
<1>1. CASE Migrate \/ Preload \/ Listen \/ HandleSignals \/ \E s \in Signals : ClosePool(s) \/ Exit(s)
  <2>1. UNCHANGED <<running, waiting, outcome, answer>> /\ pool' \in {pool, "ending"}
    BY <1>1 DEF Migrate, Preload, Listen, HandleSignals, ClosePool, Exit, poolVars
  <2>2. (\E how : End(how) \/ GoesOn(how))
    BY <1>1 DEF Migrate, Preload, Listen, HandleSignals, ClosePool, Exit
  <2>3. \A r \in Requests : pc'[r] \in {pc[r], "cut"}
    BY <2>2 DEF End, GoesOn
  <2> QED
    BY <2>1, <2>3, CutKeeps
<1>2. CASE (\E s \in Signals : Signal(s)) \/ StackExits \/ Supervise \/ ShellExits
  <2>1. UNCHANGED <<running, waiting, outcome, pool, answer>>
    BY <1>2 DEF Signal, StackExits, Supervise, ShellExits, poolVars
  <2>2. UNCHANGED pc \/ \E how : End(how) \/ GoesOn(how)
    BY <1>2 DEF Signal, StackExits, Supervise, ShellExits, ShellEnds, TearDown, Deliver
  <2>3. \A r \in Requests : pc'[r] \in {pc[r], "cut"}
    BY <2>2 DEF End, GoesOn
  <2> QED
    BY <2>1, <2>3, CutKeeps
<1>3. CASE \E r \in Requests : Arrive(r) \/ Serve(r)
  BY <1>3, ServeKeeps
<1>4. ASSUME NEW p \in Probes, Probe(p)
      PROVE  PoolInv' /\ \A r \in Requests : Asks(r)'
  <2>1. /\ <<"probe", p>> \in Statements /\ outcome[<<"probe", p>>] = "none" /\ Query(<<"probe", p>>)
        /\ UNCHANGED <<pc, answer>>
    BY <1>4, StatementType DEF Probe
  <2>2. \A t \in Statements \ {<<"probe", p>>} : outcome'[t] = outcome[t]
    BY <1>0, <2>1, OutcomeStep
  <2>3. PoolInv'
    BY <1>0, <2>1, QueryKeeps DEF Typed, TypeOK
  <2> QED
    BY <2>1, <2>2, <2>3, StatementType DEF PoolUse, Asks
<1>5. ASSUME NEW s \in Statements, PostgresAnswers(s)
      PROVE  PoolInv' /\ \A r \in Requests : Asks(r)'
  <2>1. Settle(s) /\ UNCHANGED <<pc, answer>>
    BY <1>5 DEF PostgresAnswers
  <2>2. \A t \in Statements : outcome[t] \in {"none", "done"} => outcome'[t] = outcome[t]
    BY <1>0, <2>1, OutcomeStep
  <2>3. PoolInv'
    BY <1>0, <2>1, SettleKeeps DEF Typed, TypeOK
  <2> QED
    BY <2>1, <2>2, <2>3, StatementType DEF PoolUse, Asks
<1>6. CASE UNCHANGED vars
  BY <1>6, CutKeeps DEF vars, poolVars
<1> QED
  BY <1>1, <1>2, <1>3, <1>4, <1>5, <1>6 DEF Next

\* At first nothing is asked.
LEMMA PoolUseInit == Init => PoolUse
<1> SUFFICES ASSUME Init PROVE PoolUse
  OBVIOUS
<1>1. running = {} /\ waiting = <<>> /\ Len(waiting) = 0
  BY DEF Init, PoolInit
<1>2. PoolInv
  BY <1>1, FS_EmptySet, MaxAssumption DEF Init, PoolInit, PoolInv, PoolCoherent, InLine
<1> QED
  BY <1>2, InitType, StatementType, NullAssumption DEF Init, PoolInit, PoolUse, Asks

\* No connection too many is taken and none is idle while a statement waits; a statement runs
\* or waits at most once, until its issuer learns what became of it.
THEOREM PoolIsCoherent == Spec => []PoolCoherent
<1>1. PoolUse => PoolCoherent
  BY DEF PoolUse, PoolInv
<1> QED
  BY <1>1, PoolUseInit, PoolUseStep, PTL DEF Spec

\* Readiness is the outcome of the ping of the same check, whatever else the check waits for.
THEOREM ReadyMeansPinged == Spec => []ReadinessIsThePing
<1>1. PoolUse => ReadinessIsThePing
  BY DEF PoolUse, Asks, ReadinessIsThePing, Requests
<1> QED
  BY <1>1, PoolUseInit, PoolUseStep, PTL DEF Spec
===============================================================================
