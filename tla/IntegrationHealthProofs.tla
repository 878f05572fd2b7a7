------------------------- MODULE IntegrationHealthProofs -------------------------
(***************************************************************************)
(* Proofs about the health probes, for any number of integrations, runs    *)
(* that overlap, crashes and clock values.                                 *)
(*                                                                         *)
(* None of the properties is inductive.  A row is as good as what the runs *)
(* are about to store, so the invariant says what a run holds at each      *)
(* stage (Holds), and what a run that has an integration to itself has     *)
(* already shown (Shows): nobody else is busy with it, and its outcome is  *)
(* the service's.                                                          *)
(***************************************************************************)
EXTENDS IntegrationHealth, TLAPS

\* A run has an outcome once the integration has answered, and a time once it has resumed.
Holds(s, i) ==
  /\ stage[s][i] \in {"answered", "update", "insert"} => result[s][i] \in Statuses
  /\ stage[s][i] \in {"update", "insert"} => stamp[s][i] \in Times

\* A run that is alone with an integration which has not changed.
Shows(s, i) ==
  fresh[s][i] =>
    /\ \A t \in Runs \ {s} : stage[t][i] \in Over
    /\ stage[s][i] \in {"answered", "update", "insert"} => result[s][i] = Verdict(service[i])
    /\ stage[s][i] \in {"insert", "done"} => row[i].status = Verdict(service[i])
    /\ stage[s][i] = "done" => lastCheck[i] = Verdict(service[i])

Coherent(i) ==
  /\ row[i].status = "healthy" => row[i].success = row[i].checked /\ ~row[i].error
  /\ row[i].status \in {"degraded", "unavailable"} => row[i].error
  /\ IF healthyAt[i] = {} THEN row[i].success = None ELSE row[i].success \in healthyAt[i]

HealthInv ==
  /\ TypeOK
  /\ \A i \in Integrations : Coherent(i)
  /\ \A s \in Runs, i \in Integrations : Holds(s, i) /\ Shows(s, i)

\* Every outcome of a probe is a status.
LEMMA VerdictType == \A x \in {"ok", "error", "silent"} : Verdict(x) \in Statuses
  BY DEF Verdict, Statuses

-----------------------------------------------------------------------------
(* What the statements store *)

\* An UPDATE changes the row of its integration alone, and leaves it coherent.
LEMMA StoreStatusKeeps ==
  ASSUME HealthInv, NEW s \in Runs, NEW i \in Integrations,
         stage[s][i] = "update", StoreStatus(s, i)
  PROVE  /\ row' \in [Integrations -> [status : Statuses \cup {"unknown"}, checked : Times \cup {None},
                                       success : Times \cup {None}, error : BOOLEAN]]
         /\ healthyAt' \in [Integrations -> SUBSET Times]
         /\ row'[i].status = result[s][i]
         /\ \A j \in Integrations \ {i} : row'[j] = row[j]
         /\ \A j \in Integrations : Coherent(j)'
         /\ lastCheck' = lastCheck
<1>1. result[s][i] \in Statuses /\ stamp[s][i] \in Times
  BY DEF HealthInv, Holds
<1>2. stamp[s][i] # None
  BY <1>1, NullAssumption, BoundAssumption DEF Times
<1>3. row[i].success \in Times \cup {None} /\ healthyAt[i] \subseteq Times
  BY DEF HealthInv, TypeOK
<1> DEFINE success == Coalesce(row[i].success,
                               IF result[s][i] = "healthy" THEN stamp[s][i] ELSE None)
           new == [status |-> result[s][i], checked |-> stamp[s][i], success |-> success,
                   error |-> result[s][i] # "healthy"]
<1>4. /\ success \in Times \cup {None}
      /\ result[s][i] = "healthy" => success = stamp[s][i]
      /\ result[s][i] # "healthy" => success = row[i].success
  BY <1>1, <1>2, <1>3 DEF Coalesce
<1>5. /\ row' = [row EXCEPT ![i] = new]
      /\ healthyAt' = IF result[s][i] = "healthy"
                      THEN [healthyAt EXCEPT ![i] = @ \cup {stamp[s][i]}] ELSE healthyAt
      /\ lastCheck' = lastCheck
  BY DEF StoreStatus, UpdatedRow
<1>6. new \in [status : Statuses \cup {"unknown"}, checked : Times \cup {None},
               success : Times \cup {None}, error : BOOLEAN]
  BY <1>1, <1>4
<1>7. /\ row' \in [Integrations -> [status : Statuses \cup {"unknown"}, checked : Times \cup {None},
                                    success : Times \cup {None}, error : BOOLEAN]]
      /\ row'[i] = new
      /\ \A j \in Integrations \ {i} : row'[j] = row[j]
  <2> HIDE DEF new
  <2> QED
    BY <1>5, <1>6 DEF HealthInv, TypeOK
<1>8. /\ healthyAt' \in [Integrations -> SUBSET Times]
      /\ healthyAt'[i] = IF result[s][i] = "healthy"
                         THEN healthyAt[i] \cup {stamp[s][i]} ELSE healthyAt[i]
      /\ \A j \in Integrations \ {i} : healthyAt'[j] = healthyAt[j]
  BY <1>1, <1>5 DEF HealthInv, TypeOK
<1>9. Coherent(i)'
  <2>1. Coherent(i)
    BY DEF HealthInv
  <2>2. /\ row'[i].status = result[s][i] /\ row'[i].checked = stamp[s][i]
        /\ row'[i].success = success /\ row'[i].error = (result[s][i] # "healthy")
    BY <1>7
  <2> HIDE DEF success, new
  <2>3. CASE result[s][i] = "healthy"
    <3>1. row'[i].success = stamp[s][i] /\ stamp[s][i] \in healthyAt'[i]
      BY <1>4, <1>8, <2>2, <2>3
    <3> QED
      BY <2>2, <2>3, <3>1 DEF Coherent
  <2>4. CASE result[s][i] # "healthy"
    BY <1>4, <1>8, <2>1, <2>2, <2>4 DEF Coherent
  <2> QED
    BY <2>3, <2>4
<1>10. ASSUME NEW j \in Integrations \ {i}
       PROVE  Coherent(j)'
  BY <1>7, <1>8 DEF HealthInv, Coherent
<1> QED
  BY <1>5, <1>7, <1>8, <1>9, <1>10

\* Whatever becomes of a statement, it stores nothing but what its run holds.
LEMMA StatementKeeps ==
  ASSUME HealthInv, NEW s \in Runs, NEW i \in Integrations,
         Unacknowledged(s, i)
  PROVE  /\ row' \in [Integrations -> [status : Statuses \cup {"unknown"}, checked : Times \cup {None},
                                       success : Times \cup {None}, error : BOOLEAN]]
         /\ healthyAt' \in [Integrations -> SUBSET Times]
         /\ lastCheck' \in [Integrations -> Statuses \cup {None}]
         /\ \A j \in Integrations : Coherent(j)'
         /\ \A j \in Integrations \ {i} : row'[j] = row[j] /\ lastCheck'[j] = lastCheck[j]
         /\ stage[s][i] \in Over => row' = row /\ lastCheck' = lastCheck
<1>1. CASE UNCHANGED stored
  BY <1>1 DEF stored, HealthInv, TypeOK, Coherent
<1>2. CASE stage[s][i] = "update" /\ StoreStatus(s, i)
  BY <1>2, StoreStatusKeeps DEF HealthInv, TypeOK, Over
<1>3. CASE stage[s][i] = "insert" /\ StoreCheck(s, i)
  <2>1. result[s][i] \in Statuses
    BY <1>3 DEF HealthInv, Holds
  <2> QED
    BY <1>3, <2>1 DEF StoreCheck, HealthInv, TypeOK, Coherent, Over
<1> QED
  BY <1>1, <1>2, <1>3 DEF Unacknowledged

-----------------------------------------------------------------------------
(* The steps of a run *)

\* How a step of one run with one integration keeps what the runs hold and show.
LEMMA RunKeeps ==
  ASSUME HealthInv, NEW s \in Runs, NEW i \in Integrations, NEW label \in Stages,
         NEW outcome \in Statuses \cup {None}, NEW time \in Times \cup {None},
         stage' = [stage EXCEPT ![s][i] = label],
         result' = [result EXCEPT ![s][i] = outcome],
         stamp' = [stamp EXCEPT ![s][i] = time],
         UNCHANGED <<service, fresh>>,
         stage[s][i] \notin Over \/ label \in Over,
         label \in {"answered", "update", "insert"} => outcome \in Statuses,
         label \in {"update", "insert"} => time \in Times,
         \A j \in Integrations \ {i} : row'[j] = row[j] /\ lastCheck'[j] = lastCheck[j],
         stage[s][i] \in Over => row' = row /\ lastCheck' = lastCheck,
         fresh[s][i] => /\ label \in {"answered", "update", "insert"} => outcome = Verdict(service[i])
                        /\ label \in {"insert", "done"} => row'[i].status = Verdict(service[i])
                        /\ label = "done" => lastCheck'[i] = Verdict(service[i])
  PROVE  /\ stage' \in [Runs -> [Integrations -> Stages]]
         /\ result' \in [Runs -> [Integrations -> Statuses \cup {None}]]
         /\ stamp' \in [Runs -> [Integrations -> Times \cup {None}]]
         /\ \A t \in Runs, j \in Integrations : Holds(t, j)' /\ Shows(t, j)'
<1>1. /\ stage' \in [Runs -> [Integrations -> Stages]]
      /\ stage'[s][i] = label
      /\ \A t \in Runs, j \in Integrations : t # s \/ j # i => stage'[t][j] = stage[t][j]
  BY DEF HealthInv, TypeOK
<1>2. /\ result' \in [Runs -> [Integrations -> Statuses \cup {None}]]
      /\ result'[s][i] = outcome
      /\ \A t \in Runs, j \in Integrations : t # s \/ j # i => result'[t][j] = result[t][j]
  BY DEF HealthInv, TypeOK
<1>3. /\ stamp' \in [Runs -> [Integrations -> Times \cup {None}]]
      /\ stamp'[s][i] = time
      /\ \A t \in Runs, j \in Integrations : t # s \/ j # i => stamp'[t][j] = stamp[t][j]
  BY DEF HealthInv, TypeOK
<1>4. ASSUME NEW t \in Runs, NEW j \in Integrations
      PROVE  Holds(t, j)'
  <2>1. Holds(t, j)
    BY DEF HealthInv
  <2> QED
    BY <1>1, <1>2, <1>3, <2>1 DEF Holds
<1>5. ASSUME NEW t \in Runs, NEW j \in Integrations, fresh[t][j]
      PROVE  Shows(t, j)'
  <2>0. Shows(t, j)
    BY DEF HealthInv
  <2>1. CASE j # i
    BY <1>1, <1>2, <1>5, <2>0, <2>1 DEF Shows
  <2>2. CASE j = i /\ t = s
    BY <1>1, <1>2, <1>5, <2>0, <2>2 DEF Shows
  <2>3. CASE j = i /\ t # s
    <3>1. stage[s][i] \in Over
      BY <1>5, <2>0, <2>3 DEF Shows
    <3> QED
      BY <1>1, <1>2, <1>5, <2>0, <2>3, <3>1 DEF Shows
  <2> QED
    BY <2>1, <2>2, <2>3
<1>6. ASSUME NEW t \in Runs, NEW j \in Integrations, ~fresh[t][j]
      PROVE  Shows(t, j)'
  BY <1>6 DEF Shows
<1> QED
  BY <1>1, <1>2, <1>3, <1>4, <1>5, <1>6

\* Every step of a run, and what is left of a dead one, keeps the invariant.
LEMMA HandleKeeps ==
  ASSUME HealthInv, NEW s \in Runs, NEW i \in Integrations, Handle(s, i) \/ Abandon(s, i)
  PROVE  HealthInv'
<1>0. /\ stage \in [Runs -> [Integrations -> Stages]]
      /\ result \in [Runs -> [Integrations -> Statuses \cup {None}]]
      /\ stamp \in [Runs -> [Integrations -> Times \cup {None}]]
      /\ service[i] \in {"ok", "error", "silent"} /\ clock \in Times
      /\ result[s][i] \in Statuses \cup {None} /\ stamp[s][i] \in Times \cup {None}
      /\ Holds(s, i) /\ Shows(s, i)
  BY DEF HealthInv, TypeOK
<1>1. /\ UNCHANGED <<service, up, timer, clock, fresh, crashes>>
      /\ cut' \subseteq Runs \X Integrations
  BY DEF Handle, ProbeEnds, Stamp, UpdateStatus, InsertCheck, StoreFails, Abandon, HealthInv, TypeOK
<1> DEFINE Stored == /\ row' \in [Integrations -> [status : Statuses \cup {"unknown"},
                                                   checked : Times \cup {None},
                                                   success : Times \cup {None}, error : BOOLEAN]]
                     /\ healthyAt' \in [Integrations -> SUBSET Times]
                     /\ lastCheck' \in [Integrations -> Statuses \cup {None}]
                     /\ \A j \in Integrations : Coherent(j)'
           Run == /\ stage' \in [Runs -> [Integrations -> Stages]]
                  /\ result' \in [Runs -> [Integrations -> Statuses \cup {None}]]
                  /\ stamp' \in [Runs -> [Integrations -> Times \cup {None}]]
                  /\ \A t \in Runs, j \in Integrations : Holds(t, j)' /\ Shows(t, j)'
<1>2. Stored /\ Run => HealthInv'
  BY <1>1 DEF HealthInv, TypeOK
<1>3. ASSUME UNCHANGED stored
      PROVE  Stored /\ row' = row /\ lastCheck' = lastCheck
  BY <1>3 DEF stored, HealthInv, TypeOK, Coherent
<1>4. [result EXCEPT ![s][i] = result[s][i]] = result /\ [stamp EXCEPT ![s][i] = stamp[s][i]] = stamp
  BY <1>0
<1>5. CASE ProbeEnds(s, i)
  <2>1. Verdict(service[i]) \in Statuses
    BY <1>0, VerdictType
  <2>2. /\ stage[s][i] = "probe" /\ stage' = [stage EXCEPT ![s][i] = "answered"]
        /\ result' = [result EXCEPT ![s][i] = Verdict(service[i])]
        /\ stamp' = [stamp EXCEPT ![s][i] = stamp[s][i]]
        /\ UNCHANGED stored
    BY <1>4, <1>5 DEF ProbeEnds, At, GoTo
  <2>3. Run
    <3> HIDE DEF Stored
    <3> QED
      BY <1>0, <1>1, <1>3, <2>1, <2>2, RunKeeps DEF Stages, Over
  <2> QED
    BY <1>2, <1>3, <2>2, <2>3
<1>6. CASE Stamp(s, i)
  <2>1. /\ stage[s][i] = "answered" /\ stage' = [stage EXCEPT ![s][i] = "update"]
        /\ stamp' = [stamp EXCEPT ![s][i] = clock]
        /\ UNCHANGED <<stored, result>>
    BY <1>6 DEF Stamp, At, GoTo
  <2>2. result[s][i] \in Statuses /\ (fresh[s][i] => result[s][i] = Verdict(service[i]))
    BY <1>0, <2>1 DEF Holds, Shows
  <2>3. Run
    BY <1>0, <1>1, <1>3, <1>4, <2>1, <2>2, RunKeeps DEF Stages, Over
  <2> QED
    BY <1>2, <1>3, <2>1, <2>3
<1>7. CASE UpdateStatus(s, i)
  <2>1. /\ stage[s][i] = "update" /\ stage' = [stage EXCEPT ![s][i] = "insert"]
        /\ StoreStatus(s, i)
        /\ result' = [result EXCEPT ![s][i] = result[s][i]]
        /\ stamp' = [stamp EXCEPT ![s][i] = stamp[s][i]]
    BY <1>4, <1>7 DEF UpdateStatus, At, GoTo
  <2>2. /\ result[s][i] \in Statuses /\ stamp[s][i] \in Times
        /\ fresh[s][i] => result[s][i] = Verdict(service[i])
    BY <1>0, <2>1 DEF Holds, Shows
  <2>3. /\ Stored
        /\ row'[i].status = result[s][i] /\ lastCheck' = lastCheck
        /\ \A j \in Integrations \ {i} : row'[j] = row[j]
    BY <2>1, StoreStatusKeeps DEF HealthInv, TypeOK
  <2>4. /\ stage[s][i] \notin Over /\ "insert" \in Stages
        /\ \A j \in Integrations \ {i} : row'[j] = row[j] /\ lastCheck'[j] = lastCheck[j]
        /\ fresh[s][i] => result[s][i] = Verdict(service[i]) /\ row'[i].status = Verdict(service[i])
    BY <2>1, <2>2, <2>3 DEF Stages, Over
  <2>5. Run
    <3> HIDE DEF Stored
    <3> QED
      BY <1>1, <2>1, <2>2, <2>4, RunKeeps
  <2> QED
    BY <1>2, <2>3, <2>5
<1>8. CASE InsertCheck(s, i)
  <2>1. /\ stage[s][i] = "insert" /\ stage' = [stage EXCEPT ![s][i] = "done"]
        /\ result' = [result EXCEPT ![s][i] = None] /\ stamp' = [stamp EXCEPT ![s][i] = None]
        /\ StoreCheck(s, i)
    BY <1>8 DEF InsertCheck, At, Finish, GoTo
  <2>2. /\ fresh[s][i] => result[s][i] = Verdict(service[i]) /\ row[i].status = Verdict(service[i])
        /\ Unacknowledged(s, i)
    BY <1>0, <2>1 DEF Shows, Unacknowledged
  <2>3. Stored /\ \A j \in Integrations \ {i} : lastCheck'[j] = lastCheck[j]
    BY <2>2, StatementKeeps
  <2>4. row' = row /\ lastCheck'[i] = result[s][i]
    BY <2>1 DEF StoreCheck, HealthInv, TypeOK
  <2>5. /\ stage[s][i] \notin Over /\ "done" \in Stages
        /\ \A j \in Integrations \ {i} : row'[j] = row[j] /\ lastCheck'[j] = lastCheck[j]
        /\ fresh[s][i] => /\ row'[i].status = Verdict(service[i])
                          /\ lastCheck'[i] = Verdict(service[i])
    BY <2>1, <2>2, <2>3, <2>4 DEF Stages, Over
  <2>6. Run
    <3> HIDE DEF Stored
    <3> QED
      BY <1>1, <2>1, <2>5, RunKeeps
  <2> QED
    BY <1>2, <2>3, <2>6
<1>9. CASE StoreFails(s, i) \/ Abandon(s, i)
  <2>1. /\ stage' = [stage EXCEPT ![s][i] = "failed"]
        /\ result' = [result EXCEPT ![s][i] = None] /\ stamp' = [stamp EXCEPT ![s][i] = None]
        /\ Unacknowledged(s, i)
    BY <1>9 DEF StoreFails, Abandon, Finish, GoTo
  <2>2. /\ Stored
        /\ \A j \in Integrations \ {i} : row'[j] = row[j] /\ lastCheck'[j] = lastCheck[j]
        /\ stage[s][i] \in Over => row' = row /\ lastCheck' = lastCheck
    BY <2>1, StatementKeeps
  <2>3. "failed" \in Over /\ "failed" \in Stages
    BY DEF Stages, Over
  <2>4. Run
    <3> HIDE DEF Stored
    <3> QED
      BY <1>1, <2>1, <2>2, <2>3, RunKeeps
  <2> QED
    BY <1>2, <2>2, <2>4
<1> QED
  BY <1>5, <1>6, <1>7, <1>8, <1>9 DEF Handle

\* A run that starts while another is busy with an integration is alone with nothing there,
\* and takes that from the other.
LEMMA StartKeeps ==
  ASSUME HealthInv, NEW s \in Runs, StartRun(s)
  PROVE  HealthInv'
<1>1. /\ \A i \in Integrations : stage[s][i] \in Over
      /\ stage' = [stage EXCEPT ![s] = [i \in Integrations |-> "probe"]]
      /\ fresh' = [t \in Runs |-> [i \in Integrations |-> t = s /\ Quiet(i)]]
      /\ UNCHANGED <<service, row, lastCheck, healthyAt, up, timer, result, stamp, cut, clock, crashes>>
  BY DEF StartRun, stored
<1>2. stage' \in [Runs -> [Integrations -> Stages]] /\ fresh' \in [Runs -> [Integrations -> BOOLEAN]]
  <2>1. [i \in Integrations |-> "probe"] \in [Integrations -> Stages]
    BY DEF Stages
  <2>2. stage' \in [Runs -> [Integrations -> Stages]]
    BY <1>1, <2>1 DEF HealthInv, TypeOK
  <2>3. \A t \in Runs, i \in Integrations : (t = s /\ Quiet(i)) \in BOOLEAN
    BY DEF Quiet
  <2> QED
    BY <1>1, <2>2, <2>3
<1>3. TypeOK'
  BY <1>1, <1>2 DEF HealthInv, TypeOK
<1>4. \A i \in Integrations : Coherent(i)'
  BY <1>1 DEF HealthInv, Coherent
<1>5. /\ \A i \in Integrations : stage'[s][i] = "probe"
      /\ \A t \in Runs \ {s}, i \in Integrations : stage'[t][i] = stage[t][i]
      /\ \A t \in Runs, i \in Integrations : fresh'[t][i] <=> t = s /\ Quiet(i)
  BY <1>1 DEF HealthInv, TypeOK
<1>6. ASSUME NEW t \in Runs, NEW i \in Integrations
      PROVE  Holds(t, i)' /\ Shows(t, i)'
  <2>1. CASE t = s
    BY <1>5, <2>1 DEF Holds, Shows, Quiet
  <2>2. CASE t # s
    BY <1>1, <1>5, <2>2 DEF Holds, Shows, HealthInv
  <2> QED
    BY <2>1, <2>2
<1> QED
  BY <1>3, <1>4, <1>6 DEF HealthInv

-----------------------------------------------------------------------------
(* The invariant *)

\* The invariant holds at first.
LEMMA HealthInit == Init => HealthInv
<1> SUFFICES ASSUME Init PROVE HealthInv
  OBVIOUS
<1>1. TypeOK
  <2>1. row \in [Integrations -> [status : Statuses \cup {"unknown"}, checked : Times \cup {None},
                                 success : Times \cup {None}, error : BOOLEAN]]
    BY DEF Init
  <2>2. stage \in [Runs -> [Integrations -> Stages]]
    BY DEF Init, Stages
  <2>3. /\ result \in [Runs -> [Integrations -> Statuses \cup {None}]]
        /\ stamp \in [Runs -> [Integrations -> Times \cup {None}]]
        /\ fresh \in [Runs -> [Integrations -> BOOLEAN]]
    BY DEF Init
  <2>4. clock \in Times /\ crashes \in 0..MaxCrashes
    BY BoundAssumption DEF Init, Times
  <2> QED
    BY <2>1, <2>2, <2>3, <2>4 DEF Init, TypeOK
<1>2. ASSUME NEW i \in Integrations
      PROVE  Coherent(i)
  BY DEF Init, Coherent
<1>3. ASSUME NEW s \in Runs, NEW i \in Integrations
      PROVE  Holds(s, i) /\ Shows(s, i)
  BY DEF Init, Holds, Shows
<1> QED
  BY <1>1, <1>2, <1>3 DEF HealthInv

\* Every step keeps it.
LEMMA HealthStep == HealthInv /\ [Next]_vars => HealthInv'
<1> SUFFICES ASSUME HealthInv, [Next]_vars PROVE HealthInv'
  OBVIOUS
<1>1. CASE Boot \/ Tick \/ Crash \/ UNCHANGED vars
  <2>1. UNCHANGED <<service, row, lastCheck, healthyAt, stage, result, stamp, fresh>>
    BY <1>1 DEF Boot, Tick, Crash, vars, stored, probing
  <2>2. up' \in BOOLEAN /\ timer' \in BOOLEAN /\ cut' \subseteq Runs \X Integrations
    BY <1>1 DEF Boot, Tick, Crash, vars, HealthInv, TypeOK
  <2>3. clock' \in Times /\ crashes' \in 0..MaxCrashes
    BY <1>1, BoundAssumption DEF Boot, Tick, Crash, vars, HealthInv, TypeOK, Times
  <2> QED
    BY <2>1, <2>2, <2>3 DEF HealthInv, TypeOK, Coherent, Holds, Shows
<1>2. ASSUME NEW i \in Integrations, ServiceChanges(i)
      PROVE  HealthInv'
  <2>1. /\ service' \in [Integrations -> {"ok", "error", "silent"}]
        /\ \A j \in Integrations \ {i} : service'[j] = service[j]
        /\ fresh' = [s \in Runs |-> [fresh[s] EXCEPT ![i] = FALSE]]
        /\ UNCHANGED <<row, lastCheck, healthyAt, stage, result, stamp, up, timer, cut, clock, crashes>>
    BY <1>2 DEF ServiceChanges, HealthInv, TypeOK, stored, probing
  <2>2. /\ fresh' \in [Runs -> [Integrations -> BOOLEAN]]
        /\ \A s \in Runs : ~fresh'[s][i]
        /\ \A s \in Runs, j \in Integrations \ {i} : fresh'[s][j] = fresh[s][j]
    BY <2>1 DEF HealthInv, TypeOK
  <2>3. \A s \in Runs, j \in Integrations : Holds(s, j)' /\ Shows(s, j)'
    BY <2>1, <2>2 DEF HealthInv, Holds, Shows
  <2> QED
    BY <2>1, <2>2, <2>3 DEF HealthInv, TypeOK, Coherent
<1> QED
  BY <1>1, <1>2, StartKeeps, HandleKeeps DEF Next

\* The invariant of the probes.
THEOREM HealthInvariant == Spec => []HealthInv
  BY HealthInit, HealthStep, PTL DEF Spec

\* Every variable keeps its shape; in particular no run stores an outcome or a time it has
\* not got.
THEOREM TypeCorrect == Spec => []TypeOK
<1>1. HealthInv => TypeOK
  BY DEF HealthInv
<1> QED
  BY <1>1, HealthInvariant, PTL

\* The row of an integration is always that of one probe, and the time of its last success
\* that of a success, however many runs overlap, fail or crash.
THEOREM RowsAreCoherent == Spec => []RowCoherent
<1>1. HealthInv => RowCoherent
  BY DEF HealthInv, RowCoherent, Coherent
<1> QED
  BY <1>1, HealthInvariant, PTL

\* A run that is done with an integration it had to itself shows the state of the service.
THEOREM ChecksShow == Spec => []ShownAfterCheck
<1>1. HealthInv => ShownAfterCheck
  BY DEF HealthInv, ShownAfterCheck, Shows
<1> QED
  BY <1>1, HealthInvariant, PTL
===============================================================================
